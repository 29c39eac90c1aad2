CONSTANTS
  w1 = w1
  w2 = w2
  r1 = r1
  r2 = r2
  p1 = p1
  p2 = p2
  p3 = p3
  p4 = p4
  c1 = c1
  c2 = c2
  Free = Free
  Stranger = Stranger
  NoPid = NoPid
  NoRun = NoRun
  Wrappers = {w1}
  Runs = {r1, r2}
  Pids = {p1, p2, p3}
  Readers = {c1}
  Recycle <- Strangers
  PsFails = FALSE
SPECIFICATION FairSpec
PROPERTY Heals
CHECK_DEADLOCK FALSE
