CONSTANTS
  d1 = d1
  d2 = d2
  d3 = d3
  c1 = c1
  c2 = c2
  c3 = c3
  s1 = s1
  s2 = s2
  Nobody = Nobody
  Daemons = {d1, d2}
  Clients = {c1, c2}
  Services = {s1}
  Ops <- AllOps
  OpenRace = FALSE
  Crashes = TRUE
SPECIFICATION FairSpec
INVARIANT TypeOK
INVARIANT OneDaemon
INVARIANT Reachable
INVARIANT StoppedIsOver
INVARIANT KnownServicesStopped
PROPERTY CommandsEnd
CHECK_DEADLOCK FALSE
