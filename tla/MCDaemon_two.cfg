CONSTANTS
  d1 = d1
  d2 = d2
  d3 = d3
  c1 = c1
  c2 = c2
  c3 = c3
  s1 = s1
  s2 = s2
  Nobody = Nobody
  Daemons = {d1, d2, d3}
  Clients = {c1, c2, c3}
  Services = {s1}
  Ops <- Starters
  OpenRace = TRUE
  Crashes = FALSE
SPECIFICATION Spec
SYMMETRY Symmetry
INVARIANT OneDaemon
CHECK_DEADLOCK FALSE
