CONSTANTS
  Files <- TwoFiles
  NRuns = 1
  Room = 1
  MaxClock = 3
  Writes <- BothWrite
  Hits <- SomeHits
  TailN = 1
  Jobs <- JustFollow
  Views <- Combined
  Overlap = FALSE
  Torn = FALSE
  Faults <- NoFaults
SPECIFICATION Spec
INVARIANT NoneBehind
CHECK_DEADLOCK FALSE
