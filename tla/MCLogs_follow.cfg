CONSTANTS
  Files <- TwoFiles
  NRuns = 2
  Room = 1
  MaxClock = 2
  Writes <- StdoutOnly
  Hits <- SomeHits
  TailN = 1
  Jobs <- AllJobs
  Views <- OneStream
  Overlap = FALSE
  Torn = FALSE
  Faults <- AllFaults
SPECIFICATION FairSpec
INVARIANT NoGap
INVARIANT SwitchDrains
PROPERTY RunsClose
PROPERTY CatchesUp
CHECK_DEADLOCK FALSE
