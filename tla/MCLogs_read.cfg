CONSTANTS
  Files <- TwoFiles
  NRuns = 2
  Room = 1
  MaxClock = 2
  Writes <- FirstWritesBoth
  Hits <- SomeHits
  TailN = 1
  Jobs <- AllJobs
  Views <- AllViews
  Overlap = FALSE
  Torn = TRUE
  Faults <- WriterFault
SPECIFICATION Spec
INVARIANT TypeOK
INVARIANT Stored
INVARIANT ReadersAgree
INVARIANT SearchSound
INVARIANT ShownInOrder
INVARIANT WaitComplete
CHECK_DEADLOCK FALSE
