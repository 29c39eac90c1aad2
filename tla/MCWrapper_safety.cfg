CONSTANTS
  MaxRuns = 2
  ExitCodes = {0, 1, 130}
  Forks = TRUE
  PromptHandlers = TRUE
  Requests <- AllRequests
SPECIFICATION Spec
INVARIANT TypeOK
INVARIANT PidIsCurrent
INVARIANT OneOpenRow
INVARIANT RestartNotLost
INVARIANT StopNotLost
INVARIANT IntentRecorded
PROPERTY PidWrittenWhileOpen
CHECK_DEADLOCK FALSE
