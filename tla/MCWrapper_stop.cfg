CONSTANTS
  MaxRuns = 2
  ExitCodes = {0, 1, 130}
  Forks = FALSE
  PromptHandlers = TRUE
  Requests <- KillOnly
SPECIFICATION FairSpec
PROPERTY StopExits
CHECK_DEADLOCK FALSE
