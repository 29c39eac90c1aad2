CONSTANTS
  MaxRuns = 2
  ExitCodes = {1}
  Forks = FALSE
  PromptHandlers = TRUE
  Requests <- Commands
SPECIFICATION FairSpec
PROPERTY StopHonoured
PROPERTY RestartHonoured
PROPERTY ExitRecorded
CHECK_DEADLOCK FALSE
