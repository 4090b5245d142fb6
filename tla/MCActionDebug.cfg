\* A debugged action beside those of the processor; debug mode is entered twice.
CONSTANTS
  Threads = {"t1"}
  Actions = {"OffHook"}
  Cmds = {"SLIC_CONTROL", "TONE_PLAY"}
  Handlers <- OffHook
  breakMax = 1
  MaxCommands = 2
  MaxRuns = 1
  MaxSessions = 2
SPECIFICATION Spec
INVARIANTS
  TypeOK
  WaitersCounted
  PromptMeansStopped
PROPERTIES
  PromptReturns
CHECK_DEADLOCK FALSE
