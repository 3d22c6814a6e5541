CONSTANTS
  NStages = 3
  StageTimeout <- TightTimeout
  Deadline = 6
  Lag = 2
  Budget <- TightBudget
SPECIFICATION Spec
INVARIANTS ExitOnce ExitCodeIsTrue NoStageSkipped WatchdogSilent
PROPERTIES ExitsEventually ImplementsOrderlyExit
CHECK_DEADLOCK FALSE
