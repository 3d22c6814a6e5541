CONSTANTS
  StageTimeout <- AppTimeout
  Budget <- AppBudget
  Deadline = 15
  CmdTimeout = 1
  WaitTimeout = 3
  KillTimeout = 1
  QemuStopTimeout = 10
  Sockets = {c}
SPECIFICATION Spec
INVARIANTS CleanExitIsClean CleanupAfterVm AskedBeforeKilled
PROPERTY QuitExits
CHECK_DEADLOCK FALSE
