CONSTANTS
  StageTimeout <- TightTimeout
  Budget <- TightBudget
  Deadline = 4
  CmdTimeout = 1
  WaitTimeout = 2
  KillTimeout = 1
  QemuStopTimeout = 4
  Sockets = {c}
SPECIFICATION Spec
INVARIANTS NoOrphanVm StoppedStaysStopped
CHECK_DEADLOCK FALSE
