CONSTANTS
  CmdTimeout = 2
  WaitTimeout = 10
  KillTimeout = 5
  Lag = 1
SPECIFICATION Spec
INVARIANTS StopMeansDead EscalationComplete ReleasedAfterStop StopBounded
PROPERTY CallsSettle
CHECK_DEADLOCK FALSE
