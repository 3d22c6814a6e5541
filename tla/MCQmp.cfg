CONSTANTS
  MaxAttempts = 3
  MaxCommands = 3
SPECIFICATION Spec
INVARIANTS NoLateReplyTaken TornDownForCause DisconnectIsFinal
PROPERTIES CallersSettle ImplementsQueue
CHECK_DEADLOCK FALSE
