SPECIFICATION Spec
INVARIANTS OneMachine EmulationIsLast
CHECK_DEADLOCK FALSE
