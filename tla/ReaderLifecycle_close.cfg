SPECIFICATION Spec
CONSTANT MaxCalls = 3
INVARIANT CloseClears
CHECK_DEADLOCK FALSE
