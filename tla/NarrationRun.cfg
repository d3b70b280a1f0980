SPECIFICATION Spec
CHECK_DEADLOCK FALSE
INVARIANTS
    TypeOK
    RunIsLookedAfter
PROPERTIES
    ListenerIsNotMisled
    NarrationSettles
