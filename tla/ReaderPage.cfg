SPECIFICATION Spec
CONSTANTS
    Chapters = {1, 2, 3}
    Huge = {3}
    MaxNavigations = 2
INVARIANTS
    TypeOK
    NothingWaitsInVain
PROPERTIES
    PageSettlesAsAsked
CHECK_DEADLOCK FALSE
