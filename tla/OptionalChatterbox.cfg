SPECIFICATION FairSpec
CONSTANTS
    MaxThreads = 3
    MaxAttempts = 2
    MaxCrashes = 1
INVARIANTS TypeOK InstalledSurvives ConsentIsRespected
PROPERTIES WorkEnds
CHECK_DEADLOCK FALSE
