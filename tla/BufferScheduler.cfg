SPECIFICATION FairSpec
CONSTANTS
    MaximumSampleFrames = 6
    MaximumCompleteUnits = 3
    MaximumSegments = 2
    MaximumText = 3
    Reservation = 2
    QuickStart = 2
    RefillResume = 3
    PreparedTargets = {3, 4}
    Rates = {1, 2}
    DefaultRate = 1
    FrameCounts = {1, 2}
    TextSizes = {1, 2}
    RangeLength = 4
    MaxGenerations = 2
INVARIANTS TypeOK Conveyor EverythingIsAccountedFor WithinCeilings ListenerIsServed
PROPERTIES HeardUnitKeepsItsRate NarrationProgresses
CHECK_DEADLOCK FALSE
