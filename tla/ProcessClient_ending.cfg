SPECIFICATION Spec
CONSTANTS
    MaxFaults = 1
    MaxThreads = 3
    MaxStarts = 2
    MaxSyntheses = 1
INVARIANTS
    StopsOnlyLive
