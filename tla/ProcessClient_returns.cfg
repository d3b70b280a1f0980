SPECIFICATION FairSpec
CONSTANTS
    MaxFaults = 2
    MaxThreads = 2
    MaxStarts = 1
    MaxSyntheses = 1
PROPERTIES
    EveryCallReturns
