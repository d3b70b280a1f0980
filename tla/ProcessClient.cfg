SPECIFICATION Spec
CONSTANTS
    MaxFaults = 2
    MaxThreads = 3
    MaxStarts = 2
    MaxSyntheses = 1
INVARIANTS
    TypeOK
    NothingRunsUnseen
    InterruptionsHold
    ConversationsStayApart
