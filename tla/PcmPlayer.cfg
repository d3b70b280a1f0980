SPECIFICATION PlayerSpec
CONSTANTS
    Units = 3
    Transitions = {1}
    Frames = 2
    PauseTicks = 2
    Rates = {2, 3, 4}
    DefaultRate = 2
    PerTurn = 2
    MaxRequests = 3
INVARIANTS PlayerTypeOK ListenerCannotFailIt
PROPERTIES HeardAsWritten PlaybackGoesOn
CHECK_DEADLOCK FALSE
