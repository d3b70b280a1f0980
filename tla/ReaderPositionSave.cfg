SPECIFICATION FairSpec
CONSTANTS
    l1 = l1  l2 = l2  l3 = l3  m1 = m1  n1 = n1  n2 = n2
    p1 = p1  p2 = p2  p3 = p3
    Publications <- MCPublications
    Segments = {s1, s2}
    None = None
INVARIANTS TypeOK NothingAskedForIsLost
PROPERTIES VoiceOwnsThePosition PositionsSettle
CHECK_DEADLOCK FALSE
