SPECIFICATION FairSpec
CONSTANT MaxCalls = 4
INVARIANTS TypeOK NoBookIsForgotten
PROPERTIES ShowsLatestIntent ReaderSettles
CHECK_DEADLOCK FALSE
