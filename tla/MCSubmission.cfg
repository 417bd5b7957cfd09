SPECIFICATION FairSpec
CONSTANTS
    NumDesc = 5
    Size = 3
    MsTimeout = 2
INVARIANTS
    OwnedNotFreed
    NothingDropped
    
PROPERTY
    TestEnds
CHECK_DEADLOCK FALSE
