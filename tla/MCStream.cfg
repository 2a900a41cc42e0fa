SPECIFICATION FairSpec
CHECK_DEADLOCK FALSE
CONSTANTS
    Room = 1
    MaxScreen = 2
    MaxQuery = 1
    MaxGrant = 1
INVARIANTS
    DamagePending
    ImagesAccounted
    DeltaApplies
    AnsweredBeforeEnd
PROPERTIES
    CatchesUp
    Answered
    CommandEnds
