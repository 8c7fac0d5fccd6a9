CONSTANTS
    MaxEvents = 3
    Copies = 2
    ProcessedLimit = 2
    MaxOwnBids = 2
    MaxDisconnects = 1
SPECIFICATION FairSpec
CHECK_DEADLOCK FALSE
INVARIANTS
    BidsOfOnePrefix
PROPERTIES
    CatchesUp
