CONSTANTS
    seller = seller
    u1 = u1
    u2 = u2
    r1 = r1
    r2 = r2
    w1 = w1
    k1 = k1
    k2 = k2
    Seller = seller
    Users = {seller, u1, u2}
    Requests = {r1, r2}
    Workers = {w1}
    Keys = {k1, k2}
    BidAmounts = {1, 2}
    StartsAt = 0
    EndsAt = 2
    MaximumExtendedUntil = 3
    ExtensionWindow = 1
    ExtensionDuration = 1
    StartingAmount = 1
    MinimumIncrement = 1
    Reserve = 2
    StaffTimes = {2}
    StaffAmounts = {0}
    Reviewed = {}
    Suspendable = {}
    MaxAttempts = 1
    TxTimeout = 1
    MaxTime = 3
    MaxVersion = 5
SYMMETRY BidSymmetry
SPECIFICATION Spec
CHECK_DEADLOCK FALSE
INVARIANTS
    LedgerAgrees
    EventsTellTheRow
    RepliesTrue
    OutbidTold
    
    SettledOnHighestBid
PROPERTIES
    TimeToAnswer
    
    ClosedByTheRules
