CONSTANTS
    seller = seller
    u1 = u1
    u2 = u2
    r1 = r1
    r2 = r2
    w1 = w1
    k1 = k1
    k2 = k2
    Seller = seller
    Users = {seller, u1}
    Requests = {r1}
    Workers = {w1}
    Keys = {k1}
    BidAmounts = {1}
    StartsAt = 1
    EndsAt = 2
    MaximumExtendedUntil = 3
    ExtensionWindow = 1
    ExtensionDuration = 1
    StartingAmount = 1
    MinimumIncrement = 1
    Reserve = 2
    StaffTimes = {3}
    StaffAmounts = {}
    Reviewed = {u1}
    Suspendable = {u1}
    MaxAttempts = 3
    TxTimeout = 1
    MaxTime = 4
    MaxVersion = 4
SPECIFICATION FairSpec
CHECK_DEADLOCK FALSE
PROPERTIES
    ReconciledInTheEnd
    EveryBidAnswered
