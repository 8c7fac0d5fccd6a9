CONSTANTS
    w1 = w1
    w2 = w2
    N = 2
    Notifications = {1}
    Workers = {w1, w2}
    BatchSize = 2
    MaxAttempts = 2
    MailAttempts = 2
    MaxFaults = 1
SPECIFICATION FairSpec
CHECK_DEADLOCK FALSE
INVARIANTS
    DeliveriesBounded
    ReplayDoesNotResend
PROPERTIES
    EventSettles
    
