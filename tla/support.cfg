CONSTANTS
    b1 = b1
    u1 = u1
    s1 = s1
    s2 = s2
    c1 = c1
    c2 = c2
    none = none
    MaxThreads = 2
    Browsers = {b1}
    Accounts = {u1}
    Staff = {s1, s2}
    Assignees = {none}
    Calls = {c1, c2}
    None = none
    TTL = 2
    TxTimeout = 1
    MaxTime = 5
SYMMETRY CallSymmetry
SPECIFICATION Spec
CHECK_DEADLOCK FALSE
INVARIANTS
    KeyOrAccount
    NewVoiceOverlapped
PROPERTIES
    SilentBeforeSwept
