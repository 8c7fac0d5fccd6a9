CONSTANTS
    o = o
    u1 = u1
    u2 = u2
    c1 = c1
    c2 = c2
    w1 = w1
    w2 = w2
    Owner = o
    Users = {o, u1, u2}
    Holders = {u1, u2}
    Debtors = {}
    Recruits = {u2}
    Staff = {}
    Calls = {c1}
    Workers = {w1}
    Grace = 1
    BanLengths = {}
    MaxTime = 1
    MaxFaults = 0
SPECIFICATION FairSpec
CHECK_DEADLOCK FALSE
PROPERTIES
    EveryoneErasedInTheEnd
