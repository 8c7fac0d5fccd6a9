CONSTANTS
    u1 = u1
    u2 = u2
    r1 = r1
    r2 = r2
    r3 = r3
    r4 = r4
    Bidders = {u1, u2}
    Requests = {r1, r2, r3, r4}
    MaxChanges = 1
SPECIFICATION Spec
SYMMETRY CallSymmetry
CHECK_DEADLOCK FALSE
INVARIANTS
    DepositAgrees
    
