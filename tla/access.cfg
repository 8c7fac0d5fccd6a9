CONSTANTS
    o = o
    s = s
    v = v
    r1 = r1
    r2 = r2
    manage = manage
    other = other
    n1 = n1
    n2 = n2
    i1 = i1
    i2 = i2
    c1 = c1
    c2 = c2
    Users = {o, s, v}
    Owner = o
    Member = s
    Roles = {r1, r2}
    FirstRole = r1
    FirstRank = 1
    FirstPerms = {manage}
    Perms = {manage, other}
    Manage = manage
    MaxRank = 1
    Invites = {n1, n2}
    Instances = {i1}
    Calls = {c1, c2}
    MaxCalls = 3
SYMMETRY AccessSymmetry
SPECIFICATION Spec
CHECK_DEADLOCK FALSE
INVARIANTS
    NeverTwoOwners
PROPERTIES
    OnlyOwnerWidens
    
