CONSTANTS
    l1 = l1
    a1 = a1
    c1 = c1
    c2 = c2
    Listings = {l1}
    Agents = {a1}
    Calls = {c1, c2}
    Limit = 1
    MaxProofs = 2
    MaxOffers = 3
    MaxEvents = 2
SPECIFICATION Spec
SYMMETRY CallSymmetry
CHECK_DEADLOCK FALSE
INVARIANTS
    PublishedByTheRules
    NumbersRepeatOnlyInRaces
    OverloadBounded
