CONSTANTS
    a1 = a1
    a2 = a2
    l1 = l1
    c1 = c1
    c2 = c2
    Agents = {a1, a2}
    Listings = {l1}
    FirstAgent = a1
    Calls = {c1, c2}
    Starts = {2, 3}
    Ends = {6}
    Duration = 2
    Step = 2
    Lead = 2
    Editors = {a1}
    Instants = {0, 3}
    MaxViewings = 2
SYMMETRY CallSymmetry
SPECIFICATION ViewingsSpec
CHECK_DEADLOCK FALSE
INVARIANTS
    OffersFit
    OverlapsWereRaces
    LastNoticeIsTrue
