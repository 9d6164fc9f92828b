SPECIFICATION Spec
CONSTANTS
    s = s
    Users = {s, b1, b2}
    Listings = {l1}
    Admin = admin
    Owner <- MCOwner
    Orders = {o1, o2}
    Hitls = {h1, h2}
    Cases = {}
    Keys = {k1}
    Prices = {2}
    None = None
    MaxTerm = 1
SYMMETRY MCSymmetry
INVARIANTS
    SoldOncePerTerm
    SoldIffSettledThisTerm
    OneOpenEach
    AckIsTrue
    DealsAreAgreed
    TimelineTellsOutcome
\* An instance without moderation ends when its records and terms are used up.
CHECK_DEADLOCK FALSE
