SPECIFICATION FairSpec
CONSTANTS
    s = s
    Users = {s, b1, b2}
    Listings = {l1}
    Admin = admin
    Owner <- MCOwner
    Orders = {o1}
    Hitls = {h1}
    Cases = {c1, c2}
    Keys = {}
    Prices = {2, 3}
    None = None
    MaxTerm = 1
PROPERTIES
    RecordsMoveForward
    RestrictionFreezesListing
    OverdueSettles
