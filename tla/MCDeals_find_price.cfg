SPECIFICATION Spec
CONSTANTS
    s = s
    Users = {s, b1}
    Listings = {l1}
    Admin = admin
    Owner <- MCOwner
    Orders = {o1}
    Hitls = {h1}
    Cases = {c1}
    Keys = {}
    Prices = {2, 3}
    None = None
    MaxTerm = 0
INVARIANTS
    AnnouncedPriceIsRecorded
