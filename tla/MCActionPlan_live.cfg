SPECIFICATION MCFairSpec
CONSTANTS
    seller = seller
    buyer = buyer
    Users = {seller, buyer}
    Listings = {l1}
    Owner <- MCOwner
    Plans = {p1}
    Calls = {c1, c2}
    Actions = {"purchase"}
    Keys = {}
    Prices = {4}
    None = None
    MaxRevision = 1
PROPERTIES
    ConfirmationEnds
