SPECIFICATION MCSpec
CONSTANTS
    seller = seller
    buyer = buyer
    Users = {seller, buyer}
    Listings = {l1}
    Owner <- MCOwner
    Plans = {p1}
    Calls = {c1, c2}
    Actions = {"purchase", "negotiate", "update", "delete"}
    Keys = {k1}
    Prices = {3, 4}
    None = None
    MaxRevision = 2
SYMMETRY MCSymmetry
INVARIANTS
    ExecutedOnce
    TwoSteps
    VerdictsAgree
    ReplaysAreExact
PROPERTIES
    ActsOnWhatWasSeen
    IntentIsAtConfirmedPrice
