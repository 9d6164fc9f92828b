SPECIFICATION DealingsSpec
CONSTANTS
    buyer = buyer
    seller = seller
    d3 = d3
    Topics = {a1, a2}
    PostKeys = {j1}
    Contents = {d1, d2}
    Requests = {b1, b2}
    Replies = {y1}
    MaxMoves = 2
    Members = {b1, b2}
    Convs = {c1, c2}
    Creators = {a1, a2}
    ChatKeys = {d1}
    NULL = NULL
    Talkers = {buyer, seller}
    Sendings = {a1, a2}
    LineKeys = {d1, d2, d3}
    Policies = {"reject", "receive_only"}
    Cooldown = 1
    WindowLength = 3
    WindowLimit = 2
    EditLimit = 0
    PageSize = 2
    MaxTime = 3
    MaxRows = 5
    Blank = Blank
    Buyer = buyer
    Seller = seller
    Slots = {s1}
    Terms = {d1, d2}
    Amounts <- MCAmounts
    Limits = {1, 2, 4}
    MaxChanges = 3
    Wishes = {a1, a2}
    Answerers = {u1}
    Statements <- MCStatements
    MaxAmount = 4
    Groups = {d1, d2}
    Guests = {b1, b2}
    Utterances = {a1, a2}
    UtteranceKeys = {j1}
    RoleRequests = {y1}
    Calls = {c1}
    Phones = {s1, u1}
SYMMETRY MCSymmetry
INVARIANTS
    KeysAreHonoured
    PairIsGuarded
    TimesAreReliable
    TermsAreHonoured
    WishesAreRespected
PROPERTIES
    ImplementsHandshake
CHECK_DEADLOCK FALSE
