SPECIFICATION MCSpec
CONSTANTS
    asker = asker
    giver = giver
    Users = {asker, giver}
    w1 = w1
    Wanteds = {w1, w2}
    Offers = {o1}
    Poster <- MCPoster
    Responses = {r1, r2}
    Calls = {c1, c2}
    Keys = {k1}
    Texts = {t1, t2}
    None = None
    MaxEpoch = 2
SYMMETRY MCSymmetry
INVARIANTS
    OneResponsePerRound
    CirclesAreMisnamed
    KeyMeansOneRequest
PROPERTIES
    ClosedRoundsAreFrozen
    ImplementsRounds
