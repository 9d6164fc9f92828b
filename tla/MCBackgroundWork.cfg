SPECIFICATION WorkSpec
CONSTANTS
    Wishes = {i1}
    Answerers = {q1}
    Statements <- MCStatements
    MaxAmount = 0
    Entries = {p1}
    Messages = {m1}
    Avatars = {v1}
    Images = {good, bad}
    Unfit = {bad}
    Jobs = {j1}
    Reviewers = {w1, w2}
    Reports = {k1}
    MaxRetries = 2
    MaxFaults = 1
    Files = {f1}
    Pictures = {f1}
    OldAssets = {}
    Uploads = {u1, u2}
    Cleaners = {w1, w2}
    MaxDropped = 1
    Turns = {t1, t2}
    Talks = {c1}
    Processes = {r1, r2}
    MaxSteps = 2
    MaxTools = 1
    MaxOutages = 1
    Nodes = {n1,n2}
    Home = n1
    Notices = {e1,e2}
    Unknown = {e2}
    MaxDeliveries = 2
    Buffer = 1
    MaxFailures = 2
INVARIANTS ReviewsAreHonoured TurnsEndOnce PushesAreAccountedFor
PROPERTIES BackgroundWorkEnds
CHECK_DEADLOCK FALSE
