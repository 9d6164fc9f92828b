SPECIFICATION HandlerSpec
CONSTANTS
    Inventory = {l1}
    Media = {m1}
    Accounts = {u1}
    Admins = {b1, b2}
    Reporters = {p1}
    Owner = owner
    Cases = {c1, c2, c3}
    MaxTakedowns = 2
    Tokens = {c1, c2, c3}
    Flights = {b1, b2}
    Replicas = {b1, b2}
    Checks = {b1, b2}
    ncu = ncu
    elsewhere = elsewhere
    home = home
    away = away
    Campuses = {ncu, elsewhere}
    Mailboxes = {home, away}
    CampusOf <- MCCampusOf
    MaxChallenges = 2
    HourlyLimit = 1
    MaxAttempts = 2
    Forms = {b1, b2}
    Proofs = {b1, b2}
    MaxSecrets = 2
    LastPeriod = 2
    Staff = {b1, b2}
    Students = {u1}
    Orders = {b1, b2}
    MaxRecords = 2
    Drafts = {f1, f2}
    Pictures = {m1}
    MaxAudits = 4
    Attempts = {b1, b2}
    Devices = {p1}
    Budgets = {0, 1}
    BudgetWindow = 2
    StatsWindow = 3
    MinOutcomes = 1
    LastHour = 3
    Edits = {b1, b2}
    Searches = {f1, f2}
    Notes = {home, away}
    NoteCampus <- MCNoteCampus
    Here = ncu
    Prompts = {p1}
    SessionLimit = 1
    SkillNames = {f1, f2}
    SkillEdits = {b1, b2}
    MaxSkills = 1
    MaxChars = 2
SYMMETRY Alike
INVARIANTS
    CasesAgree
    SessionsAreChains
    CodesAreGuarded
    WillIsRespected
PROPERTIES
    VerificationIsEarned
    DeniedStaysDenied
CHECK_DEADLOCK FALSE
