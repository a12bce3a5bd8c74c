SPECIFICATION Spec
CONSTANTS
    None = None
    NoUei = NoUei
    p1 = p1
    p2 = p2
    a1 = a1
    u1 = u1
    n1 = n1
    n2 = n2
    Piids = {p1, p2}
    AgencyCodes = {a1}
    Ueis = {u1}
    Notices = {n1, n2}
    Clients = {c1}
    Docs <- OneContract
    Postgres = FALSE
    Outages = FALSE
    OpenAI = FALSE
    RealServices = FALSE
    MaxRuns <- Twice
    MaxCrashes = 1
INVARIANTS
    PiidUnique
    CheckStillHolds
    RawMatchesColumns
    ApiRowsAudited
    OneEventPerNotice
