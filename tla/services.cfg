SPECIFICATION PlatformSpec
CONSTANTS
    None = None
    req1 = req1
    req2 = req2
    cand1 = cand1
    cand2 = cand2
    Reqs = {req1, req2}
    Candidates = {cand1, cand2}
    Ranks = {1, 2}
    MaxHolds = 3
    MaxCrashes = 1
    Recruiters = {"r1", "r2"}
    MaxSteps = 6
    Views <- MCViews
    Openings <- MCOpenings
    Limits = {1, 2}
    MaxQuarters = 60
    Configured = {"greenhouse", "google", "vapi", "sendgrid", "twilio"}
    Items = {cand1, cand2}
    NotNumbers = {cand2}
    MaxCalls = 3
    MaxFaults = 1
    Plans = {"close_protection", "precision_outreach", "velocity_outreach"}
    Texts <- MCTexts
    LlmLabels = {"unknown", "not_interested", "yes"}
    MaxReplies = 2
    MaxOutages = 1
    Arms = {"a", "b", "c"}
    MaxSamples = 10
    MaxArms = 2
    Roles = {"sales", "cleared", "bdr"}
    Evaluations <- MCEvaluations
    MaxAnswers = 8
    MaxChatFaults = 2
    People = {"ann", "bob", "cy"}
    Profile <- MCProfile
    Queries <- MCQueries
    LastYear = 6
    MaxCreates = 3
    MaxLost = 1
    Clients = {"c1", "c2"}
    Horizon = 3
    MaxRows = 2
    Emails = {"e1", "e2"}
    Fields = {"status", "location"}
    Bodies <- MCBodies
    MaxCreateCalls = 2
    MaxPatches = 2
    Scores = {0, 3, 5}
    MaxTrainings = 4
    MaxStops = 3
    FirstDay = 185
    Offsets <- MCOffsets
    Weekly = {20, 30, 40}
    MaxMonths = 30
    RulesUrlSet = {TRUE, FALSE}
    MaxReloads = 3
    Prospects = {"ann", "bob"}
    Opportunities = {"o1"}
    Facets <- MCFacets
    Requirements <- MCRequirements
    MaxDrafts = 3
    MaxLosses = 2
    MaxRuns = 3
    MaxKills = 2
INVARIANTS
    PlatformTypeOK
    EffectsExplained
    SequenceHonoured
    SessionSound
    OnlyLateBlockers
    EmployeesKept
    RestartsRecover
    PlacedWasVetted
    TimeNeverEases
    ChoicesAreBest
    VerdictsAgree
PROPERTIES
    ImplementsBackupQueue
CHECK_DEADLOCK FALSE
