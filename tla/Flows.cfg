SPECIFICATION PartSpec
CONSTANTS
    NoUser = NoUser
    Users = {u1, u2}
    Browsers = {b1, b2}
    MaxAttempts = 3
    TicketTtl = 2
    CookieTtl = 1
    HourLength = 2
    TicketCap = 1
    OpenCap = 2
    BindCap = 1
    MaxNow = 3
    Emails = {u1, u2}
    Client = Client
    EmailCap = 2
    ClientCap = 3
    MaxHour = 2
    Accounts = {u1, u2}
    Runs = {r1, r2}
    Decisions = {d1, d2}
    Day = 2
    Threshold = 2
    MaxClock = 4
    MaxStarts = 3
    Jobs = {j1, j2}
    RunIds = {p, q}
    Hashes = {h1, h2}
    NoHash = NoHash
    Statuses = {"complete", "inconsistent"}
    ReserveAttempts = 2
    Commands = {c1, c2, c3}
    Workflows = {w1, w2}
    MaxRuns = 2
    Docs = {d1, d2}
    NoDoc = NoDoc
    SigningKeys = {h1, h2}
    NoKey = NoKey
    MaxWrites = 3
    StepKeys = {1, 2}
    NoStepKey = NoStepKey
    StepSeqs = {1, 2}
    StepOutcomes <- AllOutcomes
    HighlightsMax = 1
    ApiKeys = {k1, k2}
    Unset = Unset
    Allowance <- PlanAllowance
    LastMonth = 2
    MaxCharges = 3
INVARIANTS
    BoundOnce
    LinkOpensOnce
    
    
    ExitIsBacked
    ComparedWithStored
    AcceptedIsOneWrite
    WrittenIsAccepted
    ReportIsSound

    
CHECK_DEADLOCK FALSE
