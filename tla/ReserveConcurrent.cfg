SPECIFICATION FairSpec
CONSTANTS
    NoRequest = NoRequest
    Unlimited = Unlimited
    Keys = {k1, k2}
    Runs = {a, b}
    Requests = {r1, r2}
    Included = 1
    AllowOverage = FALSE
    MaxMonth = 2
INVARIANTS
    TypeOK
    CountersMatch
    ActiveUsageWithinCap
    RetryNotRefused
PROPERTIES
    EveryRequestAnswered
    ImplementsLedger
CHECK_DEADLOCK FALSE
