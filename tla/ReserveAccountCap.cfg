SPECIFICATION Spec
CONSTANTS
    NoRequest = NoRequest
    Unlimited = Unlimited
    Keys = {k1, k2}
    Runs = {a, b}
    Requests = {r1, r2}
    Included = 1
    AllowOverage = FALSE
    MaxMonth = 1
SYMMETRY Interchangeable
INVARIANT AccountCap
CHECK_DEADLOCK FALSE
