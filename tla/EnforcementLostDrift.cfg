SPECIFICATION Spec
CONSTANTS
    NoHash = NoHash
    NoRequest = NoRequest
    Requests = {r1, r2}
    Hashes = {h1, h2}
    MaxInFlight = 2
    MaxEvidence = 6
    MaxClock = 0
SYMMETRY SlotsAndHashes
CHECK_DEADLOCK FALSE
PROPERTY ClosedLoop
