SPECIFICATION Spec
CONSTANTS
    NoHash = NoHash
    NoRequest = NoRequest
    Requests = {r1}
    Hashes = {h1, h2}
    MaxInFlight = 1
    MaxEvidence = 4
    MaxClock = 1
SYMMETRY SlotsAndHashes
CHECK_DEADLOCK FALSE
INVARIANT RebaselineAdmitted
