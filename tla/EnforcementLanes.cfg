SPECIFICATION LaneSpec
CONSTANTS
    NoHash = NoHash
    NoRequest = NoRequest
    Requests = {r1, r2}
    SerialSlot = r1
    Hashes = {h1, h2}
    MaxInFlight = 2
    MaxEvidence = 5
    MaxClock = 1
CHECK_DEADLOCK FALSE
INVARIANTS
    SerialBaseline
    
PROPERTIES
    SerialClosedLoop
    EveryRequestAnswered
