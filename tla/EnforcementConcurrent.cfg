SPECIFICATION Spec
CONSTANTS
    NoHash = NoHash
    NoRequest = NoRequest
    Requests = {r1, r2}
    Hashes = {h1, h2}
    MaxInFlight = 2
    MaxEvidence = 4
    MaxClock = 1
SYMMETRY SlotsAndHashes
CHECK_DEADLOCK FALSE
INVARIANTS
    TypeOK
    OptimisticLockNeverMisses
    PostureIsBacked
    AuditVersionsIncrease
    AcceptAnswersRecordedDrift
    AtMostOneVerdict
PROPERTY VersionsIdentifyPosture
