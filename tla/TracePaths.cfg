SPECIFICATION PartSpec
CONSTANTS
    x = x
    y = y
    insert = insert
    delete = delete
    effects = effects
    related = related
    totals = totals
    unknown = unknown
    Items <- AllItems
    Calls <- AllCalls
    Registry <- CallChecks
    Captures <- EventFiles
    Malformed = Malformed
    Control = Control
    Policies <- AllPolicies
    GateKinds = {"contract_sql", "langgraph"}
    GateEvents <- GateInputs
    MaxBuffer = 2
    Emitters = {e1, e2}
    MaxEvents = 3
INVARIANT PathsAreNodes
CHECK_DEADLOCK FALSE
