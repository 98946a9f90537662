SPECIFICATION Spec
CONSTANTS
    Nobody = Nobody
    team = team
    business = business
    unmapped = unmapped
    Subs = {s1, s2}
    Customers = {c1, c2}
    Deliveries = {d1, d2}
    Prices <- AllPrices
    PlanOf <- Configured
    MaxEvents = 3
SYMMETRY Interchangeable
INVARIANTS
    TypeOK
    ProcessedExactlyOnce
    EntitledWasPaid
    FollowsStripe
CHECK_DEADLOCK FALSE
