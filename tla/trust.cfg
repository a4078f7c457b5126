SPECIFICATION FairSpec
CONSTANTS
    o1 = o1
    o2 = o2
    h1 = h1
    h2 = h2
    Nobody = Nobody
    Absent = Absent
    Torn = Torn
    Principals = {1}
    Keys = {1, 2}
    Operators = {o1, o2}
    Handlers = {h1, h2}
    Redeemers <- Strangers
    Own = {3}
    Peered <- Files
    Plans <- AllPlans
    MaxAttempts = 1
    Lifetime = 1
    MaxCommands = 3
    MaxInvites = 1
    MaxCrashes = 1
    MaxClock = 1
INVARIANTS
    OneRedemption
    BudgetHolds
    RevokedNeverPinned
    NoResurrection
PROPERTIES
    IdentityStable
    RedemptionAnswered
CHECK_DEADLOCK FALSE
