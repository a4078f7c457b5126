SPECIFICATION Spec
CONSTANTS
    p1 = p1
    p2 = p2
    b1 = b1
    b2 = b2
    None = None
    Broken = Broken
    Torn = Torn
    Blank = Blank
    Procs = {p1, p2}
    Bins = {b1, b2}
    Plans <- SetupPlans
INVARIANTS CommandCompletes
PROPERTIES UserKept
CHECK_DEADLOCK FALSE
