SPECIFICATION Spec
CONSTANTS
    None = None
    Refused = Refused
    Odd = Odd
    Hash = "#h"
    Chan = "#c"
    Legal = {"amy", "bob"}
    NameOrder <- MCNameOrder
    Updaters = {"u1", "u2"}
    Task = Task
    MaxCalls = 3
    Boxes = {"#c", "amy", "bob"}
    Torn = Torn
    Corrupt = Corrupt
    Procs = {"p1", "p2"}
    NoPid = NoPid
    Clients = {"c1", "c2"}
    MaxAsk = 3
    ReplyCap = 1
    Plans <- MCPlans
INVARIANT DrainAcceptsSent
CHECK_DEADLOCK FALSE
