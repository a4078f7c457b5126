SPECIFICATION Spec
CONSTANTS
    c1 = c1
    c2 = c2
    c3 = c3
    n1 = n1
    n2 = n2
    t1 = t1
    t2 = t2
    AnyTask = AnyTask
    None = None
    Conn = {c1, c2, c3}
    Name = {n1}
    Channel = {}
    Task = {t1}
    Origins = {"Local", "Gateway"}
    Flags = {TRUE, FALSE}
    Rebind = FALSE
    Pipelined = TRUE
    AwaitBatchCap = 1
    ChannelDrainCap = 1
    FrameCap = 4
    Born = {n1}
    Legacy <- Garbled
    Faults = {}
    MaxFaults = 0
    MaxMsg = 2
INVARIANTS
    AwaitSkipsNothing
    NoLostWakeup
PROPERTIES
    NoReplay
SYMMETRY SymConn
