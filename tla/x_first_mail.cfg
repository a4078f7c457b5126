SPECIFICATION Spec
CONSTANTS
    c1 = c1
    c2 = c2
    c3 = c3
    n1 = n1
    n2 = n2
    t1 = t1
    t2 = t2
    AnyTask = AnyTask
    None = None
    Conn = {c1, c2, c3}
    Name = {n1}
    Channel = {}
    Task = {t1}
    Origins = {"Local"}
    Flags = {FALSE}
    Rebind = FALSE
    Pipelined = FALSE
    AwaitBatchCap = 2
    ChannelDrainCap = 1
    FrameCap = 4
    Born = {}
    Legacy <- NoLegacy
    Faults = {}
    MaxFaults = 0
    MaxMsg = 2
INVARIANTS
    AwaitSkipsNothing
