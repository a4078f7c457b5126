SPECIFICATION Spec
CONSTANTS
    c1 = c1
    c2 = c2
    c3 = c3
    n1 = n1
    n2 = n2
    t1 = t1
    t2 = t2
    AnyTask = AnyTask
    None = None
    Conn = {c1, c2}
    Name = {n1, n2}
    Channel = {7}
    Task = {t1}
    Origins = {"Local"}
    Flags = {FALSE}
    Rebind = FALSE
    Pipelined = FALSE
    AwaitBatchCap = 1
    ChannelDrainCap = 1
    FrameCap = 1
    Born = {7}
    Legacy <- NoLegacy
    Faults = {"crash"}
    MaxFaults = 1
    MaxMsg = 2
INVARIANTS
    MembersAreJoined
    ConfirmedIsStored
PROPERTIES
    ChannelDelivers
SYMMETRY SymConn2Name
CONSTRAINT OneSubject
