SPECIFICATION FairSpec
CONSTANTS
    Garbled = Garbled
    h1 = h1
    h2 = h2
    k1 = k1
    k2 = k2
    Principals = {1, 2}
    Keys = {1, 2}
    OwnDomain = "here"
    Handlers = {h1, h2}
    Fetcher = Fetcher
    Pins <- PeerPins
    Plans <- AllPlans
    Skew = 1
    ReplayTtl = 2
    MaxPerSender = 1
    RateMax = 2
    RateWindow = 4
    IngressLag = 0
    MaxBusFaults = 1
    Served = {"here"}
    QueueMax = 3
    EntryTtl = 2
    MaxBatch = 2
    FetchSkew = 1
    NonceTtl = 2
    NonceMax = 2
    FetchRateMax = 2
    FetchRateWindow = 2
    Slots = {k1, k2}
    Ahead = 1
INVARIANTS
    ReplaySpacing
    DeliveredIsGenuine
    NoSilentLoss
    DrainedIsIngested
    OneDrain
PROPERTIES
    QueueIsFifo
    MutexStarvesNobody
CHECK_DEADLOCK FALSE
