SPECIFICATION FairSpec
CONSTANTS
    h1 = h1
    h2 = h2
    w1 = w1
    w2 = w2
    Me = Me
    Peer = Peer
    None = None
    Server = Server
    Sibling = Sibling
    Register = Register
    WaitReply = WaitReply
    Hooks = {h1, h2}
    Wakers = {w1, w2}
    Waiters = {h1, h2, w1, w2, Server, WaitReply}
    MaxMail = 3
    ReconnectCap = 4
    MaxFailures = 2
    Plans <- WindowPlans
INVARIANTS ReadWasTold VerifyIsTrue HookFollowsAgent OneWaits WaitReplyMissesNothing
PROPERTIES ParkedIsWoken NameIsTakenBack
CHECK_DEADLOCK FALSE
