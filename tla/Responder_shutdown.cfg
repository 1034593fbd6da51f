SPECIFICATION FairSpec
CONSTANTS
    PeerKeys = {k1}
    Callers = {s1}
    Conns = {c1, c2}
    RequestSizes = {0}
    AcceptErrors = {}
    Window = 1
    MaxServed = 2
    MaxTime = 2
PROPERTY ShutdownReturns
CHECK_DEADLOCK FALSE
