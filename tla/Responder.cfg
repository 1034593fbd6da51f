SPECIFICATION FairSpec
CONSTANTS
    PeerKeys = {k1, k2}
    Callers = {s1, s2}
    Conns = {c1, c2}
    RequestSizes = {0, 1}
    AcceptErrors = {"error"}
    Window = 1
    MaxServed = 1
    MaxTime = 2
INVARIANTS NoWorkAfterReturn GracefulStop NeverForgetsRecent ListedWereFresh
PROPERTIES NoAddFromZeroDuringWait AnswerFitsWindow ListComplete AcceptsNext StopsWhenPeersLeave
CHECK_DEADLOCK FALSE
