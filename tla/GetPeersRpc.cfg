SPECIFICATION FairSpec
CONSTANTS
    Keys = {"p1", "p2", "p3"}
    Addresses = {"a1", "a2"}
    Ops = {"get_peers", "get_chain_metadata"}
    ServerKinds = {"ours", "foreign"}
    Requests <- AllRequests
    KnownLists <- AllShapes
    MaxIterations = 3
    StreamCap = 2
    MayCut = TRUE
INVARIANTS NoMisframing NoPeerLost NegotiationAgrees AnswerIsBounded
PROPERTIES CallEnds CallSucceeds
CHECK_DEADLOCK FALSE
