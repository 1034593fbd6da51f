SPECIFICATION Spec
CONSTANTS
    Cap = 1
    MaxYamuxFrames = 1
    IHasDeadline = TRUE
    Faults = {"ctx", "deadline", "live"}
    IdentityKinds = {"good", "oversize", "undecodable"}
INVARIANTS OneUserPerDirection WireIsProtocol NoProtocolError SessionsAgree
PROPERTY DeadlineSparesYamux
CHECK_DEADLOCK FALSE
