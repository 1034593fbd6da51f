SPECIFICATION FairSpec
CONSTANTS
    Cap = 0
    MaxYamuxFrames = 0
    IHasDeadline = FALSE
    Faults = {"stall", "ctx", "deadline"}
    IdentityKinds = {"good"}
INVARIANT NeverStuck
PROPERTIES ExchangeSettles IdentitySettles GoroutinesEnd
CHECK_DEADLOCK FALSE
