SPECIFICATION Spec
CONSTANTS
    Servers = {n1, n2}
    ClientServers = {n1}
    BadAddresses = {bad}
    Clients = {k1, k2}
    Inits = {i1, i2}
    Callers = {g1}
    MaxMessages = 2
INVARIANTS OnlyOwnerCancels SharedFollowsInit DrainedWhole
PROPERTY CloseEndsCalls
CHECK_DEADLOCK FALSE
