SPECIFICATION Spec
CONSTANTS
    Procs = {p1, p2}
    MaxStarts = 4
    MaxKeys = 3
    TCPFlags <- MCTCPFlags
    OnionFlags <- MCOnionFlags
    Times = {0, 1700000}
    FeatureSets = {0, 1, 3}
INVARIANTS StableIdentity PeerReadsAddresses SignatureBindsClaims
CHECK_DEADLOCK FALSE
