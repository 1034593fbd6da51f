SPECIFICATION PayoutSpec
CONSTANTS
    Recipients = {r1, r2}
    MaxCalls = 3
INVARIANT RetryIsSafe
CHECK_DEADLOCK FALSE
