SPECIFICATION Spec
CONSTANTS
    EventCap = 1
    MaxEvents = 2
    Recipients = {r1, r2}
    MaxCalls = 3
    MaxClients = 2
    MaxCallsBeside = 1
INVARIANTS PaymentsAccounted PaidIsPaid
PROPERTIES ImplementsEventStream EndReachesCaller CancelEndsGoroutine
CHECK_DEADLOCK FALSE
