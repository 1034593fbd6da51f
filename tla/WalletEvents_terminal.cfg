SPECIFICATION EventsSpec
CONSTANTS
    EventCap = 2
    MaxEvents = 4
INVARIANT TerminalErrorForwarded
CHECK_DEADLOCK FALSE
