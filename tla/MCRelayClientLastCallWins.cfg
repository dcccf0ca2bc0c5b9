SPECIFICATION Spec
CONSTANTS
    s1 = s1
    s2 = s2
    Subs = {s1}
    RETRIES = 2
    MaxCalls = 2
    MaxEvents = 1
    MaxCommands = 3
    MaxConns = 3
INVARIANTS LastCallWins
CHECK_DEADLOCK FALSE
