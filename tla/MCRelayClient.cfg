SPECIFICATION LiveSpec
CONSTANTS
    s1 = s1
    s2 = s2
    Subs = {s1, s2}
    RETRIES = 2
    MaxCalls = 2
    MaxEvents = 2
    MaxCommands = 3
    MaxConns = 3
INVARIANTS TypeOK InSync NothingForgotten LastCallWinsAtFirst LostWithItsConnection EventsOnceInOrder
PROPERTIES BecomesActive
CHECK_DEADLOCK FALSE
