SPECIFICATION Spec
CONSTANTS
    PING_INTERVAL = 4
    PONG_TIMEOUT = 3
    MaxTime = 23
    MaxInbox = 2
INVARIANTS TypeOK HeardRecently HealthyStays
CHECK_DEADLOCK FALSE
