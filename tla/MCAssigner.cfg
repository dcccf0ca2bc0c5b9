SPECIFICATION LiveSpec
CONSTANTS
    w1 = w1
    w2 = w2
    w3 = w3
    Workers = {w1, w2, w3}
    NumWorkers = 2
    MAX_WORKERS = 2
    STALE_TIME = 3
    COOL_DOWN_PERIOD = 2
    RETRIES = 2
    MaxJobs = 2
    MaxTime = 5
INVARIANTS TypeOK BookSorted NoIdleWorkers JobsAccounted FirstComeFirstServed CoolDownKept GaugesMatch FullBatches
PROPERTIES ImplementsDispatcher DropsOnlySilentWorkers EventuallyPublished
CHECK_DEADLOCK FALSE
