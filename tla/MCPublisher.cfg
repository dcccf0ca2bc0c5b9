SPECIFICATION LiveSpec
CONSTANTS
    job1 = job1
    job2 = job2
    sum2 = sum2
    Jobs = {job1, job2}
    Checksum <- MCChecksum
    RelayRuns = {r1}
    RestRuns = {w1}
    Limit = 3
    Percent = 67
    CHUNK = 2
    MaxFaults = 2
INVARIANTS RecordedWasHandedOver PublishedOnce
PROPERTIES EveryRunEnds
CHECK_DEADLOCK FALSE
