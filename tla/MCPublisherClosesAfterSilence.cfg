SPECIFICATION LiveSpec
CONSTANTS
    job1 = job1
    job2 = job2
    sum2 = sum2
    Jobs = {job1, job2}
    Checksum <- MCChecksum
    RelayRuns = {r1}
    RestRuns = {}
    Limit = 2
    Percent = 50
    CHUNK = 1
    MaxFaults = 0
PROPERTIES ClosesAfterSilence
CHECK_DEADLOCK FALSE
