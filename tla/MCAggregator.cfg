SPECIFICATION LiveSpec
CONSTANTS
    j1 = j1
    j2 = j2
    w1 = w1
    w2 = w2
    Jobs = {j1, j2}
    Workers = {w1, w2}
    QUEUE = 1
    SKIP_POW_CHECK = FALSE
    MaxAssigns = 1
    MaxResults = 3
    MaxFaults = 1
INVARIANTS TypeOK EveryResultCounted ClassifiedFirst FinishedByAnAssignee GapsNeedFaults CountedOnce
PROPERTIES ImplementsLedger ResultsSettle
CHECK_DEADLOCK FALSE
