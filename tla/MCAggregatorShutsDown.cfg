SPECIFICATION LiveSpec
CONSTANTS
    j1 = j1
    j2 = j2
    w1 = w1
    w2 = w2
    Jobs = {j1}
    Workers = {w1, w2}
    QUEUE = 1
    SKIP_POW_CHECK = FALSE
    MaxAssigns = 1
    MaxResults = 1
    MaxFaults = 1
PROPERTIES ShutsDown
CHECK_DEADLOCK FALSE
