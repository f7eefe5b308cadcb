\* Two rows of one key; one process dies.
SPECIFICATION FairSpec
CONSTANTS
    w1 = w1
    w2 = w2
    w3 = w3
    Workers = {w1, w2, w3}
    Procs = {"p1", "p2"}
    ProcOf <- TwoAndOne
    Survivor = w3
    Jobs = {1, 2}
    Keys = {k1}
    NoKey = NoKey
    NoWorker = NoWorker
    NoJob = 0
    MaxAttempts = 1
    MaxCrashes = 1
    MaxLapses = 0
    MaxDefers = 0
    MaxCancels = 0
    MaxRetries = 0
PROPERTIES DeadWorkersJobsReturn
CHECK_DEADLOCK FALSE
