\* Jobs without dedupe keys: one of the two processes may die.
SPECIFICATION FairSpec
CONSTANTS
    w1 = w1
    w2 = w2
    Workers = {w1, w2}
    Procs = {w1, w2}
    ProcOf <- OnePerProcess
    Survivor = w2
    Jobs = {1, 2}
    Keys = {}
    NoKey = NoKey
    NoWorker = NoWorker
    NoJob = 0
    MaxAttempts = 2
    MaxCrashes = 1
    MaxLapses = 1
    MaxDefers = 1
    MaxCancels = 0
    MaxRetries = 1
PROPERTIES EveryJobSettles
CHECK_DEADLOCK FALSE
