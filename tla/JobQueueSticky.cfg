\* One thread; one cancel request.
SPECIFICATION Spec
CONSTANTS
    w1 = w1
    w2 = w2
    Workers = {w1}
    Procs = {w1}
    ProcOf <- OnePerProcess
    Survivor = w2
    Jobs = {1, 2}
    Keys = {k1}
    NoKey = NoKey
    NoWorker = NoWorker
    NoJob = 0
    MaxAttempts = 2
    MaxCrashes = 0
    MaxLapses = 0
    MaxDefers = 0
    MaxCancels = 1
    MaxRetries = 0
INVARIANTS ChangeNeverSwallowed
CHECK_DEADLOCK FALSE
