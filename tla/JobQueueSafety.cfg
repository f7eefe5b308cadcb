\* Two processes of one thread, two rows, keyless jobs and one dedupe key.
SPECIFICATION Spec
CONSTANTS
    w1 = w1
    w2 = w2
    Workers = {w1, w2}
    Procs = {w1, w2}
    ProcOf <- OnePerProcess
    Survivor = w2
    Jobs = {1, 2}
    Keys = {k1}
    NoKey = NoKey
    NoWorker = NoWorker
    NoJob = 0
    MaxAttempts = 2
    MaxCrashes = 1
    MaxLapses = 1
    MaxDefers = 1
    MaxCancels = 1
    MaxRetries = 1
SYMMETRY ThreadSymmetry
INVARIANTS TypeOK OneQueuedPerKey OnceUnlessReaped AttemptsBounded  KeylessNeverStranded
PROPERTIES LeaseEndsProperly SettledStays ImplementsBoard
CHECK_DEADLOCK FALSE
