SPECIFICATION FairSpec
CONSTANTS
    Threads <- TwoThreads
    Processes <- OneProcess
    Home <- AtHome
    Keys <- OneKey
    Params <- StreamedParams
    Rejects <- StreamedParams
    StreamParams <- StreamedParams
    RequestBudget = 3
    TokenBudget = 1
    Permits = 1
    Attempts = 1
    Fallbacks = 0
    Fives = 3
    Days = 2
    MaxCalls = 4
    MaxFaults = 1
INVARIANTS RequestBudgetHolds TokenOvershootBounded PendingAccounted CacheIsValid
PROPERTY CallsEnd
CHECK_DEADLOCK FALSE
