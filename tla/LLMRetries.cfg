SPECIFICATION Spec
CONSTANTS
    Threads <- OneThread
    Processes <- OneProcess
    Home <- OneAtHome
    Keys <- OneKey
    Params <- BothParams
    Rejects <- BothParams
    StreamParams <- StreamedParams
    RequestBudget = 0
    TokenBudget = 0
    Permits = 1
    Attempts = 4
    Fallbacks = 1
    Fives = 3
    Days = 1
    MaxCalls = 2
    MaxFaults = 0
INVARIANTS TypeOK 
CHECK_DEADLOCK FALSE
