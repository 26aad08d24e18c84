SPECIFICATION FairSpec
CONSTANTS
    Calls = {c1, c2, c3}
    FailureThreshold = 2
    SuccessThreshold = 1
    IgnoredErrors = FALSE
    MaxConcurrent = 1
    Attempts = 2
INVARIANTS
    ClientTypeOK
    NothingLeaks
PROPERTIES
    ImplementsProviderCall
    EveryCallReturns
CHECK_DEADLOCK FALSE
