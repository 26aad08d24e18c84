SPECIFICATION Spec
CONSTANTS
    Calls = {c1}
    FailureThreshold = 2
    SuccessThreshold = 1
    IgnoredErrors = FALSE
    MaxConcurrent = 1
    Attempts = 2
PROPERTY RetriesStatusesOnly
CHECK_DEADLOCK FALSE
