SPECIFICATION BreakerFairSpec
CONSTANTS
    Calls = {c1, c2, c3, c4, c5, c6}
    FailureThreshold = 3
    SuccessThreshold = 2
    IgnoredErrors = TRUE
PROPERTIES
    TripsOnStreak
    ClosesOnStreak
    RearmsOnStreak
    Recovers
