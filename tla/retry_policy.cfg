SPECIFICATION Spec
CONSTANT Configs <- ConfigsMC
INVARIANTS
    BoundedAttempts
    ExponentialBackoff
CHECK_DEADLOCK FALSE
