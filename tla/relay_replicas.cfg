SPECIFICATION FairSpec
CONSTANTS
    Keys = {k1, k2}
    RefusedKeys = {k2}
    Relays = {p1, p2}
    BatchSize = 2
    MaxRows = 3
    MaxFaults = 2
    ConnectTimeouts = TRUE
INVARIANTS
    DuplicatesNeedFaults
PROPERTIES
    ImplementsDelivery
    PublishedWhileARelayRuns
CHECK_DEADLOCK FALSE
