SPECIFICATION FairSpec
CONSTANTS
    Keys = {k1, k2}
    RefusedKeys = {k2}
    Relays = {p1}
    BatchSize = 2
    MaxRows = 3
    MaxFaults = 0
    ConnectTimeouts = FALSE
PROPERTY EventuallyPublished
CHECK_DEADLOCK FALSE
