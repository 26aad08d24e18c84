SPECIFICATION FairSpec
CONSTANTS
    Keys = {k1}
    RefusedKeys = {}
    Relays = {p1}
    BatchSize = 2
    MaxRows = 2
    MaxFaults = 1
    ConnectTimeouts = TRUE
PROPERTY EventuallyPublished
CHECK_DEADLOCK FALSE
