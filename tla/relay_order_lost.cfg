SPECIFICATION Spec
CONSTANTS
    Keys = {k1}
    RefusedKeys = {}
    Relays = {p1}
    BatchSize = 2
    MaxRows = 2
    MaxFaults = 1
    ConnectTimeouts = FALSE
INVARIANT InOrderPerKey
