SPECIFICATION Spec
CONSTANTS
    Keys = {k1, k2}
    RefusedKeys = {}
    Relays = {p1}
    BatchSize = 1
    MaxRows = 4
    MaxFaults = 3
    ConnectTimeouts = FALSE
INVARIANT InOrderPerKey
