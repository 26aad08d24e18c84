SPECIFICATION Spec
CONSTANTS
    Orders = {o1}
    Requests = {r1, r2, r3}
    Concurrent = TRUE
PROPERTY DecisionIsFinal
CHECK_DEADLOCK FALSE
