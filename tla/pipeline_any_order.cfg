SPECIFICATION PipelineSpec
CONSTANTS
    Orders = {o1}
    Requests = {r1, r2}
    Relays = {q1}
    BatchSize = 2
    Consumers = {m1}
    Payments = {p1, p2}
    Attempts = 1
    Reasons = {order_cancelled}
    OrderCancelled = order_cancelled
    MaxAttempts = 2
    ConnectTimeouts = TRUE
    MaxRelayFaults = 1
    MaxConsumerFaults = 1
INVARIANT ServicesAgreeInAnyOrder
CHECK_DEADLOCK FALSE
