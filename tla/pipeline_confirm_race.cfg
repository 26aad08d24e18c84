SPECIFICATION PipelineSpec
CONSTANTS
    Orders = {o1}
    Requests = {r1, r2, r3}
    Relays = {q1}
    BatchSize = 2
    Consumers = {m1}
    Payments = {p1, p2}
    Attempts = 1
    Reasons = {order_cancelled}
    OrderCancelled = order_cancelled
    MaxAttempts = 2
    ConnectTimeouts = TRUE
    MaxRelayFaults = 0
    MaxConsumerFaults = 1
INVARIANT ConfirmedOrdersStayPaid
CHECK_DEADLOCK FALSE
