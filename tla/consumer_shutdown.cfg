SPECIFICATION ConsumerSpec
CONSTANTS
    Payments = {p1, p2, p3}
    Orders = {o1}
    Callers = {m1}
    Reasons = {order_cancelled}
    Attempts = 1
    Concurrent = TRUE
    Consumers = {m1}
    Topics <- PlacedTopics
    MaxAttempts = 3
    MaxFaults = 2
    OrderCancelled = order_cancelled
PROPERTY AbandonedAfterRetries
CHECK_DEADLOCK FALSE
