SPECIFICATION ConsumerSpec
CONSTANTS
    Payments = {p1, p2}
    Orders = {o1}
    Callers = {m1, m2}
    Reasons = {order_cancelled}
    Attempts = 1
    Concurrent = TRUE
    Consumers = {m1, m2}
    Topics <- RepeatedTopics
    MaxAttempts = 2
    MaxFaults = 1
    OrderCancelled = order_cancelled
INVARIANT OnePaymentPerOrder
CHECK_DEADLOCK FALSE
