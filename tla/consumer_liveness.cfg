SPECIFICATION ConsumerFairSpec
CONSTANTS
    Payments = {p1, p2, p3}
    Orders = {o1}
    Callers = {m1, m2}
    Reasons = {order_cancelled}
    Attempts = 1
    Concurrent = TRUE
    Consumers = {m1, m2}
    Topics <- MixedTopics
    MaxAttempts = 2
    MaxFaults = 2
    OrderCancelled = order_cancelled
PROPERTY PartitionDrains
CHECK_DEADLOCK FALSE
