SPECIFICATION ConsumerSpec
CONSTANTS
    Payments = {p1, p2, p3}
    Orders = {o1}
    Callers = {m1, m2, h1}
    Reasons = {order_cancelled}
    Attempts = 1
    Concurrent = TRUE
    Consumers = {m1, m2}
    Topics <- CancelledOrderTopics
    MaxAttempts = 2
    MaxFaults = 2
    OrderCancelled = order_cancelled
SYMMETRY Symmetry
INVARIANTS
    ExtraPaymentsExplained
    ChargesExplained
    CommittedOrdersDecided
    CancelledOrdersSettled
CHECK_DEADLOCK FALSE
