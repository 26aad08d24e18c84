SPECIFICATION Spec
CONSTANTS
    Payments = {p1}
    Orders = {o1}
    Callers = {c1, c2, c3}
    Reasons = {order_cancelled}
    Attempts = 1
    Concurrent = FALSE
PROPERTY PaidOnlyOnce
CHECK_DEADLOCK FALSE
