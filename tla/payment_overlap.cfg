SPECIFICATION Spec
CONSTANTS
    Payments = {p1, p2}
    Orders = {o1}
    Callers = {c1, c2, c3, c4}
    Reasons = {declined}
    Attempts = 1
    Concurrent = TRUE
SYMMETRY Symmetry
INVARIANTS
    RowsReconstruct
    OutboxTellsStatus
    MoneyBehindEvents
    SilentMoneyWasReported
CHECK_DEADLOCK FALSE
