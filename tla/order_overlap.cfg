SPECIFICATION Spec
CONSTANTS
    Orders = {o1, o2}
    Requests = {r1, r2, r3, r4}
    Concurrent = TRUE
SYMMETRY Symmetry
INVARIANTS
    TypeOK
    OutboxComplete
    PlacedOnceAndFirst
    AnswersHonoured
    CancellationsAccountedFor
PROPERTY ImplementsOutbox
CHECK_DEADLOCK FALSE
