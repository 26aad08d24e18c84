SPECIFICATION Spec
CONSTANTS
    Emails = {e1}
    Passwords = {w1, w2}
    Tokens = {t1, t2, t3, t4}
    Requests = {r1, r2, r3, r4}
SYMMETRY Symmetry
INVARIANTS
    TypeOK
    SessionsAreEarned
    NoSessionLost
    OrphansWereReported
    SessionsForkByOverlap
CHECK_DEADLOCK FALSE
