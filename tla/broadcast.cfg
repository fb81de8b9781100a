\* Threads that broadcast while callbacks open connections.
SPECIFICATION FairSpec
CONSTANTS
    Threads = {t1, t2, t3}
    Conn = {c1, c2, c3}
    None = None
INVARIANTS
    AckBalance
    OnEachOnce
PROPERTIES
    Served
CHECK_DEADLOCK FALSE
