CONSTANTS
    Client = {c1, c2}
    Back = {b1, b2}
    NULL = NULL
    MaxIdle = 1
    MaxReq = 2
SPECIFICATION Spec
SYMMETRY Symmetry
INVARIANTS ReplyToAsker PoolSound OwnBackend WaitsForSomething
CHECK_DEADLOCK FALSE
