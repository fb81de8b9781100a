CONSTANTS
    Conn = {c1, c2, c3}
    Sess = {s1, s2, s3}
    NULL = NULL
    Exp <- Exps
    Topic <- Topics
    Wanted <- WantedTopics
    MaxMsg = 6
SPECIFICATION Spec
SYMMETRY Symmetry
INVARIANTS SessionsLinked 
 
CHECK_DEADLOCK FALSE
