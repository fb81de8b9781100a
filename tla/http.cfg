SPECIFICATION Spec
CONSTANTS
    Width = 2
    Buf = 2
    MaxSize = 3
    MaxOut = 3
    MaxReq = 2
    Ranges <- MCRanges
    Acls <- MCAcls
INVARIANTS
    SendBounded
    ResponsesWhole
    
    
PROPERTIES
    Answered
CHECK_DEADLOCK FALSE
