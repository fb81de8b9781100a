\* List, cursors and flags under every interleaving, in both builds.
CONSTANTS
    Conn = {c1, c2, c3}
    Programs <- LoopPrograms
    NULL = NULL
    ReadBuf = 2
    Limit = 1
    NoLimit = 9
SPECIFICATION Spec
SYMMETRY Blocks
INVARIANTS TypeOK ListOK AllReachable NoDanglingCursor WriteHasData PollBitClear
           FreedInOrder
PROPERTIES CloseRequestKept
CHECK_DEADLOCK FALSE
