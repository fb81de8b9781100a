\* The event order promised by Lifecycle, with SSL and UDP.
CONSTANTS
    Conn = {c1, c2}
    Programs <- LifecyclePrograms
    NULL = NULL
    ReadBuf = 2
    Limit = 1
    NoLimit = 9
SPECIFICATION Spec
SYMMETRY Blocks
PROPERTIES RefinesLifecycle
CHECK_DEADLOCK FALSE
