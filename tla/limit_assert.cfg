\* assert(io->len > 0) fails with the epoll() build and a recv_mbuf_limit.
CONSTANTS
    Conn = {c1, c2}
    Programs <- LimitPrograms
    NULL = NULL
    ReadBuf = 2
    Limit = 1
    NoLimit = 9
SPECIFICATION Spec
INVARIANTS WriteHasData
CHECK_DEADLOCK FALSE
