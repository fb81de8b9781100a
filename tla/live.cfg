\* Progress in both builds.
CONSTANTS
    Conn = {c1, c2}
    Programs <- LivePrograms
    NULL = NULL
    ReadBuf = 2
    Limit = 1
    NoLimit = 9
SPECIFICATION FairSpec
PROPERTIES ClosesEventually ConnectAnswered InputTaken
