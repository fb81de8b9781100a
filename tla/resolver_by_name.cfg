\* A nameserver given by a name that does not resolve.
SPECIFICATION FairSpec
CONSTANTS
    Req = {r1, r2}
    Client = {c1}
    App = App
    MaxRetries = 1
    Timeout = 1
    Builds = {TRUE}
    ByName = TRUE
    MaxInq = 1
PROPERTY
    AlwaysAnswered
CHECK_DEADLOCK FALSE
