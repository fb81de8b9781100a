\* Lookups and connections by name, in both builds.
SPECIFICATION FairSpec
CONSTANTS
    Req = {r1, r2}
    Client = {c1}
    App = App
    MaxRetries = 1
    Timeout = 1
    Builds = {TRUE, FALSE}
    ByName = TRUE
    MaxInq = 1
INVARIANTS
    NoStaleRequest
    Paired
PROPERTIES
    TimeoutTotal
    Answered
CHECK_DEADLOCK FALSE
