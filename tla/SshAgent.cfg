SPECIFICATION FairSpec
CONSTANTS
    Conn = {conn1, conn2}
    Key = {keyHome}
    Preloaded = {keyHome}
    MaxRequests = 2
    MaxStarts = 2
    Slow = TRUE
    NoRequest = noRequest
CHECK_DEADLOCK FALSE
INVARIANTS
    OneAgent
    SignServed
PROPERTIES
    Welcome
    RequestsEnd
