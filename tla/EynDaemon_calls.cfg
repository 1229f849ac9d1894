\* Calls with and without a timeout, and sends; nobody is killed, and the
\* request FIFO has room for every frame.
SPECIFICATION ServedSpec
CONSTANTS
    c1 = c1
    c2 = c2
    c3 = c3
    Clients = {c1, c2, c3}
    Daemon = daemon
    MaxCalls = 1
    MaxKills = 0
    Kinds = {"call", "send"}
    Timeouts = {0, 1}
    Sizes = {TRUE}
    HdrLen = 2
    PayLen = 1
    ReqRoom = 9
    OpenMayFail = FALSE
INVARIANT RequestsIntact
PROPERTIES CallAnswered 
CHECK_DEADLOCK FALSE
