\* No timeouts: calls mixed with sends, kills and failing opens.
SPECIFICATION Spec
CONSTANTS
    c1 = c1
    c2 = c2
    Clients = {c1, c2}
    Daemon = daemon
    MaxCalls = 2
    MaxKills = 1
    Kinds = {"call", "send"}
    Timeouts = {0}
    Sizes = {TRUE, FALSE}
    HdrLen = 2
    PayLen = 1
    ReqRoom = 12
    OpenMayFail = TRUE
SYMMETRY CallersAreAlike
INVARIANTS ReplyChannelExclusive LockAccounted OwnReply
CHECK_DEADLOCK FALSE
