\* Two numbers for the channel, one of them the client's own; two packets of
\* output of either kind, one burst of idle talk, one key, two passwords.
SPECIFICATION Spec
CONSTANTS
    ServerChannels = {0, 1}
    RoundtripPkts = 2
    AuthTries = 2
    Lines = 2
    Window = 1
    BufRoom = 3
    MaxData = 2
    MaxKeys = 1
    MaxNoise = 1
INVARIANTS InStep OutputIsWhole CreditKept
PROPERTIES OpeningEnds CloseIsNoticed
CHECK_DEADLOCK FALSE
