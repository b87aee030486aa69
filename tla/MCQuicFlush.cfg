SPECIFICATION MCSpec
CONSTANTS
    Parts = {"fairEngine"}
    Calls = {d1, d2, d3}
    NoCall = NoCall
    Addresses = {a1, a2, tcp}
    Dialable = {a1, a2}
    NoCtx = NoCtx
    MaxAddresses = 2
    MaxInbound = 1
    Streams = {"s", "t"}
    MaxOpen = 1
INVARIANT
    ProcessSkipsClosed
CHECK_DEADLOCK FALSE
