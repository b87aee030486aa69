SPECIFICATION MCSpec
CONSTANTS
    Parts = {"dialer", "engine", "fairEngine", "keys", "digests", "tls"}
    Calls = {d1, d2, d3}
    NoCall = NoCall
    Addresses = {a1, a2, tcp}
    Dialable = {a1, a2}
    NoCtx = NoCtx
    MaxAddresses = 2
    MaxInbound = 1
    Streams = {"s", "t"}
    MaxOpen = 1
INVARIANTS
    DialSound
    TriedOnce
    EngineSound
    KeysSound
    PeersProven
PROPERTIES
    GivesUpLast
    CallsReturn
CHECK_DEADLOCK FALSE
