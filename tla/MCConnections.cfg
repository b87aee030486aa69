SPECIFICATION MCSpec
CONSTANTS
    p1 = p1
    p2 = p2
    c1 = c1
    c2 = c2
    c3 = c3
    Parts = {"host", "listener"}
    Peers = {p1, p2}
    Conns = {c1, c2, c3}
    remotePeer <- MCRemotePeer
    MaxStreams = 1
    Addresses = {a1, a2}
    Dialable = {a1}
    Listeners = {"k", "l"}
    ListenAddresses = {"any", "fixed", "tcp"}
    Supported = {"any", "fixed"}
    Anywhere = {"any"}
    MaxArrivals = 2
INVARIANTS
    TableSound
    ConnectedIsTrue
    ListenersSound
PROPERTIES
    ConnectionsHandled
CHECK_DEADLOCK FALSE
