SPECIFICATION MCSpec
CONSTANT
    Parts = {"negotiation", "steady", "registry", "ping", "addresses", "store", "identify"}
    Protocols = {"a", "b", "c"}
    kProtocolId = "/multistream/1.0.0"
    kNA = "na"
    MaxProposals = 3
    Flaky = TRUE
    Letters = {"/", "a", "b", "c"}
    Names <- MCNames
    Handlers = {"p1", "p2", "p3"}
    Ids <- MCIds
    Streams = {"s1", "s2"}
    Loop = "loop"
    Callers = {"caller"}
    Peers = {"p"}
    Addresses = {"a", "b"}
    MaxTime = 31
    Ratio = 2
    Ttls = {2, 31}
    Jump = 3
    LastTime = 30
    Keys = {"k"}
    PeerProtocols = {"x", "y"}
    Agents = {"ua", "ub"}
    Conns = {"c", "d"}
    PeerOf <- MCPeerOf
    RecentlyConnected = 2
INVARIANTS
    NegotiationSound
    HandlersServe
    PingSound
    StoredWhole
PROPERTIES
    EndsReturn
    PingGoes
    AddressesKept
CHECK_DEADLOCK FALSE
