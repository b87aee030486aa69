SPECIFICATION MCSpec
CONSTANTS
    Peers = {"p", "q"}
    Mesh = {"p"}
    Topics = {"t"}
    TopicOf <- MCTopicOf
    Local = {"l"}
    Remote = {"a", "b", "c"}
    AuthorOf <- MCAuthorOf
    NoPeer = NoPeer
    Signed = TRUE
    flood_publish = FALSE
    history_length = 2
    history_gossip = 1
    duplicate_cache_time = 3
    iwant_followup_time = 1
    fanout_ttl = 2
    kTtl = 1
    kCapacity = 1
    max_ihave_length = 2
    max_ihave_messages = 2
    gossip_retransimission = 1
INVARIANTS
    CacheSound
PROPERTIES
    HeartbeatKeeps
    DeliveredOnce
    PromisesKept
