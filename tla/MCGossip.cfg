SPECIFICATION MCSpec
CONSTANTS
    Parts = {"backoff", "score", "peer"}
    Peers = {p1, p2}
    prune_backoff = 5
    heartbeat_interval = 2
    backoff_slack = 1
    WordLimit = 18
    MaxSlot = 11
    ScoredPeers = {"p"}
    Messages = {"m"}
    One = 2
    decay_to_zero = 1
    quantum = 1
    time_in_mesh_cap = 1
    time_in_mesh_weight = 1
    first_message_deliveries_cap = 4
    first_message_deliveries_weight = 1
    mesh_message_deliveries_cap = 4
    mesh_message_deliveries_threshold = 4
    mesh_message_deliveries_activation = 1
    mesh_message_deliveries_weight <- MCPenalty
    mesh_failure_penalty_weight <- MCPenalty
    behaviour_penalty_weight <- MCPenalty
    topic_score_cap = 10
    graylist_threshold <- MCGraylist
    retain_score = 2
    duplicate_cache_time = 1
    kTimeCacheDuration = 2
    MaxPenalty = 4
    MaxFailure = 4
    Conns = {"c1", "c2"}
    NoConn = "no connection"
    MaxMessages = 3
    Flaky = TRUE
INVARIANTS
    BackoffSound
    ScoreSound
    PeerSound
PROPERTIES
    CountsDown
    NoGainByLeaving
    NothingKept
CHECK_DEADLOCK FALSE
