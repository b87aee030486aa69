CONSTANTS
    Peers = {p1, p2}
    TrimPeers = {q1, q2, q3}
    Scores <- MCScores
    mesh_n = 1
    mesh_n_low = 1
    mesh_n_high = 1
    mesh_outbound_min = 1
    retain_scores = 1
    backoff_slack = 1
    prune_slots = 2
    publish_threshold <- MCThreshold
    graylist_threshold <- MCThreshold
    opportunistic_graft_threshold = 1
    opportunistic_graft_peers = 1
    flood_publish = FALSE
    protocol_versions = {"floodsub", "gossipsub", "gossipsubv1_1"}
SPECIFICATION MCSpec
SYMMETRY Symmetric
INVARIANTS
    MeshSound
PROPERTIES
    NoGraftInBackoff
    TrimRepairs
