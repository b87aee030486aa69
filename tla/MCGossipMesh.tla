---------------------------- MODULE MCGossipMesh ----------------------------
(* A mesh that wants one of two or three peers, so that it can be too small, *)
(* too large and without an outbound peer.  `part` says which instance moves:*)
(*  - kinds: two peers of every kind, with scores that cross each threshold; *)
(*  - trim: three peers of the newest kind, of which two have to be trimmed, *)
(*    with variables of its own.                                             *)
EXTENDS GossipMesh, TLC

CONSTANT TrimPeers

VARIABLES part, connectedT, outT, peer_kindT, announcedT, scoreT, topicT,
          peersT, mesh_peersT, backoffT, mesh_activeT, graftT, pruneT

MCScores == -2..1
MCThreshold == -1
Symmetric == Permutations(Peers) \cup Permutations(TrimPeers)

Three == INSTANCE GossipMesh WITH
    Peers <- TrimPeers, Scores <- -1..0, backoff_slack <- 0, prune_slots <- 1,
    protocol_versions <- {"gossipsubv1_1"},
    connected <- connectedT, out_ <- outT, peer_kind_ <- peer_kindT,
    announced <- announcedT, score <- scoreT, topic <- topicT,
    peers_ <- peersT, mesh_peers_ <- mesh_peersT, backoff_ <- backoffT,
    mesh_active <- mesh_activeT, graft <- graftT, prune <- pruneT

trimVars == <<connectedT, outT, peer_kindT, announcedT, scoreT, topicT,
              peersT, mesh_peersT, backoffT, mesh_activeT, graftT, pruneT>>

MCInit == part \in {"kinds", "trim"} /\ Init /\ Three!Init

MCNext ==
    /\ UNCHANGED part
    /\ \/ part = "kinds" /\ Next /\ UNCHANGED trimVars
       \/ part = "trim" /\ Three!Next /\ UNCHANGED vars

MCSpec == MCInit /\ [][MCNext]_<<part, vars, trimVars>>

-----------------------------------------------------------------------------
(* Properties that take three peers.                                         *)

(* The heartbeat trims and refills the mesh as far as it can: what it leaves *)
(* too small, or with too few outbound peers, could not be repaired, and the *)
(* peers that dialled in can not crowd the mesh: beyond mesh_n_high at most  *)
(* one more is accepted, or the opportunistic ones are added.                *)
TrimRepairs == [][Three!Repairs /\ Three!InboundBounded']_trimVars
=============================================================================
