------------------------------ MODULE MCGossip ------------------------------
(* What gossip keeps for a peer, side by side: `part` says which moves.      *)
(*  - backoff: two peers, a buffer of four slots that is turned several      *)
(*    times, 18-valued words so that every backoff a PRUNE can carry, the    *)
(*    ones that become negative included, is tried;                          *)
(*  - score: one peer and one message, with counters in halves;              *)
(*  - peer: two connections to a peer, in any overlap and before or after    *)
(*    start, and three messages.                                             *)
EXTENDS GossipProofs

CONSTANT Parts

VARIABLE part

MCPenalty == -1
MCGraylist == -4

ASSUME MCScoreAssumption == S!ScoreAssumption

bookVars == <<peer_stats_, deliveries_, duplicate_cache_, connected, left, credits>>
peerVars == <<begun, conn, early, present, peer_topics, topic, stream_out_, is_connecting_,
              batch_, writer, unsent, published, written, told>>
mcVars == <<part, vars, bookVars, peerVars>>

MCInit == part \in Parts /\ Init /\ S!Init /\ P!Init

MCNext ==
    /\ UNCHANGED part
    /\ \/ part = "backoff" /\ Next /\ UNCHANGED <<bookVars, peerVars>>
       \/ part = "score" /\ S!Next /\ UNCHANGED <<vars, peerVars>>
       \/ part = "peer" /\ P!Next /\ UNCHANGED <<vars, bookVars>>

(* The fairness of ScoreBook and of GossipPeer.                              *)
MCSpec ==
    /\ MCInit /\ [][MCNext]_mcVars
    /\ WF_bookVars(part = "score" /\ S!onDecay)
    /\ WF_peerVars(part = "peer" /\ (P!StreamOpened \/ P!StreamFailed))
    /\ WF_peerVars(part = "peer" /\ P!WriterResumes)
    /\ WF_peerVars(part = "peer" /\ (P!WriteDone \/ P!WriteFailed))
    /\ \A c \in Conns :
        WF_peerVars(part = "peer" /\ (P!ConnectionClosed(c) \/ P!on_peer_disconnected(c)))

-----------------------------------------------------------------------------
(* What has to happen, and what the documentation says.                      *)

(* Nothing is kept for ever: a batch queued while the writer is at work is   *)
(* taken up, or the stream lost, and the statistics of a peer that stays     *)
(* away are released.                                                        *)
NothingKept ==
    /\ part = "peer" => P!BatchTakenUp
    /\ part = "score" => S!StatsReleased

(* "Subscribe locally to a topic: create Topic, announce to peers": a peer   *)
(* the node can write to has been told of the subscription.                  *)
SubscriptionAnnounced == P!SubscriptionAnnounced
=============================================================================
