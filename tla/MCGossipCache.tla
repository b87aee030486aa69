--------------------------- MODULE MCGossipCache ---------------------------
(* GossipCache with one topic, a peer p in the mesh and a peer q outside;    *)
(* `part` says which peers and messages come up.                             *)
(*  - relay: both peers, one message of others;                              *)
(*  - ask: q announces more messages than may be asked for;                  *)
(*  - settle: q, one message of this node and one of others, with fairness.  *)
EXTENDS GossipCache

VARIABLE part

(* All messages are of one topic and by authors that are not connected.      *)
MCTopicOf == [m \in Messages |-> "t"]
MCAuthorOf == [m \in Remote |-> NoPeer]

ASSUME MCCacheAssumption == CacheAssumption

mcPeers == IF part = "relay" THEN {"p", "q"} ELSE {"q"}
mcMessages ==
    CASE part = "relay" -> {"a"} [] part = "ask" -> {"a", "b", "c"} [] part = "settle" -> {"a", "l"}

(* Only the peers of the part send, and only of its messages; only in relay  *)
(* does anyone send IWANT or IDONTWANT.                                      *)
Within ==
    /\ DOMAIN duplicate_cache_ \subseteq mcMessages
    /\ DOMAIN gossip_promises_ \subseteq mcMessages \X mcPeers
    /\ \A p \in Peers : DOMAIN dont_send_[p] \subseteq mcMessages
    /\ part # "relay" =>
        /\ count_received_ihave_["p"] = 0
        /\ \A p \in Peers : dont_send_[p] = << >>
        /\ \A id \in DOMAIN message_cache_ : message_cache_[id] = [p \in Peers |-> 0]

mcVars == <<part, vars>>

MCInit == part \in {"relay", "ask", "settle"} /\ Init

MCNext == UNCHANGED part /\ Next /\ Within'

(* The fairness of GossipCache, whose steps Within never keeps back          *)
MCSpec ==
    /\ MCInit /\ [][MCNext]_mcVars
    /\ WF_vars(part = "settle" /\ heartbeat)
    /\ WF_vars(part = "settle" /\ Tick)

-----------------------------------------------------------------------------
(* Every promise is settled: kept, or counted against the peer.              *)
PromisesKept == part = "settle" => PromisesSettled
=============================================================================
