----------------------------- MODULE GossipMesh -----------------------------
(* The mesh of one topic of Gossip: who is connected, what the peers         *)
(* announced, whom the node chose as mesh peers, whom it must leave alone,   *)
(* and the GRAFT and PRUNE it queued.  Topics share nothing but the score    *)
(* and the outgoing batch of a peer, so one topic shows all of the mesh      *)
(* logic.  Scores are small integers that change on their own between the    *)
(* steps; the circular buffer of backoffs is BackoffHorizon, which           *)
(* TopicBackoff implements.                                                  *)
EXTENDS Integers, SequencesExt

CONSTANTS
    Peers,                          \* peer ids
    Scores,                         \* values a score can have
    mesh_n, mesh_n_low, mesh_n_high, mesh_outbound_min,
    retain_scores,
    backoff_slack,                  \* in heartbeats
    prune_slots,                    \* prune_backoff / heartbeat_interval + slack
    publish_threshold, graylist_threshold,
    opportunistic_graft_threshold, opportunistic_graft_peers,
    flood_publish,
    protocol_versions               \* the kinds of peers the node can talk to

ASSUME MeshAssumption ==
    /\ IsFiniteSet(Peers)
    /\ {mesh_n, mesh_n_low, mesh_n_high, mesh_outbound_min, retain_scores,
        backoff_slack, prune_slots, opportunistic_graft_peers} \subseteq Nat
    /\ Scores \subseteq Int /\ 0 \in Scores
    /\ {publish_threshold, graylist_threshold, opportunistic_graft_threshold} \subseteq Int
    /\ backoff_slack <= prune_slots
    /\ flood_publish \in BOOLEAN
    /\ protocol_versions \subseteq {"floodsub", "gossipsub", "gossipsubv1_1"}

VARIABLES
    connected,    \* Gossip::peers_
    out_,         \* Peer::out_, the node dialled the peer
    peer_kind_,   \* Peer::peer_kind_, "unknown" before the first stream
    announced,    \* peers whose Peer::topics_ has the topic
    score,        \* what Score::score answers
    topic,        \* the entry of topics_: absent, publish_only or subscribed
    peers_,       \* Topic::peers_
    mesh_peers_,  \* Topic::mesh_peers_
    backoff_,     \* heartbeats left in Topic::backoff_, per Peer object
    mesh_active,  \* peers whose TopicStats::mesh_active is set
    graft,        \* peers with the topic in batch_->graft
    prune         \* peers with the topic in batch_->prune

peerVars == <<connected, out_, peer_kind_, score>>
vars == <<connected, out_, peer_kind_, announced, score, topic, peers_,
          mesh_peers_, backoff_, mesh_active, graft, prune>>

isGossipsub(p) == peer_kind_[p] \in {"gossipsub", "gossipsubv1_1"}
isGossipsubv1_1(p) == peer_kind_[p] = "gossipsubv1_1"

below(p, threshold) == score[p] < threshold

saturating_sub(a, b) == IF a > b THEN a - b ELSE 0

Init ==
    /\ connected = {}
    /\ out_ = [p \in Peers |-> FALSE]
    /\ peer_kind_ = [p \in Peers |-> "unknown"]
    /\ announced = {}
    /\ score = [p \in Peers |-> 0]
    /\ topic = "absent"
    /\ peers_ = {}
    /\ mesh_peers_ = {}
    /\ backoff_ = [p \in Peers |-> 0]
    /\ mesh_active = {}
    /\ graft = {}
    /\ prune = {}

-----------------------------------------------------------------------------
(* Choosing peers.                                                           *)

(* ChoosePeers::choose: count of the gossipsub peers among the candidates,   *)
(* all of them if there are not enough.                                      *)
choose(candidates, count) ==
    LET able == {p \in candidates : isGossipsub(p)}
    IN  {S \in SUBSET able :
            Cardinality(S) = IF Cardinality(able) > count THEN count ELSE Cardinality(able)}

(* The predicate under which the node grafts on its own account.             *)
Graftable(mesh, backoff) ==
    {p \in peers_ \ mesh : backoff[p] = 0 /\ ~below(p, 0)}

(* Fanout peers of a topic that is only published to.                        *)
Fanout(all, mesh) == {p \in all \ mesh : ~below(p, publish_threshold)}

meshOutCount(mesh) == Cardinality({p \in mesh : out_[p]})

(* update_backoff for a set of peers; the later horizon wins.                *)
BackedOff(backoff, S, slots) ==
    [p \in Peers |-> IF p \in S /\ slots > backoff[p] THEN slots ELSE backoff[p]]

(* make_prune                                                                *)
PruneBackoff(backoff, S) == BackedOff(backoff, {p \in S : isGossipsubv1_1(p)}, prune_slots)

get_backoff_time(p) == saturating_sub(backoff_[p], backoff_slack)

-----------------------------------------------------------------------------
(* Connections and streams.                                                  *)

(* on_peer_connected, or handle for a peer whose event came before start     *)
PeerConnected(p, out) ==
    /\ p \notin connected
    /\ connected' = connected \cup {p}
    /\ out_' = [out_ EXCEPT ![p] = out]
    /\ UNCHANGED <<peer_kind_, announced, score, topic, peers_, mesh_peers_, backoff_,
                   mesh_active, graft, prune>>

(* updatePeerKind, with the first stream in either direction                 *)
updatePeerKind(p, kind) ==
    /\ p \in connected
    /\ peer_kind_[p] = "unknown"
    /\ peer_kind_' = [peer_kind_ EXCEPT ![p] = kind]
    /\ UNCHANGED <<connected, out_, announced, score, topic, peers_, mesh_peers_,
                   backoff_, mesh_active, graft, prune>>

(* The Peer object goes, and with it all that is stored in it or for it: a   *)
(* peer that comes back has no backoff.                                      *)
PeerDropped(p) ==
    /\ out_' = [out_ EXCEPT ![p] = FALSE]
    /\ peer_kind_' = [peer_kind_ EXCEPT ![p] = "unknown"]
    /\ backoff_' = [backoff_ EXCEPT ![p] = 0]
    /\ graft' = graft \ {p}
    /\ prune' = prune \ {p}

(* on_peer_disconnected: the topics the peer announced forget it.            *)
PeerDisconnected(p) ==
    /\ p \in connected
    /\ connected' = connected \ {p}
    /\ score' = [score EXCEPT ![p] = IF @ > 0 THEN 0 ELSE @]
    /\ mesh_active' = mesh_active \ {p}
    /\ peers_' = IF p \in announced THEN peers_ \ {p} ELSE peers_
    /\ mesh_peers_' = IF p \in announced THEN mesh_peers_ \ {p} ELSE mesh_peers_
    /\ announced' = announced \ {p}
    /\ PeerDropped(p)
    /\ UNCHANGED topic

(* The writer of checkWrite takes the batch.                                 *)
TakeBatch(p) ==
    /\ p \in graft \cup prune
    /\ graft' = graft \ {p}
    /\ prune' = prune \ {p}
    /\ UNCHANGED <<peerVars, announced, topic, peers_, mesh_peers_, backoff_, mesh_active>>

(* Deliveries, penalties and decay move the score of a peer; the score of    *)
(* one that left can only expire.                                            *)
Rescore(p, s) ==
    /\ p \in connected \/ s = 0
    /\ score' = [score EXCEPT ![p] = s]
    /\ UNCHANGED <<connected, out_, peer_kind_, announced, topic, peers_, mesh_peers_,
                   backoff_, mesh_active, graft, prune>>

-----------------------------------------------------------------------------
(* Calls of the application.                                                 *)

(* subscribe of a topic Gossip does not have yet                             *)
subscribeNew ==
    /\ topic = "absent"
    /\ topic' = "subscribed"
    /\ peers_' = announced
    /\ UNCHANGED <<peerVars, announced, mesh_peers_, backoff_, mesh_active, graft, prune>>

(* subscribe of a publish only topic: the fanout peers that may be grafted   *)
(* come first, then others, up to mesh_n.                                    *)
subscribeUpgrade ==
    /\ topic = "publish_only"
    /\ topic' = "subscribed"
    /\ LET able == {p \in mesh_peers_ : backoff_[p] = 0 /\ ~below(p, 0)}
       IN  \E kept \in SUBSET able :
            /\ Cardinality(kept) = IF Cardinality(able) > mesh_n
                                   THEN mesh_n ELSE Cardinality(able)
            /\ \E more \in choose(Graftable(kept, backoff_), mesh_n - Cardinality(kept)) :
                /\ mesh_peers_' = kept \cup more
                /\ mesh_active' = mesh_active \cup kept \cup more
                /\ graft' = graft \cup kept \cup more
    /\ UNCHANGED <<peerVars, announced, peers_, backoff_, prune>>

(* publish: getOrCreateTopic and, unless the message is a duplicate, the     *)
(* part of broadcast that fills up the fanout.                               *)
publish ==
    /\ topic' = IF topic = "absent" THEN "publish_only" ELSE topic
    /\ peers_' = IF topic = "absent" THEN announced ELSE peers_
    /\ \/ UNCHANGED mesh_peers_
       \/ /\ ~flood_publish
          /\ topic' = "publish_only"
          /\ \E more \in choose(Fanout(peers_', mesh_peers_),
                                saturating_sub(mesh_n, Cardinality(mesh_peers_))) :
                mesh_peers_' = mesh_peers_ \cup more
    /\ UNCHANGED <<peerVars, announced, backoff_, mesh_active, graft, prune>>

-----------------------------------------------------------------------------
(* onMessage.  An RPC is handled in one go, so one with several elements is  *)
(* a run of these steps.  Its stream has set the kind of the peer.           *)

Receives(p) ==
    /\ p \in connected
    /\ peer_kind_[p] # "unknown"
    /\ ~below(p, graylist_threshold)

(* SUBSCRIBE, with the opportunistic graft                                   *)
onSubscribe(p) ==
    /\ Receives(p)
    /\ announced' = announced \cup {p}
    /\ peers_' = IF topic = "absent" THEN peers_ ELSE peers_ \cup {p}
    /\ IF /\ topic = "subscribed"
          /\ isGossipsub(p)
          /\ Cardinality(mesh_peers_) < mesh_n_low
          /\ p \notin mesh_peers_
          /\ backoff_[p] = 0
          /\ ~below(p, 0)
       THEN /\ mesh_peers_' = mesh_peers_ \cup {p}
            /\ mesh_active' = mesh_active \cup {p}
            /\ graft' = graft \cup {p}
       ELSE UNCHANGED <<mesh_peers_, mesh_active, graft>>
    /\ UNCHANGED <<peerVars, topic, backoff_, prune>>

Faulty_RemoveUnscored(p, slots, always) ==
    /\ mesh_peers_' = mesh_peers_ \ {p}
    /\ backoff_' = IF topic # "absent" /\ (always \/ p \in mesh_peers_)
                   THEN BackedOff(backoff_, {p}, slots)
                   ELSE backoff_
    /\ UNCHANGED mesh_active

(* remove_peer_from_mesh: a backoff is noted if the peer was in the mesh, or *)
(* always.                                                                   *)
remove_peer_from_mesh(p, slots, always) ==
    /\ mesh_peers_' = mesh_peers_ \ {p}
    /\ mesh_active' = IF p \in mesh_peers_ THEN mesh_active \ {p} ELSE mesh_active
    /\ backoff_' = IF topic # "absent" /\ (always \/ p \in mesh_peers_)
                   THEN BackedOff(backoff_, {p}, slots)
                   ELSE backoff_

(* UNSUBSCRIBE                                                               *)
onUnsubscribe(p) ==
    /\ Receives(p)
    /\ announced' = announced \ {p}
    /\ peers_' = peers_ \ {p}
    /\ remove_peer_from_mesh(p, prune_slots, FALSE)
    /\ UNCHANGED <<peerVars, topic, graft, prune>>

(* PRUNE, with the backoff it names or the default                           *)
onPrune(p, slots) ==
    /\ Receives(p)
    /\ isGossipsub(p)
    /\ remove_peer_from_mesh(p, slots, TRUE)
    /\ UNCHANGED <<peerVars, announced, topic, peers_, graft, prune>>

(* The conditions under which a GRAFT is accepted                            *)
accept(p) ==
    /\ get_backoff_time(p) = 0
    /\ out_[p] \/ Cardinality(mesh_peers_) <= mesh_n_high
    /\ ~below(p, 0)

(* GRAFT: into the mesh, or refused with a PRUNE; too early it also costs    *)
(* score.                                                                    *)
onGraft(p) ==
    /\ Receives(p)
    /\ isGossipsub(p)
    /\ announced' = announced \cup {p}
    /\ peers_' = IF topic = "absent" THEN peers_ ELSE peers_ \cup {p}
    /\ \/ /\ topic # "subscribed" \/ p \in mesh_peers_
          /\ UNCHANGED <<score, mesh_peers_, mesh_active, backoff_, prune>>
       \/ /\ topic = "subscribed" /\ p \notin mesh_peers_
          /\ accept(p)
          /\ mesh_peers_' = mesh_peers_ \cup {p}
          /\ mesh_active' = mesh_active \cup {p}
          /\ UNCHANGED <<score, backoff_, prune>>
       \/ /\ topic = "subscribed" /\ p \notin mesh_peers_
          /\ ~accept(p)
          /\ IF get_backoff_time(p) > 0
             THEN \E s \in Scores : s <= score[p] /\ score' = [score EXCEPT ![p] = s]
             ELSE UNCHANGED score
          /\ mesh_active' = mesh_active \ {p}
          /\ backoff_' = PruneBackoff(backoff_, {p})
          /\ prune' = prune \cup {p}
          /\ UNCHANGED mesh_peers_
    /\ UNCHANGED <<connected, out_, peer_kind_, topic, graft>>

-----------------------------------------------------------------------------
(* heartbeat                                                                 *)

(* TopicBackoff::shift                                                       *)
Shifted == [p \in Peers |-> saturating_sub(backoff_[p], 1)]

(* The order in which an oversized mesh is trimmed: by score, highest first, *)
(* the ones before the last retain_scores shuffled again.                    *)
TrimOrders(mesh) ==
    {s \in SetToSeqs(mesh) : \A i, j \in 1..Len(s) :
        i < j /\ j > Len(s) - retain_scores => score[s[i]] >= score[s[j]]}

(* One peer after the other is pruned until mesh_n are left, but outbound    *)
(* ones only as long as there are more than mesh_outbound_min.               *)
Trim(mesh, order) ==
    LET prunePeer(kept, p) ==
            IF \/ Cardinality(kept) <= mesh_n
               \/ out_[p] /\ meshOutCount(kept) <= mesh_outbound_min
            THEN kept
            ELSE kept \ {p}
    IN  FoldLeft(prunePeer, mesh, order)

Faulty_BalanceIgnoresBackoff(mesh, backoff) ==
    IF Cardinality(mesh) < mesh_n_low
    THEN {mesh \cup more :
            more \in choose({p \in peers_ \ mesh : ~below(p, 0)}, mesh_n - Cardinality(mesh))}
    ELSE {mesh}

Filled(mesh, backoff) ==
    {mesh \cup more : more \in choose(Graftable(mesh, backoff),
                                      saturating_sub(mesh_n, Cardinality(mesh)))}

Trimmed(mesh) ==
    {kept \in SUBSET mesh : \E order \in TrimOrders(mesh) : kept = Trim(mesh, order)}

(* Too few mesh peers are filled up, too many are trimmed.                   *)
Balanced(mesh, backoff) ==
    IF Cardinality(mesh) < mesh_n_low THEN Filled(mesh, backoff)
    ELSE IF Cardinality(mesh) > mesh_n_high THEN Trimmed(mesh)
    ELSE {mesh}

Faulty_NoOutboundGraft(mesh, backoff) == {mesh}

(* A mesh that is large enough gets the outbound peers it lacks.             *)
WithOutbound(mesh, backoff) ==
    IF Cardinality(mesh) >= mesh_n_low
    THEN {mesh \cup more :
            more \in choose({p \in Graftable(mesh, backoff) : out_[p]},
                            saturating_sub(mesh_outbound_min, meshOutCount(mesh)))}
    ELSE {mesh}

(* scores[k] after sorting the scores of the mesh                            *)
Kth(mesh, k) ==
    CHOOSE v \in {score[p] : p \in mesh} :
        /\ Cardinality({p \in mesh : score[p] < v}) <= k
        /\ Cardinality({p \in mesh : score[p] <= v}) > k

(* Twice the value the code uses as median.  For two peers it reads past the *)
(* end of scores, where any value may be.                                    *)
Medians(mesh) ==
    LET n == Cardinality(mesh)
        middle == n \div 2
    IN  CASE n % 2 = 1 -> {2 * Kth(mesh, middle)}
          [] n = 2 -> {Kth(mesh, 0) + s : s \in Scores}
          [] OTHER -> {Kth(mesh, middle - 1) + Kth(mesh, middle + 1)}

(* The peers without a backoff whose score is above the median.  The prunes  *)
(* of this heartbeat have changed the scores of the pruned, any of whom may  *)
(* be among them again.                                                      *)
AboveMedian(mesh, backoff, median, pruned, again) ==
    {p \in peers_ \ mesh :
        /\ backoff[p] = 0
        /\ IF p \in pruned THEN p \in again ELSE 2 * score[p] > median}

(* The opportunistic graft, at the heartbeats it is due                      *)
OpportunisticGraft(mesh, backoff, pruned) ==
    \/ mesh_peers_' = mesh
    \/ /\ Cardinality(mesh) > 1
       /\ \E median \in Medians(mesh), again \in SUBSET pruned :
            /\ median < 2 * opportunistic_graft_threshold
            /\ \E more \in choose(AboveMedian(mesh, backoff, median, pruned, again),
                                  opportunistic_graft_peers) :
                 mesh_peers_' = mesh \cup more

heartbeatSubscribed ==
    /\ topic = "subscribed"
    /\ LET bad == {p \in mesh_peers_ : below(p, 0)}
           mesh == mesh_peers_ \ bad
           backoff == PruneBackoff(Shifted, bad)
       IN  \E balanced \in Balanced(mesh, backoff) :
            LET pruned == bad \cup (mesh \ balanced)
            IN  /\ backoff_' = PruneBackoff(backoff, mesh \ balanced)
                /\ \E outbound \in WithOutbound(balanced, backoff_') :
                     OpportunisticGraft(outbound, backoff_', pruned)
                /\ LET grafted == mesh_peers_' \ (mesh \cap balanced)
                   IN  /\ mesh_active' = (mesh_active \ pruned) \cup grafted
                       /\ graft' = graft \cup grafted
                       /\ prune' = prune \cup pruned
    /\ UNCHANGED <<peerVars, announced, topic, peers_>>

(* A topic that is only published to keeps its fanout while it is in use...  *)
heartbeatFanout ==
    /\ topic = "publish_only"
    /\ backoff_' = Shifted
    /\ LET mesh == {p \in mesh_peers_ : ~below(p, publish_threshold)}
       IN  \E more \in choose(Fanout(peers_, mesh),
                              saturating_sub(mesh_n, Cardinality(mesh))) :
             mesh_peers_' = mesh \cup more
    /\ UNCHANGED <<peerVars, announced, topic, peers_, mesh_active, graft, prune>>

(* ...and is dropped fanout_ttl after last_publish_.                         *)
heartbeatDrop ==
    /\ topic = "publish_only"
    /\ topic' = "absent"
    /\ peers_' = {}
    /\ mesh_peers_' = {}
    /\ backoff_' = [p \in Peers |-> 0]
    /\ UNCHANGED <<peerVars, announced, mesh_active, graft, prune>>

heartbeat == heartbeatSubscribed \/ heartbeatFanout \/ heartbeatDrop

Next ==
    \/ \E p \in Peers :
        \/ \E out \in BOOLEAN : PeerConnected(p, out)
        \/ \E kind \in protocol_versions : updatePeerKind(p, kind)
        \/ PeerDisconnected(p)
        \/ TakeBatch(p)
        \/ \E s \in Scores : Rescore(p, s)
        \/ onSubscribe(p) \/ onUnsubscribe(p) \/ onGraft(p)
        \/ \E slots \in 0..prune_slots : onPrune(p, slots)
    \/ subscribeNew \/ subscribeUpgrade \/ publish
    \/ heartbeat

Spec == Init /\ [][Next]_vars

-----------------------------------------------------------------------------
(* The members have the types the classes declare.                           *)
TypeOK ==
    /\ connected \in SUBSET Peers
    /\ out_ \in [Peers -> BOOLEAN]
    /\ peer_kind_ \in [Peers -> protocol_versions \cup {"unknown"}]
    /\ announced \in SUBSET Peers
    /\ score \in [Peers -> Scores]
    /\ topic \in {"absent", "publish_only", "subscribed"}
    /\ peers_ \in SUBSET Peers
    /\ mesh_peers_ \in SUBSET Peers
    /\ backoff_ \in [Peers -> 0..prune_slots]
    /\ mesh_active \in SUBSET Peers
    /\ graft \in SUBSET Peers
    /\ prune \in SUBSET Peers

(* Every mesh peer is a connected gossipsub peer that announced the topic.   *)
(* on_peer_disconnected looks only at the topics a peer announced, so a mesh *)
(* peer that did not would stay in the mesh, and be written to, for ever.    *)
MeshWithinTopic ==
    /\ mesh_peers_ \subseteq peers_
    /\ peers_ = IF topic = "absent" THEN {} ELSE announced
    /\ announced \subseteq connected
    /\ \A p \in mesh_peers_ : isGossipsub(p)

(* Score believes a peer to be in the mesh exactly if it is in the mesh of a *)
(* subscribed topic, so time in mesh and missing deliveries are counted for  *)
(* the right peers, whichever of the two sides ended the membership.         *)
ScoreFollowsMesh ==
    mesh_active = IF topic = "subscribed" THEN mesh_peers_ ELSE {}

(* A peer whose backoff runs, the slack aside, is not in the mesh of a       *)
(* subscribed topic, not even one that was a fanout peer before.             *)
BackoffOutsideMesh ==
    topic = "subscribed" => \A p \in mesh_peers_ : get_backoff_time(p) = 0

(* Topic, mesh, score and backoff agree about every peer.                    *)
MeshSound == TypeOK /\ MeshWithinTopic /\ ScoreFollowsMesh /\ BackoffOutsideMesh

(* The node never queues a GRAFT for a peer whose backoff, slack included,   *)
(* still runs after the step, the ones pruned in the same heartbeat among    *)
(* them.                                                                     *)
NoGraftInBackoff ==
    [][\A p \in Peers : p \in graft' \ graft => backoff_'[p] = 0]_vars

(* The peers that dialled in can not crowd the mesh: beyond mesh_n_high at   *)
(* most one more is accepted, or the opportunistic ones are added.           *)
InboundBounded ==
    topic = "subscribed" =>
        Cardinality({p \in mesh_peers_ : ~out_[p]}) <=
            mesh_n_high + (IF opportunistic_graft_peers > 1
                           THEN opportunistic_graft_peers ELSE 1)

(* What a heartbeat leaves too small, or with too few outbound peers, could  *)
(* not be repaired: there is no peer left to graft.                          *)
Repairs ==
    heartbeatSubscribed =>
        LET left == {p \in Graftable(mesh_peers_', backoff_') : isGossipsub(p)}
        IN  /\ Cardinality(mesh_peers_') < mesh_n_low => left = {}
            /\ /\ Cardinality(mesh_peers_') >= mesh_n_low
               /\ meshOutCount(mesh_peers_') < mesh_outbound_min
               => \A p \in left : ~out_[p]
=============================================================================
