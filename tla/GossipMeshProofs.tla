-------------------------- MODULE GossipMeshProofs --------------------------
(* Proofs about GossipMesh for any set of peers and any mesh parameters.     *)
EXTENDS GossipMesh, TLAPS

-----------------------------------------------------------------------------
(* The operators that choose peers and note backoffs.                        *)

Backoffs == [Peers -> 0..prune_slots]

(* update_backoff changes the entries of the given peers only, to the later  *)
(* of two horizons.                                                          *)
LEMMA BackedOffValue ==
    ASSUME NEW b \in Backoffs, NEW S, NEW slots \in 0..prune_slots
    PROVE  /\ BackedOff(b, S, slots) \in Backoffs
           /\ \A p \in Peers \ S : BackedOff(b, S, slots)[p] = b[p]
  BY DEF BackedOff, Backoffs

(* make_prune notes a backoff for the pruned peers only.                     *)
LEMMA PruneBackoffValue ==
    ASSUME NEW b \in Backoffs, NEW S
    PROVE  /\ PruneBackoff(b, S) \in Backoffs
           /\ \A p \in Peers \ S : PruneBackoff(b, S)[p] = b[p]
  <1> DEFINE T == {p \in S : isGossipsubv1_1(p)}
  <1>1. prune_slots \in 0..prune_slots BY MeshAssumption
  <1>2. /\ BackedOff(b, T, prune_slots) \in Backoffs
        /\ \A p \in Peers \ T : BackedOff(b, T, prune_slots)[p] = b[p]
    <2> HIDE DEF T
    <2> QED BY <1>1, BackedOffValue
  <1> QED BY <1>2 DEF PruneBackoff

(* TopicBackoff::shift never lengthens a backoff.                            *)
LEMMA ShiftedValue ==
    ASSUME backoff_ \in Backoffs
    PROVE  Shifted \in Backoffs /\ \A p \in Peers : Shifted[p] <= backoff_[p]
  BY MeshAssumption DEF Shifted, saturating_sub, Backoffs

(* choose returns gossipsub peers among the candidates.                      *)
LEMMA ChooseValue ==
    ASSUME NEW C, NEW n, NEW S \in choose(C, n)
    PROVE  S \subseteq C /\ \A p \in S : isGossipsub(p)
  BY DEF choose

(* Balancing removes mesh peers or adds peers that may be grafted.           *)
LEMMA BalancedValue ==
    ASSUME NEW mesh, NEW b, NEW balanced \in Balanced(mesh, b)
    PROVE  \A p \in balanced : \/ p \in mesh
                               \/ p \in Graftable(mesh, b) /\ isGossipsub(p)
  <1>1. CASE balanced \in Filled(mesh, b)
    <2> DEFINE n == saturating_sub(mesh_n, Cardinality(mesh))
    <2>1. PICK more \in choose(Graftable(mesh, b), n) : balanced = mesh \cup more
      BY <1>1 DEF Filled
    <2> HIDE DEF n
    <2> QED BY <2>1, ChooseValue
  <1>2. CASE balanced \in Trimmed(mesh)
    BY <1>2 DEF Trimmed
  <1> QED BY <1>1, <1>2 DEF Balanced

(* The outbound graft only adds peers that may be grafted.                   *)
LEMMA WithOutboundValue ==
    ASSUME NEW mesh, NEW b, NEW outbound \in WithOutbound(mesh, b)
    PROVE  /\ mesh \subseteq outbound
           /\ \A p \in outbound \ mesh : p \in Graftable(mesh, b) /\ isGossipsub(p)
  <1> DEFINE C == {p \in Graftable(mesh, b) : out_[p]}
             n == saturating_sub(mesh_outbound_min, meshOutCount(mesh))
  <1>1. outbound = mesh \/ \E more \in choose(C, n) : outbound = mesh \cup more
    BY DEF WithOutbound
  <1>2. \A more \in choose(C, n) : more \subseteq C /\ \A p \in more : isGossipsub(p)
    <2> HIDE DEF C, n
    <2> QED BY ChooseValue
  <1> QED BY ZenonT(30), <1>1, <1>2

(* The opportunistic graft only adds peers of the topic without a backoff.   *)
LEMMA OpportunisticValue ==
    ASSUME NEW mesh, NEW b, NEW pruned, OpportunisticGraft(mesh, b, pruned)
    PROVE  /\ mesh \subseteq mesh_peers_'
           /\ \A p \in mesh_peers_' \ mesh : p \in peers_ /\ b[p] = 0 /\ isGossipsub(p)
  <1>1. CASE mesh_peers_' = mesh
    BY <1>1
  <1>2. CASE \E median \in Medians(mesh), again \in SUBSET pruned :
                \E more \in choose(AboveMedian(mesh, b, median, pruned, again),
                                  opportunistic_graft_peers) :
                   mesh_peers_' = mesh \cup more
    <2>1. PICK median \in Medians(mesh), again \in SUBSET pruned :
                \E more \in choose(AboveMedian(mesh, b, median, pruned, again),
                                  opportunistic_graft_peers) :
                   mesh_peers_' = mesh \cup more
      BY <1>2
    <2>2. PICK more \in choose(AboveMedian(mesh, b, median, pruned, again),
                              opportunistic_graft_peers) :
                mesh_peers_' = mesh \cup more
      BY <2>1
    <2>3. /\ more \subseteq AboveMedian(mesh, b, median, pruned, again)
          /\ \A p \in more : isGossipsub(p)
      BY ChooseValue
    <2> QED BY <2>2, <2>3 DEF AboveMedian
  <1> QED BY <1>1, <1>2 DEF OpportunisticGraft

-----------------------------------------------------------------------------
(* The four invariants are inductive together: who is in the mesh decides    *)
(* what Score believes and whose backoff must not run, and the disconnect    *)
(* handler relies on mesh peers having announced the topic.                  *)
IInv ==
    /\ TypeOK
    /\ MeshWithinTopic
    /\ ScoreFollowsMesh
    /\ BackoffOutsideMesh

(* A node without peers and topics satisfies the invariant.                  *)
LEMMA InitInv == Init => IInv
  BY MeshAssumption
  DEF Init, IInv, TypeOK, MeshWithinTopic, ScoreFollowsMesh, BackoffOutsideMesh

(* In a subscribed topic the backoff of a mesh peer is within the slack.     *)
LEMMA MeshBackoff ==
    ASSUME TypeOK
    PROVE  BackoffOutsideMesh <=>
              (topic = "subscribed" => \A p \in mesh_peers_ : backoff_[p] <= backoff_slack)
  BY SMTT(60), MeshAssumption DEF TypeOK, BackoffOutsideMesh, get_backoff_time, saturating_sub

(* Connecting, disconnecting, streams, batches and scores.                   *)
LEMMA PeerStepsInv ==
    ASSUME IInv, NEW p \in Peers,
           \/ \E out \in BOOLEAN : PeerConnected(p, out)
           \/ \E kind \in protocol_versions : updatePeerKind(p, kind)
           \/ PeerDisconnected(p)
           \/ TakeBatch(p)
           \/ \E s \in Scores : Rescore(p, s)
    PROVE  IInv'
  <1> USE DEF IInv, TypeOK, MeshWithinTopic, ScoreFollowsMesh, BackoffOutsideMesh,
              get_backoff_time
  <1>1. ASSUME NEW out \in BOOLEAN, PeerConnected(p, out) PROVE IInv'
    BY <1>1 DEF PeerConnected, isGossipsub
  <1>2. ASSUME NEW kind \in protocol_versions, updatePeerKind(p, kind) PROVE IInv'
    BY <1>2 DEF updatePeerKind, isGossipsub
  <1>3. CASE PeerDisconnected(p)
    <2>1. /\ connected' = connected \ {p} /\ announced' = announced \ {p}
          /\ peers_' = peers_ \ {p} /\ mesh_peers_' = mesh_peers_ \ {p}
          /\ mesh_active' = mesh_active \ {p}
          /\ topic' = topic
      BY <1>3 DEF PeerDisconnected
    <2>2. /\ score' \in [Peers -> Scores] /\ backoff_' \in [Peers -> 0..prune_slots]
          /\ out_' \in [Peers -> BOOLEAN]
          /\ peer_kind_' \in [Peers -> protocol_versions \cup {"unknown"}]
          /\ graft' \in SUBSET Peers /\ prune' \in SUBSET Peers
      BY <1>3, MeshAssumption DEF PeerDisconnected, PeerDropped
    <2>3. \A q \in Peers \ {p} : backoff_'[q] = backoff_[q] /\ peer_kind_'[q] = peer_kind_[q]
      BY <1>3 DEF PeerDisconnected, PeerDropped
    <2>4. TypeOK' BY <2>1, <2>2
    <2>5. MeshWithinTopic' BY <2>1, <2>3 DEF isGossipsub
    <2>6. ScoreFollowsMesh' BY <2>1
    <2>7. BackoffOutsideMesh' BY SMTT(60), <2>1, <2>3
    <2> QED BY SMTT(60), <2>4, <2>5, <2>6, <2>7
  <1>4. CASE TakeBatch(p)
    BY <1>4 DEF TakeBatch, peerVars, isGossipsub
  <1>5. ASSUME NEW s \in Scores, Rescore(p, s) PROVE IInv'
    BY SMTT(60), <1>5 DEF Rescore, isGossipsub
  <1> QED BY SMTT(60), <1>1, <1>2, <1>3, <1>4, <1>5

(* subscribe and publish                                                     *)
LEMMA CallsInv ==
    ASSUME IInv, subscribeNew \/ subscribeUpgrade \/ publish
    PROVE  IInv'
  <1> USE DEF IInv, TypeOK, MeshWithinTopic, ScoreFollowsMesh, BackoffOutsideMesh,
              get_backoff_time, isGossipsub, peerVars
  <1>1. CASE subscribeNew
    BY <1>1 DEF subscribeNew
  <1>2. CASE subscribeUpgrade
    <2>1. PICK kept \in SUBSET {p \in mesh_peers_ : backoff_[p] = 0 /\ ~below(p, 0)} :
            \E more \in choose(Graftable(kept, backoff_), mesh_n - Cardinality(kept)) :
                /\ mesh_peers_' = kept \cup more
                /\ mesh_active' = mesh_active \cup kept \cup more
                /\ graft' = graft \cup kept \cup more
      BY <1>2 DEF subscribeUpgrade
    <2>2. PICK more \in choose(Graftable(kept, backoff_), mesh_n - Cardinality(kept)) :
                /\ mesh_peers_' = kept \cup more
                /\ mesh_active' = mesh_active \cup kept \cup more
                /\ graft' = graft \cup kept \cup more
      BY <2>1
    <2>3. more \subseteq Graftable(kept, backoff_) /\ \A p \in more : isGossipsub(p)
      BY ChooseValue
    <2>4. \A p \in kept \cup more : p \in peers_ /\ backoff_[p] = 0 /\ isGossipsub(p)
      BY SMTT(60), <2>3 DEF Graftable
    <2>5. /\ topic = "publish_only" /\ topic' = "subscribed"
          /\ UNCHANGED <<peerVars, announced, peers_, backoff_, prune>>
      BY SMTT(60), <1>2 DEF subscribeUpgrade
    <2> QED BY SMTT(60), <2>2, <2>4, <2>5, MeshAssumption DEF saturating_sub
  <1>3. CASE publish
    <2>1. /\ topic' = IF topic = "absent" THEN "publish_only" ELSE topic
          /\ peers_' = IF topic = "absent" THEN announced ELSE peers_
          /\ UNCHANGED <<peerVars, announced, backoff_, mesh_active, graft, prune>>
      BY <1>3 DEF publish
    <2>2. CASE mesh_peers_' = mesh_peers_
      BY SMTT(60), <2>1, <2>2
    <2>3. CASE /\ topic' = "publish_only"
               /\ \E more \in choose(Fanout(peers_', mesh_peers_),
                                     saturating_sub(mesh_n, Cardinality(mesh_peers_))) :
                     mesh_peers_' = mesh_peers_ \cup more
      <3> DEFINE n == saturating_sub(mesh_n, Cardinality(mesh_peers_))
      <3>1. PICK more \in choose(Fanout(peers_', mesh_peers_), n) :
                mesh_peers_' = mesh_peers_ \cup more
        BY <2>3
      <3>2. more \subseteq Fanout(peers_', mesh_peers_) /\ \A p \in more : isGossipsub(p)
        <4> HIDE DEF n
        <4> QED BY <3>1, ChooseValue
      <3>3. more \subseteq peers_' BY SMTT(60), <3>2 DEF Fanout
      <3> QED BY SMTT(60), <2>1, <2>3, <3>1, <3>2, <3>3
    <2> QED BY SMTT(60), <1>3, <2>2, <2>3 DEF publish
  <1> QED BY SMTT(60), <1>1, <1>2, <1>3

(* onMessage                                                                 *)
LEMMA MessagesInv ==
    ASSUME IInv, NEW p \in Peers,
           \/ onSubscribe(p) \/ onUnsubscribe(p) \/ onGraft(p)
           \/ \E slots \in 0..prune_slots : onPrune(p, slots)
    PROVE  IInv'
  <1>b. backoff_ \in Backoffs BY DEF IInv, TypeOK, Backoffs
  <1>s. prune_slots \in 0..prune_slots BY MeshAssumption
  <1> USE DEF IInv, TypeOK, MeshWithinTopic, ScoreFollowsMesh, BackoffOutsideMesh,
              get_backoff_time, isGossipsub, peerVars
  <1>1. CASE onSubscribe(p)
    <2>1. TypeOK' BY <1>1 DEF onSubscribe, Receives
    <2>2. MeshWithinTopic' BY <1>1 DEF onSubscribe, Receives
    <2>3. ScoreFollowsMesh' BY SMTT(60), <1>1 DEF onSubscribe
    <2>4. BackoffOutsideMesh' BY <1>1, MeshAssumption DEF onSubscribe, saturating_sub
    <2> QED BY SMTT(60), <2>1, <2>2, <2>3, <2>4
  <1>2. ASSUME NEW slots \in 0..prune_slots, NEW always \in BOOLEAN,
               remove_peer_from_mesh(p, slots, always)
        PROVE  /\ backoff_' \in Backoffs
               /\ \A q \in Peers \ {p} : backoff_'[q] = backoff_[q]
    BY SMTT(60), <1>2, <1>b, BackedOffValue DEF remove_peer_from_mesh
  <1>3. CASE onUnsubscribe(p)
    <2>1. /\ backoff_' \in Backoffs
          /\ \A q \in Peers \ {p} : backoff_'[q] = backoff_[q]
      BY Zenon, <1>2, <1>3, <1>s DEF onUnsubscribe
    <2> QED BY Zenon, <1>3, <2>1 DEF onUnsubscribe, Receives, remove_peer_from_mesh, Backoffs
  <1>4. ASSUME NEW slots \in 0..prune_slots, onPrune(p, slots) PROVE IInv'
    <2>1. /\ backoff_' \in Backoffs
          /\ \A q \in Peers \ {p} : backoff_'[q] = backoff_[q]
      BY ZenonT(30), <1>2, <1>4 DEF onPrune
    <2> QED BY SMTT(60), <1>4, <2>1 DEF onPrune, Receives, remove_peer_from_mesh, Backoffs
  <1>5. CASE onGraft(p)
    <2>0. /\ p \in connected /\ isGossipsub(p)
          /\ announced' = announced \cup {p}
          /\ peers_' = IF topic = "absent" THEN peers_ ELSE peers_ \cup {p}
          /\ UNCHANGED <<connected, out_, peer_kind_, topic, graft>>
      BY <1>5 DEF onGraft, Receives
    <2>1. CASE UNCHANGED <<score, mesh_peers_, mesh_active, backoff_, prune>>
      BY SMTT(60), <2>0, <2>1
    <2>2. CASE /\ topic = "subscribed" /\ p \notin mesh_peers_
               /\ accept(p)
               /\ mesh_peers_' = mesh_peers_ \cup {p}
               /\ mesh_active' = mesh_active \cup {p}
               /\ UNCHANGED <<score, backoff_, prune>>
      BY SMTT(60), <2>0, <2>2 DEF accept
    <2>3. CASE /\ topic = "subscribed" /\ p \notin mesh_peers_
               /\ score' \in [Peers -> Scores]
               /\ mesh_active' = mesh_active \ {p}
               /\ backoff_' = PruneBackoff(backoff_, {p})
               /\ prune' = prune \cup {p}
               /\ UNCHANGED mesh_peers_
      <3>1. /\ backoff_' \in Backoffs
            /\ \A q \in Peers \ {p} : backoff_'[q] = backoff_[q]
        BY <1>b, <2>3, PruneBackoffValue
      <3>2. mesh_peers_' = mesh_peers_ /\ mesh_peers_ \subseteq peers_' BY <2>0, <2>3
      <3>3. TypeOK' BY Zenon, <2>0, <2>3, <3>1 DEF Backoffs
      <3>4. MeshWithinTopic' BY Zenon, <2>0, <2>3, <3>2
      <3>5. ScoreFollowsMesh' BY Zenon, <2>0, <2>3, <3>2
      <3>6. BackoffOutsideMesh' BY Zenon, <2>0, <2>3, <3>1, <3>2
      <3> QED BY Zenon, <3>3, <3>4, <3>5, <3>6
    <2> QED BY SMTT(60), <1>5, <2>1, <2>2, <2>3 DEF onGraft
  <1> QED BY SMTT(60), <1>1, <1>3, <1>4, <1>5

(* What a heartbeat leaves of a subscribed topic: the mesh peers it kept,    *)
(* with backoffs that did not grow, and the ones it grafted, without any.    *)
LEMMA HeartbeatValue ==
    ASSUME IInv, heartbeatSubscribed
    PROVE  /\ backoff_' \in Backoffs
           /\ mesh_peers_' \subseteq peers_
           /\ \A p \in mesh_peers_' : isGossipsub(p)
           /\ \A p \in mesh_peers_' : \/ backoff_'[p] = 0
                                      \/ p \in mesh_peers_ /\ backoff_'[p] <= backoff_[p]
           /\ mesh_active' = mesh_peers_'
           /\ \A p \in graft' \ graft : p \in mesh_peers_' /\ backoff_'[p] = 0
           /\ graft' \subseteq graft \cup mesh_peers_'
           /\ prune' \subseteq prune \cup mesh_peers_
  <1> DEFINE bad == {p \in mesh_peers_ : below(p, 0)}
             mesh == mesh_peers_ \ bad
             backoff == PruneBackoff(Shifted, bad)
  <1>1. PICK balanced \in Balanced(mesh, backoff) :
            LET pruned == bad \cup (mesh \ balanced)
            IN  /\ backoff_' = PruneBackoff(backoff, mesh \ balanced)
                /\ \E outbound \in WithOutbound(balanced, backoff_') :
                     OpportunisticGraft(outbound, backoff_', pruned)
                /\ LET grafted == mesh_peers_' \ (mesh \cap balanced)
                   IN  /\ mesh_active' = (mesh_active \ pruned) \cup grafted
                       /\ graft' = graft \cup grafted
                       /\ prune' = prune \cup pruned
    BY Zenon DEF heartbeatSubscribed
  <1> DEFINE pruned == bad \cup (mesh \ balanced)
             grafted == mesh_peers_' \ (mesh \cap balanced)
  <1>2. PICK outbound \in WithOutbound(balanced, backoff_') :
            OpportunisticGraft(outbound, backoff_', pruned)
    BY Zenon, <1>1
  <1>3. backoff_ \in Backoffs BY DEF IInv, TypeOK, Backoffs
  <1>4. Shifted \in Backoffs /\ \A p \in Peers : Shifted[p] <= backoff_[p]
    BY SMTT(60), <1>3, ShiftedValue
  <1>5. backoff \in Backoffs /\ \A p \in Peers \ bad : backoff[p] = Shifted[p]
    <2> HIDE DEF bad
    <2> QED BY SMTT(60), <1>4, PruneBackoffValue
  <1>6. /\ backoff_' \in Backoffs
        /\ \A p \in Peers \ (mesh \ balanced) : backoff_'[p] = backoff[p]
    <2>1. backoff_' = PruneBackoff(backoff, mesh \ balanced) BY <1>1
    <2> HIDE DEF mesh, backoff
    <2> QED BY SMTT(60), <1>5, <2>1, PruneBackoffValue
  <1>7. \A p \in balanced : p \in mesh \/ (p \in Graftable(mesh, backoff) /\ isGossipsub(p))
    <2> HIDE DEF mesh, backoff
    <2> QED BY BalancedValue
  <1>8. /\ balanced \subseteq outbound
        /\ \A p \in outbound \ balanced : p \in Graftable(balanced, backoff_') /\ isGossipsub(p)
    <2>1. \A b : \A o \in WithOutbound(balanced, b) :
             /\ balanced \subseteq o
             /\ \A p \in o \ balanced : p \in Graftable(balanced, b) /\ isGossipsub(p)
      BY SMTT(60), WithOutboundValue
    <2> QED BY <2>1
  <1>9. /\ outbound \subseteq mesh_peers_'
        /\ \A p \in mesh_peers_' \ outbound : p \in peers_ /\ backoff_'[p] = 0 /\ isGossipsub(p)
    <2> HIDE DEF pruned
    <2> QED BY SMTT(60), <1>2, OpportunisticValue
  <1>10. mesh_peers_ \subseteq peers_ /\ peers_ \subseteq Peers /\ mesh_active = mesh_peers_
         /\ \A p \in mesh_peers_ : isGossipsub(p)
    BY DEF IInv, TypeOK, MeshWithinTopic, ScoreFollowsMesh, heartbeatSubscribed
  <1>11. \A p \in balanced \ mesh : p \in peers_ /\ isGossipsub(p) /\ backoff_'[p] = 0
    BY SMTT(60), <1>6, <1>7, <1>10 DEF Graftable
  <1>12. \A p \in outbound \ balanced : p \in peers_ /\ isGossipsub(p) /\ backoff_'[p] = 0
    BY SMTT(60), <1>8 DEF Graftable
  <1>13. \A p \in mesh \cap balanced : backoff_'[p] <= backoff_[p]
    <2> SUFFICES ASSUME NEW p \in mesh \cap balanced PROVE backoff_'[p] <= backoff_[p]
      OBVIOUS
    <2>1. p \in Peers /\ p \notin bad /\ p \notin mesh \ balanced BY SMTT(60), <1>10
    <2>2. backoff_'[p] = backoff[p] /\ backoff[p] = Shifted[p] BY SMTT(60), <1>5, <1>6, <2>1
    <2> QED BY SMTT(60), <1>4, <2>1, <2>2
  <1>14. \A p \in grafted : p \in peers_ /\ isGossipsub(p) /\ backoff_'[p] = 0
    BY SMTT(60), <1>9, <1>11, <1>12
  <1>15. mesh \cap balanced \subseteq mesh_peers_' BY SMTT(60), <1>8, <1>9
  <1>16. /\ mesh_active' = (mesh_active \ pruned) \cup grafted
         /\ graft' = graft \cup grafted
         /\ prune' = prune \cup pruned
    BY <1>1
  <1>17. mesh_active' = mesh_peers_' BY SMTT(60), <1>10, <1>15, <1>16
  <1> QED BY SMTT(30), <1>6, <1>10, <1>13, <1>14, <1>15, <1>16, <1>17

(* heartbeat                                                                 *)
LEMMA HeartbeatInv ==
    ASSUME IInv, heartbeat
    PROVE  IInv'
  <1>b. backoff_ \in Backoffs BY DEF IInv, TypeOK, Backoffs
  <1>1. CASE heartbeatSubscribed
    <2>1. UNCHANGED <<peerVars, announced, topic, peers_>> /\ topic = "subscribed"
      BY <1>1 DEF heartbeatSubscribed
    <2>2. /\ backoff_' \in Backoffs
          /\ mesh_peers_' \subseteq peers_
          /\ \A p \in mesh_peers_' : isGossipsub(p)
          /\ \A p \in mesh_peers_' : \/ backoff_'[p] = 0
                                     \/ p \in mesh_peers_ /\ backoff_'[p] <= backoff_[p]
          /\ mesh_active' = mesh_peers_'
          /\ graft' \subseteq graft \cup mesh_peers_'
          /\ prune' \subseteq prune \cup mesh_peers_
      BY SMTT(60), <1>1, HeartbeatValue
    <2>3. TypeOK' BY SMTT(60), <2>1, <2>2 DEF IInv, TypeOK, Backoffs, peerVars
    <2>4. MeshWithinTopic'
      BY SMTT(60), <2>1, <2>2 DEF IInv, MeshWithinTopic, isGossipsub, peerVars
    <2>5. ScoreFollowsMesh' BY SMTT(60), <2>1, <2>2 DEF ScoreFollowsMesh
    <2>6. \A p \in mesh_peers_' : backoff_'[p] <= backoff_slack
      <3>1. \A p \in mesh_peers_ : backoff_[p] <= backoff_slack
        BY SMTT(60), <2>1, MeshBackoff DEF IInv
      <3>2. \A p \in Peers : backoff_[p] \in Nat /\ backoff_'[p] \in Nat
        BY SMTT(60), <1>b, <2>2, MeshAssumption DEF Backoffs
      <3>3. mesh_peers_' \subseteq Peers BY <2>3 DEF TypeOK
      <3> QED BY SMTT(60), <2>2, <3>1, <3>2, <3>3, MeshAssumption
    <2>7. BackoffOutsideMesh'
      BY SMTT(60), <2>6, <2>3, MeshAssumption DEF BackoffOutsideMesh, get_backoff_time,
         saturating_sub, TypeOK
    <2> QED BY SMTT(60), <2>3, <2>4, <2>5, <2>7 DEF IInv
  <1>2. CASE heartbeatFanout
    <2> DEFINE mesh == {p \in mesh_peers_ : ~below(p, publish_threshold)}
               n == saturating_sub(mesh_n, Cardinality(mesh))
    <2>1. PICK more \in choose(Fanout(peers_, mesh), n) : mesh_peers_' = mesh \cup more
      BY ZenonT(30), <1>2 DEF heartbeatFanout
    <2>2. more \subseteq Fanout(peers_, mesh) /\ \A p \in more : isGossipsub(p)
      <3> HIDE DEF mesh, n
      <3> QED BY <2>1, ChooseValue
    <2>3. more \subseteq peers_ BY <2>2 DEF Fanout
    <2>4. /\ backoff_' \in Backoffs
          /\ topic = "publish_only"
          /\ UNCHANGED <<peerVars, announced, topic, peers_, mesh_active, graft, prune>>
      BY <1>2, <1>b, ShiftedValue DEF heartbeatFanout
    <2> QED BY SMTT(60), <2>1, <2>2, <2>3, <2>4
      DEF IInv, TypeOK, MeshWithinTopic, ScoreFollowsMesh, BackoffOutsideMesh, Backoffs,
          isGossipsub, peerVars
  <1>3. CASE heartbeatDrop
    BY <1>3, MeshAssumption
    DEF heartbeatDrop, IInv, TypeOK, MeshWithinTopic, ScoreFollowsMesh, BackoffOutsideMesh,
        isGossipsub, peerVars
  <1> QED BY SMTT(60), <1>1, <1>2, <1>3 DEF heartbeat

-----------------------------------------------------------------------------
(* Every step preserves the invariant.                                       *)
LEMMA NextInv == IInv /\ [Next]_vars => IInv'
  <1> SUFFICES ASSUME IInv, [Next]_vars PROVE IInv'
    OBVIOUS
  <1>1. CASE UNCHANGED vars
    BY <1>1 DEF vars, IInv, TypeOK, MeshWithinTopic, ScoreFollowsMesh, BackoffOutsideMesh,
                isGossipsub, get_backoff_time
  <1>2. CASE Next
    BY SMTT(60), <1>2, PeerStepsInv, MessagesInv, CallsInv, HeartbeatInv DEF Next
  <1> QED BY <1>1, <1>2

(* The four invariants hold in every reachable state.                        *)
LEMMA Invariant == Spec => []IInv
  BY InitInv, NextInv, PTL DEF Spec

(* The members of Gossip, Topic and Peer keep their types.                   *)
THEOREM TypeCorrect == Spec => []TypeOK
  <1>1. IInv => TypeOK BY SMTT(60) DEF IInv
  <1> QED BY <1>1, Invariant, PTL

(* A peer that disconnects leaves no trace in the mesh: mesh peers are       *)
(* connected gossipsub peers that announced the topic.                       *)
THEOREM MeshPeersAnnounced == Spec => []MeshWithinTopic
  <1>1. IInv => MeshWithinTopic BY SMTT(60) DEF IInv
  <1> QED BY <1>1, Invariant, PTL

(* Score counts time in mesh for exactly the mesh peers.                     *)
THEOREM ScoreAgrees == Spec => []ScoreFollowsMesh
  <1>1. IInv => ScoreFollowsMesh BY SMTT(60) DEF IInv
  <1> QED BY <1>1, Invariant, PTL

(* No mesh peer of a subscribed topic is in backoff.                         *)
THEOREM BackoffRespected == Spec => []BackoffOutsideMesh
  <1>1. IInv => BackoffOutsideMesh BY DEF IInv
  <1> QED BY <1>1, Invariant, PTL

(* Topic, mesh, score and backoff agree about every peer, for any number of  *)
(* peers and any thresholds.                                                 *)
THEOREM AlwaysSound == Spec => []MeshSound
  <1>1. IInv => MeshSound BY Zenon DEF IInv, MeshSound
  <1> QED BY <1>1, Invariant, PTL

(* Whoever queues a GRAFT, subscribe, onMessage or heartbeat, checked the    *)
(* backoff.                                                                  *)
THEOREM GraftRespectsBackoff == Spec => NoGraftInBackoff
  <1> DEFINE Quiet == \A p \in Peers : p \in graft' \ graft => backoff_'[p] = 0
  <1>1. IInv /\ [Next]_vars => [Quiet]_vars
    <2> SUFFICES ASSUME IInv, Next PROVE Quiet
      OBVIOUS
    <2>1. ASSUME NEW p \in Peers,
                 \/ \E out \in BOOLEAN : PeerConnected(p, out)
                 \/ \E kind \in protocol_versions : updatePeerKind(p, kind)
                 \/ PeerDisconnected(p)
                 \/ TakeBatch(p)
                 \/ \E s \in Scores : Rescore(p, s)
                 \/ onUnsubscribe(p) \/ onGraft(p)
                 \/ \E slots \in 0..prune_slots : onPrune(p, slots)
          PROVE  Quiet
      <3>1. graft' \subseteq graft
        BY ZenonT(30), <2>1 DEF PeerConnected, updatePeerKind, PeerDisconnected, PeerDropped, TakeBatch,
                    Rescore, onUnsubscribe, onGraft, onPrune
      <3> QED BY SMTT(60), <3>1
    <2>2. ASSUME NEW p \in Peers, onSubscribe(p) PROVE Quiet
      BY <2>2 DEF onSubscribe
    <2>3. CASE subscribeNew \/ publish
      BY <2>3 DEF subscribeNew, publish
    <2>4. CASE subscribeUpgrade
      <3>1. PICK kept \in SUBSET {p \in mesh_peers_ : backoff_[p] = 0 /\ ~below(p, 0)} :
              \E more \in choose(Graftable(kept, backoff_), mesh_n - Cardinality(kept)) :
                  graft' = graft \cup kept \cup more
        BY SMTT(60), <2>4 DEF subscribeUpgrade
      <3>2. PICK more \in choose(Graftable(kept, backoff_), mesh_n - Cardinality(kept)) :
                  graft' = graft \cup kept \cup more
        BY <3>1
      <3>3. more \subseteq Graftable(kept, backoff_) BY SMTT(60), ChooseValue
      <3>4. backoff_' = backoff_ BY <2>4 DEF subscribeUpgrade
      <3> QED BY SMTT(30), <3>2, <3>3, <3>4 DEF Graftable
    <2>5. CASE heartbeat
      <3>1. CASE heartbeatSubscribed
        <4>1. \A p \in graft' \ graft : backoff_'[p] = 0 BY SMTT(60), <3>1, HeartbeatValue
        <4> QED BY SMTT(60), <4>1
      <3>2. CASE heartbeatFanout \/ heartbeatDrop
        BY <3>2 DEF heartbeatFanout, heartbeatDrop
      <3> QED BY SMTT(60), <2>5, <3>1, <3>2 DEF heartbeat
    <2> HIDE DEF Quiet
    <2> QED BY SMTT(60), <2>1, <2>2, <2>3, <2>4, <2>5 DEF Next
  <1> QED BY <1>1, Invariant, PTL DEF Spec, NoGraftInBackoff
=============================================================================
