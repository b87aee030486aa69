---------------------------- MODULE GossipProofs ----------------------------
(* Proofs about what gossip keeps of a peer.  TopicBackoff, for every        *)
(* configuration, every set of peers and every number of heartbeats: the     *)
(* circular buffer stays consistent, and it implements the plain countdown   *)
(* of BackoffHorizon.  ScoreBook (S), for every configuration of the score:  *)
(* the book stays consistent, and leaving never pays.  GossipPeer (P), for   *)
(* any connections: messages are written in order, by one writer at a time.  *)
EXTENDS Sequences, TopicBackoff, TLAPS

-----------------------------------------------------------------------------
(* Arithmetic of the slot numbers.                                           *)

(* A slot number always falls on an index of the buffer (slots_.at never     *)
(* throws).                                                                  *)
LEMMA ModRange ==
    ASSUME NEW n \in Nat, NEW m \in Nat \ {0}
    PROVE  n % m \in 0..m - 1
  OBVIOUS

(* Division with remainder.                                                  *)
LEMMA DivMod ==
    ASSUME NEW n \in Nat, NEW m \in Nat \ {0}
    PROVE  n = m * (n \div m) + (n % m) /\ n \div m \in Nat
  OBVIOUS

(* Two slot numbers less than one turn apart that fall on the same index are *)
(* the same number.                                                          *)
LEMMA SameSlot ==
    ASSUME NEW m \in Nat \ {0}, NEW a \in Nat, NEW b \in Nat,
           a <= b, b <= a + m - 1, a % m = b % m
    PROVE  a = b
  <1> DEFINE qa == a \div m
             qb == b \div m
  <1>1. qa \in Nat /\ qb \in Nat /\ a = m * qa + (a % m) /\ b = m * qb + (b % m)
    BY DivMod
  <1>2. ASSUME qb >= qa + 1 PROVE FALSE
    <2>1. m * qb >= m * (qa + 1)
      BY <1>1, <1>2
    <2>2. QED BY <2>1, <1>1
  <1>3. ASSUME qa >= qb + 1 PROVE FALSE
    <2>1. m * qa >= m * (qb + 1)
      BY <1>1, <1>3
    <2>2. QED BY <2>1, <1>1
  <1>4. qa = qb
    BY <1>1, <1>2, <1>3
  <1> QED BY <1>1, <1>4

(* The buffer has at least one slot.                                         *)
LEMMA SizeType == size \in Nat \ {0}
  <1>1. prune_backoff \div heartbeat_interval \in Nat
    BY ConfigAssumption, DivMod
  <1> QED BY <1>1, ConfigAssumption DEF size

(* Whatever word a PRUNE carries, update is called with a number of slots.   *)
LEMMA SlotsOfType ==
    ASSUME NEW word \in 0..WordLimit - 1
    PROVE  SlotsOf(word) \in Nat
  <1> DEFINE sec == Signed(word)
             quot == Quotient(sec, heartbeat_interval)
  <1>1. sec \in Int
    BY WordAssumption DEF Signed
  <1>2. quot \in Int
    <2>1. CASE sec >= 0
      BY <1>1, <2>1, DivMod, ConfigAssumption DEF Quotient
    <2>2. CASE sec < 0
      <3>1. -sec \in Nat BY <1>1, <2>2
      <3>2. (-sec) \div heartbeat_interval \in Nat
        BY <3>1, DivMod, ConfigAssumption
      <3> QED BY <1>1, <2>2, <3>2 DEF Quotient
    <2> QED BY <1>1, <2>1, <2>2
  <1> HIDE DEF quot
  <1>3. (quot + backoff_slack) % WordLimit \in Nat
    BY <1>2, ConfigAssumption, WordAssumption
  <1> QED BY <1>3 DEF SlotsOf, quot

-----------------------------------------------------------------------------
(* The inductive invariant: neither half survives shift without the other.   *)
IInv == TypeOK /\ ListsMatchIndex /\ WithinOneTurn

(* A fresh buffer is consistent.                                             *)
LEMMA InitInv == Init => IInv
  BY SizeType, ConfigAssumption
  DEF Init, IInv, TypeOK, ListsMatchIndex, WithinOneTurn

(* update keeps the buffer consistent.                                       *)
LEMMA UpdateInv ==
    ASSUME IInv, NEW p \in Peers, NEW n \in Nat, update(p, n)
    PROVE  IInv'
  <1> DEFINE slot == slot_ + AtMost(n, size - 1)
  <1>t. /\ TypeOK /\ ListsMatchIndex /\ WithinOneTurn
        /\ size \in Nat \ {0} /\ slot_ \in Nat /\ slot_' = slot_
    BY SizeType, ConfigAssumption DEF IInv, TypeOK, update
  <1>s. slot \in Nat /\ slot_ <= slot /\ slot <= slot_ + size - 1
    BY <1>t DEF AtMost
  <1>i. slot % size \in 0..size - 1
    BY <1>s, <1>t, ModRange
  <1>1. CASE UNCHANGED <<slots_, peers_>>
    BY <1>t, <1>1 DEF IInv, TypeOK, ListsMatchIndex, WithinOneTurn
  <1>2. CASE Relist(p, slot)
    <2> HIDE DEF slot
    <2>1. peers_' = [q \in DOMAIN peers_ \cup {p} |->
                       IF q = p THEN slot ELSE peers_[q]]
      BY <1>2 DEF Relist
    <2>d. DOMAIN peers_' = DOMAIN peers_ \cup {p}
      BY <2>1
    <2>2. \A i \in 0..size - 1 :
             slots_'[i] = IF i = slot % size
                          THEN (slots_[i] \ {p}) \cup {p}
                          ELSE slots_[i] \ {p}
      <3>1. CASE p \in DOMAIN peers_
        <4>1. peers_[p] % size \in 0..size - 1
          BY <1>t, <3>1, ModRange DEF TypeOK
        <4>2. \A i \in 0..size - 1 : i # peers_[p] % size => p \notin slots_[i]
          BY <1>t, <3>1 DEF ListsMatchIndex
        <4> QED BY Zenon, <1>2, <1>t, <1>i, <3>1, <4>1, <4>2 DEF Relist, TypeOK
      <3>2. CASE p \notin DOMAIN peers_
        <4>1. \A i \in 0..size - 1 : p \notin slots_[i]
          BY <1>t, <3>2 DEF ListsMatchIndex
        <4> QED BY Zenon, <1>2, <1>t, <1>i, <3>2, <4>1 DEF Relist, TypeOK
      <3> QED BY Zenon, <3>1, <3>2
    <2>3. TypeOK'
      <3>1. slots_' \in [0..size - 1 -> SUBSET Peers]
        <4>1. slots_' = [i \in 0..size - 1 |-> slots_'[i]]
          BY Zenon, <1>2, <1>t DEF Relist, TypeOK
        <4>2. \A i \in 0..size - 1 : slots_'[i] \in SUBSET Peers
          BY Zenon, <2>2, <1>t DEF TypeOK
        <4> QED BY <4>1, <4>2
      <3>2. peers_' \in [DOMAIN peers_' -> Nat] /\ DOMAIN peers_' \subseteq Peers
        BY <2>1, <1>t, <1>s DEF TypeOK
      <3> QED BY <3>1, <3>2, <1>t DEF TypeOK
    <2>4. ListsMatchIndex'
      <3> SUFFICES ASSUME NEW i \in 0..size - 1, NEW q \in Peers
                   PROVE  q \in slots_'[i] <=>
                            (q \in DOMAIN peers_' /\ peers_'[q] % size = i)
        BY DEF ListsMatchIndex
      <3>1. CASE q = p
        BY Zenon, <2>1, <2>2, <2>d, <3>1
      <3>2. CASE q # p
        <4>1. q \in slots_'[i] <=> q \in slots_[i]
          BY Zenon, <2>2, <3>2
        <4>2. q \in DOMAIN peers_' <=> q \in DOMAIN peers_
          BY <2>d, <3>2
        <4>3. q \in DOMAIN peers_ => peers_'[q] = peers_[q]
          BY <2>1, <3>2
        <4> QED BY <4>1, <4>2, <4>3, <1>t DEF ListsMatchIndex
      <3> QED BY <3>1, <3>2
    <2>5. WithinOneTurn'
      BY <2>1, <2>d, <1>t, <1>s DEF WithinOneTurn
    <2> QED BY <2>3, <2>4, <2>5 DEF IInv
  <1> QED BY <1>1, <1>2 DEF update

(* The peers shift forgets are exactly the ones whose backoff ends now.      *)
LEMMA ShiftReleases ==
    ASSUME IInv, NEW p \in DOMAIN peers_
    PROVE  p \in slots_[slot_ % size] <=> peers_[p] = slot_
  <1>1. /\ size \in Nat \ {0} /\ slot_ \in Nat /\ p \in Peers /\ peers_[p] \in Nat
        /\ slot_ <= peers_[p] /\ peers_[p] <= slot_ + size - 1
    BY SizeType, ConfigAssumption DEF IInv, TypeOK, WithinOneTurn
  <1>2. slot_ % size \in 0..size - 1
    BY <1>1, ModRange
  <1>3. p \in slots_[slot_ % size] <=> peers_[p] % size = slot_ % size
    BY <1>1, <1>2 DEF IInv, ListsMatchIndex
  <1>4. peers_[p] % size = slot_ % size => peers_[p] = slot_
    BY <1>1, SameSlot
  <1> QED BY <1>3, <1>4

(* shift keeps the buffer consistent.                                        *)
LEMMA ShiftInv == IInv /\ shift => IInv'
  <1> SUFFICES ASSUME IInv, shift PROVE IInv'
    OBVIOUS
  <1>t. /\ TypeOK /\ ListsMatchIndex /\ WithinOneTurn
        /\ size \in Nat \ {0} /\ slot_ \in Nat
        /\ slot_ < MaxSlot /\ slot_' = slot_ + 1
    BY SizeType, ConfigAssumption DEF IInv, TypeOK, shift
  <1>i. slot_ % size \in 0..size - 1
    BY <1>t, ModRange
  <1>1. peers_' = [q \in DOMAIN peers_ \ slots_[slot_ % size] |-> peers_[q]]
    BY DEF shift
  <1>d. DOMAIN peers_' = DOMAIN peers_ \ slots_[slot_ % size]
    BY <1>1
  <1>2. slots_' = [slots_ EXCEPT ![slot_ % size] = {}]
    BY DEF shift
  <1>3. TypeOK'
    <2>1. slots_' \in [0..size - 1 -> SUBSET Peers]
      BY <1>t, <1>2 DEF TypeOK
    <2>2. slot_' \in 0..MaxSlot
      BY <1>t, ConfigAssumption DEF TypeOK
    <2>3. DOMAIN peers_' \subseteq Peers
      BY <1>t, <1>d DEF TypeOK
    <2>4. peers_' \in [DOMAIN peers_' -> Nat]
      BY <1>t, <1>1, <1>d DEF TypeOK
    <2> QED BY <2>1, <2>2, <2>3, <2>4 DEF TypeOK
  <1>4. ListsMatchIndex'
    <2> SUFFICES ASSUME NEW i \in 0..size - 1, NEW p \in Peers
                 PROVE  p \in slots_'[i] <=>
                          (p \in DOMAIN peers_' /\ peers_'[p] % size = i)
      BY DEF ListsMatchIndex
    <2>1. CASE i = slot_ % size
      <3>1. slots_'[i] = {}
        BY <1>2, <1>t, <2>1 DEF TypeOK
      <3>2. ASSUME p \in DOMAIN peers_', peers_'[p] % size = i PROVE FALSE
        <4>1. p \in DOMAIN peers_ /\ p \notin slots_[i] /\ peers_[p] % size = i
          BY <1>1, <1>d, <2>1, <3>2
        <4> QED BY <4>1, <1>t DEF ListsMatchIndex
      <3> QED BY <3>1, <3>2
    <2>2. CASE i # slot_ % size
      <3>1. slots_'[i] = slots_[i]
        BY <1>2, <1>t, <2>2 DEF TypeOK
      <3>2. p \in slots_[i] => p \notin slots_[slot_ % size]
        BY <1>t, <1>i, <2>2 DEF ListsMatchIndex
      <3> QED BY <3>1, <3>2, <1>1, <1>d, <1>t DEF ListsMatchIndex
    <2> QED BY <2>1, <2>2
  <1>5. WithinOneTurn'
    <2> SUFFICES ASSUME NEW p \in DOMAIN peers_'
                 PROVE  slot_' <= peers_'[p] /\ peers_'[p] <= slot_' + size - 1
      BY DEF WithinOneTurn
    <2>1. p \in DOMAIN peers_ /\ p \notin slots_[slot_ % size] /\ peers_'[p] = peers_[p]
      BY <1>1, <1>d
    <2>2. peers_[p] # slot_
      BY <2>1, ShiftReleases
    <2>3. peers_[p] \in Nat /\ slot_ <= peers_[p] /\ peers_[p] <= slot_ + size - 1
      BY <2>1, <1>t DEF TypeOK, WithinOneTurn
    <2> QED BY <2>1, <2>2, <2>3, <1>t
  <1> QED BY <1>3, <1>4, <1>5 DEF IInv

(* Every step of Next is an update or a shift.                               *)
LEMMA NextCases ==
    Next => (\E p \in Peers, n \in Nat : update(p, n)) \/ shift
  <1> SUFFICES ASSUME Next, ~shift
               PROVE  \E p \in Peers, n \in Nat : update(p, n)
    OBVIOUS
  <1>w. prune_backoff \in 0..WordLimit - 1
    BY ConfigAssumption, WordAssumption
  <1>1. PICK p \in Peers, word \in 0..WordLimit - 1 : update_backoff(p, word)
    BY <1>w DEF Next, prune_default
  <1> QED BY <1>1, SlotsOfType DEF update_backoff

(* Every step keeps the inductive invariant.                                 *)
LEMMA NextInv == IInv /\ [Next]_vars => IInv'
  <1> SUFFICES ASSUME IInv, [Next]_vars PROVE IInv'
    OBVIOUS
  <1>1. CASE UNCHANGED vars
    BY <1>1 DEF vars, IInv, TypeOK, ListsMatchIndex, WithinOneTurn
  <1>2. CASE Next
    BY <1>2, NextCases, UpdateInv, ShiftInv
  <1> QED BY <1>1, <1>2

(* TopicBackoff::update and shift keep the members of the struct well typed. *)
THEOREM TypeCorrect == Spec => []TypeOK
  <1>1. IInv => TypeOK BY DEF IInv
  <1> QED BY InitInv, NextInv, <1>1, PTL DEF Spec

(* The lists of the buffer and the index of peers always agree.              *)
THEOREM ListsAgree == Spec => []ListsMatchIndex
  <1>1. IInv => ListsMatchIndex BY DEF IInv
  <1> QED BY InitInv, NextInv, <1>1, PTL DEF Spec

(* No listed peer is overdue or more than one turn away.                     *)
THEOREM NeverOverdue == Spec => []WithinOneTurn
  <1>1. IInv => WithinOneTurn BY DEF IInv
  <1> QED BY InitInv, NextInv, <1>1, PTL DEF Spec

(* The circular buffer is sound for any capacity, slack and backoff.         *)
THEOREM AlwaysSound == Spec => []BackoffSound
  <1> QED BY TypeCorrect, ListsAgree, NeverOverdue, PTL DEF BackoffSound

-----------------------------------------------------------------------------
(* The refinement.                                                           *)

(* get answers a number of heartbeats within one turn of the buffer.         *)
LEMMA GetRange ==
    ASSUME IInv, NEW p \in Peers
    PROVE  /\ get(p) \in 0..size - 1
           /\ p \in DOMAIN peers_ => get(p) = peers_[p] - slot_
           /\ p \notin DOMAIN peers_ => get(p) = 0
  <1>1. size \in Nat \ {0} /\ slot_ \in Nat
    BY SizeType, ConfigAssumption DEF IInv, TypeOK
  <1> QED BY <1>1 DEF IInv, TypeOK, WithinOneTurn, get, saturating_sub

(* update extends the countdown of one peer.                                 *)
LEMMA UpdateExtends ==
    ASSUME IInv, IInv', NEW p \in Peers, NEW n \in Nat, update(p, n)
    PROVE  Horizon!Next
  <1> DEFINE k == AtMost(n, size - 1)
  <1>t. size \in Nat \ {0} /\ slot_ \in Nat /\ slot_' = slot_
    BY SizeType, ConfigAssumption DEF IInv, TypeOK, update
  <1>k. k \in 0..size - 1
    BY <1>t DEF AtMost
  <1>p. p \in DOMAIN peers_ => peers_[p] \in Nat
    BY DEF IInv, TypeOK
  <1>1. \A q \in Peers : q # p => get(q)' = get(q)
    <2> TAKE q \in Peers
    <2> HAVE q # p
    <2>1. CASE UNCHANGED peers_
      BY <1>t, <2>1 DEF get
    <2>2. CASE Relist(p, slot_ + k)
      <3>1. peers_' = [r \in DOMAIN peers_ \cup {p} |->
                         IF r = p THEN slot_ + k ELSE peers_[r]]
        BY <2>2 DEF Relist
      <3>2. q \in DOMAIN peers_' <=> q \in DOMAIN peers_
        BY <3>1
      <3>3. q \in DOMAIN peers_ => peers_'[q] = peers_[q]
        BY <3>1
      <3> QED BY <3>2, <3>3, <1>t DEF get
    <2> QED BY <2>1, <2>2 DEF update
  <1>2. get(p)' = Horizon!Larger(get(p), k)
    <2>g. get(p) \in 0..size - 1
      BY GetRange
    <2>1. CASE n = 0
      <3>1. k = 0 /\ UNCHANGED peers_
        BY <2>1, <1>t DEF AtMost, update
      <3>2. get(p)' = get(p)
        BY <3>1, <1>t DEF get
      <3> QED BY <3>1, <3>2, <2>g, <1>t DEF Horizon!Larger
    <2>2. CASE p \in DOMAIN peers_ /\ slot_ + k <= peers_[p]
      <3>1. UNCHANGED peers_
        BY <2>2 DEF update
      <3>2. get(p)' = get(p)
        BY <3>1, <1>t DEF get
      <3>3. get(p) = peers_[p] - slot_
        BY <2>2, GetRange
      <3> QED BY <3>2, <3>3, <2>2, <2>g, <1>k, <1>t, <1>p DEF Horizon!Larger
    <2>3. CASE n # 0 /\ ~(p \in DOMAIN peers_ /\ slot_ + k <= peers_[p])
      <3>1. peers_' = [r \in DOMAIN peers_ \cup {p} |->
                         IF r = p THEN slot_ + k ELSE peers_[r]]
        BY <2>3 DEF update, Relist
      <3>2. p \in DOMAIN peers_' /\ peers_'[p] = slot_ + k
        BY <3>1
      <3>3. get(p)' = k
        BY <3>2, <1>t, <1>k DEF get, saturating_sub
      <3>4. get(p) <= k
        BY <2>3, <2>g, GetRange, <1>t, <1>k, <1>p
      <3> QED BY <3>3, <3>4, <2>g, <1>k, <1>t DEF Horizon!Larger
    <2> QED BY <2>1, <2>2, <2>3
  <1>3. Horizon!Extend(p, k)
    BY Zenon, <1>1, <1>2 DEF Horizon!Extend
  <1> QED BY <1>3, <1>k DEF Horizon!Next

(* shift takes one heartbeat off every countdown.                            *)
LEMMA ShiftTicks == IInv /\ IInv' /\ shift => Horizon!Tick
  <1> SUFFICES ASSUME IInv, IInv', shift,
                      NEW p \in Peers
               PROVE  get(p)' = Horizon!Larger(get(p) - 1, 0)
    BY DEF Horizon!Tick
  <1>t. size \in Nat \ {0} /\ slot_ \in Nat /\ slot_' = slot_ + 1
    BY SizeType, ConfigAssumption DEF IInv, TypeOK, shift
  <1>1. peers_' = [q \in DOMAIN peers_ \ slots_[slot_ % size] |-> peers_[q]]
    BY DEF shift
  <1>2. CASE p \notin DOMAIN peers_
    <2>1. p \notin DOMAIN peers_' BY <1>1, <1>2
    <2>2. get(p) = 0 /\ get(p)' = 0 BY <1>2, <2>1 DEF get
    <2> QED BY <2>2 DEF Horizon!Larger
  <1>3. CASE p \in DOMAIN peers_
    <2>1. /\ peers_[p] \in Nat /\ slot_ <= peers_[p]
          /\ get(p) = peers_[p] - slot_
      BY <1>3, GetRange DEF IInv, TypeOK, WithinOneTurn
    <2>2. CASE peers_[p] = slot_
      <3>1. p \notin DOMAIN peers_' BY <1>1, <1>3, <2>2, ShiftReleases
      <3>2. get(p)' = 0 BY <3>1 DEF get
      <3> QED BY <3>2, <2>1, <2>2, <1>t DEF Horizon!Larger
    <2>3. CASE peers_[p] # slot_
      <3>1. p \in DOMAIN peers_' /\ peers_'[p] = peers_[p]
        BY <1>1, <1>3, <2>3, ShiftReleases
      <3>2. get(p)' = peers_[p] - (slot_ + 1)
        BY <3>1, <2>1, <2>3, <1>t DEF get, saturating_sub
      <3> QED BY <3>2, <2>1, <2>3, <1>t DEF Horizon!Larger
    <2> QED BY <2>2, <2>3
  <1> QED BY <1>2, <1>3

(* TopicBackoff implements the plain countdown: what get answers for a peer  *)
(* goes up alone and never past the buffer, and goes down with a heartbeat,  *)
(* by one for every peer that is left some.                                  *)
THEOREM Refines == Spec => CountsDown
  <1>1. Init => Horizon!Init
    BY DEF Init, Horizon!Init, get
  <1>2. IInv /\ IInv' /\ [Next]_vars => [Horizon!Next]_([p \in Peers |-> get(p)])
    <2> SUFFICES ASSUME IInv, IInv', [Next]_vars
                 PROVE  \/ Horizon!Next
                        \/ UNCHANGED [p \in Peers |-> get(p)]
      OBVIOUS
    <2>1. CASE UNCHANGED vars
      BY <2>1 DEF vars, get
    <2>2. CASE Next
      BY <2>2, NextCases, UpdateExtends, ShiftTicks DEF Horizon!Next
    <2> QED BY <2>1, <2>2
  <1> QED BY <1>1, <1>2, InitInv, NextInv, PTL
          DEF Spec, CountsDown, Horizon!Spec

-----------------------------------------------------------------------------
(* The score, beside the backoff.                                            *)
CONSTANTS
    ScoredPeers, Messages, One, decay_to_zero, quantum, time_in_mesh_cap, time_in_mesh_weight,
    first_message_deliveries_cap, first_message_deliveries_weight,
    mesh_message_deliveries_cap, mesh_message_deliveries_threshold,
    mesh_message_deliveries_activation, mesh_message_deliveries_weight,
    mesh_failure_penalty_weight, behaviour_penalty_weight, topic_score_cap,
    graylist_threshold, retain_score, duplicate_cache_time, kTimeCacheDuration,
    MaxPenalty, MaxFailure
VARIABLES peer_stats_, deliveries_, duplicate_cache_, connected, left, credits

S == INSTANCE ScoreBook WITH Peers <- ScoredPeers

(* The members of PeerStats and TopicStats have their types, a delivery      *)
(* deficit counts only after the activation time in the mesh, and a peer is  *)
(* credited for the duplicates of a message once in the life of its record.  *)
ScoreSound == S!ScoreSound

(* Leaving never pays: neither leaving the mesh, pruned or disconnected, nor *)
(* a disconnect and a reconnect within retain_score raises the score.        *)
NoGainByLeaving == S!NoGainByLeaving

(* A deficit is active only after its time, and so only in the mesh.         *)
TopicOK(ts) ==
    /\ ts \in S!TopicStats /\ ts.mesh_active >= -1
    /\ ts.mesh_message_deliveries_active => ts.mesh_active > mesh_message_deliveries_activation

(* What is retained of an absent peer is out of the mesh.                    *)
StatsOK(stats) ==
    /\ stats \in [expires_at : {-1} \cup 0..retain_score, behaviour_penalty : 0..MaxPenalty,
                  topic : S!TopicStats]
    /\ TopicOK(stats.topic)
    /\ stats.expires_at # -1 => stats.topic.mesh_active = -1

BookInv ==
    /\ DOMAIN peer_stats_ \subseteq ScoredPeers /\ connected \subseteq DOMAIN peer_stats_
    /\ \A p \in DOMAIN peer_stats_ :
        StatsOK(peer_stats_[p]) /\ (p \in connected <=> peer_stats_[p].expires_at = -1)

(* A peer that was credited for a message is in its record.                  *)
Record == [status : {"unknown", "valid"}, open : BOOLEAN, peers : SUBSET ScoredPeers,
           ttl : 0..kTimeCacheDuration]

RecordInv ==
    /\ DOMAIN deliveries_ \subseteq Messages
    /\ \A m \in DOMAIN deliveries_ : deliveries_[m] \in Record
    /\ credits \in [Messages \X ScoredPeers -> 0..1]
    /\ \A m \in Messages, p \in ScoredPeers :
        credits[<<m, p>>] = 1 /\ m \in S!live(deliveries_) => p \in deliveries_[m].peers

(* While a peer is away its statistics, or their absence, stand for a score  *)
(* no better than the one it left with, until retain_score is over.          *)
AwayInv(p) ==
    /\ p \in ScoredPeers \ connected
    /\ left[p] \in [score : Int, since : 0..retain_score + 1]
    /\ p \in DOMAIN peer_stats_ =>
        /\ S!scoreOf(peer_stats_[p]) <= left[p].score
        /\ left[p].since + peer_stats_[p].expires_at = retain_score
    /\ p \notin DOMAIN peer_stats_ => left[p].score > 0 \/ left[p].since > retain_score

LeftInv == \A p \in DOMAIN left : AwayInv(p)

SInv == BookInv /\ RecordInv /\ LeftInv

-----------------------------------------------------------------------------
(* The weights only order the terms of the score.                            *)
LEMMA Heavier ==
    ASSUME NEW d \in Nat, NEW v \in Int, NEW w \in Int, v <= w
    PROVE  d * v <= d * w /\ d * v \in Int /\ d * w \in Int
  OBVIOUS

(* A product of natural numbers is one.                                      *)
LEMMA Product ==
    ASSUME NEW d \in Nat, NEW w \in Nat
    PROVE  d * w \in Nat
  OBVIOUS

(* P1 is a natural number, and the missing deliveries are.                   *)
LEMMA TermTypes ==
    ASSUME S!ScoreAssumption, NEW ts, TopicOK(ts)
    PROVE  /\ S!p1(ts) \in Nat /\ S!deficit(ts) \in Nat
           /\ ts.mesh_active = -1 => S!p1(ts) = 0 /\ S!deficit(ts) = 0
           /\ ~ts.mesh_message_deliveries_active => S!deficit(ts) = 0
  <1>1. /\ ts.mesh_active \in Int /\ ts.mesh_message_deliveries \in Nat
        /\ ts.mesh_message_deliveries_active \in BOOLEAN /\ ts.mesh_active >= -1
        /\ ts.mesh_message_deliveries_active => ts.mesh_active > mesh_message_deliveries_activation
    BY DEF TopicOK, S!TopicStats
  <1>2. /\ quantum \in Nat /\ time_in_mesh_cap \in Nat
        /\ mesh_message_deliveries_threshold \in Nat /\ mesh_message_deliveries_activation \in Nat
    BY DEF S!ScoreAssumption
  <1>3. S!deficit(ts) \in Nat
    BY <1>1, <1>2 DEF S!deficit
  <1>4. ~ts.mesh_message_deliveries_active => S!deficit(ts) = 0
    BY DEF S!deficit
  <1>5. ts.mesh_active # -1 => S!mesh_time(ts) \in Nat
    BY <1>1 DEF S!mesh_time
  <1>6. ts.mesh_active # -1 /\ quantum # 0 => S!mesh_time(ts) \div quantum \in Nat
    BY <1>2, <1>5
  <1>7. S!p1(ts) \in Nat /\ (ts.mesh_active = -1 => S!p1(ts) = 0)
    BY <1>2, <1>6 DEF S!p1, S!Smaller, S!inMesh, S!NotInMesh
  <1> QED BY <1>1, <1>2, <1>3, <1>4, <1>7

(* The score of a topic before it is cut to its cap.                         *)
TopicScore(ts, p) ==
    p * time_in_mesh_weight * One * One
        + ts.first_message_deliveries * first_message_deliveries_weight * One
        + S!deficit(ts) * S!deficit(ts) * mesh_message_deliveries_weight
        + ts.mesh_failure_penalty * mesh_failure_penalty_weight

Cut(n) == IF topic_score_cap > 0 THEN S!Smaller(n, topic_score_cap) ELSE n

Behaviour(stats) == stats.behaviour_penalty * stats.behaviour_penalty * behaviour_penalty_weight

(* The score is the topic's, cut to its cap, and the behaviour's.            *)
LEMMA ScoreTerms ==
    ASSUME S!ScoreAssumption, NEW stats, StatsOK(stats)
    PROVE  /\ S!scoreOf(stats) = Cut(TopicScore(stats.topic, S!p1(stats.topic))) + Behaviour(stats)
           /\ TopicScore(stats.topic, S!p1(stats.topic)) \in Int /\ Behaviour(stats) \in Int
           /\ S!scoreOf(stats) \in Int
  <1> DEFINE ts == stats.topic
             n == TopicScore(ts, S!p1(ts))
  <1>1. S!scoreOf(stats) = Cut(n) + Behaviour(stats)
    BY DEF S!scoreOf, S!scoreWith, TopicScore, Cut, Behaviour
  <1>2. /\ ts.first_message_deliveries \in Nat /\ ts.mesh_failure_penalty \in Nat
        /\ S!p1(ts) \in Nat /\ S!deficit(ts) \in Nat /\ stats.behaviour_penalty \in Nat
    BY TermTypes DEF StatsOK, S!TopicStats, S!ScoreAssumption
  <1>3. /\ time_in_mesh_weight \in Int /\ One \in Int /\ first_message_deliveries_weight \in Int
        /\ mesh_message_deliveries_weight \in Int /\ mesh_failure_penalty_weight \in Int
        /\ behaviour_penalty_weight \in Int /\ topic_score_cap \in Int
    BY DEF S!ScoreAssumption
  <1>4. n \in Int
    BY <1>2, <1>3 DEF TopicScore
  <1>5. Behaviour(stats) \in Int
    BY <1>2, <1>3 DEF Behaviour
  <1>6. Cut(n) \in Int
    <2> HIDE DEF n
    <2> QED BY <1>3, <1>4 DEF Cut, S!Smaller
  <1> HIDE DEF n
  <1>7. Cut(n) + Behaviour(stats) \in Int
    BY <1>5, <1>6
  <1> QED BY <1>1, <1>4, <1>5, <1>7 DEF n

(* The cap keeps the order.                                                  *)
LEMMA CutOrder ==
    ASSUME S!ScoreAssumption, NEW a \in Int, NEW b \in Int, a <= b
    PROVE  Cut(a) <= Cut(b)
  BY DEF Cut, S!Smaller, S!ScoreAssumption

(* Leaving the mesh: P1 goes, the deficit becomes a penalty that weighs no   *)
(* less, and first deliveries may be forgotten.                              *)
LEMMA LeavingCosts ==
    ASSUME S!ScoreAssumption, NEW stats, StatsOK(stats), NEW other, StatsOK(other),
           other.behaviour_penalty = stats.behaviour_penalty,
           other.topic.mesh_active = -1,
           other.topic.first_message_deliveries <= stats.topic.first_message_deliveries,
           other.topic.mesh_failure_penalty
             = stats.topic.mesh_failure_penalty + S!deficit(stats.topic) * S!deficit(stats.topic)
    PROVE  S!scoreOf(other) <= S!scoreOf(stats)
  <1> DEFINE ts == stats.topic
             to == other.topic
             p == S!p1(ts)
             d == S!deficit(ts) * S!deficit(ts)
             f == ts.first_message_deliveries
             g == to.first_message_deliveries
             k == ts.mesh_failure_penalty
             w == first_message_deliveries_weight * One
             u == time_in_mesh_weight * One * One
             x == mesh_message_deliveries_weight
             y == mesh_failure_penalty_weight
  <1>1. /\ f \in Nat /\ g \in Nat /\ k \in Nat /\ p \in Nat /\ S!deficit(ts) \in Nat
        /\ S!p1(to) = 0 /\ S!deficit(to) = 0
    BY TermTypes DEF StatsOK, S!TopicStats
  <1>2. d \in Nat
    BY <1>1, Product
  <1>3. /\ time_in_mesh_weight \in Nat /\ One \in Nat /\ first_message_deliveries_weight \in Nat
        /\ x \in Int /\ y \in Int /\ y <= x
    BY DEF S!ScoreAssumption
  <1>4. w \in Nat /\ u \in Nat
    BY <1>3, Product
  <1>5. TopicScore(ts, p) = p * u + f * w + d * x + k * y
    BY <1>1, <1>3 DEF TopicScore
  <1>6. TopicScore(to, S!p1(to)) = g * w + (k + d) * y
    BY <1>1, <1>3 DEF TopicScore
  <1>7. p * u \in Nat /\ g * w <= f * w /\ d * y <= d * x
        /\ f * w \in Int /\ g * w \in Int /\ d * y \in Int /\ d * x \in Int /\ k * y \in Int
    <2> HIDE DEF p, d, f, g, k, w, u, x, y
    <2>1. p * u \in Nat
      BY <1>1, <1>4, Product
    <2>2. d * y <= d * x /\ d * y \in Int /\ d * x \in Int
      BY <1>2, <1>3, Heavier
    <2>3. w * g <= w * f /\ w * g \in Int /\ w * f \in Int
      <3>1. g <= f /\ g \in Int /\ f \in Int
        BY <1>1 DEF f, g
      <3> QED BY <1>4, <3>1, Heavier
    <2>4. w * g = g * w /\ w * f = f * w /\ k * y \in Int
      BY <1>1, <1>3, <1>4
    <2> QED BY <2>1, <2>2, <2>3, <2>4
  <1>8. (k + d) * y = k * y + d * y
    <2> HIDE DEF k, d, y
    <2> QED BY <1>1, <1>2, <1>3
  <1>9. TopicScore(to, S!p1(to)) <= TopicScore(ts, p)
    <2> HIDE DEF p, d, f, g, k, w, u, x, y, ts, to
    <2> QED BY <1>5, <1>6, <1>7, <1>8
  <1>10. Cut(TopicScore(to, S!p1(to))) <= Cut(TopicScore(ts, p))
    <2>1. TopicScore(to, S!p1(to)) \in Int /\ TopicScore(ts, p) \in Int
      BY ScoreTerms
    <2> HIDE DEF p, ts, to
    <2> QED BY <1>9, <2>1, CutOrder
  <1>11. Behaviour(other) = Behaviour(stats)
    BY DEF Behaviour
  <1>12. /\ S!scoreOf(stats) = Cut(TopicScore(ts, p)) + Behaviour(stats)
         /\ S!scoreOf(other) = Cut(TopicScore(to, S!p1(to))) + Behaviour(other)
         /\ TopicScore(to, S!p1(to)) \in Int /\ TopicScore(ts, p) \in Int
         /\ Behaviour(stats) \in Int
    BY ScoreTerms
  <1>13. \A n \in Int : Cut(n) \in Int
    BY DEF Cut, S!Smaller, S!ScoreAssumption
  <1> HIDE DEF p, ts, to
  <1> QED BY <1>10, <1>11, <1>12, <1>13

(* A penalty costs as well.                                                  *)
LEMMA PenaltyCosts ==
    ASSUME S!ScoreAssumption, NEW stats, StatsOK(stats), NEW other, StatsOK(other),
           other.topic = stats.topic, stats.behaviour_penalty <= other.behaviour_penalty
    PROVE  S!scoreOf(other) <= S!scoreOf(stats)
  <1> DEFINE a == stats.behaviour_penalty
             b == other.behaviour_penalty
             w == behaviour_penalty_weight
             n == TopicScore(stats.topic, S!p1(stats.topic))
  <1>1. a \in Nat /\ b \in Nat /\ a <= b /\ w \in Int /\ w <= 0
    BY DEF StatsOK, S!ScoreAssumption
  <1>2. b * b * w <= a * a * w
    <2> HIDE DEF a, b, w
    <2>1. a * a <= b * b /\ a * a \in Nat /\ b * b \in Nat
      BY <1>1
    <2>2. PICK e \in Nat : b * b = a * a + e
      <3>1. b * b - a * a \in Nat
        BY <2>1
      <3> QED BY <2>1, <3>1
    <2>3. e * w <= e * 0
      BY <1>1, Heavier
    <2>4. (a * a + e) * w = a * a * w + e * w
      BY <1>1, <2>1
    <2>5. a * a * w \in Int /\ e * w \in Int
      BY <1>1
    <2> QED BY <2>2, <2>3, <2>4, <2>5
  <1>3. /\ S!scoreOf(stats) = Cut(n) + Behaviour(stats) /\ n \in Int
        /\ S!scoreOf(other) = Cut(n) + Behaviour(other)
        /\ Behaviour(stats) \in Int /\ Behaviour(other) \in Int
    BY ScoreTerms
  <1>4. \A i \in Int : Cut(i) \in Int
    BY DEF Cut, S!Smaller, S!ScoreAssumption
  <1>5. Behaviour(other) <= Behaviour(stats)
    BY <1>2 DEF Behaviour
  <1> HIDE DEF n
  <1> QED BY <1>3, <1>4, <1>5

-----------------------------------------------------------------------------
(* What the operations make of one peer's statistics.                        *)

(* A peer that is new has the score 0.                                       *)
LEMMA DefaultStats ==
    ASSUME S!ScoreAssumption
    PROVE  /\ StatsOK(S!defaultStats) /\ S!defaultStats.expires_at = -1
           /\ S!scoreOf(S!defaultStats) = 0
  <1> DEFINE st == S!defaultStats
             ts == st.topic
  <1>1. /\ st.expires_at = -1 /\ st.behaviour_penalty = 0 /\ ts.mesh_active = -1
        /\ ts.first_message_deliveries = 0 /\ ts.mesh_message_deliveries_active = FALSE
        /\ ts.mesh_message_deliveries = 0 /\ ts.mesh_failure_penalty = 0
    BY DEF S!defaultStats, S!Never, S!NotInMesh
  <1>2. ts \in S!TopicStats
    BY DEF S!defaultStats, S!TopicStats, S!NotInMesh
  <1>3. st \in [expires_at : {-1} \cup 0..retain_score, behaviour_penalty : 0..MaxPenalty,
                topic : S!TopicStats]
    BY <1>2 DEF S!defaultStats, S!Never, S!ScoreAssumption
  <1>4. StatsOK(st)
    BY <1>1, <1>2, <1>3 DEF StatsOK, TopicOK
  <1>5. S!p1(ts) = 0 /\ S!deficit(ts) = 0
    BY <1>1, <1>4, TermTypes DEF StatsOK
  <1> HIDE DEF ts
  <1>6. TopicScore(ts, S!p1(ts)) = 0
    BY <1>1, <1>5 DEF TopicScore, S!ScoreAssumption
  <1>7. Behaviour(st) = 0
    BY <1>1 DEF Behaviour, S!ScoreAssumption
  <1>8. Cut(0) = 0
    BY DEF Cut, S!Smaller, S!ScoreAssumption
  <1>9. S!scoreOf(st) = Cut(TopicScore(ts, S!p1(ts))) + Behaviour(st)
    BY <1>4, ScoreTerms DEF ts
  <1>10. S!scoreOf(st) = 0
    BY <1>6, <1>7, <1>8, <1>9
  <1> QED BY <1>1, <1>4, <1>10

(* prune and disconnect.                                                     *)
LEMMA OutOfMesh ==
    ASSUME S!ScoreAssumption, NEW ts, TopicOK(ts)
    PROVE  /\ TopicOK(S!outOfMesh(ts)) /\ S!outOfMesh(ts).mesh_active = -1
           /\ S!outOfMesh(ts).first_message_deliveries = ts.first_message_deliveries
           /\ S!outOfMesh(ts).mesh_failure_penalty
                = ts.mesh_failure_penalty + S!deficit(ts) * S!deficit(ts)
  <1> DEFINE n == ts.mesh_failure_penalty + S!deficit(ts) * S!deficit(ts)
             to == [ts EXCEPT !.mesh_failure_penalty = n, !.mesh_active = -1,
                              !.mesh_message_deliveries_active = FALSE]
  <1>1. ts \in S!TopicStats /\ S!deficit(ts) \in Nat
    BY TermTypes DEF TopicOK
  <1>2. S!deficit(ts) * S!deficit(ts) \in Nat /\ ts.mesh_failure_penalty \in Nat
    BY <1>1, Product DEF S!TopicStats
  <1>3. n \in Nat
    BY <1>2
  <1>4. S!outOfMesh(ts) = to
    BY DEF S!outOfMesh, S!NotInMesh
  <1> HIDE DEF n
  <1>5. /\ to \in S!TopicStats /\ to.mesh_active = -1
        /\ to.first_message_deliveries = ts.first_message_deliveries
        /\ to.mesh_failure_penalty = n
    <2>1. -1 \in Int
      OBVIOUS
    <2> QED BY Zenon, <1>1, <1>3, <2>1 DEF S!TopicStats
  <1>6. ~to.mesh_message_deliveries_active
    BY Zenon, <1>1 DEF S!TopicStats
  <1> HIDE DEF to
  <1>7. TopicOK(to)
    BY <1>5, <1>6 DEF TopicOK
  <1> QED BY <1>4, <1>5, <1>7 DEF n

(* Deliveries.                                                               *)
LEMMA DeliveryOK ==
    ASSUME S!ScoreAssumption, NEW ts, TopicOK(ts)
    PROVE  /\ TopicOK(S!meshDelivery(ts)) /\ S!meshDelivery(ts).mesh_active = ts.mesh_active
           /\ TopicOK(S!mark_first_message_delivery(ts))
           /\ S!mark_first_message_delivery(ts).mesh_active = ts.mesh_active
  <1>1. /\ One \in Nat /\ mesh_message_deliveries_cap \in Nat
        /\ first_message_deliveries_cap \in Nat
    BY DEF S!ScoreAssumption
  <1>2. ASSUME NEW t, TopicOK(t)
        PROVE  TopicOK(S!meshDelivery(t)) /\ S!meshDelivery(t).mesh_active = t.mesh_active
    <2> DEFINE n == S!Smaller(t.mesh_message_deliveries + One, mesh_message_deliveries_cap)
               u == [t EXCEPT !.mesh_message_deliveries = n]
    <2>1. n \in Nat /\ t \in S!TopicStats
      BY <1>1, <1>2 DEF TopicOK, S!TopicStats, S!Smaller
    <2>2. S!meshDelivery(t) = u \/ S!meshDelivery(t) = t
      BY DEF S!meshDelivery
    <2> HIDE DEF n
    <2>3. /\ u \in S!TopicStats /\ u.mesh_active = t.mesh_active
          /\ u.mesh_message_deliveries_active = t.mesh_message_deliveries_active
      BY <2>1 DEF S!TopicStats
    <2> HIDE DEF u
    <2>4. TopicOK(u)
      BY <1>2, <2>3 DEF TopicOK
    <2> QED BY <1>2, <2>2, <2>3, <2>4
  <1> DEFINE n == S!Smaller(ts.first_message_deliveries + One, first_message_deliveries_cap)
             u == [ts EXCEPT !.first_message_deliveries = n]
  <1>3. n \in Nat /\ ts \in S!TopicStats
    BY <1>1 DEF TopicOK, S!TopicStats, S!Smaller
  <1>4. S!mark_first_message_delivery(ts) = S!meshDelivery(u)
    BY DEF S!mark_first_message_delivery
  <1> HIDE DEF n
  <1>5. /\ u \in S!TopicStats /\ u.mesh_active = ts.mesh_active
        /\ u.mesh_message_deliveries_active = ts.mesh_message_deliveries_active
    BY <1>3 DEF S!TopicStats
  <1> HIDE DEF u
  <1>6. TopicOK(u)
    BY <1>5 DEF TopicOK
  <1> QED BY <1>2, <1>4, <1>5, <1>6

(* A decay: of a connected peer it changes counters, not the membership; of  *)
(* an absent one it only counts the time.                                    *)
LEMMA DecayOK ==
    ASSUME S!ScoreAssumption, NEW stats, StatsOK(stats), stats.expires_at # 0
    PROVE  LET new == S!decayPeer(stats) IN
           /\ StatsOK(new)
           /\ stats.expires_at = -1 => new.expires_at = -1
           /\ stats.expires_at # -1 => new.expires_at = stats.expires_at - 1
                                       /\ new.expires_at # -1
                                       /\ S!scoreOf(new) = S!scoreOf(stats)
           /\ stats.topic.mesh_active # -1 => new.topic.mesh_active # -1
  <1> DEFINE ts == stats.topic
             new == S!decayPeer(stats)
  <1>0. /\ stats \in [expires_at : {-1} \cup 0..retain_score, behaviour_penalty : 0..MaxPenalty,
                      topic : S!TopicStats]
        /\ TopicOK(ts) /\ (stats.expires_at # -1 => ts.mesh_active = -1)
        /\ retain_score \in Nat /\ MaxPenalty \in Nat
    BY DEF StatsOK, S!ScoreAssumption
  <1>1. CASE stats.expires_at # -1
    <2> DEFINE st == [stats EXCEPT !.expires_at = stats.expires_at - 1]
    <2>1. new = st
      BY <1>1 DEF S!decayPeer, S!Never
    <2>2. stats.expires_at - 1 \in 0..retain_score
      BY <1>0, <1>1
    <2>3. /\ st.expires_at = stats.expires_at - 1 /\ st.topic = ts
          /\ st.behaviour_penalty = stats.behaviour_penalty
          /\ st \in [expires_at : {-1} \cup 0..retain_score, behaviour_penalty : 0..MaxPenalty,
                      topic : S!TopicStats]
      BY <1>0, <2>2
    <2> HIDE DEF st
    <2>4. StatsOK(st)
      BY <1>0, <1>1, <2>3 DEF StatsOK
    <2>5. S!scoreOf(st) = S!scoreOf(stats)
      BY <2>3 DEF S!scoreOf, S!scoreWith
    <2>6. st.expires_at # -1
      BY <2>2, <2>3
    <2> QED BY <1>0, <1>1, <2>1, <2>3, <2>4, <2>5, <2>6
  <1>2. CASE stats.expires_at = -1
    <2> DEFINE to == S!decayTopic(ts)
               b == S!decay(stats.behaviour_penalty)
               st == [stats EXCEPT !.topic = to, !.behaviour_penalty = b]
    <2>1. new = st
      BY <1>2 DEF S!decayPeer, S!Never
    <2>2. b \in 0..MaxPenalty
      BY <1>0 DEF S!decay, S!ScoreAssumption
    <2>3. TopicOK(to) /\ (ts.mesh_active # -1 => to.mesh_active # -1)
      <3> DEFINE age == IF S!inMesh(ts)
                        THEN S!Smaller(ts.mesh_active + 1,
                                       mesh_message_deliveries_activation + time_in_mesh_cap + 2)
                        ELSE -1
                 active == \/ ts.mesh_message_deliveries_active
                           \/ age # -1 /\ age > mesh_message_deliveries_activation
      <3>1. /\ ts.mesh_active \in Int /\ ts.mesh_active >= -1
            /\ ts.first_message_deliveries \in Nat /\ ts.mesh_message_deliveries \in Nat
            /\ ts.mesh_failure_penalty \in Nat
            /\ ts.mesh_message_deliveries_active
                 => ts.mesh_active > mesh_message_deliveries_activation
            /\ mesh_message_deliveries_activation \in Nat /\ time_in_mesh_cap \in Nat
        BY <1>0 DEF TopicOK, S!TopicStats, S!ScoreAssumption
      <3>2. /\ age \in Int /\ age >= -1 /\ (ts.mesh_active # -1 => age # -1)
            /\ ts.mesh_message_deliveries_active => age > mesh_message_deliveries_activation
        BY <3>1 DEF S!Smaller, S!inMesh, S!NotInMesh
      <3>3. \A n \in Nat : S!decay(n) \in Nat
        BY SMTT(30) DEF S!decay, S!ScoreAssumption
      <3>4. /\ to.mesh_active = age
            /\ to.first_message_deliveries = S!decay(ts.first_message_deliveries)
            /\ to.mesh_message_deliveries = S!decay(ts.mesh_message_deliveries)
            /\ to.mesh_failure_penalty = S!decay(ts.mesh_failure_penalty)
            /\ to = [mesh_active |-> age,
                     first_message_deliveries |-> S!decay(ts.first_message_deliveries),
                     mesh_message_deliveries |-> S!decay(ts.mesh_message_deliveries),
                     mesh_failure_penalty |-> S!decay(ts.mesh_failure_penalty),
                     mesh_message_deliveries_active |-> active]
        BY DEF S!decayTopic, S!NotInMesh
      <3>5. to.mesh_message_deliveries_active => age > mesh_message_deliveries_activation
        <4>1. to.mesh_message_deliveries_active = active
          BY <3>4
        <4> HIDE DEF to, age
        <4> QED BY <3>2, <4>1, ZenonT(30)
      <3>6. active \in BOOLEAN
        <4> HIDE DEF age
        <4> QED BY <1>0 DEF TopicOK, S!TopicStats
      <3> HIDE DEF to, age, active
      <3>7. to \in S!TopicStats
        BY <3>1, <3>2, <3>3, <3>4, <3>6 DEF S!TopicStats
      <3> QED BY <3>2, <3>4, <3>5, <3>7 DEF TopicOK
    <2> HIDE DEF to, b
    <2>4. /\ st.expires_at = stats.expires_at /\ st.topic = to
          /\ st \in [expires_at : {-1} \cup 0..retain_score, behaviour_penalty : 0..MaxPenalty,
                      topic : S!TopicStats]
      BY <1>0, <2>2, <2>3, Zenon DEF TopicOK
    <2> HIDE DEF st
    <2>5. StatsOK(st)
      BY <1>2, <2>3, <2>4 DEF StatsOK
    <2> QED BY <1>2, <2>1, <2>3, <2>4, <2>5
  <1> QED BY <1>1, <1>2

-----------------------------------------------------------------------------
(* The steps of the book.                                                    *)

(* The score, and what is well formed, after a step are those of the value   *)
(* after the step.                                                           *)
LEMMA Primed ==
    ASSUME NEW p
    PROVE  /\ S!scoreOf(peer_stats_[p])' = S!scoreOf(peer_stats_'[p])
           /\ StatsOK(peer_stats_[p])' <=> StatsOK(peer_stats_'[p])
  <1>1. S!scoreOf(peer_stats_[p])' = S!scoreOf(peer_stats_'[p])
    BY Zenon DEF S!scoreOf, S!scoreWith, S!p1, S!deficit, S!mesh_time, S!inMesh, S!NotInMesh,
                 S!Smaller
  <1>2. StatsOK(peer_stats_[p])' <=> StatsOK(peer_stats_'[p])
    BY Zenon DEF StatsOK, TopicOK, S!TopicStats
  <1> QED BY <1>1, <1>2

(* One peer's entry changes, and perhaps whether it is connected.            *)
LEMMA BookUpdate ==
    ASSUME BookInv, NEW p \in DOMAIN peer_stats_, NEW v, StatsOK(v),
           peer_stats_' = [peer_stats_ EXCEPT ![p] = v],
           connected' \ {p} = connected \ {p}, p \in connected' <=> v.expires_at = -1
    PROVE  /\ BookInv' /\ DOMAIN peer_stats_' = DOMAIN peer_stats_ /\ peer_stats_'[p] = v
           /\ \A q \in DOMAIN peer_stats_ \ {p} : peer_stats_'[q] = peer_stats_[q]
  <1>1. /\ DOMAIN peer_stats_' = DOMAIN peer_stats_ /\ peer_stats_'[p] = v
        /\ \A q \in DOMAIN peer_stats_ \ {p} : peer_stats_'[q] = peer_stats_[q]
    OBVIOUS
  <1>2. connected' \subseteq DOMAIN peer_stats_
    BY DEF BookInv
  <1>3. ASSUME NEW q \in DOMAIN peer_stats_
        PROVE  StatsOK(peer_stats_'[q]) /\ (q \in connected' <=> peer_stats_'[q].expires_at = -1)
    <2>1. CASE q = p
      BY <1>1, <2>1
    <2>2. CASE q # p
      BY <1>1, <2>2 DEF BookInv
    <2> QED BY <2>1, <2>2
  <1>4. BookInv'
    BY <1>1, <1>2, <1>3, Primed DEF BookInv
  <1> QED BY <1>1, <1>4

(* The statistics and what was left with do not change.                      *)
LEMMA BookKept ==
    ASSUME BookInv, LeftInv, peer_stats_' = peer_stats_, connected' = connected, left' = left
    PROVE  BookInv' /\ LeftInv'
  <1>1. BookInv'
    BY Primed DEF BookInv
  <1>2. ASSUME NEW p \in DOMAIN left PROVE AwayInv(p)'
    <2>1. AwayInv(p)
      BY DEF LeftInv
    <2> QED BY <2>1, Primed DEF AwayInv
  <1> QED BY <1>1, <1>2 DEF LeftInv

(* The step concerns p only: what the others left with still stands.         *)
LEMMA LeftOfOthers ==
    ASSUME LeftInv, NEW p,
           \A q \in DOMAIN left' : q # p => q \in DOMAIN left /\ left'[q] = left[q],
           connected' \subseteq connected \cup {p},
           DOMAIN peer_stats_' \ {p} = DOMAIN peer_stats_ \ {p},
           \A q \in DOMAIN peer_stats_ : q # p => peer_stats_'[q] = peer_stats_[q],
           p \in DOMAIN left' => AwayInv(p)'
    PROVE  LeftInv'
  <1>1. ASSUME NEW q \in DOMAIN left', q # p PROVE AwayInv(q)'
    <2>1. AwayInv(q) /\ left'[q] = left[q]
      BY <1>1 DEF LeftInv
    <2>2. q \in DOMAIN peer_stats_' <=> q \in DOMAIN peer_stats_
      BY <1>1
    <2>3. q \in DOMAIN peer_stats_ => peer_stats_'[q] = peer_stats_[q]
      BY <1>1
    <2>4. q \notin connected'
      BY <1>1, <2>1 DEF AwayInv
    <2> QED BY <2>1, <2>2, <2>3, <2>4, Primed DEF AwayInv
  <1> QED BY <1>1 DEF LeftInv

(* The counters or the membership of a connected peer change.                *)
LEMMA TopicUpdate ==
    ASSUME BookInv, LeftInv, NEW p \in connected, NEW ts, TopicOK(ts),
           peer_stats_' = [peer_stats_ EXCEPT ![p].topic = ts],
           connected' = connected, left' = left
    PROVE  BookInv' /\ LeftInv'
  <1> DEFINE v == [peer_stats_[p] EXCEPT !.topic = ts]
  <1>1. /\ p \in DOMAIN peer_stats_ /\ StatsOK(peer_stats_[p])
        /\ peer_stats_[p].expires_at = -1
    BY DEF BookInv
  <1>2. StatsOK(v) /\ v.expires_at = -1
    <2>1. v.expires_at = -1 /\ v.topic = ts
          /\ v \in [expires_at : {-1} \cup 0..retain_score, behaviour_penalty : 0..MaxPenalty,
                    topic : S!TopicStats]
      BY <1>1 DEF StatsOK, TopicOK
    <2> HIDE DEF v
    <2> QED BY <2>1 DEF StatsOK
  <1>3. peer_stats_' = [peer_stats_ EXCEPT ![p] = v]
    OBVIOUS
  <1> HIDE DEF v
  <1>4. /\ BookInv' /\ DOMAIN peer_stats_' = DOMAIN peer_stats_
        /\ \A q \in DOMAIN peer_stats_ \ {p} : peer_stats_'[q] = peer_stats_[q]
    BY <1>1, <1>2, <1>3, BookUpdate, Zenon
  <1>5. p \notin DOMAIN left
    BY DEF LeftInv, AwayInv
  <1>6. LeftInv'
    BY <1>4, <1>5, LeftOfOthers
  <1> QED BY <1>4, <1>6

(* connect takes the entry that was retained, or makes a new one.            *)
LEMMA ConnectInv ==
    ASSUME S!ScoreAssumption, SInv, NEW p \in ScoredPeers, S!connect(p)
    PROVE  BookInv' /\ LeftInv'
  <1>1. BookInv /\ LeftInv /\ p \notin connected /\ connected' = connected \cup {p}
        /\ left' = S!Drop(left, {p})
    BY DEF SInv, S!connect
  <1>2. /\ DOMAIN left' = DOMAIN left \ {p}
        /\ \A q \in DOMAIN left' : left'[q] = left[q]
    BY <1>1 DEF S!Drop, S!Restrict
  <1>3. CASE p \in DOMAIN peer_stats_
    <2> DEFINE v == [peer_stats_[p] EXCEPT !.expires_at = -1]
    <2>1. StatsOK(peer_stats_[p]) /\ peer_stats_' = [peer_stats_ EXCEPT ![p] = v]
      BY <1>1, <1>3 DEF BookInv, S!connect, S!unexpired, S!Never
    <2>2. StatsOK(v) /\ v.expires_at = -1
      <3>1. v.expires_at = -1 /\ v.topic = peer_stats_[p].topic
            /\ v \in [expires_at : {-1} \cup 0..retain_score, behaviour_penalty : 0..MaxPenalty,
                      topic : S!TopicStats]
        BY <2>1 DEF StatsOK
      <3> HIDE DEF v
      <3> QED BY <2>1, <3>1 DEF StatsOK
    <2> HIDE DEF v
    <2>3. /\ BookInv' /\ DOMAIN peer_stats_' = DOMAIN peer_stats_
          /\ \A q \in DOMAIN peer_stats_ \ {p} : peer_stats_'[q] = peer_stats_[q]
      BY <1>1, <1>3, <2>1, <2>2, BookUpdate, Zenon
    <2>4. LeftInv'
      BY <1>1, <1>2, <2>3, LeftOfOthers
    <2> QED BY <2>3, <2>4
  <1>4. CASE p \notin DOMAIN peer_stats_
    <2>1. peer_stats_' = S!With(peer_stats_, p, S!defaultStats)
      BY <1>4 DEF S!connect
    <2>2. /\ DOMAIN peer_stats_' = DOMAIN peer_stats_ \cup {p}
          /\ peer_stats_'[p] = S!defaultStats
          /\ \A q \in DOMAIN peer_stats_ : peer_stats_'[q] = peer_stats_[q]
      BY <1>4, <2>1 DEF S!With
    <2>3. StatsOK(S!defaultStats) /\ S!defaultStats.expires_at = -1
      BY DefaultStats
    <2>4. BookInv'
      <3>1. ASSUME NEW q \in DOMAIN peer_stats_'
            PROVE  /\ StatsOK(peer_stats_'[q])
                   /\ q \in connected' <=> peer_stats_'[q].expires_at = -1
        <4>1. CASE q = p
          BY <1>1, <2>2, <2>3, <4>1
        <4>2. CASE q # p
          BY <1>1, <2>2, <4>2 DEF BookInv
        <4> QED BY <4>1, <4>2
      <3>2. DOMAIN peer_stats_' \subseteq ScoredPeers /\ connected' \subseteq DOMAIN peer_stats_'
        BY <1>1, <2>2 DEF BookInv
      <3> QED BY <3>1, <3>2, Primed DEF BookInv
    <2>5. LeftInv'
      BY <1>1, <1>2, <2>2, LeftOfOthers
    <2> QED BY <2>4, <2>5
  <1> QED BY <1>3, <1>4

(* A graft opens the membership without an active deficit.                   *)
LEMMA GraftInv ==
    ASSUME S!ScoreAssumption, SInv, NEW p \in ScoredPeers, S!graft(p)
    PROVE  BookInv' /\ LeftInv'
  <1> DEFINE t == peer_stats_[p].topic
             ts == [t EXCEPT !.mesh_active = 0, !.mesh_message_deliveries_active = FALSE]
  <1>1. /\ BookInv /\ LeftInv /\ p \in connected /\ p \in DOMAIN peer_stats_
        /\ connected' = connected /\ left' = left
    BY DEF SInv, S!graft
  <1>2. t \in S!TopicStats
    BY <1>1 DEF BookInv, StatsOK, TopicOK
  <1>3. TopicOK(ts)
    <2>1. 0 \in Int
      OBVIOUS
    <2>2. ts \in S!TopicStats /\ ts.mesh_active = 0 /\ ~ts.mesh_message_deliveries_active
      BY Zenon, <1>2, <2>1 DEF S!TopicStats
    <2> HIDE DEF ts
    <2> QED BY <2>2 DEF TopicOK
  <1>4. peer_stats_' = [peer_stats_ EXCEPT ![p].topic = ts]
    BY Zenon DEF S!graft
  <1> HIDE DEF ts
  <1> QED BY <1>1, <1>3, <1>4, TopicUpdate, Zenon

(* prune ends the membership of a connected peer.                            *)
LEMMA PruneInv ==
    ASSUME S!ScoreAssumption, SInv, NEW p \in ScoredPeers, S!prune(p)
    PROVE  BookInv' /\ LeftInv'
  <1>1. /\ BookInv /\ LeftInv /\ p \in DOMAIN peer_stats_
        /\ connected' = connected /\ left' = left
        /\ peer_stats_' = [peer_stats_ EXCEPT ![p].topic = S!outOfMesh(peer_stats_[p].topic)]
    BY DEF SInv, S!prune
  <1>2. StatsOK(peer_stats_[p]) /\ peer_stats_[p].topic.mesh_active # -1
    BY <1>1 DEF S!prune, S!inMesh, S!NotInMesh, BookInv
  <1>3. p \in connected
    BY <1>1, <1>2 DEF BookInv, StatsOK
  <1>4. TopicOK(S!outOfMesh(peer_stats_[p].topic))
    BY <1>2, OutOfMesh DEF StatsOK
  <1> QED BY <1>1, <1>3, <1>4, TopicUpdate, Zenon

(* What disconnect retains of a peer whose score is not positive.            *)
Retained(stats) ==
    [stats EXCEPT !.topic = [S!outOfMesh(stats.topic) EXCEPT !.first_message_deliveries = 0],
                  !.expires_at = retain_score]

(* It is out of the mesh, and its score is no better.                        *)
LEMMA RetainedCosts ==
    ASSUME S!ScoreAssumption, NEW stats, StatsOK(stats)
    PROVE  /\ StatsOK(Retained(stats)) /\ Retained(stats).expires_at = retain_score
           /\ Retained(stats).topic.mesh_active = -1
           /\ S!scoreOf(Retained(stats)) <= S!scoreOf(stats)
  <1> DEFINE t == S!outOfMesh(stats.topic)
             u == [t EXCEPT !.first_message_deliveries = 0]
             st == [stats EXCEPT !.topic = u, !.expires_at = retain_score]
             k == stats.topic.mesh_failure_penalty
                    + S!deficit(stats.topic) * S!deficit(stats.topic)
  <1>1. TopicOK(t) /\ t.mesh_active = -1 /\ t.mesh_failure_penalty = k
    BY OutOfMesh DEF StatsOK
  <1>2. stats.topic.first_message_deliveries \in Nat /\ retain_score \in Nat
    BY DEF StatsOK, S!TopicStats, S!ScoreAssumption
  <1> HIDE DEF t, k
  <1>3. /\ u \in S!TopicStats /\ u.mesh_active = -1 /\ u.first_message_deliveries = 0
        /\ u.mesh_failure_penalty = k
        /\ u.mesh_message_deliveries_active = t.mesh_message_deliveries_active
    BY <1>1 DEF TopicOK, S!TopicStats
  <1> HIDE DEF u
  <1>4. TopicOK(u)
    BY <1>1, <1>3 DEF TopicOK
  <1>5. /\ st \in [expires_at : {-1} \cup 0..retain_score, behaviour_penalty : 0..MaxPenalty,
                   topic : S!TopicStats]
        /\ st.topic = u /\ st.expires_at = retain_score
        /\ st.behaviour_penalty = stats.behaviour_penalty
    <2>1. retain_score \in {-1} \cup 0..retain_score
      BY <1>2
    <2>2. stats \in [expires_at : {-1} \cup 0..retain_score, behaviour_penalty : 0..MaxPenalty,
                     topic : S!TopicStats]
      BY DEF StatsOK
    <2> QED BY Zenon, <1>3, <2>1, <2>2
  <1>6. Retained(stats) = st
    BY DEF Retained, u, t
  <1> HIDE DEF st
  <1>7. StatsOK(st)
    BY <1>3, <1>4, <1>5 DEF StatsOK
  <1>8. S!scoreOf(st) <= S!scoreOf(stats)
    <2>1. st.topic.first_message_deliveries <= stats.topic.first_message_deliveries
      BY <1>2, <1>3, <1>5
    <2>2. st.topic.mesh_failure_penalty
            = stats.topic.mesh_failure_penalty + S!deficit(stats.topic) * S!deficit(stats.topic)
      BY <1>3, <1>5 DEF k
    <2> QED BY <1>3, <1>5, <1>7, <2>1, <2>2, LeavingCosts
  <1> QED BY <1>3, <1>5, <1>6, <1>7, <1>8

(* The new entry of left says the score the peer leaves with.                *)
LEMMA DisconnectInv ==
    ASSUME S!ScoreAssumption, SInv, NEW p \in ScoredPeers, S!disconnect(p)
    PROVE  BookInv' /\ LeftInv'
  <1> DEFINE stats == peer_stats_[p]
             entry == [score |-> S!scoreOf(stats), since |-> 0]
  <1>1. /\ BookInv /\ LeftInv /\ p \in connected /\ p \in DOMAIN peer_stats_
        /\ StatsOK(stats) /\ connected' = connected \ {p}
        /\ retain_score \in Nat
    BY DEF SInv, S!disconnect, BookInv, S!ScoreAssumption
  <1>2. S!scoreOf(stats) \in Int
    BY <1>1, ScoreTerms
  <1>3. /\ \A q \in DOMAIN left' : q # p => q \in DOMAIN left /\ left'[q] = left[q]
        /\ p \in DOMAIN left' => ~S!isNaN(stats) /\ left'[p] = entry
    <2>1. CASE S!isNaN(stats)
      <3>1. left' = S!Drop(left, {p})
        BY <2>1 DEF S!disconnect
      <3> QED BY <3>1 DEF S!Drop, S!Restrict
    <2>2. CASE ~S!isNaN(stats)
      <3>1. left' = S!With(left, p, entry)
        BY <2>2 DEF S!disconnect
      <3> HIDE DEF entry
      <3> QED BY <2>2, <3>1 DEF S!With
    <2> QED BY <2>1, <2>2
  <1>4. /\ entry \in [score : Int, since : 0..retain_score + 1]
        /\ entry.score = S!scoreOf(stats) /\ entry.since = 0
    BY <1>1, <1>2
  <1> HIDE DEF entry
  <1>5. CASE S!positive(p)
    <2>1. peer_stats_' = S!Drop(peer_stats_, {p})
      BY <1>5 DEF S!disconnect, S!retained
    <2>2. /\ DOMAIN peer_stats_' = DOMAIN peer_stats_ \ {p}
          /\ \A q \in DOMAIN peer_stats_' : peer_stats_'[q] = peer_stats_[q]
      BY <2>1 DEF S!Drop, S!Restrict
    <2>3. BookInv'
      BY <1>1, <2>2, Primed, SMTT(20) DEF BookInv
    <2>4. p \in DOMAIN left' => AwayInv(p)'
      <3>1. S!scoreOf(stats) > 0
        BY <1>5, SMTT(30) DEF S!positive
      <3> QED BY <1>1, <1>2, <1>3, <1>4, <2>2, <3>1 DEF AwayInv
    <2>5. LeftInv'
      BY <1>1, <1>3, <2>2, <2>4, LeftOfOthers
    <2> QED BY <2>3, <2>5
  <1>6. CASE ~S!positive(p)
    <2> DEFINE v == Retained(stats)
    <2>1. peer_stats_' = [peer_stats_ EXCEPT ![p] = v]
      BY <1>6, Zenon DEF S!disconnect, S!retained, Retained
    <2>2. StatsOK(v) /\ v.expires_at = retain_score /\ S!scoreOf(v) <= S!scoreOf(stats)
      BY <1>1, RetainedCosts
    <2> HIDE DEF v
    <2>3. retain_score # -1
      BY <1>1
    <2>4. /\ BookInv' /\ DOMAIN peer_stats_' = DOMAIN peer_stats_ /\ peer_stats_'[p] = v
          /\ \A q \in DOMAIN peer_stats_ \ {p} : peer_stats_'[q] = peer_stats_[q]
      BY <1>1, <2>1, <2>2, <2>3, BookUpdate, Zenon
    <2>5. p \in DOMAIN left' => AwayInv(p)'
      <3>1. S!scoreOf(peer_stats_'[p]) <= entry.score
        BY <1>4, <2>2, <2>4
      <3>2. entry.since + v.expires_at = retain_score
        BY <1>1, <1>4, <2>2
      <3>3. S!scoreOf(peer_stats_[p])' = S!scoreOf(peer_stats_'[p])
        BY Primed
      <3> QED BY <1>1, <1>3, <1>4, <2>4, <3>1, <3>2, <3>3 DEF AwayInv
    <2>6. LeftInv'
      BY <1>1, <1>3, <2>4, <2>5, LeftOfOthers
    <2> QED BY <2>4, <2>6
  <1> QED BY <1>5, <1>6

(* A penalty may come when the peer is away.                                 *)
LEMMA PenaltyInv ==
    ASSUME S!ScoreAssumption, SInv, NEW p \in ScoredPeers, NEW count \in 1..2,
           S!addPenalty(p, count)
    PROVE  BookInv' /\ LeftInv'
  <1> DEFINE stats == peer_stats_[p]
             n == stats.behaviour_penalty + count * One
             v == [stats EXCEPT !.behaviour_penalty = n]
  <1>1. /\ BookInv /\ LeftInv /\ p \in DOMAIN peer_stats_ /\ StatsOK(stats)
        /\ connected' = connected /\ left' = left
        /\ peer_stats_' = [peer_stats_ EXCEPT ![p] = v] /\ n <= MaxPenalty
    BY DEF SInv, S!addPenalty, BookInv
  <1>2. n \in 0..MaxPenalty /\ stats.behaviour_penalty <= n
    <2>1. stats.behaviour_penalty \in Nat /\ One \in Nat /\ MaxPenalty \in Nat /\ count \in Nat
      BY <1>1 DEF StatsOK, S!ScoreAssumption
    <2>2. count * One \in Nat
      BY <2>1, Product
    <2> QED BY <1>1, <2>1, <2>2
  <1> HIDE DEF n
  <1>3. /\ v.expires_at = stats.expires_at /\ v.topic = stats.topic /\ v.behaviour_penalty = n
        /\ v \in [expires_at : {-1} \cup 0..retain_score, behaviour_penalty : 0..MaxPenalty,
                  topic : S!TopicStats]
    BY <1>1, <1>2 DEF StatsOK
  <1> HIDE DEF v
  <1>4. StatsOK(v)
    BY <1>1, <1>3 DEF StatsOK
  <1>5. p \in connected' <=> v.expires_at = -1
    BY <1>1, <1>3 DEF BookInv
  <1>6. /\ BookInv' /\ DOMAIN peer_stats_' = DOMAIN peer_stats_ /\ peer_stats_'[p] = v
        /\ \A q \in DOMAIN peer_stats_ \ {p} : peer_stats_'[q] = peer_stats_[q]
    BY <1>1, <1>4, <1>5, BookUpdate, Zenon
  <1>7. p \in DOMAIN left' => AwayInv(p)'
    <2> SUFFICES ASSUME p \in DOMAIN left PROVE AwayInv(p)'
      BY <1>1
    <2>1. AwayInv(p) /\ left'[p] = left[p]
      BY <1>1 DEF LeftInv
    <2>2. S!scoreOf(v) <= S!scoreOf(stats)
      BY <1>1, <1>2, <1>3, <1>4, PenaltyCosts
    <2>3. S!scoreOf(v) \in Int /\ S!scoreOf(stats) \in Int
      BY <1>1, <1>4, ScoreTerms
    <2>4. S!scoreOf(v) <= left[p].score
      <3>1. left[p].score \in Int /\ S!scoreOf(stats) <= left[p].score
        BY <1>1, <2>1 DEF AwayInv
      <3> QED BY <2>2, <2>3, <3>1
    <2>5. S!scoreOf(peer_stats_[p])' = S!scoreOf(v)
      BY <1>6, Primed
    <2> QED BY <1>1, <1>3, <1>6, <2>1, <2>4, <2>5 DEF AwayInv
  <1>8. LeftInv'
    BY <1>1, <1>6, <1>7, LeftOfOthers, SMTT(20)
  <1> QED BY <1>6, <1>8

-----------------------------------------------------------------------------
(* The delivery records.                                                     *)

(* getOrDefault keeps the live records and makes one that nobody is in.      *)
LEMMA RecordsOf ==
    ASSUME S!ScoreAssumption, RecordInv, NEW m \in Messages
    PROVE  LET r == S!getOrDefault(m) IN
           /\ DOMAIN r \subseteq Messages /\ m \in DOMAIN r
           /\ \A k \in DOMAIN r : r[k] \in Record
           /\ \A k \in DOMAIN r \ {m} : k \in S!live(deliveries_) /\ r[k] = deliveries_[k]
           /\ m \in S!live(deliveries_) => r[m] = deliveries_[m]
           /\ m \notin S!live(deliveries_) => r[m].status = "unknown" /\ r[m].peers = {}
  <1> DEFINE r == S!getOrDefault(m)
             live == S!live(deliveries_)
             fresh == [status |-> "unknown", open |-> FALSE, peers |-> {},
                       ttl |-> kTimeCacheDuration]
  <1>1. live \subseteq DOMAIN deliveries_ /\ DOMAIN deliveries_ \subseteq Messages
        /\ \A k \in live : deliveries_[k] \in Record
    BY DEF S!live, RecordInv
  <1>2. fresh \in Record
    <2>1. kTimeCacheDuration \in 0..kTimeCacheDuration
      BY SMTT(30) DEF S!ScoreAssumption
    <2> QED BY Zenon, <2>1 DEF Record
  <1> HIDE DEF live
  <1>3. CASE m \in live
    <2>1. r = [k \in live |-> deliveries_[k]]
      BY <1>3 DEF S!getOrDefault, S!Restrict, live
    <2> HIDE DEF r
    <2>2. DOMAIN r = live /\ \A k \in live : r[k] = deliveries_[k]
      BY <2>1
    <2> QED BY <1>1, <1>3, <2>2 DEF r, live
  <1>4. CASE m \notin live
    <2>1. r = S!With([k \in live |-> deliveries_[k]], m, fresh)
      BY <1>4 DEF S!getOrDefault, S!Restrict, live
    <2> HIDE DEF r
    <2>2. fresh.status = "unknown" /\ fresh.peers = {}
      OBVIOUS
    <2> HIDE DEF fresh
    <2>3. DOMAIN r = live \cup {m} /\ r[m] = fresh /\ \A k \in live : r[k] = deliveries_[k]
      BY <1>4, <2>1, Zenon DEF S!With
    <2> QED BY <1>1, <1>2, <1>4, <2>2, <2>3 DEF r, live
  <1> QED BY <1>3, <1>4

(* The record of m changes, and with it who was credited for m.              *)
LEMMA Recorded ==
    ASSUME S!ScoreAssumption, RecordInv, NEW m \in Messages, NEW v \in Record,
           deliveries_' = [S!getOrDefault(m) EXCEPT ![m] = v],
           credits' \in [Messages \X ScoredPeers -> 0..1],
           \A k \in Messages \ {m}, q \in ScoredPeers : credits'[<<k, q>>] = credits[<<k, q>>],
           \A q \in ScoredPeers : credits'[<<m, q>>] = 1 => q \in v.peers
    PROVE  RecordInv'
  <1> DEFINE r == S!getOrDefault(m)
  <1>1. /\ DOMAIN r \subseteq Messages /\ m \in DOMAIN r /\ \A k \in DOMAIN r : r[k] \in Record
        /\ \A k \in DOMAIN r \ {m} : k \in S!live(deliveries_) /\ r[k] = deliveries_[k]
    BY RecordsOf
  <1> HIDE DEF r
  <1>2. /\ DOMAIN deliveries_' = DOMAIN r /\ deliveries_'[m] = v
        /\ \A k \in DOMAIN r \ {m} : deliveries_'[k] = deliveries_[k]
    BY <1>1 DEF r
  <1>3. \A k \in DOMAIN deliveries_' : deliveries_'[k] \in Record
    BY <1>1, <1>2
  <1>4. ASSUME NEW k \in Messages, NEW q \in ScoredPeers, credits'[<<k, q>>] = 1,
               k \in S!live(deliveries_)'
        PROVE  q \in deliveries_'[k].peers
    <2>1. CASE k = m
      BY <1>2, <1>4, <2>1
    <2>2. CASE k # m
      <3>1. k \in DOMAIN r \ {m}
        BY <1>2, <1>4, <2>2 DEF S!live
      <3>2. credits[<<k, q>>] = 1 /\ k \in S!live(deliveries_) /\ deliveries_'[k] = deliveries_[k]
        BY <1>1, <1>2, <1>4, <2>2, <3>1
      <3> QED BY <3>2 DEF RecordInv
    <2> QED BY <2>1, <2>2
  <1> QED BY <1>1, <1>2, <1>3, <1>4, Zenon DEF RecordInv, Record

(* The credits that belong to the record.                                    *)
LEMMA CreditedOf ==
    ASSUME RecordInv, NEW m \in Messages
    PROVE  /\ S!credited(m) \in [Messages \X ScoredPeers -> 0..1]
           /\ \A k \in Messages \ {m}, q \in ScoredPeers : S!credited(m)[<<k, q>>] = credits[<<k, q>>]
           /\ \A q \in ScoredPeers : S!credited(m)[<<m, q>>] = 1 => q \in S!getOrDefault(m)[m].peers
  <1>1. /\ credits \in [Messages \X ScoredPeers -> 0..1] /\ DOMAIN credits = Messages \X ScoredPeers
    BY DEF RecordInv
  <1>2. S!credited(m) \in [Messages \X ScoredPeers -> 0..1]
    BY <1>1 DEF S!credited
  <1>3. \A k \in Messages, q \in ScoredPeers :
            S!credited(m)[<<k, q>>] = IF k = m /\ m \notin S!live(deliveries_) THEN 0
                                      ELSE credits[<<k, q>>]
    BY <1>1 DEF S!credited
  <1>4. ASSUME NEW q \in ScoredPeers, S!credited(m)[<<m, q>>] = 1
        PROVE  q \in S!getOrDefault(m)[m].peers
    <2>1. m \in S!live(deliveries_) /\ credits[<<m, q>>] = 1
      BY <1>3, <1>4
    <2>2. S!getOrDefault(m)[m] = deliveries_[m]
      BY <2>1 DEF S!getOrDefault, S!Restrict
    <2> QED BY <2>1, <2>2 DEF RecordInv
  <1> QED BY <1>2, <1>3, <1>4

(* A duplicate is credited to who is not in the record yet.                  *)
LEMMA DuplicateInv ==
    ASSUME S!ScoreAssumption, SInv, NEW p \in connected, NEW m \in Messages,
           S!duplicateMessage(p, m), connected' = connected, left' = left
    PROVE  SInv'
  <1> DEFINE r == S!getOrDefault(m)
             ts == peer_stats_[p].topic
             credit == /\ p \notin r[m].peers /\ r[m].status = "valid" /\ r[m].open
                       /\ p \in DOMAIN peer_stats_ /\ S!inMesh(ts)
             v == [r[m] EXCEPT !.peers = @ \cup {p}]
             c == S!credited(m)
             n == IF credit THEN c[<<m, p>>] + 1 ELSE c[<<m, p>>]
  <1>1. /\ BookInv /\ RecordInv /\ LeftInv /\ p \in ScoredPeers /\ p \in DOMAIN peer_stats_
        /\ TopicOK(ts)
    BY DEF SInv, BookInv, StatsOK
  <1>2. /\ deliveries_' = [r EXCEPT ![m] = v]
        /\ credits' = [c EXCEPT ![<<m, p>>] = n]
        /\ peer_stats_' = IF credit THEN [peer_stats_ EXCEPT ![p].topic = S!meshDelivery(ts)]
                          ELSE peer_stats_
    BY DEF S!duplicateMessage, S!notePeer
  <1>3. BookInv' /\ LeftInv'
    <2>1. CASE credit
      <3>1. TopicOK(S!meshDelivery(ts))
        BY <1>1, DeliveryOK
      <3>2. peer_stats_' = [peer_stats_ EXCEPT ![p].topic = S!meshDelivery(ts)]
        BY <1>2, <2>1
      <3> HIDE DEF ts
      <3> QED BY <1>1, <3>1, <3>2, TopicUpdate, Zenon
    <2>2. CASE ~credit
      <3>1. peer_stats_' = peer_stats_
        BY <1>2, <2>2
      <3> QED BY <1>1, <3>1, BookKept
    <2> QED BY <2>1, <2>2
  <1>4. /\ r[m] \in Record /\ m \in DOMAIN r
    BY <1>1, RecordsOf
  <1>5. /\ c \in [Messages \X ScoredPeers -> 0..1]
        /\ \A k \in Messages \ {m}, q \in ScoredPeers : c[<<k, q>>] = credits[<<k, q>>]
        /\ \A q \in ScoredPeers : c[<<m, q>>] = 1 => q \in r[m].peers
    BY <1>1, CreditedOf, Zenon
  <1> HIDE DEF r, c
  <1>6. v \in Record /\ v.peers = r[m].peers \cup {p}
    BY <1>1, <1>4 DEF Record
  <1>7. n \in 0..1
    <2>1. c[<<m, p>>] \in 0..1
      BY <1>1, <1>5
    <2>2. credit => c[<<m, p>>] = 0
      BY <1>1, <1>5, <2>1
    <2> HIDE DEF credit
    <2> QED BY SMTT(30), <2>1, <2>2
  <1> HIDE DEF n, v
  <1>8. /\ credits' \in [Messages \X ScoredPeers -> 0..1]
        /\ \A k \in Messages \ {m}, q \in ScoredPeers : credits'[<<k, q>>] = credits[<<k, q>>]
    BY <1>1, <1>2, <1>5, <1>7
  <1>9. \A q \in ScoredPeers : credits'[<<m, q>>] = 1 => q \in v.peers
    BY <1>1, <1>2, <1>5, <1>6
  <1>10. RecordInv'
    BY <1>1, <1>2, <1>6, <1>8, <1>9, Recorded, Zenon DEF r
  <1> QED BY <1>3, <1>10 DEF SInv

(* The first delivery credits nobody for a duplicate.                        *)
LEMMA DeliverInv ==
    ASSUME S!ScoreAssumption, SInv, NEW p \in connected, NEW m \in Messages,
           S!deliver_message(p, m), connected' = connected, left' = left
    PROVE  SInv'
  <1> DEFINE r == S!getOrDefault(m)
             ts == peer_stats_[p].topic
             w == [r[m] EXCEPT !.status = "valid", !.open = TRUE]
             v == IF r[m].status = "unknown" THEN w ELSE r[m]
             c == S!credited(m)
  <1>1. /\ BookInv /\ RecordInv /\ LeftInv /\ p \in ScoredPeers /\ p \in DOMAIN peer_stats_
        /\ TopicOK(ts)
    BY DEF SInv, BookInv, StatsOK
  <1>2. /\ deliveries_' = [r EXCEPT ![m] = v] /\ credits' = c
        /\ peer_stats_' = [peer_stats_ EXCEPT ![p].topic = S!mark_first_message_delivery(ts)]
    BY <1>1 DEF S!deliver_message
  <1>3. BookInv' /\ LeftInv'
    <2>1. TopicOK(S!mark_first_message_delivery(ts))
      BY <1>1, DeliveryOK
    <2> HIDE DEF ts
    <2> QED BY <1>1, <1>2, <2>1, TopicUpdate, Zenon
  <1>4. r[m] \in Record
    BY <1>1, RecordsOf
  <1>5. /\ c \in [Messages \X ScoredPeers -> 0..1]
        /\ \A k \in Messages \ {m}, q \in ScoredPeers : c[<<k, q>>] = credits[<<k, q>>]
        /\ \A q \in ScoredPeers : c[<<m, q>>] = 1 => q \in r[m].peers
    BY <1>1, CreditedOf, Zenon
  <1> HIDE DEF r, c
  <1>6. w \in Record /\ w.peers = r[m].peers
    BY Zenon, <1>4 DEF Record
  <1> HIDE DEF w
  <1>7. v \in Record /\ v.peers = r[m].peers
    BY <1>4, <1>6
  <1> HIDE DEF v
  <1>8. RecordInv'
    BY <1>1, <1>2, <1>5, <1>7, Recorded, Zenon DEF r
  <1> QED BY <1>3, <1>8 DEF SInv

-----------------------------------------------------------------------------
(* The records only get older, or their window closes.                       *)
LEMMA RecordsAge ==
    ASSUME RecordInv, DOMAIN deliveries_' = DOMAIN deliveries_, credits' = credits,
           \A m \in DOMAIN deliveries_ :
               /\ deliveries_'[m] \in Record /\ deliveries_'[m].peers = deliveries_[m].peers
               /\ deliveries_'[m].ttl > 0 => deliveries_[m].ttl > 0
    PROVE  RecordInv'
  <1>1. S!live(deliveries_)' \subseteq S!live(deliveries_)
    BY DEF S!live
  <1>2. ASSUME NEW m \in Messages, NEW p \in ScoredPeers, credits[<<m, p>>] = 1,
               m \in S!live(deliveries_)'
        PROVE  p \in deliveries_'[m].peers
    <2>1. m \in S!live(deliveries_) /\ m \in DOMAIN deliveries_
      BY <1>1, <1>2 DEF S!live
    <2> QED BY <1>2, <2>1 DEF RecordInv
  <1> QED BY <1>2 DEF RecordInv, Record

(* The window of a record closes.                                            *)
LEMMA WindowInv ==
    ASSUME SInv, NEW m \in Messages, S!WindowCloses(m)
    PROVE  SInv'
  <1> DEFINE v == [deliveries_[m] EXCEPT !.open = FALSE]
  <1>1. /\ BookInv /\ RecordInv /\ LeftInv /\ m \in DOMAIN deliveries_
        /\ peer_stats_' = peer_stats_ /\ connected' = connected /\ left' = left
        /\ credits' = credits /\ deliveries_' = [deliveries_ EXCEPT ![m] = v]
        /\ \A k \in DOMAIN deliveries_ : deliveries_[k] \in Record
    BY DEF SInv, S!WindowCloses, RecordInv
  <1>2. v \in Record /\ v.peers = deliveries_[m].peers /\ v.ttl = deliveries_[m].ttl
    BY Zenon, <1>1 DEF Record
  <1> HIDE DEF v
  <1>3. RecordInv'
    BY <1>1, <1>2, RecordsAge
  <1> QED BY <1>1, <1>3, BookKept DEF SInv

(* A message is refused, a duplicate or delivered.                           *)
LEMMA OnMessageInv ==
    ASSUME S!ScoreAssumption, SInv, NEW p \in ScoredPeers, NEW m \in Messages, S!onMessage(p, m)
    PROVE  SInv'
  <1>1. p \in connected /\ connected' = connected /\ left' = left
    BY DEF S!onMessage
  <1>2. CASE UNCHANGED <<peer_stats_, deliveries_, duplicate_cache_, credits>>
    <2>1. RecordInv'
      BY <1>2 DEF SInv, RecordInv, Record, S!live
    <2> QED BY <1>1, <1>2, <2>1, BookKept DEF SInv
  <1>3. CASE S!duplicateMessage(p, m)
    BY <1>1, <1>3, DuplicateInv
  <1>4. CASE S!deliver_message(p, m)
    BY <1>1, <1>4, DeliverInv
  <1> QED BY <1>2, <1>3, <1>4 DEF S!onMessage

(* A decay releases what is over, and counts the time of the others.         *)
LEMMA OnDecayInv ==
    ASSUME S!ScoreAssumption, SInv, S!onDecay
    PROVE  SInv'
  <1> DEFINE D == DOMAIN peer_stats_ \ S!expired
  <1>1. /\ BookInv /\ RecordInv /\ LeftInv /\ connected' = connected /\ credits' = credits
        /\ retain_score \in Nat /\ kTimeCacheDuration \in Nat
    BY Zenon DEF SInv, S!onDecay, S!ScoreAssumption
  <1>2. /\ DOMAIN peer_stats_' = D
        /\ \A p \in D : p \in DOMAIN peer_stats_ /\ peer_stats_[p].expires_at # 0
                        /\ peer_stats_'[p] = S!decayPeer(peer_stats_[p])
        /\ \A p \in DOMAIN peer_stats_ \ D : peer_stats_[p].expires_at = 0
    BY Zenon DEF S!onDecay, S!expired
  <1> HIDE DEF D
  <1>3. \A p \in DOMAIN peer_stats_ : StatsOK(peer_stats_[p])
            /\ (p \in connected <=> peer_stats_[p].expires_at = -1)
    BY <1>1 DEF BookInv
  <1>4. ASSUME NEW p \in D
        PROVE  /\ StatsOK(peer_stats_'[p])
               /\ peer_stats_[p].expires_at = -1 => peer_stats_'[p].expires_at = -1
               /\ peer_stats_[p].expires_at # -1 =>
                    /\ peer_stats_'[p].expires_at = peer_stats_[p].expires_at - 1
                    /\ peer_stats_'[p].expires_at # -1
                    /\ S!scoreOf(peer_stats_'[p]) = S!scoreOf(peer_stats_[p])
    BY <1>2, <1>3, DecayOK
  <1>5. BookInv'
    <2>1. D \subseteq ScoredPeers
      BY <1>1, <1>2 DEF BookInv
    <2>2. connected \subseteq D
      BY <1>1, <1>2, <1>3 DEF BookInv
    <2>3. \A p \in D : /\ StatsOK(peer_stats_'[p])
                       /\ p \in connected <=> peer_stats_'[p].expires_at = -1
      BY <1>2, <1>3, <1>4
    <2> QED BY <1>1, <1>2, <2>1, <2>2, <2>3, Primed DEF BookInv
  <1>6. RecordInv'
    <2>1. /\ DOMAIN deliveries_' = DOMAIN deliveries_
          /\ \A m \in DOMAIN deliveries_ : deliveries_[m] \in Record
      BY <1>1, Zenon DEF S!onDecay, RecordInv
    <2>2. ASSUME NEW m \in DOMAIN deliveries_
          PROVE  /\ deliveries_'[m] \in Record /\ deliveries_'[m].peers = deliveries_[m].peers
                 /\ deliveries_'[m].ttl > 0 => deliveries_[m].ttl > 0
      <3> DEFINE n == IF deliveries_[m].ttl > 0 THEN deliveries_[m].ttl - 1 ELSE 0
                 v == [deliveries_[m] EXCEPT !.open = FALSE, !.ttl = n]
      <3>1. n \in 0..kTimeCacheDuration /\ (n > 0 => deliveries_[m].ttl > 0)
        BY <1>1, <2>1 DEF Record
      <3>2. deliveries_'[m] = v
        BY Zenon DEF S!onDecay
      <3> HIDE DEF n
      <3>3. v \in Record /\ v.peers = deliveries_[m].peers /\ v.ttl = n
        BY Zenon, <2>1, <3>1 DEF Record
      <3> HIDE DEF v
      <3> QED BY <3>1, <3>2, <3>3
    <2> QED BY <1>1, <2>1, <2>2, RecordsAge
  <1>7. LeftInv'
    <2>1. DOMAIN left' = DOMAIN left
      BY Zenon DEF S!onDecay
    <2>2. ASSUME NEW p \in DOMAIN left PROVE AwayInv(p)'
      <3> DEFINE n == S!Smaller(left[p].since + 1, retain_score + 1)
                 v == [left[p] EXCEPT !.since = n]
      <3>1. AwayInv(p)
        BY <1>1 DEF LeftInv
      <3>2. left[p] \in [score : Int, since : 0..retain_score + 1] /\ p \in ScoredPeers \ connected
        BY <3>1 DEF AwayInv
      <3>3. n \in 0..retain_score + 1
            /\ (left[p].since <= retain_score => n = left[p].since + 1)
            /\ (left[p].since > retain_score => n > retain_score)
        BY <1>1, <3>2 DEF S!Smaller
      <3>4. left'[p] = v
        BY Zenon DEF S!onDecay
      <3> HIDE DEF n
      <3>5. v \in [score : Int, since : 0..retain_score + 1] /\ v.score = left[p].score
            /\ v.since = n
        BY <3>2, <3>3
      <3> HIDE DEF v
      <3>6. S!scoreOf(peer_stats_[p])' = S!scoreOf(peer_stats_'[p])
        BY Primed
      <3>7. CASE p \in D
        <4>1. /\ p \in DOMAIN peer_stats_ /\ peer_stats_[p].expires_at # -1
              /\ S!scoreOf(peer_stats_[p]) <= left[p].score
              /\ left[p].since + peer_stats_[p].expires_at = retain_score
          BY <1>2, <1>3, <3>1, <3>2, <3>7 DEF AwayInv
        <4>2. /\ peer_stats_'[p].expires_at = peer_stats_[p].expires_at - 1
              /\ S!scoreOf(peer_stats_'[p]) = S!scoreOf(peer_stats_[p])
          BY <1>4, <3>7, <4>1
        <4>3. peer_stats_[p].expires_at \in 0..retain_score
          BY <1>3, <4>1 DEF StatsOK
        <4>4. n + peer_stats_'[p].expires_at = retain_score
          BY <1>1, <3>2, <3>3, <4>1, <4>2, <4>3
        <4> QED BY SMTT(30), <1>1, <1>2, <3>2, <3>4, <3>5, <3>6, <3>7, <4>1, <4>2, <4>4 DEF AwayInv
      <3>8. CASE p \notin D
        <4>1. left[p].score > 0 \/ left[p].since = retain_score \/ left[p].since > retain_score
          <5>1. CASE p \in DOMAIN peer_stats_
            <6>1. peer_stats_[p].expires_at = 0
              BY <1>2, <3>8, <5>1
            <6>2. left[p].since + 0 = retain_score
              BY <3>1, <5>1, <6>1 DEF AwayInv
            <6> QED BY <3>2, <6>2
          <5>2. CASE p \notin DOMAIN peer_stats_
            BY <3>1, <5>2 DEF AwayInv
          <5> QED BY <5>1, <5>2
        <4>2. v.score > 0 \/ v.since > retain_score
          BY <1>1, <3>2, <3>3, <3>5, <4>1
        <4> QED BY <1>1, <1>2, <3>2, <3>4, <3>5, <3>8, <4>2 DEF AwayInv
      <3> QED BY <3>7, <3>8
    <2> QED BY <2>1, <2>2 DEF LeftInv
  <1> QED BY <1>5, <1>6, <1>7 DEF SInv

(* The invariant holds when nothing was kept yet.                            *)
LEMMA SInit == S!ScoreAssumption /\ S!Init => SInv
  <1> SUFFICES ASSUME S!ScoreAssumption, S!Init PROVE SInv
    OBVIOUS
  <1>1. /\ DOMAIN peer_stats_ = {} /\ DOMAIN deliveries_ = {} /\ DOMAIN left = {}
        /\ connected = {} /\ credits = [x \in Messages \X ScoredPeers |-> 0]
    BY DEF S!Init
  <1>2. credits \in [Messages \X ScoredPeers -> 0..1]
    BY <1>1
  <1>3. S!live(deliveries_) = {}
    BY <1>1 DEF S!live
  <1> QED BY <1>1, <1>2, <1>3 DEF SInv, BookInv, RecordInv, LeftInv

(* Every operation of Score preserves the invariant.                         *)
LEMMA SNext == S!ScoreAssumption /\ SInv /\ [S!Next]_S!vars => SInv'
  <1> SUFFICES ASSUME S!ScoreAssumption, SInv, [S!Next]_S!vars PROVE SInv'
    OBVIOUS
  <1>1. ASSUME deliveries_' = deliveries_, credits' = credits PROVE RecordInv'
    BY <1>1 DEF SInv, RecordInv, Record, S!live
  <1>2. ASSUME NEW p \in ScoredPeers, S!connect(p) PROVE SInv'
    BY <1>1, <1>2, ConnectInv DEF S!connect, SInv
  <1>3. ASSUME NEW p \in ScoredPeers, S!graft(p) PROVE SInv'
    BY <1>1, <1>3, GraftInv, Zenon DEF S!graft, SInv
  <1>4. ASSUME NEW p \in ScoredPeers, S!prune(p) PROVE SInv'
    BY <1>1, <1>4, PruneInv, Zenon DEF S!prune, SInv
  <1>5. ASSUME NEW p \in ScoredPeers, S!disconnect(p) PROVE SInv'
    BY <1>1, <1>5, DisconnectInv DEF S!disconnect, SInv
  <1>6. ASSUME NEW p \in ScoredPeers, NEW count \in 1..2, S!addPenalty(p, count) PROVE SInv'
    BY <1>1, <1>6, PenaltyInv, Zenon DEF S!addPenalty, SInv
  <1>7. ASSUME NEW p \in ScoredPeers, NEW m \in Messages, S!onMessage(p, m) PROVE SInv'
    BY <1>7, OnMessageInv
  <1>8. ASSUME NEW m \in Messages, S!publish(m) PROVE SInv'
    BY <1>1, <1>8, BookKept DEF S!publish, SInv
  <1>9. ASSUME NEW m \in Messages, S!WindowCloses(m) PROVE SInv'
    BY <1>9, WindowInv
  <1>10. CASE S!onDecay
    BY <1>10, OnDecayInv
  <1>11. CASE UNCHANGED S!vars
    BY <1>1, <1>11, BookKept DEF S!vars, SInv
  <1> QED BY <1>2, <1>3, <1>4, <1>5, <1>6, <1>7, <1>8, <1>9, <1>10, <1>11 DEF S!Next

(* The book keeps its types, a deficit counts only after its time in the     *)
(* mesh, and a peer is credited once for the duplicates of a recorded        *)
(* message: for every configuration of the weights, caps and times.          *)
THEOREM ScoreAlwaysSound == ASSUME S!ScoreAssumption PROVE S!Spec => []ScoreSound
  <1>1. SInv => ScoreSound
    <2> SUFFICES ASSUME SInv PROVE ScoreSound
      OBVIOUS
    <2>1. S!DeficitNeedsTime
      BY DEF SInv, BookInv, StatsOK, TopicOK, S!DeficitNeedsTime
    <2>2. S!DuplicateCreditOnce
      BY SMTT(20) DEF SInv, RecordInv, S!DuplicateCreditOnce
    <2>3. S!TypeOK
      BY DEF SInv, BookInv, RecordInv, Record, StatsOK, S!TypeOK, S!Never
    <2> QED BY <2>1, <2>2, <2>3 DEF ScoreSound, S!ScoreSound
  <1>2. S!Init => SInv
    BY SInit
  <1>3. SInv /\ [S!Next]_S!vars => SInv'
    BY SNext, SMTT(30)
  <1> QED BY <1>1, <1>2, <1>3, PTL DEF S!Spec

-----------------------------------------------------------------------------
(* Only prune and disconnect take a peer out of the mesh.                    *)
LEMMA WhoLeaves ==
    ASSUME S!ScoreAssumption, SInv, S!Next, NEW p \in DOMAIN peer_stats_,
           S!inMesh(peer_stats_[p].topic),
           p \in DOMAIN peer_stats_' => ~S!inMesh(peer_stats_'[p].topic)
    PROVE  p \in connected /\ (S!prune(p) \/ S!disconnect(p))
  <1> DEFINE stats == peer_stats_[p]
  <1>1. StatsOK(stats) /\ TopicOK(stats.topic) /\ stats.topic.mesh_active # -1
    BY SMTT(20) DEF SInv, BookInv, StatsOK, S!inMesh, S!NotInMesh
  <1>2. p \in connected /\ stats.expires_at = -1
    BY <1>1 DEF SInv, BookInv, StatsOK
  <1>3. ~(p \in DOMAIN peer_stats_' /\ peer_stats_'[p].topic.mesh_active # -1)
    BY DEF S!inMesh, S!NotInMesh
  <1>4. peer_stats_' # peer_stats_
    BY <1>1, <1>3
  <1>5. ASSUME NEW q \in ScoredPeers, S!connect(q) PROVE FALSE
    <2>1. q # p
      BY <1>2, <1>5 DEF S!connect
    <2>2. p \in DOMAIN peer_stats_' /\ peer_stats_'[p] = stats
      BY <1>5, <2>1 DEF S!connect, S!With
    <2> QED BY <1>1, <1>3, <2>2
  <1>6. ASSUME NEW q \in ScoredPeers, S!graft(q) PROVE FALSE
    <2>1. q # p
      BY <1>1, <1>6 DEF S!graft, S!inMesh, S!NotInMesh
    <2>2. p \in DOMAIN peer_stats_' /\ peer_stats_'[p] = stats
      BY <1>6, <2>1 DEF S!graft
    <2> QED BY <1>1, <1>3, <2>2
  <1>7. ASSUME NEW q \in ScoredPeers, S!prune(q), q # p PROVE FALSE
    <2>1. p \in DOMAIN peer_stats_' /\ peer_stats_'[p] = stats
      BY <1>7 DEF S!prune
    <2> QED BY <1>1, <1>3, <2>1
  <1>8. ASSUME NEW q \in ScoredPeers, S!disconnect(q), q # p PROVE FALSE
    <2>1. p \in DOMAIN peer_stats_' /\ peer_stats_'[p] = stats
      BY <1>8 DEF S!disconnect, S!retained, S!Drop, S!Restrict
    <2> QED BY <1>1, <1>3, <2>1
  <1>9. ASSUME NEW q \in ScoredPeers, NEW count \in 1..2, S!addPenalty(q, count) PROVE FALSE
    <2> DEFINE v == [peer_stats_[q] EXCEPT !.behaviour_penalty = @ + count * One]
    <2>1. q \in DOMAIN peer_stats_ /\ peer_stats_' = [peer_stats_ EXCEPT ![q] = v]
      BY <1>9 DEF S!addPenalty
    <2>2. StatsOK(peer_stats_[q])
      BY <2>1 DEF SInv, BookInv
    <2>3. v.topic = peer_stats_[q].topic
      BY <2>2 DEF StatsOK
    <2> HIDE DEF v
    <2>4. p \in DOMAIN peer_stats_' /\ peer_stats_'[p].topic = stats.topic
      BY <2>1, <2>3
    <2> QED BY <1>1, <1>3, <2>4
  <1>10. ASSUME NEW q \in ScoredPeers, NEW m \in Messages, S!onMessage(q, m) PROVE FALSE
    <2>1. PICK ts : /\ peer_stats_' = [peer_stats_ EXCEPT ![q].topic = ts]
                    /\ ts.mesh_active = peer_stats_[q].topic.mesh_active
      <3>1. q \in DOMAIN peer_stats_ /\ TopicOK(peer_stats_[q].topic)
        BY <1>10, Zenon DEF S!onMessage, SInv, BookInv, StatsOK
      <3>2. /\ S!meshDelivery(peer_stats_[q].topic).mesh_active
                 = peer_stats_[q].topic.mesh_active
            /\ S!mark_first_message_delivery(peer_stats_[q].topic).mesh_active
                 = peer_stats_[q].topic.mesh_active
        BY <3>1, DeliveryOK
      <3>3. CASE S!duplicateMessage(q, m)
        <4>1. peer_stats_' = [peer_stats_ EXCEPT ![q].topic = S!meshDelivery(peer_stats_[q].topic)]
          BY <1>4, <3>3, Zenon DEF S!duplicateMessage
        <4> QED BY <3>2, <4>1, Zenon
      <3>4. CASE S!deliver_message(q, m)
        <4>1. peer_stats_'
                = [peer_stats_ EXCEPT ![q].topic = S!mark_first_message_delivery(peer_stats_[q].topic)]
          BY <1>4, <3>4, ZenonT(30) DEF S!deliver_message
        <4> QED BY <3>2, <4>1, Zenon
      <3> QED BY <1>4, <1>10, <3>3, <3>4 DEF S!onMessage
    <2> DEFINE v == [peer_stats_[q] EXCEPT !.topic = ts]
    <2>2. q \in DOMAIN peer_stats_ /\ StatsOK(peer_stats_[q])
      BY <1>10 DEF S!onMessage, SInv, BookInv
    <2>3. peer_stats_' = [peer_stats_ EXCEPT ![q] = v]
      BY <2>1
    <2>4. v.topic = ts
      BY <2>2 DEF StatsOK
    <2> HIDE DEF v
    <2>5. p \in DOMAIN peer_stats_' /\ peer_stats_'[p].topic.mesh_active = stats.topic.mesh_active
      BY <2>1, <2>2, <2>3, <2>4, SMTT(30)
    <2> QED BY <1>1, <1>3, <2>5
  <1>11. CASE S!onDecay
    <2>1. stats.expires_at # 0
      BY <1>2
    <2>2. p \in DOMAIN peer_stats_ \ S!expired
      BY <2>1 DEF S!expired
    <2>3. p \in DOMAIN peer_stats_' /\ peer_stats_'[p] = S!decayPeer(stats)
      BY <1>11, <2>2, Zenon DEF S!onDecay
    <2>4. S!decayPeer(stats).topic.mesh_active # -1
      BY <1>1, <2>1, DecayOK
    <2> QED BY <1>3, <2>3, <2>4
  <1>12. ASSUME NEW m \in Messages, S!publish(m) \/ S!WindowCloses(m) PROVE FALSE
    BY <1>4, <1>12 DEF S!publish, S!WindowCloses
  <1> QED BY SMTT(30), <1>2, <1>5, <1>6, <1>7, <1>8, <1>9, <1>10, <1>11, <1>12 DEF S!Next

(* Neither leaving the mesh, pruned or disconnected, nor leaving altogether  *)
(* and coming back within retain_score raises a peer's score.                *)
THEOREM LeavingNeverPays == ASSUME S!ScoreAssumption PROVE S!Spec => NoGainByLeaving
  <1>1. SInv /\ [S!Next]_S!vars => [S!GainsNothing /\ S!KeepsScore]_S!vars
    <2> SUFFICES ASSUME SInv, S!Next PROVE S!GainsNothing /\ S!KeepsScore
      BY SMTT(20)
    <2>1. S!GainsNothing
      <3> SUFFICES ASSUME NEW p \in DOMAIN peer_stats_, ~S!isNaN(peer_stats_[p]),
                          S!inMesh(peer_stats_[p].topic),
                          p \in DOMAIN peer_stats_' => ~S!inMesh(peer_stats_'[p].topic)
                   PROVE  (IF p \in DOMAIN peer_stats_' THEN S!scoreOf(peer_stats_'[p]) ELSE 0)
                            <= S!scoreOf(peer_stats_[p])
        BY SMTT(30) DEF S!GainsNothing
      <3> DEFINE stats == peer_stats_[p]
      <3>1. StatsOK(stats) /\ p \in connected /\ (S!prune(p) \/ S!disconnect(p))
        BY WhoLeaves, SMTT(20) DEF SInv, BookInv
      <3>2. S!scoreOf(stats) \in Int
        BY <3>1, ScoreTerms
      <3>3. CASE S!prune(p)
        <4> DEFINE ts == S!outOfMesh(stats.topic)
                   v == [stats EXCEPT !.topic = ts]
        <4>1. peer_stats_' = [peer_stats_ EXCEPT ![p] = v]
          BY <3>3, SMTT(30) DEF S!prune
        <4>2. /\ TopicOK(ts) /\ ts.mesh_active = -1
              /\ ts.first_message_deliveries = stats.topic.first_message_deliveries
              /\ ts.mesh_failure_penalty
                   = stats.topic.mesh_failure_penalty + S!deficit(stats.topic) * S!deficit(stats.topic)
          BY <3>1, OutOfMesh DEF StatsOK
        <4> HIDE DEF ts
        <4>3. /\ v.topic = ts /\ v.behaviour_penalty = stats.behaviour_penalty
              /\ v \in [expires_at : {-1} \cup 0..retain_score, behaviour_penalty : 0..MaxPenalty,
                        topic : S!TopicStats]
          BY <3>1, <4>2 DEF StatsOK, TopicOK
        <4> HIDE DEF v
        <4>4. StatsOK(v)
          BY <4>2, <4>3, SMTT(30) DEF StatsOK
        <4>5. ts.first_message_deliveries <= stats.topic.first_message_deliveries
          BY <3>1, <4>2 DEF StatsOK, S!TopicStats
        <4>6. S!scoreOf(v) <= S!scoreOf(stats)
          BY <3>1, <4>2, <4>3, <4>4, <4>5, LeavingCosts, ZenonT(30)
        <4> QED BY <4>1, <4>6
      <3>4. CASE S!disconnect(p)
        <4>1. CASE S!positive(p)
          <5>1. p \notin DOMAIN peer_stats_' /\ S!scoreOf(stats) > 0
            BY <3>4, <4>1 DEF S!disconnect, S!retained, S!positive, S!Drop, S!Restrict
          <5> QED BY <3>2, <5>1
        <4>2. CASE ~S!positive(p)
          <5>1. peer_stats_' = [peer_stats_ EXCEPT ![p] = Retained(stats)]
            BY <3>4, <4>2, Zenon DEF S!disconnect, S!retained, Retained
          <5>2. S!scoreOf(Retained(stats)) <= S!scoreOf(stats)
            BY <3>1, RetainedCosts
          <5> QED BY <5>1, <5>2
        <4> QED BY <4>1, <4>2
      <3> QED BY <3>1, <3>3, <3>4
    <2>2. S!KeepsScore
      <3> SUFFICES ASSUME NEW p \in connected' \ connected, p \in DOMAIN left,
                          left[p].since <= retain_score
                   PROVE  S!scoreOf(peer_stats_'[p]) <= left[p].score
        BY DEF S!KeepsScore
      <3>1. S!connect(p)
        <4>1. connected' # connected
          OBVIOUS
        <4> QED BY <4>1, Zenon DEF S!Next, S!connect, S!graft, S!prune, S!disconnect, S!addPenalty,
                            S!onMessage, S!publish, S!WindowCloses, S!onDecay
      <3>2. AwayInv(p)
        BY DEF SInv, LeftInv
      <3>3. CASE p \in DOMAIN peer_stats_
        <4> DEFINE v == [peer_stats_[p] EXCEPT !.expires_at = -1]
        <4>1. peer_stats_'[p] = v
          BY <3>1, <3>3 DEF S!connect, S!unexpired, S!Never
        <4>2. StatsOK(peer_stats_[p])
          BY <3>3 DEF SInv, BookInv
        <4>3. v.topic = peer_stats_[p].topic /\ v.behaviour_penalty = peer_stats_[p].behaviour_penalty
          BY SMTT(30), <4>2 DEF StatsOK
        <4> HIDE DEF v
        <4>4. S!scoreOf(v) = S!scoreOf(peer_stats_[p])
          BY <4>3 DEF S!scoreOf, S!scoreWith
        <4> QED BY <3>2, <3>3, <4>1, <4>4 DEF AwayInv
      <3>4. CASE p \notin DOMAIN peer_stats_
        <4>1. peer_stats_'[p] = S!defaultStats
          BY <3>1, <3>4 DEF S!connect, S!With
        <4>2. left[p].score > 0 /\ left[p].score \in Int
          <5>1. left[p].score > 0 \/ left[p].since > retain_score
            BY <3>2, <3>4 DEF AwayInv
          <5>2. left[p].score \in Int /\ left[p].since \in Int /\ retain_score \in Int
            BY <3>2 DEF AwayInv, S!ScoreAssumption
          <5> QED BY <5>1, <5>2, SMTT(20)
        <4>3. S!scoreOf(S!defaultStats) = 0
          BY DefaultStats
        <4> QED BY <4>1, <4>2, <4>3
      <3> QED BY <3>3, <3>4
    <2> QED BY <2>1, <2>2
  <1>2. S!Init => SInv
    BY SInit
  <1>3. SInv /\ [S!Next]_S!vars => SInv'
    BY SNext
  <1> QED BY <1>1, <1>2, <1>3, PTL DEF S!Spec, NoGainByLeaving, S!NoGainByLeaving

-----------------------------------------------------------------------------
(* The sending side towards a peer, beside its backoff and its score.        *)
CONSTANTS Conns, NoConn, MaxMessages, Flaky
VARIABLES begun, conn, early, present, peer_topics, topic, stream_out_, is_connecting_, batch_,
          writer, unsent, published, written, told

P == INSTANCE GossipPeer WITH started <- begun

(* A Peer object is there only between the first connection and the end of   *)
(* the last one, and for every connection made since start, with at most one *)
(* stream being opened or written, by one writer, and messages reach the     *)
(* peer in the order they were published, each at most once, over however    *)
(* many streams.                                                             *)
PeerSound == P!PeerSound

(* Every member of s comes before every member of t.                         *)
Before(s, t) == \A i \in 1..Len(s), j \in 1..Len(t) : s[i] < t[j]
Increasing(s) == \A i, j \in 1..Len(s) : i < j => s[i] < s[j]

(* The published messages of the RPC that waits, if there is one             *)
waiting == P!getBatch.publish

(* The messages on their way are in the order they were published, through   *)
(* the three places they pass: written to the peer, in the writer's hands    *)
(* after its control message, and in the batch.  The next message published  *)
(* comes after all of them.                                                  *)
InOrder ==
    /\ Increasing(written) /\ Increasing(unsent) /\ Increasing(waiting)
    /\ \A i \in 1..Len(written), j \in 1..Len(unsent) : unsent[j] # 0 => written[i] < unsent[j]
    /\ Before(written, waiting) /\ Before(unsent, waiting)
    /\ \A i \in 1..Len(written) : written[i] <= published
    /\ \A i \in 1..Len(unsent) : unsent[i] <= published
    /\ \A i \in 1..Len(waiting) : waiting[i] <= published

(* That messages are written in order needs the order of those on their way. *)
PeerInv == P!TypeOK /\ P!WriterHasStream /\ P!OneStreamAtATime /\ P!NothingWithoutPeer /\ InOrder

-----------------------------------------------------------------------------
(* Appending a later message, cutting off the first one.                     *)
LEMMA AppendInOrder ==
    ASSUME NEW s \in Seq(Nat), NEW n \in Nat, Increasing(s), \A i \in 1..Len(s) : s[i] < n
    PROVE  Increasing(Append(s, n))
  <1>1. /\ Len(s) \in Nat /\ Len(Append(s, n)) = Len(s) + 1
        /\ \A i \in 1..Len(s) : Append(s, n)[i] = s[i]
        /\ Append(s, n)[Len(s) + 1] = n
    OBVIOUS
  <1> QED BY <1>1 DEF Increasing

(* The rest of an increasing sequence is increasing, and after its head.     *)
LEMMA TailInOrder ==
    ASSUME NEW s \in Seq(Nat), s # <<>>, Increasing(s)
    PROVE  /\ Increasing(Tail(s))
           /\ Len(Tail(s)) = Len(s) - 1
           /\ \A i \in 1..Len(Tail(s)) :
                i + 1 \in 1..Len(s) /\ Tail(s)[i] = s[i + 1] /\ Head(s) < Tail(s)[i]
  <1>1. /\ Len(s) \in Nat /\ Len(s) >= 1 /\ Len(Tail(s)) = Len(s) - 1 /\ Head(s) = s[1]
        /\ \A i \in 1..Len(s) - 1 : Tail(s)[i] = s[i + 1]
    OBVIOUS
  <1> QED BY <1>1 DEF Increasing

(* splitBatch keeps the order of the messages, after the control message 0.  *)
LEMMA SplitInOrder ==
    ASSUME MaxMessages \in Nat, NEW rpc \in P!Rpcs, Increasing(rpc.publish)
    PROVE  /\ P!splitBatch(rpc) \in Seq(0..MaxMessages)
           /\ Increasing(P!splitBatch(rpc))
           /\ \A i \in 1..Len(P!splitBatch(rpc)) :
                P!splitBatch(rpc)[i] # 0 =>
                    \E j \in 1..Len(rpc.publish) : P!splitBatch(rpc)[i] = rpc.publish[j]
  <1> DEFINE s == P!splitBatch(rpc)
             q == rpc.publish
  <1>1. q \in Seq(1..MaxMessages) /\ q \in Seq(0..MaxMessages) /\ rpc.subscribe \in BOOLEAN
    BY DEF P!Rpcs
  <1>2. CASE ~rpc.subscribe
    <2>1. s = q BY <1>1, <1>2 DEF P!splitBatch
    <2> QED BY <1>1, <2>1
  <1>3. CASE rpc.subscribe
    <2>1. s = <<0>> \o q BY <1>3 DEF P!splitBatch
    <2>2. /\ s \in Seq(0..MaxMessages) /\ Len(q) \in Nat /\ Len(s) = Len(q) + 1
          /\ s[1] = 0 /\ \A i \in 1..Len(q) : s[i + 1] = q[i] /\ q[i] \in 1..MaxMessages
      BY SMTT(30), <1>1, <2>1
    <2> HIDE DEF s
    <2>3. ASSUME NEW i \in 2..Len(s) PROVE i - 1 \in 1..Len(q) /\ s[i] = q[i - 1]
      <3>1. i - 1 \in 1..Len(q) /\ (i - 1) + 1 = i
        BY <2>2
      <3>2. s[(i - 1) + 1] = q[i - 1]
        BY SMTT(30), <2>2, <3>1
      <3> QED BY <3>1, <3>2
    <2>4. \A i, j \in 1..Len(q) : i < j => q[i] < q[j] BY DEF Increasing
    <2>5. ASSUME NEW i \in 1..Len(s), NEW j \in 1..Len(s), i < j PROVE s[i] < s[j]
      <3>1. j - 1 \in 1..Len(q) /\ s[j] = q[j - 1] /\ q[j - 1] \in 1..MaxMessages
        BY <2>2, <2>3, <2>5
      <3>2. CASE i = 1
        <4>1. s[i] = 0 BY <2>2, <3>2
        <4> QED BY <3>1, <4>1
      <3>3. CASE i # 1
        <4>1. i - 1 \in 1..Len(q) /\ s[i] = q[i - 1] /\ i - 1 < j - 1 BY <2>2, <2>3, <2>5, <3>3
        <4> QED BY <2>4, <3>1, <4>1
      <3> QED BY <3>2, <3>3
    <2>6. Increasing(s) BY <2>5 DEF Increasing
    <2>7. ASSUME NEW i \in 1..Len(s), s[i] # 0 PROVE \E j \in 1..Len(q) : s[i] = q[j]
      <3>1. i # 1 BY <2>2, <2>7
      <3>2. i - 1 \in 1..Len(q) /\ s[i] = q[i - 1] BY <2>2, <2>3, <3>1
      <3> QED BY <3>2
    <2> QED BY <2>2, <2>6, <2>7 DEF s
  <1> QED BY <1>1, <1>2, <1>3

(* The batch holds an RPC, or getBatch makes an empty one.                   *)
LEMMA BatchIsRpc ==
    ASSUME P!TypeOK
    PROVE  /\ P!getBatch \in P!Rpcs
           /\ batch_ = <<>> => waiting = <<>>
           /\ batch_ # <<>> => batch_[1] = P!getBatch /\ batch_[1] \in P!Rpcs
  <1>1. batch_ # <<>> => batch_[1] \in P!Rpcs BY DEF P!TypeOK
  <1>2. P!emptyRpc \in P!Rpcs BY DEF P!emptyRpc, P!Rpcs
  <1> QED BY <1>1, <1>2 DEF P!getBatch, waiting, P!emptyRpc

-----------------------------------------------------------------------------
(* The empty sequence is of every type used here.                            *)
LEMMA NoneWaiting ==
    <<>> \in Seq(P!Rpcs) /\ <<>> \in Seq(0..MaxMessages) /\ <<>> \in Seq(1..MaxMessages) /\ Len(<<>>) = 0
  OBVIOUS

(* The empty state satisfies the invariant.                                  *)
LEMMA PeerInit == MaxMessages \in Nat /\ P!Init => PeerInv
  <1> SUFFICES ASSUME MaxMessages \in Nat, P!Init PROVE PeerInv OBVIOUS
  <1>0. conn \in [Conns -> {"none", "open", "dead", "closed"}] /\ early \subseteq Conns
    BY DEF P!Init
  <1>q. /\ batch_ \in Seq(P!Rpcs) /\ Len(batch_) <= 1 /\ unsent \in Seq(0..MaxMessages)
        /\ written \in Seq(1..MaxMessages)
    BY NoneWaiting DEF P!Init
  <1>r. /\ stream_out_ \in Conns \cup {NoConn} /\ is_connecting_ \in Conns \cup {NoConn}
        /\ published \in 0..MaxMessages
    BY DEF P!Init
  <1>1. P!TypeOK BY Zenon, <1>0, <1>q, <1>r DEF P!Init, P!TypeOK
  <1>2. P!WriterHasStream /\ P!OneStreamAtATime /\ P!NothingWithoutPeer
    BY DEF P!Init, P!WriterHasStream, P!OneStreamAtATime, P!NothingWithoutPeer, P!writing_
  <1>3. waiting = <<>> /\ written = <<>> /\ unsent = <<>>
    BY DEF P!Init, waiting, P!getBatch, P!emptyRpc
  <1>4. InOrder BY <1>3 DEF InOrder, Increasing, Before
  <1> QED BY <1>1, <1>2, <1>4 DEF PeerInv

(* Queueing an RPC starts the writer only on a stream, and changes neither   *)
(* what it has in hand nor the order if the RPC carries no new message.      *)
LEMMA QueueKeeps ==
    ASSUME PeerInv, NEW stream, NEW rpc \in P!Rpcs, P!Queue(stream, rpc),
           stream # NoConn \/ stream = stream_out_, stream_out_ = NoConn \/ stream = stream_out_
    PROVE  /\ batch_' \in Seq(P!Rpcs) /\ Len(batch_') = 1
           /\ writer' \in {"idle", "yield", "write"}
           /\ writer' # "idle" => stream # NoConn
           /\ writer' = "write" <=> unsent # <<>>
           /\ waiting' = rpc.publish
  <1>1. batch_' = <<rpc>> /\ writer' = IF ~P!writing_ /\ stream # NoConn THEN "yield" ELSE writer
    BY DEF P!Queue, P!checkWrite
  <1>2. writer \in {"idle", "yield", "write"} /\ (writer # "idle" => stream_out_ # NoConn)
        /\ (writer = "write" <=> unsent # <<>>)
    BY DEF PeerInv, P!TypeOK, P!WriterHasStream, P!writing_
  <1>3. /\ batch_' \in Seq(P!Rpcs) /\ Len(batch_') = 1 /\ batch_' # <<>>
        /\ batch_'[1] = rpc
    BY <1>1
  <1>4. waiting' = rpc.publish BY <1>3 DEF waiting, P!getBatch
  <1> QED BY <1>1, <1>2, <1>3, <1>4 DEF P!writing_

(* The messages on their way are unchanged.                                  *)
LEMMA OrderUnchanged ==
    ASSUME InOrder, UNCHANGED <<written, unsent, published>>, waiting' = waiting
    PROVE  InOrder'
  BY DEF InOrder, Increasing, Before

(* What waits depends on the batch alone.                                    *)
LEMMA BatchUnchanged == ASSUME UNCHANGED batch_ PROVE waiting' = waiting
  BY DEF waiting, P!getBatch, P!emptyRpc

-----------------------------------------------------------------------------
(* The connections: only the end of the last one touches what is sent.       *)
LEMMA ConnectionsKeep ==
    ASSUME PeerInv, NEW c \in Conns,
           \/ P!ConnectedEarly(c) \/ P!on_peer_connected(c) \/ P!handle(c) \/ P!ConnectionDies(c)
           \/ P!ConnectionClosed(c)
    PROVE  PeerInv'
  <1> USE DEF PeerInv
  <1>u. UNCHANGED <<P!topicVars, stream_out_, batch_, writer, unsent, written, told>>
    BY DEF P!ConnectedEarly, P!on_peer_connected, P!handle, P!ConnectionDies,
           P!ConnectionClosed, P!outVars
  <1>o. InOrder' BY <1>u, BatchUnchanged, OrderUnchanged DEF P!topicVars
  <1>w. P!WriterHasStream' BY <1>u DEF P!WriterHasStream, P!writing_
  <1>1. CASE P!ConnectedEarly(c)
    <2>1. P!TypeOK'
      BY SMTT(30), <1>1, <1>u DEF P!TypeOK, P!topicVars, P!ConnectedEarly, P!outVars
    <2>2. P!OneStreamAtATime'
      BY SMTT(30), <1>1, <1>u DEF P!OneStreamAtATime, P!writing_, P!ConnectedEarly, P!outVars
    <2>3. P!NothingWithoutPeer'
      BY SMTT(30), <1>1, <1>u DEF P!TypeOK, P!NothingWithoutPeer, P!topicVars,
                                  P!ConnectedEarly, P!outVars
    <2> QED BY SMTT(30), <1>o, <1>w, <2>1, <2>2, <2>3
  <1>2. CASE P!on_peer_connected(c)
    <2>1. P!TypeOK' BY <1>2, <1>u DEF P!TypeOK, P!topicVars, P!on_peer_connected
    <2>2. P!OneStreamAtATime'
      BY SMTT(30), <1>2, <1>u DEF P!OneStreamAtATime, P!WriterHasStream, P!writing_,
                                  P!on_peer_connected
    <2>3. P!NothingWithoutPeer'
      BY SMTT(30), <1>2, <1>u DEF P!TypeOK, P!NothingWithoutPeer, P!topicVars,
                                  P!on_peer_connected
    <2> QED BY <1>o, <1>w, <2>1, <2>2, <2>3
  <1>3. CASE P!handle(c)
    <2>1. P!TypeOK' BY <1>3, <1>u DEF P!TypeOK, P!topicVars, P!handle, P!outVars
    <2>2. P!OneStreamAtATime'
      BY SMTT(30), <1>3, <1>u DEF P!OneStreamAtATime, P!writing_, P!handle, P!outVars
    <2>3. P!NothingWithoutPeer'
      BY SMTT(30), <1>3, <1>u DEF P!TypeOK, P!NothingWithoutPeer, P!topicVars, P!handle,
                                  P!outVars
    <2> QED BY <1>o, <1>w, <2>1, <2>2, <2>3
  <1>4. CASE P!ConnectionDies(c)
    <2>1. P!TypeOK' BY <1>4, <1>u DEF P!TypeOK, P!topicVars, P!ConnectionDies
    <2>2. P!OneStreamAtATime'
      BY SMTT(30), <1>4, <1>u DEF P!OneStreamAtATime, P!writing_, P!ConnectionDies
    <2>3. P!NothingWithoutPeer'
      BY SMTT(30), <1>4, <1>u DEF P!TypeOK, P!NothingWithoutPeer, P!topicVars, P!ConnectionDies
    <2> QED BY <1>o, <1>w, <2>1, <2>2, <2>3
  <1>5. CASE P!ConnectionClosed(c)
    <2>1. P!TypeOK' BY SMTT(30), <1>5, <1>u DEF P!TypeOK, P!topicVars, P!ConnectionClosed
    <2>2. P!OneStreamAtATime'
      BY SMTT(30), <1>5, <1>u DEF P!OneStreamAtATime, P!writing_, P!ConnectionClosed
    <2>3. P!NothingWithoutPeer'
      BY <1>5, <1>u DEF P!TypeOK, P!NothingWithoutPeer, P!topicVars, P!ConnectionClosed
    <2> QED BY <1>o, <1>w, <2>1, <2>2, <2>3
  <1> QED BY SMTT(30), <1>1, <1>2, <1>3, <1>4, <1>5

(* PeerDisconnected drops the Peer object with all it has to send.           *)
LEMMA DisconnectKeeps ==
    ASSUME PeerInv, NEW c \in Conns, P!on_peer_disconnected(c)
    PROVE  PeerInv'
  <1> USE DEF PeerInv, P!on_peer_disconnected
  <1>q. batch_' \in Seq(P!Rpcs) /\ Len(batch_') <= 1 /\ unsent' \in Seq(0..MaxMessages)
    BY NoneWaiting
  <1>1. P!TypeOK' BY Zenon, <1>q DEF P!TypeOK
  <1>2. P!WriterHasStream' /\ P!OneStreamAtATime'
    BY DEF P!WriterHasStream, P!OneStreamAtATime, P!writing_
  <1>3. P!NothingWithoutPeer' BY DEF P!TypeOK, P!NothingWithoutPeer
  <1>4. waiting' = <<>> BY DEF waiting, P!getBatch, P!emptyRpc
  <1>5. InOrder' BY <1>4 DEF InOrder, Increasing, Before
  <1> QED BY <1>1, <1>2, <1>3, <1>5

-----------------------------------------------------------------------------
(* The outbound stream: opening it starts the writer on it.                  *)
LEMMA StreamOpenedKeeps ==
    ASSUME PeerInv, P!StreamOpened
    PROVE  PeerInv'
  <1>i. P!TypeOK /\ P!WriterHasStream /\ P!OneStreamAtATime /\ P!NothingWithoutPeer /\ InOrder
    BY DEF PeerInv
  <1>s. /\ is_connecting_ # NoConn /\ is_connecting_' = NoConn /\ stream_out_' = is_connecting_
        /\ stream_out_ = NoConn /\ writer = "idle" /\ present
        /\ UNCHANGED <<P!connVars, P!topicVars, unsent, written>>
    BY <1>i DEF P!StreamOpened, P!OneStreamAtATime, P!NothingWithoutPeer, P!writing_
  <1>t. told' \in BOOLEAN BY DEF P!StreamOpened
  <1>b. /\ batch_' \in Seq(P!Rpcs) /\ Len(batch_') <= 1
        /\ writer' \in {"idle", "yield", "write"} /\ (writer' = "write" <=> unsent # <<>>)
        /\ waiting' = waiting
    <2>1. CASE topic = "absent"
      <3>1. UNCHANGED <<batch_, writer>> BY <2>1 DEF P!StreamOpened
      <3> QED BY <1>i, <3>1, BatchUnchanged DEF P!TypeOK, P!WriterHasStream
    <2>2. CASE topic # "absent"
      <3> DEFINE rpc == IF topic = "subscribed" THEN P!WithSubscribe(P!getBatch) ELSE P!getBatch
      <3>1. P!Queue(is_connecting_, rpc) BY <2>2, <1>s DEF P!StreamOpened
      <3>2. rpc \in P!Rpcs /\ rpc.publish = waiting
        BY Zenon, <1>i, BatchIsRpc DEF P!WithSubscribe, P!Rpcs, waiting
      <3> HIDE DEF rpc
      <3>3. /\ batch_' \in Seq(P!Rpcs) /\ Len(batch_') = 1
            /\ writer' \in {"idle", "yield", "write"} /\ (writer' = "write" <=> unsent # <<>>)
            /\ waiting' = rpc.publish
        BY Zenon, <1>s, <3>1, <3>2, QueueKeeps
      <3> QED BY <3>2, <3>3
    <2> QED BY <2>1, <2>2
  <1>1. P!TypeOK' BY <1>i, <1>s, <1>t, <1>b DEF P!TypeOK, P!connVars, P!topicVars
  <1>2. P!WriterHasStream' /\ P!OneStreamAtATime'
    BY <1>i, <1>s, <1>b DEF P!WriterHasStream, P!OneStreamAtATime, P!writing_
  <1>3. P!NothingWithoutPeer' BY <1>i, <1>s DEF P!NothingWithoutPeer, P!connVars, P!topicVars
  <1>4. InOrder' BY <1>i, <1>s, <1>b, OrderUnchanged DEF P!topicVars
  <1> QED BY <1>1, <1>2, <1>3, <1>4 DEF PeerInv

(* A stream that could not be opened leaves the batch waiting.               *)
LEMMA StreamFailedKeeps ==
    ASSUME PeerInv, P!StreamFailed
    PROVE  PeerInv'
  <1> USE DEF PeerInv, P!StreamFailed, P!connVars, P!topicVars
  <1>1. P!TypeOK' BY DEF P!TypeOK
  <1>2. P!WriterHasStream' /\ P!OneStreamAtATime'
    BY DEF P!WriterHasStream, P!OneStreamAtATime, P!writing_
  <1>3. P!NothingWithoutPeer' BY DEF P!NothingWithoutPeer
  <1>4. InOrder' BY BatchUnchanged, OrderUnchanged
  <1> QED BY SMTT(30), <1>1, <1>2, <1>3, <1>4

(* Taking the batch, when the writer has nothing else in hand: the messages  *)
(* of the batch move to its hands.                                           *)
LEMMA TakeBatchKeeps ==
    ASSUME MaxMessages \in Nat, P!TypeOK, P!TakeBatch, P!writing_, stream_out_ # NoConn,
           UNCHANGED stream_out_, UNCHANGED published,
           Increasing(written'), written' \in Seq(1..MaxMessages), Increasing(waiting),
           Before(written', waiting),
           \A i \in 1..Len(written') : written'[i] <= published,
           \A i \in 1..Len(waiting) : waiting[i] <= published
    PROVE  /\ batch_' \in Seq(P!Rpcs) /\ Len(batch_') <= 1 /\ unsent' \in Seq(0..MaxMessages)
           /\ writer' \in {"idle", "yield", "write"}
           /\ P!WriterHasStream' /\ InOrder'
           /\ batch_' = <<>>
  <1>1. batch_' = <<>> /\ waiting' = <<>> BY DEF P!TakeBatch, waiting, P!getBatch, P!emptyRpc
  <1>2. /\ unsent' \in Seq(0..MaxMessages) /\ Increasing(unsent')
        /\ \A i \in 1..Len(unsent') :
             unsent'[i] # 0 => \E j \in 1..Len(waiting) : unsent'[i] = waiting[j]
    <2>1. CASE batch_ = <<>>
      <3>1. unsent' = <<>> BY SMTT(30), <2>1 DEF P!TakeBatch
      <3> QED BY <3>1 DEF Increasing
    <2>2. CASE batch_ # <<>>
      <3>1. unsent' = P!splitBatch(P!getBatch) /\ P!getBatch \in P!Rpcs
        BY <2>2, BatchIsRpc DEF P!TakeBatch
      <3> QED BY Zenon, <3>1, SplitInOrder DEF waiting
    <2> QED BY <2>1, <2>2
  <1>3. writer' = IF unsent' = <<>> THEN "idle" ELSE "write" BY DEF P!TakeBatch
  <1>4. P!WriterHasStream' BY <1>3 DEF P!WriterHasStream, P!writing_
  <1>5. waiting \in Seq(1..MaxMessages) BY BatchIsRpc DEF waiting, P!Rpcs
  <1>6. \A i \in 1..Len(unsent') : unsent'[i] <= published
    <2> SUFFICES ASSUME NEW i \in 1..Len(unsent') PROVE unsent'[i] <= published OBVIOUS
    <2>1. CASE unsent'[i] = 0 BY <2>1 DEF P!TypeOK
    <2>2. CASE unsent'[i] # 0 BY Zenon, <1>2, <2>2
    <2> QED BY <2>1, <2>2
  <1>7. \A i \in 1..Len(written'), j \in 1..Len(unsent') :
          unsent'[j] # 0 => written'[i] < unsent'[j]
    BY <1>2 DEF Before
  <1>8. InOrder' BY <1>1, <1>2, <1>6, <1>7 DEF InOrder, Before, Increasing
  <1> QED BY SMTT(30), <1>1, <1>2, <1>3, <1>4, <1>8

(* The writer takes the batch after its yield.                               *)
LEMMA WriterResumesKeeps ==
    ASSUME MaxMessages \in Nat, PeerInv, P!WriterResumes
    PROVE  PeerInv'
  <1>i. P!TypeOK /\ P!WriterHasStream /\ P!OneStreamAtATime /\ P!NothingWithoutPeer /\ InOrder
    BY DEF PeerInv
  <1>u. /\ UNCHANGED <<P!connVars, P!topicVars, stream_out_, is_connecting_, written, told>>
        /\ P!TakeBatch /\ P!writing_ /\ stream_out_ # NoConn
    BY SMTT(30), <1>i DEF P!WriterResumes, P!WriterHasStream, P!writing_
  <1>1. /\ Increasing(written') /\ written' \in Seq(1..MaxMessages) /\ Increasing(waiting)
        /\ Before(written', waiting)
        /\ \A i \in 1..Len(written') : written'[i] <= published
        /\ \A i \in 1..Len(waiting) : waiting[i] <= published
        /\ UNCHANGED stream_out_ /\ UNCHANGED published
    BY <1>i, <1>u DEF InOrder, P!TypeOK, P!topicVars
  <1>2. /\ batch_' \in Seq(P!Rpcs) /\ Len(batch_') <= 1 /\ unsent' \in Seq(0..MaxMessages)
        /\ writer' \in {"idle", "yield", "write"}
        /\ P!WriterHasStream' /\ InOrder' /\ batch_' = <<>>
    BY ZenonT(30), <1>i, <1>u, <1>1, TakeBatchKeeps
  <1>3. P!TypeOK' BY <1>i, <1>u, <1>2 DEF P!TypeOK, P!connVars, P!topicVars
  <1>4. P!OneStreamAtATime' BY SMTT(30), <1>i, <1>u DEF P!OneStreamAtATime
  <1>5. P!NothingWithoutPeer'
    BY SMTT(30), <1>i, <1>u, <1>2 DEF P!NothingWithoutPeer, P!connVars, P!topicVars
  <1> QED BY <1>2, <1>3, <1>4, <1>5 DEF PeerInv

(* The RPC written was the first in the writer's hands: what is left there   *)
(* and what waits come after it.                                             *)
LEMMA WrittenInTurn ==
    ASSUME MaxMessages \in Nat, P!TypeOK, InOrder, unsent # <<>>,
           written' = IF Head(unsent) = 0 THEN written ELSE Append(written, Head(unsent))
    PROVE  /\ written' \in Seq(1..MaxMessages) /\ Increasing(written') /\ Before(written', waiting)
           /\ \A i \in 1..Len(written') : written'[i] <= published
           /\ \A i \in 1..Len(written'), j \in 1..Len(Tail(unsent)) :
                Tail(unsent)[j] # 0 => written'[i] < Tail(unsent)[j]
  <1> DEFINE h == Head(unsent)
             r == Tail(unsent)
  <1>1. /\ written \in Seq(1..MaxMessages) /\ unsent \in Seq(Nat) /\ written \in Seq(Nat)
        /\ h = unsent[1] /\ h \in 0..MaxMessages /\ 1 \in 1..Len(unsent)
    BY DEF P!TypeOK
  <1>2. /\ Len(r) = Len(unsent) - 1
        /\ \A i \in 1..Len(r) : i + 1 \in 1..Len(unsent) /\ r[i] = unsent[i + 1] /\ h < r[i]
    BY <1>1, TailInOrder DEF InOrder
  <1>3. \A i \in 1..Len(written), j \in 1..Len(r) : r[j] # 0 => written[i] < r[j]
    BY <1>2 DEF InOrder
  <1>4. CASE h = 0
    <2>1. written' = written BY <1>4
    <2> QED BY <1>1, <1>3, <2>1 DEF InOrder
  <1>5. CASE h # 0
    <2>1. h \in 1..MaxMessages /\ \A i \in 1..Len(written) : written[i] < h
      BY SMTT(30), <1>1, <1>5 DEF InOrder
    <2>2. /\ written' = Append(written, h) /\ written' \in Seq(1..MaxMessages)
          /\ Increasing(written')
      BY SMTT(30), <1>1, <1>5, <2>1, AppendInOrder DEF InOrder
    <2>3. \A i \in 1..Len(written') :
            (i \in 1..Len(written) /\ written'[i] = written[i]) \/ written'[i] = h
      BY SMTT(30), <1>1, <2>2
    <2>4. \A j \in 1..Len(waiting) : h < waiting[j] BY <1>1 DEF InOrder, Before
    <2>5. Before(written', waiting) BY <2>3, <2>4 DEF InOrder, Before
    <2>6. h <= published BY <1>1 DEF InOrder
    <2>7. \A i \in 1..Len(written') : written'[i] <= published BY <2>3, <2>6 DEF InOrder
    <2>8. \A i \in 1..Len(written'), j \in 1..Len(r) : r[j] # 0 => written'[i] < r[j]
      BY SMTT(30), <1>2, <1>3, <2>3
    <2> QED BY SMTT(30), <2>2, <2>5, <2>7, <2>8
  <1> QED BY <1>4, <1>5

(* After a write the writer goes on with the next RPC, or the next batch.    *)
LEMMA WriteDoneKeeps ==
    ASSUME MaxMessages \in Nat, PeerInv, P!WriteDone
    PROVE  PeerInv'
  <1>i. P!TypeOK /\ P!WriterHasStream /\ P!OneStreamAtATime /\ P!NothingWithoutPeer /\ InOrder
    BY DEF PeerInv
  <1>u. /\ UNCHANGED <<P!connVars, P!topicVars, stream_out_, is_connecting_, told>>
        /\ writer = "write" /\ P!writing_ /\ stream_out_ # NoConn /\ unsent # <<>>
        /\ written' = IF Head(unsent) = 0 THEN written ELSE Append(written, Head(unsent))
        /\ UNCHANGED stream_out_ /\ UNCHANGED published
    BY SMTT(30), <1>i DEF P!WriteDone, P!WriterHasStream, P!writing_, P!topicVars
  <1>w. /\ written' \in Seq(1..MaxMessages) /\ Increasing(written') /\ Before(written', waiting)
        /\ \A i \in 1..Len(written') : written'[i] <= published
        /\ \A i \in 1..Len(written'), j \in 1..Len(Tail(unsent)) :
             Tail(unsent)[j] # 0 => written'[i] < Tail(unsent)[j]
    BY SMTT(30), <1>i, <1>u, WrittenInTurn
  <1>x. Increasing(waiting) /\ \A i \in 1..Len(waiting) : waiting[i] <= published
    BY <1>i DEF InOrder
  <1>2. /\ batch_' \in Seq(P!Rpcs) /\ Len(batch_') <= 1 /\ unsent' \in Seq(0..MaxMessages)
        /\ writer' \in {"idle", "yield", "write"}
        /\ P!WriterHasStream' /\ InOrder' /\ (batch_ = <<>> => batch_' = <<>>)
    <2>1. CASE Len(unsent) = 1
      <3>1. P!TakeBatch BY SMTT(30), <2>1 DEF P!WriteDone
      <3> QED BY ZenonT(30), <1>i, <1>u, <1>w, <1>x, <3>1, TakeBatchKeeps
    <2>2. CASE Len(unsent) # 1
      <3>1. unsent' = Tail(unsent) /\ UNCHANGED <<batch_, writer>> BY <2>2 DEF P!WriteDone
      <3>2. unsent \in Seq(0..MaxMessages) /\ unsent \in Seq(Nat) BY <1>i DEF P!TypeOK
      <3>a. /\ Tail(unsent) \in Seq(0..MaxMessages) /\ Len(Tail(unsent)) = Len(unsent) - 1
            /\ Len(unsent) \in Nat /\ Len(unsent) >= 1
        BY <1>u, <3>2
      <3>b. Len(Tail(unsent)) # Len(<<>>) BY <2>2, <3>a, NoneWaiting
      <3>c. Tail(unsent) # <<>> BY Zenon, <3>b
      <3>3. unsent' \in Seq(0..MaxMessages) /\ unsent' # <<>> BY Zenon, <3>1, <3>a, <3>c
      <3>4. P!WriterHasStream'
        BY SMTT(30), <1>i, <1>u, <3>1, <3>3 DEF P!WriterHasStream, P!writing_
      <3>5. /\ Increasing(unsent')
            /\ \A i \in 1..Len(unsent') :
                 i + 1 \in 1..Len(unsent) /\ unsent'[i] = unsent[i + 1]
        BY SMTT(30), <1>i, <1>u, <3>1, <3>2, TailInOrder DEF InOrder
      <3>6. waiting' = waiting BY SMTT(30), <3>1, BatchUnchanged
      <3>7. Before(unsent', waiting) /\ \A i \in 1..Len(unsent') : unsent'[i] <= published
        BY SMTT(30), <1>i, <3>5 DEF InOrder, Before
      <3>8. InOrder'
        BY ZenonT(30), <1>u, <1>w, <1>x, <3>1, <3>5, <3>6, <3>7 DEF InOrder, Before, Increasing
      <3> QED BY SMTT(30), <1>i, <3>1, <3>3, <3>4, <3>8 DEF P!TypeOK
    <2> QED BY <2>1, <2>2
  <1>3. P!TypeOK' BY SMTT(30), <1>i, <1>u, <1>w, <1>2 DEF P!TypeOK, P!connVars, P!topicVars
  <1>4. P!OneStreamAtATime' BY SMTT(30), <1>i, <1>u DEF P!OneStreamAtATime
  <1>5. P!NothingWithoutPeer'
    BY SMTT(30), <1>i, <1>u, <1>2 DEF P!NothingWithoutPeer, P!connVars, P!topicVars
  <1> QED BY SMTT(30), <1>2, <1>3, <1>4, <1>5 DEF PeerInv

(* A failed write drops the stream and what the writer had in hand.          *)
LEMMA WriteFailedKeeps ==
    ASSUME PeerInv, P!WriteFailed
    PROVE  PeerInv'
  <1>i. P!TypeOK /\ P!WriterHasStream /\ P!OneStreamAtATime /\ P!NothingWithoutPeer /\ InOrder
    BY DEF PeerInv
  <1>u. /\ UNCHANGED <<P!connVars, P!topicVars, is_connecting_, batch_, written, told>>
        /\ stream_out_' = NoConn /\ unsent' = <<>> /\ writer' = "idle"
    BY DEF P!WriteFailed
  <1>q. unsent' \in Seq(0..MaxMessages) BY SMTT(30), <1>u, NoneWaiting
  <1>1. P!TypeOK' BY <1>i, <1>u, <1>q DEF P!TypeOK, P!connVars, P!topicVars
  <1>2. P!WriterHasStream' /\ P!OneStreamAtATime'
    BY <1>u DEF P!WriterHasStream, P!OneStreamAtATime, P!writing_
  <1>3. P!NothingWithoutPeer' BY <1>i, <1>u DEF P!NothingWithoutPeer, P!connVars, P!topicVars
  <1>4. waiting' = waiting BY SMTT(30), <1>u, BatchUnchanged
  <1>5. InOrder' BY <1>i, <1>u, <1>4 DEF InOrder, Before, Increasing, P!topicVars
  <1> QED BY <1>1, <1>2, <1>3, <1>5 DEF PeerInv

-----------------------------------------------------------------------------
(* A message is published after all that are on their way.                   *)
LEMMA PublishKeeps ==
    ASSUME MaxMessages \in Nat, PeerInv, P!publish
    PROVE  PeerInv'
  <1>i. P!TypeOK /\ P!WriterHasStream /\ P!OneStreamAtATime /\ P!NothingWithoutPeer /\ InOrder
    BY DEF PeerInv
  <1>u. /\ UNCHANGED <<P!connVars, peer_topics, stream_out_, is_connecting_, unsent, written, told>>
        /\ published' = published + 1 /\ published' \in 0..MaxMessages
        /\ published \in 0..MaxMessages
        /\ topic' \in {"absent", "publish_only", "subscribed"}
    BY <1>i DEF P!publish, P!TypeOK
  <1>b. /\ batch_' \in Seq(P!Rpcs) /\ Len(batch_') <= 1
        /\ writer' \in {"idle", "yield", "write"} /\ (writer' = "write" <=> unsent # <<>>)
        /\ writer' # "idle" => stream_out_ # NoConn
        /\ ~present => batch_' = batch_
        /\ waiting' = waiting \/ waiting' = Append(waiting, published')
    <2>1. CASE ~(present /\ peer_topics)
      <3>1. UNCHANGED <<batch_, writer>> BY <2>1 DEF P!publish
      <3> QED BY <1>i, <3>1, BatchUnchanged DEF P!TypeOK, P!WriterHasStream, P!writing_
    <2>2. CASE present /\ peer_topics
      <3> DEFINE rpc == [P!getBatch EXCEPT !.publish = Append(@, published')]
      <3>1. P!Queue(stream_out_, rpc) BY SMTT(30), <2>2 DEF P!publish
      <3>a. P!getBatch \in [subscribe : BOOLEAN, publish : Seq(1..MaxMessages)]
        BY <1>i, BatchIsRpc DEF P!Rpcs
      <3>b. published' \in 1..MaxMessages BY <1>u
      <3>c. Append(P!getBatch.publish, published') \in Seq(1..MaxMessages) BY <3>a, <3>b
      <3>2. rpc \in P!Rpcs /\ rpc.publish = Append(waiting, published')
        BY Zenon, <3>a, <3>c DEF P!Rpcs, waiting
      <3> HIDE DEF rpc
      <3>3. /\ batch_' \in Seq(P!Rpcs) /\ Len(batch_') = 1
            /\ writer' \in {"idle", "yield", "write"} /\ (writer' = "write" <=> unsent # <<>>)
            /\ writer' # "idle" => stream_out_ # NoConn
            /\ waiting' = rpc.publish
        BY Zenon, <3>1, <3>2, QueueKeeps
      <3> QED BY <2>2, <3>2, <3>3
    <2> QED BY SMTT(30), <2>1, <2>2
  <1>1. P!TypeOK' BY <1>i, <1>u, <1>b DEF P!TypeOK, P!connVars
  <1>2. P!WriterHasStream' /\ P!OneStreamAtATime'
    BY SMTT(30), <1>i, <1>u, <1>b DEF P!WriterHasStream, P!OneStreamAtATime, P!writing_
  <1>3. P!NothingWithoutPeer' BY <1>i, <1>u, <1>b DEF P!NothingWithoutPeer, P!connVars
  <1>4. InOrder'
    <2>1. waiting \in Seq(Nat) /\ written \in Seq(Nat) /\ unsent \in Seq(Nat) /\ published' \in Nat
      BY SMTT(30), <1>i, <1>u, BatchIsRpc DEF waiting, P!Rpcs, P!TypeOK
    <2>2. /\ \A i \in 1..Len(written) : written[i] < published'
          /\ \A i \in 1..Len(unsent) : unsent[i] < published'
          /\ \A i \in 1..Len(waiting) : waiting[i] < published'
      BY SMTT(30), <1>i, <1>u, <2>1 DEF InOrder
    <2>3. CASE waiting' = waiting
      BY SMTT(30), <1>i, <1>u, <2>1, <2>2, <2>3 DEF InOrder, Before, Increasing
    <2>4. CASE waiting' = Append(waiting, published')
      <3>1. Increasing(waiting') BY <1>i, <2>1, <2>2, <2>4, AppendInOrder DEF InOrder
      <3>2. \A i \in 1..Len(waiting') :
              (i \in 1..Len(waiting) /\ waiting'[i] = waiting[i]) \/ waiting'[i] = published'
        BY SMTT(30), <2>1, <2>4
      <3>3. Before(written, waiting') /\ Before(unsent, waiting')
        BY SMTT(30), <1>i, <2>2, <3>2 DEF InOrder, Before
      <3>4. \A i \in 1..Len(waiting') : waiting'[i] <= published'
        BY SMTT(30), <1>u, <2>1, <2>2, <3>2
      <3>5. Increasing(written') /\ Increasing(unsent') BY <1>i, <1>u DEF InOrder, Increasing
      <3>6. Before(written', waiting') /\ Before(unsent', waiting')
        BY SMTT(30), <1>u, <3>3 DEF Before
      <3>7. /\ \A i \in 1..Len(written') : written'[i] <= published'
            /\ \A i \in 1..Len(unsent') : unsent'[i] <= published'
            /\ \A i \in 1..Len(written'), j \in 1..Len(unsent') :
                 unsent'[j] # 0 => written'[i] < unsent'[j]
        BY SMTT(30), <1>i, <1>u, <2>1, <2>2 DEF InOrder
      <3> QED BY SMTT(30), <3>1, <3>4, <3>5, <3>6, <3>7 DEF InOrder
    <2> QED BY SMTT(30), <1>b, <2>3, <2>4
  <1> QED BY <1>1, <1>2, <1>3, <1>4 DEF PeerInv

(* Announcing a subscription adds no message to the batch.                   *)
LEMMA SubscribeUpgradeKeeps ==
    ASSUME PeerInv, P!subscribeUpgrade
    PROVE  PeerInv'
  <1>i. P!TypeOK /\ P!WriterHasStream /\ P!OneStreamAtATime /\ P!NothingWithoutPeer /\ InOrder
    BY DEF PeerInv
  <1>u. /\ UNCHANGED <<P!connVars, peer_topics, stream_out_, is_connecting_, unsent, published, written>>
        /\ topic' = "subscribed" /\ told' \in BOOLEAN
    BY Zenon, <1>i DEF P!subscribeUpgrade, P!TypeOK
  <1>b. /\ batch_' \in Seq(P!Rpcs) /\ Len(batch_') <= 1
        /\ writer' \in {"idle", "yield", "write"} /\ (writer' = "write" <=> unsent # <<>>)
        /\ writer' # "idle" => stream_out_ # NoConn
        /\ ~present => batch_' = batch_
        /\ waiting' = waiting
    <2>1. CASE ~(present /\ peer_topics)
      <3>1. UNCHANGED <<batch_, writer>> BY <2>1 DEF P!subscribeUpgrade
      <3> QED BY <1>i, <3>1, BatchUnchanged DEF P!TypeOK, P!WriterHasStream, P!writing_
    <2>2. CASE present /\ peer_topics
      <3> DEFINE rpc == P!WithSubscribe(P!getBatch)
      <3>1. P!Queue(stream_out_, rpc) BY <2>2 DEF P!subscribeUpgrade
      <3>2. rpc \in P!Rpcs /\ rpc.publish = waiting
        BY Zenon, <1>i, BatchIsRpc DEF P!WithSubscribe, P!Rpcs, waiting
      <3> HIDE DEF rpc
      <3>3. /\ batch_' \in Seq(P!Rpcs) /\ Len(batch_') = 1
            /\ writer' \in {"idle", "yield", "write"} /\ (writer' = "write" <=> unsent # <<>>)
            /\ writer' # "idle" => stream_out_ # NoConn
            /\ waiting' = rpc.publish
        BY Zenon, <3>1, <3>2, QueueKeeps
      <3> QED BY <2>2, <3>2, <3>3
    <2> QED BY <2>1, <2>2
  <1>1. P!TypeOK' BY <1>i, <1>u, <1>b DEF P!TypeOK, P!connVars
  <1>2. P!WriterHasStream' /\ P!OneStreamAtATime'
    BY SMTT(30), <1>i, <1>u, <1>b DEF P!WriterHasStream, P!OneStreamAtATime, P!writing_
  <1>3. P!NothingWithoutPeer' BY <1>i, <1>u, <1>b DEF P!NothingWithoutPeer, P!connVars
  <1>4. InOrder' BY <1>i, <1>u, <1>b, OrderUnchanged
  <1> QED BY <1>1, <1>2, <1>3, <1>4 DEF PeerInv

(* The steps that queue nothing.                                             *)
LEMMA OthersKeep ==
    ASSUME PeerInv,
           P!start \/ P!PeerSubscribes \/ P!subscribeNew \/ P!heartbeatDrop \/ UNCHANGED P!vars
    PROVE  PeerInv'
  <1>i. P!TypeOK /\ P!WriterHasStream /\ P!OneStreamAtATime /\ P!NothingWithoutPeer /\ InOrder
    BY SMTT(30) DEF PeerInv
  <1>u. /\ UNCHANGED <<conn, early, present, stream_out_, is_connecting_, batch_, writer, unsent,
                       published, written, told>>
        /\ begun' \in BOOLEAN /\ peer_topics' \in BOOLEAN
        /\ topic' \in {"absent", "publish_only", "subscribed"}
        /\ ~present => peer_topics' = peer_topics
    BY Zenon, <1>i DEF P!start, P!PeerSubscribes, P!subscribeNew, P!heartbeatDrop, P!vars,
                       P!outVars,
                P!topicVars,
                P!connVars, P!TypeOK
  <1>1. P!TypeOK' BY <1>i, <1>u DEF P!TypeOK
  <1>2. P!WriterHasStream' /\ P!OneStreamAtATime'
    BY <1>i, <1>u DEF P!WriterHasStream, P!OneStreamAtATime, P!writing_
  <1>3. P!NothingWithoutPeer' BY <1>i, <1>u DEF P!NothingWithoutPeer
  <1>4. InOrder' BY <1>i, <1>u, BatchUnchanged, OrderUnchanged
  <1> QED BY <1>1, <1>2, <1>3, <1>4 DEF PeerInv

(* Every step keeps the inductive invariant.                                 *)
LEMMA PeerNext == MaxMessages \in Nat /\ PeerInv /\ [P!Next]_P!vars => PeerInv'
  <1> SUFFICES ASSUME MaxMessages \in Nat, PeerInv, [P!Next]_P!vars PROVE PeerInv' OBVIOUS
  <1>1. ASSUME NEW c \in Conns, P!on_peer_disconnected(c) PROVE PeerInv'
    BY <1>1, DisconnectKeeps
  <1>2. ASSUME NEW c \in Conns,
               \/ P!ConnectedEarly(c) \/ P!on_peer_connected(c) \/ P!handle(c) \/ P!ConnectionDies(c)
               \/ P!ConnectionClosed(c)
        PROVE  PeerInv'
    BY Zenon, <1>2, ConnectionsKeep
  <1>3. CASE P!StreamOpened BY <1>3, StreamOpenedKeeps
  <1>4. CASE P!StreamFailed BY <1>4, StreamFailedKeeps
  <1>5. CASE P!WriterResumes BY <1>5, WriterResumesKeeps
  <1>6. CASE P!WriteDone BY <1>6, WriteDoneKeeps
  <1>7. CASE P!WriteFailed BY <1>7, WriteFailedKeeps
  <1>8. CASE P!publish BY <1>8, PublishKeeps
  <1>9. CASE P!subscribeUpgrade BY <1>9, SubscribeUpgradeKeeps
  <1>10. CASE P!start \/ P!PeerSubscribes \/ P!subscribeNew \/ P!heartbeatDrop \/ UNCHANGED P!vars
    BY <1>10, OthersKeep
  <1> QED BY <1>1, <1>2, <1>3, <1>4, <1>5, <1>6, <1>7, <1>8, <1>9, <1>10 DEF P!Next

-----------------------------------------------------------------------------
(* For any connections that come and go, messages reach the peer in the      *)
(* order they were published, each at most once, over however many streams,  *)
(* with one stream and one writer at a time, and only while there is a Peer  *)
(* object.                                                                   *)
THEOREM PeerAlwaysSound == ASSUME MaxMessages \in Nat PROVE P!Spec => []PeerSound
  <1>1. PeerInv => PeerSound
    BY DEF PeerInv, PeerSound, P!PeerSound, InOrder, Increasing, P!WrittenInOrder
  <1>2. P!Init => PeerInv BY PeerInit
  <1>3. PeerInv /\ [P!Next]_P!vars => PeerInv' BY PeerNext
  <1> QED BY <1>1, <1>2, <1>3, PTL DEF P!Spec
=============================================================================
