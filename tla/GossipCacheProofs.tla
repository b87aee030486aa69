------------------------- MODULE GossipCacheProofs -------------------------
(* Proofs about GossipCache for any peers, topics and messages and any       *)
(* configuration in which the duplicate cache outlives the history.          *)
EXTENDS GossipCache, FiniteSetTheorems, TLAPS

(* A heartbeat that is due counts as time that has passed.                   *)
late == IF due THEN 1 ELSE 0

(* The part of TypeOK about the IDONTWANT marks, which counts entries.       *)
MarksOK ==
    \A p \in Peers : /\ DOMAIN dont_send_[p] \subseteq Ids
                     /\ Cardinality(DOMAIN dont_send_[p]) <= kCapacity
                     /\ \A id \in DOMAIN dont_send_[p] : dont_send_[p][id] \in 0..kTtl

(* The part of TypeOK about what broadcast changes.                          *)
CacheTypes ==
    /\ history_ \in [Topics -> History]
    /\ DOMAIN message_cache_ \subseteq Ids
    /\ \A id \in DOMAIN message_cache_ :
          message_cache_[id] \in [Peers -> 0..gossip_retransimission + 1]
    /\ DOMAIN duplicate_cache_ \subseteq Ids
    /\ \A id \in DOMAIN duplicate_cache_ : duplicate_cache_[id] \in 0..duplicate_cache_time
    /\ DOMAIN gossip_promises_ \subseteq Ids \X Peers
    /\ \A x \in DOMAIN gossip_promises_ : gossip_promises_[x] \in -1..iwant_followup_time

GhostTypes ==
    /\ due \in BOOLEAN /\ published \subseteq Local
    /\ DOMAIN dont_send_ = Peers
    /\ sinceReceived \in [Messages -> 0..duplicate_cache_time]
    /\ sincePublish \in [Topics -> 0..fanout_ttl]
    /\ served \in [Peers \X Ids -> Nat]
    /\ asked \in [Peers -> SUBSET Ids]

(* An id in slot i of a history was inserted in the duplicate cache i - 1    *)
(* heartbeats ago and is still there, so it cannot be added a second time:   *)
(* it is in one slot of one topic.                                           *)
HistoryKnown ==
    \A t \in Topics : \A i \in 1..history_length : \A id \in history_[t][i] :
        /\ id \in DOMAIN duplicate_cache_
        /\ duplicate_cache_[id] + i - 1 + late >= duplicate_cache_time

HistoryOnce ==
    \A t, u \in Topics : \A i, j \in 1..history_length :
        history_[t][i] \cap history_[u][j] # {} => t = u /\ i = j

(* The counter of an entry has counted every answer since it was cached.     *)
ServedCounted ==
    \A p \in Peers, id \in Ids :
        /\ id \notin DOMAIN message_cache_ => served[<<p, id>>] = 0
        /\ id \in DOMAIN message_cache_ => served[<<p, id>>] <= message_cache_[id][p]

AskedCounted == \A p \in Peers : Cardinality(asked[p]) <= count_sent_iwant_[p]

(* A message the application got is in the duplicate cache until its time is *)
(* over.                                                                     *)
ReceivedKnown ==
    \A m \in Messages : sinceReceived[m] < duplicate_cache_time =>
        /\ message_id_fn(m) \in DOMAIN duplicate_cache_
        /\ duplicate_cache_[message_id_fn(m)] + sinceReceived[m] >= duplicate_cache_time

(* With signed messages no local message is a duplicate, so every publish    *)
(* renews last_publish_.                                                     *)
PublishCounted ==
    Signed =>
        /\ \A m \in Local \ published : m \notin DOMAIN duplicate_cache_
        /\ ~flood_publish => \A t \in Topics :
              topics_[t] = "publish_only" => last_publish_[t] + sincePublish[t] >= fanout_ttl

HistoryInv == HistoryKnown /\ HistoryOnce /\ HistoryServable
CountInv == ServedCounted /\ RetransmissionBounded /\ AskedCounted

IInv ==
    /\ TypeOK /\ GhostTypes /\ HistoryInv /\ PromiseOutstanding /\ CountInv
    /\ ReceivedKnown /\ PublishCounted

-----------------------------------------------------------------------------
(* The operators on maps.                                                    *)

(* Drop removes keys and leaves the other entries as they are.               *)
LEMMA DropValue ==
    ASSUME NEW f, NEW S
    PROVE  /\ DOMAIN Drop(f, S) = DOMAIN f \ S
           /\ \A k \in DOMAIN f \ S : Drop(f, S)[k] = f[k]
  BY DEF Drop, Restrict

(* With sets one entry and leaves the others as they are.                    *)
LEMMA WithValue ==
    ASSUME NEW f, NEW k, NEW v
    PROVE  /\ DOMAIN With(f, k, v) = DOMAIN f \cup {k}
           /\ With(f, k, v)[k] = v
           /\ \A x \in DOMAIN f : x # k => With(f, k, v)[x] = f[x]
  BY DEF With

(* TimeCache::clearExpired keeps exactly the entries with time left.         *)
LEMMA ClearValue ==
    ASSUME NEW cache
    PROVE  /\ DOMAIN clearExpired(cache) = {k \in DOMAIN cache : ~(cache[k] <= 0)}
           /\ \A k \in DOMAIN clearExpired(cache) : clearExpired(cache)[k] = cache[k]
  <1> DEFINE S == {k \in DOMAIN cache : cache[k] <= 0}
  <1>1. /\ DOMAIN Drop(cache, S) = DOMAIN cache \ S
        /\ \A k \in DOMAIN cache \ S : Drop(cache, S)[k] = cache[k]
    <2> HIDE DEF S
    <2> QED BY DropValue, Zenon
  <1> QED BY <1>1 DEF clearExpired

(* DuplicateCache::insert adds one entry and may lose only expired ones.     *)
LEMMA InsertValue ==
    ASSUME NEW id
    PROVE  /\ DOMAIN insert(id) = DOMAIN clearExpired(duplicate_cache_) \cup {id}
           /\ insert(id)[id] = duplicate_cache_time
           /\ \A k \in DOMAIN clearExpired(duplicate_cache_) :
                 k # id => insert(id)[k] = duplicate_cache_[k]
  <1> DEFINE f == clearExpired(duplicate_cache_)
  <1>1. \A k \in DOMAIN f : f[k] = duplicate_cache_[k]
    BY ClearValue, Zenon
  <1>2. /\ DOMAIN With(f, id, duplicate_cache_time) = DOMAIN f \cup {id}
        /\ With(f, id, duplicate_cache_time)[id] = duplicate_cache_time
        /\ \A x \in DOMAIN f : x # id => With(f, id, duplicate_cache_time)[x] = f[x]
    <2> HIDE DEF f
    <2> QED BY DEF With
  <1> QED BY <1>1, <1>2 DEF insert

(* The history invariant is about the histories, the duplicate cache, the    *)
(* timer and the keys of the message cache only.                             *)
LEMMA HistoryKept ==
    ASSUME HistoryInv, history_' = history_, duplicate_cache_' = duplicate_cache_, due' = due,
           DOMAIN message_cache_' = DOMAIN message_cache_
    PROVE  HistoryInv'
  <1>1. HistoryKnown'
    BY DEF HistoryInv, HistoryKnown, late
  <1>2. HistoryOnce'
    BY DEF HistoryInv, HistoryOnce
  <1>3. HistoryServable'
    BY DEF HistoryInv, HistoryServable, get
  <1> QED BY <1>1, <1>2, <1>3 DEF HistoryInv

(* The times in the duplicate cache and since a message was received.        *)
LEMMA TimesAreNumbers ==
    ASSUME CacheAssumption, TypeOK, GhostTypes
    PROVE  /\ duplicate_cache_time \in Nat /\ fanout_ttl \in Nat
           /\ \A id \in DOMAIN duplicate_cache_ : duplicate_cache_[id] \in Nat
           /\ \A m \in Messages : sinceReceived[m] \in Nat
           /\ \A t \in Topics : last_publish_[t] \in Nat /\ sincePublish[t] \in Nat
  <1>1. duplicate_cache_time \in Nat /\ fanout_ttl \in Nat
    BY DEF CacheAssumption
  <1>2. \A id \in DOMAIN duplicate_cache_ : duplicate_cache_[id] \in Nat
    BY <1>1 DEF TypeOK
  <1>3. \A m \in Messages : sinceReceived[m] \in Nat
    BY <1>1 DEF GhostTypes
  <1>4. \A t \in Topics : last_publish_[t] \in Nat /\ sincePublish[t] \in Nat
    BY <1>1 DEF TypeOK, GhostTypes
  <1> QED BY <1>1, <1>2, <1>3, <1>4

(* There are finitely many message ids, one for each message or one for all. *)
LEMMA IdsFinite ==
    ASSUME CacheAssumption
    PROVE  IsFiniteSet(Ids)
  <1>1. CASE Signed
    <2>1. Ids = Messages BY <1>1 DEF Ids, message_id_fn
    <2> QED BY <2>1 DEF CacheAssumption
  <1>2. CASE ~Signed
    <2>1. Ids \subseteq {AnonId} BY <1>2 DEF Ids, message_id_fn
    <2> QED BY <2>1, FS_Singleton, FS_Subset, Zenon
  <1> QED BY <1>1, <1>2

(* What is in a history is not about to leave the duplicate cache, because   *)
(* the duplicate cache outlives the history.                                 *)
LEMMA HistoryLive ==
    ASSUME CacheAssumption, TypeOK, GhostTypes, HistoryKnown
    PROVE  \A t \in Topics : \A i \in 1..history_length : \A id \in history_[t][i] :
              id \in DOMAIN clearExpired(duplicate_cache_)
  <1> SUFFICES ASSUME NEW t \in Topics, NEW i \in 1..history_length,
                      NEW id \in history_[t][i]
               PROVE  id \in DOMAIN duplicate_cache_ /\ ~(duplicate_cache_[id] <= 0)
    BY ClearValue, Zenon
  <1>1. /\ id \in DOMAIN duplicate_cache_
        /\ duplicate_cache_[id] + i - 1 + late >= duplicate_cache_time
    BY DEF HistoryKnown
  <1>2. duplicate_cache_[id] \in Int
    BY <1>1 DEF TypeOK
  <1>3. late \in 0..1
    BY DEF late, GhostTypes
  <1> QED BY <1>1, <1>2, <1>3 DEF CacheAssumption

-----------------------------------------------------------------------------
(* A node without topics and messages satisfies the invariant.               *)
LEMMA InitInv ==
    ASSUME CacheAssumption
    PROVE  Init => IInv
  <1> SUFFICES ASSUME Init PROVE IInv
    OBVIOUS
  <1>c. /\ history_length \in Nat /\ duplicate_cache_time \in Nat /\ fanout_ttl \in Nat
        /\ kCapacity \in Nat /\ gossip_retransimission \in Nat
        /\ max_ihave_length \in Nat /\ max_ihave_messages \in Nat
    BY DEF CacheAssumption
  <1>1. TypeOK
    <2>1. MarksOK
      BY <1>c, FS_EmptySet DEF Init, MarksOK
    <2>2. history_ \in [Topics -> History]
      BY DEF Init, History, emptyHistory
    <2> QED BY <1>c, <2>1, <2>2 DEF Init, TypeOK, MarksOK
  <1>2. GhostTypes
    <2>1. served \in [Peers \X Ids -> Nat]
      BY Zenon DEF Init
    <2>2. due \in BOOLEAN /\ published \subseteq Local /\ DOMAIN dont_send_ = Peers
      BY Zenon DEF Init
    <2>3. /\ sinceReceived \in [Messages -> 0..duplicate_cache_time]
          /\ sincePublish \in [Topics -> 0..fanout_ttl]
      BY <1>c DEF Init
    <2>4. asked \in [Peers -> SUBSET Ids]
      BY DEF Init
    <2> QED BY <2>1, <2>2, <2>3, <2>4 DEF GhostTypes
  <1>3. HistoryInv
    BY <1>c DEF Init, HistoryInv, HistoryKnown, HistoryOnce, HistoryServable, get, emptyHistory
  <1>4. PromiseOutstanding
    BY DEF Init, PromiseOutstanding
  <1>5. CountInv
    BY <1>c, FS_EmptySet
    DEF Init, CountInv, ServedCounted, RetransmissionBounded, AskedCounted
  <1>6. ReceivedKnown /\ PublishCounted
    BY <1>c DEF Init, ReceivedKnown, PublishCounted
  <1> QED BY <1>1, <1>2, <1>3, <1>4, <1>5, <1>6 DEF IInv

(* subscribe changes the status of a topic only.                             *)
LEMMA SubscribeInv ==
    ASSUME CacheAssumption, IInv, NEW t \in Topics, subscribe(t)
    PROVE  IInv'
  <1>i. /\ TypeOK /\ GhostTypes /\ HistoryInv /\ PromiseOutstanding /\ CountInv
        /\ ReceivedKnown /\ PublishCounted
    BY DEF IInv
  <1>u. /\ UNCHANGED <<last_publish_, history_, message_cache_, duplicate_cache_,
                   gossip_promises_, dont_send_, count_received_ihave_, count_sent_iwant_,
                   due, published, sinceReceived, sincePublish, served, asked>>
        /\ topics_' = [topics_ EXCEPT ![t] = "subscribed"]
    BY DEF subscribe, ghosts
  <1>1. TypeOK'
    BY <1>i, <1>u DEF TypeOK, History
  <1>2. GhostTypes'
    BY <1>i, <1>u DEF GhostTypes
  <1>3. HistoryInv'
    BY <1>i, <1>u, HistoryKept
  <1>4. PromiseOutstanding'
    BY <1>i, <1>u DEF PromiseOutstanding
  <1>5. CountInv'
    BY <1>i, <1>u DEF CountInv, ServedCounted, RetransmissionBounded, AskedCounted
  <1>6. ReceivedKnown'
    BY <1>i, <1>u DEF ReceivedKnown
  <1>7. PublishCounted'
    BY <1>i, <1>u DEF PublishCounted, TypeOK
  <1> QED BY <1>1, <1>2, <1>3, <1>4, <1>5, <1>6, <1>7 DEF IInv

(* A new Peer object starts with no marks and no counts.                     *)
LEMMA ReconnectInv ==
    ASSUME CacheAssumption, IInv, NEW p \in Peers, Reconnect(p)
    PROVE  IInv'
  <1>i. /\ TypeOK /\ GhostTypes /\ HistoryInv /\ PromiseOutstanding /\ CountInv
        /\ ReceivedKnown /\ PublishCounted
    BY DEF IInv
  <1>u. UNCHANGED <<topics_, last_publish_, history_, message_cache_, duplicate_cache_,
                    gossip_promises_, due, published, sinceReceived, sincePublish, served>>
    BY DEF Reconnect, ghosts
  <1>1. TypeOK'
    <2>1. MarksOK'
      BY <1>i, FS_EmptySet DEF Reconnect, MarksOK, TypeOK, GhostTypes, CacheAssumption
    <2>2. /\ count_received_ihave_' \in [Peers -> 0..max_ihave_messages + 1]
          /\ count_sent_iwant_' \in [Peers -> 0..max_ihave_length]
      BY <1>i DEF Reconnect, TypeOK, CacheAssumption
    <2> QED BY <1>i, <1>u, <2>1, <2>2 DEF TypeOK, MarksOK, History
  <1>2. GhostTypes'
    BY <1>i, <1>u DEF GhostTypes, Reconnect
  <1>3. HistoryInv'
    BY <1>i, <1>u, HistoryKept
  <1>4. PromiseOutstanding'
    BY <1>i, <1>u DEF PromiseOutstanding
  <1>5. CountInv'
    <2>1. AskedCounted'
      BY <1>i, FS_EmptySet DEF Reconnect, CountInv, AskedCounted, TypeOK, GhostTypes
    <2> QED BY <1>i, <1>u, <2>1 DEF CountInv, ServedCounted, RetransmissionBounded
  <1>6. ReceivedKnown' /\ PublishCounted'
    BY <1>i, <1>u DEF ReceivedKnown, PublishCounted
  <1> QED BY <1>1, <1>2, <1>3, <1>4, <1>5, <1>6 DEF IInv

(* One interval passes: times run down together, so what an entry of the     *)
(* duplicate cache has left and what has passed add up as before.            *)
LEMMA TickInv ==
    ASSUME CacheAssumption, IInv, Tick
    PROVE  IInv'
  <1>i. /\ TypeOK /\ GhostTypes /\ HistoryInv /\ PromiseOutstanding /\ CountInv
        /\ ReceivedKnown /\ PublishCounted
    BY DEF IInv
  <1>u. UNCHANGED <<topics_, history_, message_cache_, count_received_ihave_,
                    count_sent_iwant_, published, served, asked>>
    BY DEF Tick
  <1>c. /\ history_length \in Nat /\ duplicate_cache_time \in Nat /\ fanout_ttl \in Nat
        /\ kTtl \in Nat /\ iwant_followup_time \in Nat
    BY DEF CacheAssumption
  <1>d. /\ DOMAIN duplicate_cache_' = DOMAIN duplicate_cache_
        /\ \A k \in DOMAIN duplicate_cache_ :
              duplicate_cache_'[k] = Less(duplicate_cache_[k], 0)
    BY DEF Tick
  <1>p. /\ DOMAIN gossip_promises_' = DOMAIN gossip_promises_
        /\ \A x \in DOMAIN gossip_promises_ :
              gossip_promises_'[x] = Less(gossip_promises_[x], -1)
    BY DEF Tick
  <1>1. TypeOK'
    <2>1. MarksOK'
      <3> SUFFICES ASSUME NEW p \in Peers
                   PROVE  /\ DOMAIN dont_send_'[p] = DOMAIN dont_send_[p]
                          /\ \A id \in DOMAIN dont_send_[p] : dont_send_'[p][id] \in 0..kTtl
        BY <1>i DEF TypeOK, MarksOK
      <3>1. dont_send_'[p] = [k \in DOMAIN dont_send_[p] |-> Less(dont_send_[p][k], 0)]
        BY DEF Tick
      <3> QED BY <1>c, <1>i, <3>1 DEF TypeOK, Less
    <2>2. last_publish_' \in [Topics -> 0..fanout_ttl]
      BY <1>i, <1>c DEF Tick, TypeOK, Less
    <2>3. \A id \in DOMAIN duplicate_cache_' : duplicate_cache_'[id] \in 0..duplicate_cache_time
      BY <1>i, <1>c, <1>d DEF TypeOK, Less
    <2>4. \A x \in DOMAIN gossip_promises_' : gossip_promises_'[x] \in -1..iwant_followup_time
      BY <1>i, <1>c, <1>p DEF TypeOK, Less
    <2> QED BY <1>i, <1>u, <1>d, <1>p, <2>1, <2>2, <2>3, <2>4 DEF TypeOK, MarksOK, History
  <1>2. GhostTypes'
    <2>1. /\ sinceReceived' \in [Messages -> 0..duplicate_cache_time]
          /\ sincePublish' \in [Topics -> 0..fanout_ttl]
      BY <1>i, <1>c DEF Tick, GhostTypes, More
    <2>2. due' \in BOOLEAN /\ DOMAIN dont_send_' = Peers
      BY Zenon DEF Tick
    <2> QED BY <1>i, <1>u, <2>1, <2>2 DEF GhostTypes
  <1>3. HistoryInv'
    <2>1. HistoryKnown'
      <3> SUFFICES ASSUME NEW t \in Topics, NEW i \in 1..history_length,
                          NEW id \in history_[t][i]
                   PROVE  /\ id \in DOMAIN duplicate_cache_
                          /\ duplicate_cache_'[id] + i - 1 + 1 >= duplicate_cache_time
        BY <1>u, <1>d, Zenon DEF HistoryKnown, late, Tick
      <3>1. /\ id \in DOMAIN duplicate_cache_
            /\ duplicate_cache_[id] + i - 1 + 0 >= duplicate_cache_time
        BY <1>i DEF HistoryInv, HistoryKnown, late, Tick
      <3> QED BY <1>i, <1>c, <1>d, <3>1 DEF TypeOK, Less
    <2> QED BY <1>i, <1>u, <2>1 DEF HistoryInv, HistoryOnce, HistoryServable
  <1>4. PromiseOutstanding'
    BY <1>i, <1>d, <1>p DEF PromiseOutstanding
  <1>5. CountInv'
    BY <1>i, <1>u DEF CountInv, ServedCounted, RetransmissionBounded, AskedCounted
  <1>6. ReceivedKnown'
    <2> SUFFICES ASSUME NEW m \in Messages, sinceReceived'[m] < duplicate_cache_time
                 PROVE  /\ message_id_fn(m) \in DOMAIN duplicate_cache_
                        /\ duplicate_cache_'[message_id_fn(m)] + sinceReceived'[m]
                              >= duplicate_cache_time
      BY <1>d DEF ReceivedKnown
    <2>1. /\ sinceReceived[m] \in 0..duplicate_cache_time
          /\ sinceReceived'[m] = More(sinceReceived[m], duplicate_cache_time)
      BY <1>i DEF GhostTypes, Tick
    <2>2. sinceReceived[m] < duplicate_cache_time
      BY <1>c, <2>1 DEF More
    <2>3. /\ message_id_fn(m) \in DOMAIN duplicate_cache_
          /\ duplicate_cache_[message_id_fn(m)] + sinceReceived[m] >= duplicate_cache_time
      BY <1>i, <2>2 DEF ReceivedKnown
    <2> QED BY <1>i, <1>c, <1>d, <2>1, <2>2, <2>3 DEF TypeOK, Less, More
  <1>7. PublishCounted'
    <2>1. ASSUME NEW t \in Topics, last_publish_[t] + sincePublish[t] >= fanout_ttl
          PROVE  last_publish_'[t] + sincePublish'[t] >= fanout_ttl
      <3>1. /\ last_publish_[t] \in 0..fanout_ttl /\ sincePublish[t] \in 0..fanout_ttl
            /\ last_publish_'[t] = Less(last_publish_[t], 0)
            /\ sincePublish'[t] = More(sincePublish[t], fanout_ttl)
        BY <1>i DEF TypeOK, GhostTypes, Tick
      <3> QED BY <1>c, <2>1, <3>1, SMTT(30) DEF Less, More
    <2> QED BY <1>i, <1>u, <1>d, <2>1 DEF PublishCounted
  <1> QED BY <1>1, <1>2, <1>3, <1>4, <1>5, <1>6, <1>7 DEF IInv

(* An IWANT counts before it is answered.                                    *)
LEMMA IWantInv ==
    ASSUME CacheAssumption, IInv, NEW p \in Peers, NEW id \in Ids, onIWant(p, id)
    PROVE  IInv'
  <1>i. /\ TypeOK /\ GhostTypes /\ HistoryInv /\ PromiseOutstanding /\ CountInv
        /\ ReceivedKnown /\ PublishCounted
    BY DEF IInv
  <1>u. UNCHANGED <<topics_, last_publish_, history_, duplicate_cache_, gossip_promises_,
                    dont_send_, count_received_ihave_, count_sent_iwant_, due, published,
                    sinceReceived, sincePublish, asked>>
    BY DEF onIWant
  <1>c. gossip_retransimission \in Nat
    BY DEF CacheAssumption
  <1>m. /\ id \in DOMAIN message_cache_ /\ DOMAIN message_cache_' = DOMAIN message_cache_
        /\ message_cache_[id][p] <= gossip_retransimission
        /\ message_cache_'[id] = [message_cache_[id] EXCEPT ![p] = @ + 1]
        /\ \A k \in DOMAIN message_cache_ : k # id => message_cache_'[k] = message_cache_[k]
    BY DEF onIWant
  <1>s. \/ served' = served
        \/ /\ message_cache_[id][p] + 1 <= gossip_retransimission
           /\ served' = [served EXCEPT ![<<p, id>>] = @ + 1]
    <2>1. PICK send \in BOOLEAN : /\ send => message_cache_[id][p] + 1 <= gossip_retransimission
                     /\ served' = [served EXCEPT ![<<p, id>>] = IF send THEN @ + 1 ELSE @]
      BY Zenon DEF onIWant, iwant
    <2>2. served = [served EXCEPT ![<<p, id>>] = @]
      BY <1>i DEF GhostTypes
    <2> QED BY <2>1, <2>2, Zenon
  <1>t. message_cache_[id] \in [Peers -> 0..gossip_retransimission + 1]
    BY <1>i, <1>m, SMTT(30) DEF TypeOK
  <1>1. TypeOK'
    <2>1. message_cache_'[id] \in [Peers -> 0..gossip_retransimission + 1]
      BY <1>c, <1>m, <1>t, SMTT(20)
    <2>2. \A k \in DOMAIN message_cache_' :
              message_cache_'[k] \in [Peers -> 0..gossip_retransimission + 1]
      BY <1>i, <1>m, <2>1, Zenon DEF TypeOK
    <2> QED BY <1>i, <1>u, <1>m, <2>2 DEF TypeOK, History
  <1>2. GhostTypes'
    <2>1. served' \in [Peers \X Ids -> Nat]
      BY <1>i, <1>s DEF GhostTypes
    <2> QED BY <1>i, <1>u, <2>1 DEF GhostTypes
  <1>3. HistoryInv'
    BY <1>i, <1>u, <1>m, HistoryKept
  <1>4. PromiseOutstanding'
    BY <1>i, <1>u DEF PromiseOutstanding
  <1>5. CountInv'
    <2> SUFFICES ASSUME NEW q \in Peers, NEW k \in Ids
                 PROVE  /\ k \notin DOMAIN message_cache_ => served'[<<q, k>>] = 0
                        /\ k \in DOMAIN message_cache_
                              => served'[<<q, k>>] <= message_cache_'[k][q]
                        /\ served'[<<q, k>>] <= gossip_retransimission
      BY <1>i, <1>u, <1>m DEF CountInv, ServedCounted, RetransmissionBounded, AskedCounted
    <2>1. /\ served[<<q, k>>] \in Nat /\ served[<<q, k>>] <= gossip_retransimission
          /\ k \notin DOMAIN message_cache_ => served[<<q, k>>] = 0
          /\ k \in DOMAIN message_cache_ => served[<<q, k>>] <= message_cache_[k][q]
      BY <1>i DEF CountInv, ServedCounted, RetransmissionBounded, GhostTypes
    <2>2. k \in DOMAIN message_cache_ => message_cache_[k] \in [Peers -> 0..gossip_retransimission + 1]
      BY <1>i DEF TypeOK
    <2>3. CASE <<q, k>> = <<p, id>>
      <3>1. \/ served'[<<q, k>>] = served[<<q, k>>]
            \/ /\ message_cache_[id][p] + 1 <= gossip_retransimission
               /\ served'[<<q, k>>] = served[<<q, k>>] + 1
        BY <1>i, <1>s, <2>3 DEF GhostTypes
      <3>2. q = p /\ k = id /\ message_cache_'[k][q] = message_cache_[k][q] + 1
        BY <1>m, <1>t, <2>3
      <3> QED BY <1>c, <1>m, <1>t, <2>1, <2>2, <3>1, <3>2
    <2>4. CASE <<q, k>> # <<p, id>>
      <3>1. served'[<<q, k>>] = served[<<q, k>>]
        BY <1>i, <1>s, <2>4 DEF GhostTypes
      <3>2. k \in DOMAIN message_cache_ => message_cache_'[k][q] = message_cache_[k][q]
        BY <1>m, <1>t, <2>4, Zenon
      <3> QED BY <2>1, <3>1, <3>2
    <2> QED BY SMTT(30), <2>3, <2>4
  <1>6. ReceivedKnown' /\ PublishCounted'
    BY <1>i, <1>u DEF ReceivedKnown, PublishCounted
  <1> QED BY <1>1, <1>2, <1>3, <1>4, <1>5, <1>6 DEF IInv

(* An IDONTWANT mark is added to a cache that has room or was given some.    *)
LEMMA IDontWantInv ==
    ASSUME CacheAssumption, IInv, NEW p \in Peers, NEW id \in Ids, onIDontWant(p, id)
    PROVE  IInv'
  <1>i. /\ TypeOK /\ GhostTypes /\ HistoryInv /\ PromiseOutstanding /\ CountInv
        /\ ReceivedKnown /\ PublishCounted
    BY DEF IInv
  <1>u. UNCHANGED <<topics_, last_publish_, history_, message_cache_, duplicate_cache_,
                    gossip_promises_, count_received_ihave_, count_sent_iwant_, due,
                    published, sinceReceived, sincePublish, served, asked>>
    BY DEF onIDontWant, ghosts
  <1>c. kCapacity \in Nat \ {0} /\ kTtl \in Nat
    BY DEF CacheAssumption
  <1> DEFINE old == dont_send_[p]
  <1>o. /\ DOMAIN old \subseteq Ids /\ Cardinality(DOMAIN old) <= kCapacity
        /\ \A k \in DOMAIN old : old[k] \in 0..kTtl
    BY <1>i DEF TypeOK
  <1>e. PICK out \in evictions(old) :
            dont_send_' = [dont_send_ EXCEPT ![p] = With(clearExpired(Drop(old, out)), id, kTtl)]
    BY Zenon DEF onIDontWant
  <1> DEFINE kept == clearExpired(Drop(old, out))
             new == With(kept, id, kTtl)
  <1>k. /\ DOMAIN kept \subseteq DOMAIN old \ out
        /\ \A k \in DOMAIN kept : kept[k] = old[k]
    <2>1. /\ DOMAIN Drop(old, out) = DOMAIN old \ out
          /\ \A k \in DOMAIN old \ out : Drop(old, out)[k] = old[k]
      BY DropValue, Zenon
    <2> DEFINE d == Drop(old, out)
    <2>2. /\ DOMAIN clearExpired(d) = {k \in DOMAIN d : ~(d[k] <= 0)}
          /\ \A k \in DOMAIN clearExpired(d) : clearExpired(d)[k] = d[k]
      <3> HIDE DEF d
      <3> QED BY ClearValue, Zenon
    <2> QED BY <2>1, <2>2, SMTT(20)
  <1>n. /\ DOMAIN new = DOMAIN kept \cup {id} /\ new[id] = kTtl
        /\ \A k \in DOMAIN kept : k # id => new[k] = kept[k]
    <2> HIDE DEF kept
    <2> QED BY DEF With
  <1>r. Cardinality(DOMAIN kept) < kCapacity /\ IsFiniteSet(DOMAIN kept)
    <2>1. IsFiniteSet(DOMAIN old)
      BY <1>o, IdsFinite, FS_Subset
    <2>2. /\ IsFiniteSet(DOMAIN old \ out)
          /\ Cardinality(DOMAIN old \ out) < kCapacity
      <3>1. CASE Cardinality(DOMAIN old) >= kCapacity
        <4>1. PICK k \in oldest(old) : out = {k}
          BY <1>e, <3>1 DEF evictions
        <4>2. k \in DOMAIN old
          BY <4>1 DEF oldest
        <4>3. /\ IsFiniteSet(DOMAIN old \ {k})
              /\ Cardinality(DOMAIN old \ {k}) = Cardinality(DOMAIN old) - 1
          BY <2>1, <4>2, FS_RemoveElement, Zenon
        <4>4. Cardinality(DOMAIN old) \in Nat
          BY <2>1, FS_CardinalityType
        <4> QED BY <1>c, <1>o, <4>1, <4>3, <4>4
      <3>2. CASE ~(Cardinality(DOMAIN old) >= kCapacity)
        <4>1. out = {}
          BY <1>e, <3>2 DEF evictions
        <4>2. Cardinality(DOMAIN old) \in Nat
          BY <2>1, FS_CardinalityType
        <4>3. DOMAIN old \ out = DOMAIN old
          BY <4>1
        <4> QED BY <1>c, <2>1, <3>2, <4>2, <4>3
      <3> QED BY <3>1, <3>2
    <2>3. /\ IsFiniteSet(DOMAIN kept)
          /\ Cardinality(DOMAIN kept) <= Cardinality(DOMAIN old \ out)
      <3> HIDE DEF kept, old
      <3> QED BY <1>k, <2>2, FS_Subset
    <2>4. Cardinality(DOMAIN kept) \in Nat /\ Cardinality(DOMAIN old \ out) \in Nat
      <3> HIDE DEF kept, old
      <3> QED BY <2>2, <2>3, FS_CardinalityType
    <2> HIDE DEF kept, old
    <2> QED BY <1>c, <2>2, <2>3, <2>4
  <1>f. /\ DOMAIN new \subseteq Ids
        /\ Cardinality(DOMAIN new) <= kCapacity
        /\ \A k \in DOMAIN new : new[k] \in 0..kTtl
    <2> HIDE DEF new, kept, old
    <2>1. Cardinality(DOMAIN kept) \in Nat
      BY <1>r, FS_CardinalityType
    <2>2. \/ Cardinality(DOMAIN new) = Cardinality(DOMAIN kept)
          \/ Cardinality(DOMAIN new) = Cardinality(DOMAIN kept) + 1
      BY <1>n, <1>r, FS_AddElement
    <2>3. Cardinality(DOMAIN new) <= kCapacity
      BY <1>c, <1>r, <2>1, <2>2
    <2>4. \A k \in DOMAIN new : new[k] \in 0..kTtl
      BY <1>c, <1>k, <1>n, <1>o, SMTT(30)
    <2> QED BY <1>k, <1>n, <1>o, <2>3, <2>4
  <1>1. TypeOK'
    <2>1. /\ DOMAIN dont_send_' = Peers /\ dont_send_'[p] = new
          /\ \A q \in Peers \ {p} : dont_send_'[q] = dont_send_[q]
      <3> HIDE DEF new
      <3>1. dont_send_' = [dont_send_ EXCEPT ![p] = new]
        BY SMTT(30), <1>e DEF new
      <3> QED BY <1>i, <3>1 DEF GhostTypes
    <2>2. MarksOK'
      <3> HIDE DEF new
      <3> QED BY <1>i, <1>f, <2>1 DEF TypeOK, MarksOK
    <2> QED BY <1>i, <1>u, <2>2 DEF TypeOK, MarksOK, History
  <1>2. GhostTypes'
    <2>1. DOMAIN dont_send_' = Peers
      <3> HIDE DEF new
      <3> QED BY <1>i, <1>e, SMTT(20) DEF GhostTypes
    <2> QED BY <1>i, <1>u, <2>1 DEF GhostTypes
  <1>3. HistoryInv'
    BY SMTT(30), <1>i, <1>u, HistoryKept
  <1>4. PromiseOutstanding'
    BY Zenon, <1>i, <1>u DEF PromiseOutstanding
  <1>5. CountInv'
    BY <1>i, <1>u, ZenonT(30) DEF CountInv, ServedCounted, RetransmissionBounded, AskedCounted
  <1>6. ReceivedKnown' /\ PublishCounted'
    BY Zenon, <1>i, <1>u DEF ReceivedKnown, PublishCounted
  <1> QED BY <1>1, <1>2, <1>3, <1>4, <1>5, <1>6 DEF IInv

(* The lesser of two numbers.                                                *)
LEMMA MinValue ==
    ASSUME NEW a \in Nat, NEW b \in Nat
    PROVE  Min({a, b}) \in {a, b} /\ Min({a, b}) <= a /\ Min({a, b}) <= b
  <1>1. \E x \in {a, b} : \A y \in {a, b} : x <= y
    OBVIOUS
  <1> QED BY <1>1 DEF Min

(* handle_ihave asks for unknown ids that nobody promised, and for no more   *)
(* than is left of max_ihave_length.                                         *)
LEMMA IHaveInv ==
    ASSUME CacheAssumption, IInv, NEW p \in Peers, NEW t \in Topics,
           NEW ids \in SUBSET Ids, handle_ihave(p, t, ids)
    PROVE  IInv'
  <1>i. /\ TypeOK /\ GhostTypes /\ HistoryInv /\ PromiseOutstanding /\ CountInv
        /\ ReceivedKnown /\ PublishCounted
    BY DEF IInv
  <1>u. UNCHANGED <<topics_, last_publish_, history_, message_cache_, duplicate_cache_,
                    dont_send_, due, published, sinceReceived, sincePublish, served>>
    BY DEF handle_ihave, ghosts
  <1>c. /\ max_ihave_length \in Nat /\ max_ihave_messages \in Nat
        /\ iwant_followup_time \in Nat
    BY DEF CacheAssumption
  <1> DEFINE idle == \/ count_received_ihave_[p] + 1 > max_ihave_messages
                     \/ count_sent_iwant_[p] >= max_ihave_length
             want == IF idle THEN {} ELSE want_set(t, ids)
             count == Min({Cardinality(want), iwant_left(p)})
  <1>a. PICK ask \in kSubset(count, want) :
            /\ count_sent_iwant_' = [count_sent_iwant_ EXCEPT ![p] = @ + count]
            /\ gossip_promises_' = [x \in DOMAIN gossip_promises_ \cup (ask \X {p}) |->
                   IF x \in DOMAIN gossip_promises_ THEN gossip_promises_[x]
                   ELSE iwant_followup_time]
            /\ asked' = [asked EXCEPT ![p] = @ \cup ask]
    BY Zenon DEF handle_ihave
  <1>b. /\ count_received_ihave_[p] <= max_ihave_messages
        /\ count_received_ihave_' = [count_received_ihave_ EXCEPT ![p] = count_received_ihave_[p] + 1]
    BY SMTT(30) DEF handle_ihave
  <1>n. /\ count_sent_iwant_[p] \in 0..max_ihave_length
        /\ count_received_ihave_[p] \in 0..max_ihave_messages + 1
    BY <1>i, SMTT(30) DEF TypeOK
  <1>w. /\ want \subseteq ids
        /\ \A id \in want : /\ id \notin DOMAIN duplicate_cache_
                            /\ \A q \in Peers : <<id, q>> \notin DOMAIN gossip_promises_
    BY SMTT(30) DEF want_set
  <1>k. /\ ask \subseteq want /\ Cardinality(ask) = count
    BY DEF kSubset
  <1>f. IsFiniteSet(want) /\ IsFiniteSet(ask)
    <2> HIDE DEF want
    <2> QED BY <1>w, <1>k, IdsFinite, FS_Subset, SMTT(20)
  <1>m. count \in Nat /\ count <= max_ihave_length - count_sent_iwant_[p]
    <2> HIDE DEF want
    <2>1. Cardinality(want) \in Nat
      BY <1>f, FS_CardinalityType, SMTT(20)
    <2>2. iwant_left(p) \in Nat /\ iwant_left(p) = max_ihave_length - count_sent_iwant_[p]
      BY <1>c, <1>n, SMTT(30) DEF iwant_left
    <2>3. /\ count \in {Cardinality(want), iwant_left(p)} /\ count <= iwant_left(p)
      BY <2>1, <2>2, MinValue, SMTT(30)
    <2> QED BY <2>1, <2>2, <2>3
  <1> HIDE DEF want, count, idle
  <1>1. TypeOK'
    <2>1. count_received_ihave_' \in [Peers -> 0..max_ihave_messages + 1]
      BY <1>i, <1>b, <1>c, <1>n, SMTT(30) DEF TypeOK
    <2>2. count_sent_iwant_' \in [Peers -> 0..max_ihave_length]
      BY <1>i, <1>a, <1>c, <1>n, <1>m, SMTT(20) DEF TypeOK
    <2>3. DOMAIN gossip_promises_' \subseteq Ids \X Peers
      BY <1>i, <1>a, <1>k, <1>w, SMTT(20) DEF TypeOK
    <2>4. \A x \in DOMAIN gossip_promises_' : gossip_promises_'[x] \in -1..iwant_followup_time
      BY <1>i, <1>a, <1>c DEF TypeOK
    <2> QED BY <1>i, <1>u, <2>1, <2>2, <2>3, <2>4, SMTT(30) DEF TypeOK, History
  <1>2. GhostTypes'
    <2>1. asked' \in [Peers -> SUBSET Ids]
      BY <1>i, <1>a, <1>k, <1>w DEF GhostTypes
    <2> QED BY <1>i, <1>u, <2>1, SMTT(30) DEF GhostTypes
  <1>3. HistoryInv'
    BY <1>i, <1>u, HistoryKept
  <1>4. PromiseOutstanding'
    <2>1. DOMAIN gossip_promises_' = DOMAIN gossip_promises_ \cup (ask \X {p})
      BY <1>a
    <2>2. \A x \in ask \X {p} : /\ x[1] \in ask /\ x[2] = p /\ x = <<x[1], p>>
      OBVIOUS
    <2>3. \A x \in DOMAIN gossip_promises_ : x[2] \in Peers /\ x = <<x[1], x[2]>>
      BY <1>i, SMTT(30) DEF TypeOK
    <2>4. \A x \in DOMAIN gossip_promises_ : x[1] \notin ask
      BY <1>k, <1>w, <2>3
    <2>5. \A x \in ask \X {p} : x[1] \notin DOMAIN duplicate_cache_
      BY <1>k, <1>w, <2>2
    <2> SUFFICES ASSUME NEW x \in DOMAIN gossip_promises_', NEW y \in DOMAIN gossip_promises_',
                        x[1] = y[1]
                 PROVE  x = y /\ x[1] \notin DOMAIN duplicate_cache_
      BY <1>u DEF PromiseOutstanding
    <2>6. CASE x \in DOMAIN gossip_promises_
      <3>1. y \in DOMAIN gossip_promises_
        BY <2>1, <2>2, <2>4, <2>6
      <3> QED BY <1>i, <2>6, <3>1 DEF PromiseOutstanding
    <2>7. CASE x \in ask \X {p}
      <3>1. y \in ask \X {p}
        BY <2>1, <2>2, <2>4, <2>7, SMTT(20)
      <3>2. x = <<x[1], p>> /\ y = <<y[1], p>>
        BY <2>2, <2>7, <3>1, SMTT(30)
      <3> QED BY <2>5, <2>7, <3>2
    <2> QED BY <2>1, <2>6, <2>7
  <1>5. CountInv'
    <2>1. AskedCounted'
      <3> SUFFICES ASSUME NEW q \in Peers
                   PROVE  Cardinality(asked'[q]) <= count_sent_iwant_'[q]
        BY SMTT(30) DEF AskedCounted
      <3>1. CASE q # p
        BY SMTT(30), <1>i, <1>a, <3>1 DEF CountInv, AskedCounted, GhostTypes, TypeOK
      <3>2. CASE q = p
        <4>1. /\ asked'[q] = asked[p] \cup ask
              /\ count_sent_iwant_'[q] = count_sent_iwant_[p] + count
          BY <1>i, <1>a, <3>2 DEF GhostTypes, TypeOK
        <4>2. IsFiniteSet(asked[p])
          BY <1>i, IdsFinite, FS_Subset DEF GhostTypes
        <4>3. /\ IsFiniteSet(asked[p] \cup ask) /\ IsFiniteSet(asked[p] \cap ask)
              /\ Cardinality(asked[p] \cup ask) =
                    Cardinality(asked[p]) + Cardinality(ask) - Cardinality(asked[p] \cap ask)
          BY <1>f, <4>2, FS_Union, FS_Intersection, Zenon
        <4>4. /\ Cardinality(asked[p]) \in Nat /\ Cardinality(asked[p] \cap ask) \in Nat
          BY <4>2, <4>3, FS_CardinalityType
        <4>5. Cardinality(asked[p]) <= count_sent_iwant_[p]
          BY SMTT(30), <1>i DEF CountInv, AskedCounted
        <4>6. Cardinality(asked[p] \cup ask) <= Cardinality(asked[p]) + count
          BY SMTT(30), <1>k, <1>m, <4>3, <4>4
        <4>7. count_sent_iwant_[p] \in Nat
          BY <1>c, <1>n
        <4>8. Cardinality(asked[p]) + count <= count_sent_iwant_[p] + count
          BY SMTT(30), <1>m, <4>4, <4>5, <4>7
        <4>9. Cardinality(asked[p] \cup ask) \in Nat
          BY SMTT(30), <4>3, FS_CardinalityType
        <4> QED BY SMTT(30), <1>m, <4>1, <4>4, <4>6, <4>7, <4>8, <4>9
      <3> QED BY <3>1, <3>2
    <2> QED BY <1>i, <1>u, <2>1, SMTT(30) DEF CountInv, ServedCounted, RetransmissionBounded
  <1>6. ReceivedKnown' /\ PublishCounted'
    BY <1>i, <1>u DEF ReceivedKnown, PublishCounted
  <1> QED BY <1>1, <1>2, <1>3, <1>4, <1>5, <1>6 DEF IInv

-----------------------------------------------------------------------------
(* A message is in one shift of one topic.                                   *)
LEMMA OnePlace ==
    ASSUME HistoryOnce, NEW u \in Topics, NEW v \in Topics, NEW i \in 1..history_length,
           NEW j \in 1..history_length, NEW k \in history_[u][i] \cap history_[v][j]
    PROVE  u = v /\ i = j
  <1>1. history_[u][i] \cap history_[v][j] # {}
    OBVIOUS
  <1> QED BY SMTT(30), <1>1 DEF HistoryOnce

(* broadcast of an id that just went into the duplicate cache: no history    *)
(* had it, it is in the message cache afterwards and promised by nobody.     *)
LEMMA BroadcastInv ==
    ASSUME CacheAssumption, TypeOK, GhostTypes, HistoryInv, PromiseOutstanding, ServedCounted,
           NEW m \in Messages, NEW own \in BOOLEAN, NEW from, NEW more,
           message_id_fn(m) \notin DOMAIN clearExpired(duplicate_cache_),
           duplicate_cache_' = insert(message_id_fn(m)),
           broadcast(m, own, from, more), UNCHANGED <<due, served>>
    PROVE  CacheTypes' /\ HistoryInv' /\ PromiseOutstanding' /\ ServedCounted'
  <1> DEFINE id == message_id_fn(m)
             t == TopicOf[m]
  <1>c. /\ history_length \in Nat /\ 1 \in 1..history_length /\ duplicate_cache_time \in Nat
        /\ gossip_retransimission \in Nat
    BY DEF CacheAssumption
  <1>t. t \in Topics /\ id \in Ids
    BY SMTT(20) DEF CacheAssumption, Ids
  <1>d. /\ DOMAIN duplicate_cache_' = DOMAIN clearExpired(duplicate_cache_) \cup {id}
        /\ duplicate_cache_'[id] = duplicate_cache_time
        /\ \A k \in DOMAIN clearExpired(duplicate_cache_) :
              /\ k # id /\ k \in DOMAIN duplicate_cache_
              /\ duplicate_cache_'[k] = duplicate_cache_[k]
    <2>1. DOMAIN clearExpired(duplicate_cache_) \subseteq DOMAIN duplicate_cache_
      BY ClearValue, Zenon
    <2> HIDE DEF id
    <2>2. id \notin DOMAIN clearExpired(duplicate_cache_) /\ duplicate_cache_' = insert(id)
      BY DEF id
    <2>3. /\ DOMAIN insert(id) = DOMAIN clearExpired(duplicate_cache_) \cup {id}
          /\ insert(id)[id] = duplicate_cache_time
          /\ \A k \in DOMAIN clearExpired(duplicate_cache_) :
                k # id => insert(id)[k] = duplicate_cache_[k]
      BY InsertValue, Zenon
    <2> QED BY <2>1, <2>2, <2>3, Zenon
  <1>m. /\ DOMAIN message_cache_' = DOMAIN message_cache_ \cup {id}
        /\ \A k \in DOMAIN message_cache_ : message_cache_'[k] = message_cache_[k]
        /\ id \notin DOMAIN message_cache_ => message_cache_'[id] = [p \in Peers |-> 0]
    BY DEF broadcast, With
  <1>h. /\ history_' = [history_ EXCEPT ![t] = add(history_[t], id)]
        /\ DOMAIN gossip_promises_' = DOMAIN gossip_promises_ \ ({id} \X Peers)
        /\ \A x \in DOMAIN gossip_promises_' : gossip_promises_'[x] = gossip_promises_[x]
    BY DEF broadcast, remove, Drop, Restrict
  <1>l. \A u \in Topics : \A i \in 1..history_length :
            /\ history_[u][i] \subseteq DOMAIN clearExpired(duplicate_cache_)
            /\ id \notin history_[u][i]
    BY HistoryLive, SMTT(30) DEF HistoryInv
  <1>s. \A u \in Topics : \A i \in 1..history_length : \A k :
            k \in history_'[u][i] <=> k \in history_[u][i] \/ (k = id /\ u = t /\ i = 1)
    <2>1. \A u \in Topics : u # t => history_'[u] = history_[u]
      BY <1>h, <1>t, Zenon DEF TypeOK
    <2>2. /\ history_'[t][1] = history_[t][1] \cup {id}
          /\ \A i \in 1..history_length : i # 1 => history_'[t][i] = history_[t][i]
      BY <1>c, <1>h, <1>t, Zenon DEF TypeOK, History, add
    <2> HIDE DEF id, t
    <2> QED BY <2>1, <2>2
  <1> HIDE DEF id, t
  <1>1. CacheTypes'
    <2>1. history_' \in [Topics -> History]
      <3>1. add(history_[t], id) \in History
        BY <1>c, <1>t, SMTT(30) DEF TypeOK, History, add
      <3> QED BY <1>h, <1>t, <3>1, SMTT(30) DEF TypeOK
    <2>2. \A k \in DOMAIN message_cache_' :
              message_cache_'[k] \in [Peers -> 0..gossip_retransimission + 1]
      <3>1. [p \in Peers |-> 0] \in [Peers -> 0..gossip_retransimission + 1]
        BY <1>c, SMTT(30)
      <3> QED BY <1>m, <3>1 DEF TypeOK
    <2>3. DOMAIN message_cache_' \subseteq Ids /\ DOMAIN duplicate_cache_' \subseteq Ids
      BY <1>m, <1>d, <1>t, SMTT(30) DEF TypeOK
    <2>4. \A k \in DOMAIN duplicate_cache_' : duplicate_cache_'[k] \in 0..duplicate_cache_time
      BY <1>c, <1>d DEF TypeOK
    <2>5. /\ DOMAIN gossip_promises_' \subseteq Ids \X Peers
          /\ \A x \in DOMAIN gossip_promises_' : gossip_promises_'[x] \in -1..iwant_followup_time
      BY <1>h, Zenon DEF TypeOK
    <2> QED BY <2>1, <2>2, <2>3, <2>4, <2>5, SMTT(30) DEF CacheTypes, History
  <1>2. HistoryKnown'
    <2> SUFFICES ASSUME NEW u \in Topics, NEW i \in 1..history_length, NEW k \in history_'[u][i]
                 PROVE  /\ k \in DOMAIN duplicate_cache_'
                        /\ duplicate_cache_'[k] + i - 1 + late >= duplicate_cache_time
      BY DEF HistoryKnown, late
    <2>l. late \in Nat
      BY SMTT(20) DEF late
    <2>1. CASE k = id
      BY <1>c, <1>d, <2>1, <2>l, SMTT(30)
    <2>2. CASE k # id
      <3>1. k \in history_[u][i]
        BY <1>s, <2>2, Zenon
      <3>2. duplicate_cache_[k] + i - 1 + late >= duplicate_cache_time
        <4>1. HistoryKnown
          BY ZenonT(30) DEF HistoryInv
        <4> QED BY <3>1, <4>1, Zenon DEF HistoryKnown
      <3> QED BY <1>d, <1>l, <3>1, <3>2
    <2> QED BY <2>1, <2>2
  <1>3. HistoryOnce'
    <2> SUFFICES ASSUME NEW u \in Topics, NEW v \in Topics, NEW i \in 1..history_length,
                        NEW j \in 1..history_length,
                        NEW k \in history_'[u][i] \cap history_'[v][j]
                 PROVE  u = v /\ i = j
      BY SMTT(20) DEF HistoryOnce
    <2>1. CASE k = id
      BY <1>l, <1>s, <2>1, SMTT(20)
    <2>2. CASE k # id
      <3>1. k \in history_[u][i] \cap history_[v][j]
        BY <1>s, <2>2, SMTT(30)
      <3>2. HistoryOnce
        BY SMTT(30) DEF HistoryInv
      <3> QED BY <3>1, <3>2, OnePlace, Zenon
    <2> QED BY <2>1, <2>2, SMTT(20)
  <1>4. HistoryServable'
    <2>1. \A u \in Topics : \A i \in 1..history_length : history_[u][i] \subseteq DOMAIN message_cache_
      BY SMTT(30) DEF HistoryInv, HistoryServable, get
    <2>2. \A u \in Topics : \A i \in 1..history_length :
              history_'[u][i] \subseteq DOMAIN message_cache_'
      BY <1>m, <1>s, <2>1, SMTT(30)
    <2> QED BY <2>2, SMTT(20) DEF HistoryServable, get
  <1>5. PromiseOutstanding'
    <2> SUFFICES ASSUME NEW x \in DOMAIN gossip_promises_', NEW y \in DOMAIN gossip_promises_',
                        x[1] = y[1]
                 PROVE  x = y /\ x[1] \notin DOMAIN duplicate_cache_'
      BY DEF PromiseOutstanding
    <2>1. x \in DOMAIN gossip_promises_ /\ y \in DOMAIN gossip_promises_ /\ x[1] # id
      BY <1>h, Zenon DEF TypeOK
    <2>2. x = y /\ x[1] \notin DOMAIN duplicate_cache_
      BY <2>1, ZenonT(30) DEF PromiseOutstanding
    <2> QED BY <1>d, <2>1, <2>2, SMTT(30)
  <1>6. ServedCounted'
    <2> SUFFICES ASSUME NEW p \in Peers, NEW k \in Ids
                 PROVE  /\ k \notin DOMAIN message_cache_' => served[<<p, k>>] = 0
                        /\ k \in DOMAIN message_cache_' => served[<<p, k>>] <= message_cache_'[k][p]
      BY ZenonT(30) DEF ServedCounted
    <2>1. /\ k \notin DOMAIN message_cache_ => served[<<p, k>>] = 0
          /\ k \in DOMAIN message_cache_ => served[<<p, k>>] <= message_cache_[k][p]
      BY DEF ServedCounted
    <2> QED BY <1>m, <2>1
  <1> QED BY <1>1, <1>2, <1>3, <1>4, <1>5, <1>6, SMTT(30) DEF HistoryInv

(* A received message stays in the duplicate cache when another goes in.     *)
LEMMA InsertKnown ==
    ASSUME CacheAssumption, TypeOK, GhostTypes, ReceivedKnown, NEW id \in Ids,
           \/ duplicate_cache_' = insert(id)
           \/ duplicate_cache_' = clearExpired(duplicate_cache_),
           NEW m \in Messages, sinceReceived[m] < duplicate_cache_time
    PROVE  /\ message_id_fn(m) \in DOMAIN duplicate_cache_'
           /\ duplicate_cache_'[message_id_fn(m)] + sinceReceived[m] >= duplicate_cache_time
  <1> DEFINE k == message_id_fn(m)
  <1>1. /\ k \in DOMAIN duplicate_cache_
        /\ duplicate_cache_[k] + sinceReceived[m] >= duplicate_cache_time
    BY DEF ReceivedKnown
  <1> HIDE DEF k
  <1>2. /\ duplicate_cache_[k] \in Int /\ duplicate_cache_time \in Nat
        /\ sinceReceived[m] \in Nat
    BY <1>1, TimesAreNumbers
  <1>3. k \in DOMAIN clearExpired(duplicate_cache_)
    <2>1. ~(duplicate_cache_[k] <= 0)
      BY <1>1, <1>2
    <2> QED BY <1>1, <2>1, ClearValue, Zenon
  <1>4. CASE duplicate_cache_' = clearExpired(duplicate_cache_)
    BY <1>1, <1>3, <1>4, ClearValue, Zenon DEF k
  <1>5. CASE duplicate_cache_' = insert(id)
    <2>1. k \in DOMAIN insert(id) /\ insert(id)[k] \in {duplicate_cache_time, duplicate_cache_[k]}
      BY <1>3, InsertValue, Zenon
    <2> QED BY <1>1, <1>2, <1>5, <2>1 DEF k
  <1> QED BY <1>4, <1>5

(* A publish that is dropped as a duplicate changes the topic only; any      *)
(* other, and with signed messages that is every one, renews the topic.      *)
LEMMA PublishInv ==
    ASSUME CacheAssumption, IInv, NEW m \in Local, NEW more, publish(m, more)
    PROVE  IInv'
  <1> DEFINE id == message_id_fn(m)
             t == TopicOf[m]
  <1>i. /\ TypeOK /\ GhostTypes /\ HistoryInv /\ PromiseOutstanding /\ CountInv
        /\ ReceivedKnown /\ PublishCounted
    BY DEF IInv
  <1>c. /\ fanout_ttl \in Nat /\ duplicate_cache_time \in Nat /\ Local \subseteq Messages
    BY DEF CacheAssumption, Messages
  <1>t. m \in Messages /\ t \in Topics /\ id \in Ids
    BY <1>c DEF CacheAssumption, Ids
  <1>u. /\ UNCHANGED <<dont_send_, count_received_ihave_, count_sent_iwant_, due,
                       sinceReceived, served, asked>>
        /\ m \notin published /\ published' = published \cup {m}
        /\ topics_' = [topics_ EXCEPT ![t] = IF @ = "absent" THEN "publish_only" ELSE @]
        /\ sincePublish' = [sincePublish EXCEPT ![t] = 0]
    BY Zenon DEF publish
  <1>g. GhostTypes'
    <2>1. sincePublish' \in [Topics -> 0..fanout_ttl]
      <3>1. 0 \in 0..fanout_ttl
        BY <1>c
      <3> HIDE DEF t
      <3> QED BY <1>i, <1>u, <3>1, Zenon DEF GhostTypes
    <2> HIDE DEF t
    <2> QED BY <1>i, <1>u, <2>1 DEF GhostTypes
  <1>o. topics_' \in [Topics -> {"absent", "publish_only", "subscribed"}]
    BY <1>i, <1>u, ZenonT(30) DEF TypeOK
  <1>a. AskedCounted' /\ RetransmissionBounded'
    BY <1>i, <1>u DEF CountInv, AskedCounted, RetransmissionBounded
  <1>1. CASE id \in DOMAIN duplicate_cache_
    <2>u. UNCHANGED <<message_cache_, history_, gossip_promises_, last_publish_, duplicate_cache_>>
      BY <1>1 DEF publish
    <2>s. ~Signed
      BY <1>i, <1>1, <1>u DEF PublishCounted, message_id_fn
    <2>1. TypeOK'
      <3> HIDE DEF t, id
      <3> QED BY <1>i, <1>o, <1>u, <2>u, Zenon DEF TypeOK, History
    <2>2. HistoryInv'
      BY SMTT(30), <1>i, <1>u, <2>u, HistoryKept
    <2>p. PromiseOutstanding' /\ ServedCounted'
      BY SMTT(30), <1>i, <1>u, <2>u DEF PromiseOutstanding, CountInv, ServedCounted
    <2>3. ReceivedKnown' /\ PublishCounted'
      BY <1>i, <1>u, <2>u, <2>s DEF ReceivedKnown, PublishCounted
    <2> QED BY SMTT(30), <1>g, <1>a, <2>1, <2>2, <2>p, <2>3 DEF IInv, CountInv
  <1>2. CASE id \notin DOMAIN duplicate_cache_
    <2>b. duplicate_cache_' = insert(id) /\ broadcast(m, TRUE, NoPeer, more)
      BY <1>2, Zenon DEF publish
    <2>n. id \notin DOMAIN clearExpired(duplicate_cache_)
      BY <1>2, ClearValue, Zenon
    <2>l. last_publish_' = IF flood_publish THEN last_publish_
                           ELSE [last_publish_ EXCEPT ![t] = fanout_ttl]
      BY <2>b DEF broadcast
    <2>1. CacheTypes' /\ HistoryInv' /\ PromiseOutstanding' /\ ServedCounted'
      BY <1>i, <1>t, <1>u, <2>b, <2>n, BroadcastInv, Zenon DEF CountInv
    <2>2. TypeOK'
      <3>1. last_publish_' \in [Topics -> 0..fanout_ttl]
        <4>1. fanout_ttl \in 0..fanout_ttl
          BY <1>c
        <4> HIDE DEF t
        <4> QED BY <1>i, <2>l, <4>1, Zenon DEF TypeOK
      <3> HIDE DEF t, id
      <3> QED BY <1>i, <1>o, <1>u, <2>1, <3>1, Zenon DEF TypeOK, CacheTypes
    <2>3. ReceivedKnown'
      <3> HIDE DEF id
      <3> QED BY <1>i, <1>t, <1>u, <2>b, InsertKnown, Zenon DEF ReceivedKnown
    <2>4. PublishCounted'
      <3> SUFFICES ASSUME Signed
                   PROVE  /\ \A l \in Local \ published' : l \notin DOMAIN duplicate_cache_'
                          /\ ~flood_publish => \A u \in Topics :
                                topics_'[u] = "publish_only"
                                   => last_publish_'[u] + sincePublish'[u] >= fanout_ttl
        BY DEF PublishCounted
      <3>1. id = m
        BY SMTT(20) DEF message_id_fn
      <3>2. DOMAIN duplicate_cache_' \subseteq DOMAIN duplicate_cache_ \cup {m}
        <4> HIDE DEF id
        <4> QED BY <2>b, <3>1, InsertValue, ClearValue, Zenon
      <3>3. \A l \in Local \ published' : l \notin DOMAIN duplicate_cache_'
        BY <1>i, <1>u, <3>2, Zenon DEF PublishCounted
      <3>4. ASSUME ~flood_publish, NEW u \in Topics, topics_'[u] = "publish_only"
            PROVE  last_publish_'[u] + sincePublish'[u] >= fanout_ttl
        <4>1. CASE u = t
          <5> HIDE DEF t
          <5>1. last_publish_'[u] = fanout_ttl /\ sincePublish'[u] = 0
            BY SMTT(30), <1>i, <1>u, <2>l, <3>4, <4>1 DEF TypeOK, GhostTypes
          <5> QED BY <1>c, <5>1, SMTT(30)
        <4>2. CASE u # t
          <5> HIDE DEF t
          <5>1. /\ topics_'[u] = topics_[u] /\ last_publish_'[u] = last_publish_[u]
                /\ sincePublish'[u] = sincePublish[u]
            BY <1>i, <1>u, <2>l, <4>2 DEF TypeOK, GhostTypes
          <5> QED BY <1>i, <3>4, <5>1, SMTT(30) DEF PublishCounted
        <4> QED BY <4>1, <4>2
      <3> QED BY <3>3, <3>4
    <2> QED BY <1>g, <1>a, <2>1, <2>2, <2>3, <2>4, SMTT(20) DEF IInv, CountInv
  <1> QED BY <1>1, <1>2

(* The three outcomes of a PUBLISH.                                          *)
LEMMA OnPublishCases ==
    ASSUME NEW p, NEW m \in Remote, onPublish(p, m)
    PROVE  \/ /\ received' = NoMessage
              /\ UNCHANGED <<message_cache_, history_, gossip_promises_, last_publish_>>
              /\ \/ UNCHANGED duplicate_cache_
                 \/ duplicate_cache_' = clearExpired(duplicate_cache_)
           \/ /\ received' = m
              /\ message_id_fn(m) \notin DOMAIN clearExpired(duplicate_cache_)
              /\ duplicate_cache_' = insert(message_id_fn(m))
              /\ broadcast(m, FALSE, p, {})
  BY Zenon DEF onPublish

(* A PUBLISH that is not dropped is new, and is in the duplicate cache for   *)
(* all of the time since the application got it.                             *)
LEMMA OnPublishInv ==
    ASSUME CacheAssumption, IInv, NEW p \in Peers, NEW m \in Remote, onPublish(p, m)
    PROVE  IInv'
  <1> DEFINE id == message_id_fn(m)
  <1>i. /\ TypeOK /\ GhostTypes /\ HistoryInv /\ PromiseOutstanding /\ CountInv
        /\ ReceivedKnown /\ PublishCounted
    BY DEF IInv
  <1>c. /\ duplicate_cache_time \in Nat /\ NoMessage \notin Messages
        /\ Local \cap Remote = {}
    BY DEF CacheAssumption
  <1>t. m \in Messages /\ id \in Ids
    BY DEF Messages, Ids
  <1>u. /\ UNCHANGED <<topics_, dont_send_, count_received_ihave_, count_sent_iwant_, due,
                       published, sincePublish, served, asked>>
        /\ sinceReceived' = [sinceReceived EXCEPT ![m] = IF received' = m THEN 0 ELSE @]
    BY DEF onPublish
  <1>g. GhostTypes'
    <2>1. (IF received' = m THEN 0 ELSE sinceReceived[m]) \in 0..duplicate_cache_time
      BY <1>i, <1>c, <1>t DEF GhostTypes
    <2>2. sinceReceived' \in [Messages -> 0..duplicate_cache_time]
      BY <1>i, <1>u, <2>1, ZenonT(30) DEF GhostTypes
    <2> QED BY <1>i, <1>u, <2>2 DEF GhostTypes
  <1>a. AskedCounted' /\ RetransmissionBounded'
    BY <1>i, <1>u, SMTT(20) DEF CountInv, AskedCounted, RetransmissionBounded
  <1>1. CASE /\ received' = NoMessage
             /\ UNCHANGED <<message_cache_, history_, gossip_promises_, last_publish_>>
             /\ \/ UNCHANGED duplicate_cache_
                \/ duplicate_cache_' = clearExpired(duplicate_cache_)
    <2>d. /\ DOMAIN duplicate_cache_' \subseteq DOMAIN duplicate_cache_
          /\ DOMAIN clearExpired(duplicate_cache_) \subseteq DOMAIN duplicate_cache_'
          /\ \A k \in DOMAIN duplicate_cache_' : duplicate_cache_'[k] = duplicate_cache_[k]
      BY <1>1, ClearValue, Zenon
    <2>s. sinceReceived' = sinceReceived
      BY <1>i, <1>c, <1>t, <1>u, <1>1 DEF GhostTypes
    <2>1. TypeOK'
      BY <1>i, <1>u, <1>1, <2>d, Zenon DEF TypeOK, History
    <2>2. HistoryInv'
      <3>1. HistoryKnown'
        <4> SUFFICES ASSUME NEW t \in Topics, NEW i \in 1..history_length,
                            NEW k \in history_[t][i]
                     PROVE  /\ k \in DOMAIN duplicate_cache_'
                            /\ duplicate_cache_'[k] + i - 1 + late >= duplicate_cache_time
          BY <1>1, <1>u, Zenon DEF HistoryKnown, late
        <4>1. k \in DOMAIN clearExpired(duplicate_cache_)
          BY <1>i, HistoryLive DEF HistoryInv
        <4>2. duplicate_cache_[k] + i - 1 + late >= duplicate_cache_time
          BY <1>i, SMTT(20) DEF HistoryInv, HistoryKnown
        <4> QED BY <2>d, <4>1, <4>2, Zenon
      <3>2. HistoryOnce'
        BY <1>i, <1>1 DEF HistoryInv, HistoryOnce
      <3>3. HistoryServable'
        BY SMTT(30), <1>i, <1>1 DEF HistoryInv, HistoryServable, get
      <3> QED BY <3>1, <3>2, <3>3 DEF HistoryInv
    <2>3. PromiseOutstanding' /\ ServedCounted'
      BY <1>i, <1>u, <1>1, <2>d DEF PromiseOutstanding, CountInv, ServedCounted
    <2>4. ReceivedKnown'
      <3>1. CASE UNCHANGED duplicate_cache_
        BY <1>i, <2>s, <3>1, SMTT(30) DEF ReceivedKnown
      <3>2. CASE duplicate_cache_' = clearExpired(duplicate_cache_)
        <4> HIDE DEF id
        <4> QED BY <1>i, <1>t, <2>s, <3>2, InsertKnown DEF ReceivedKnown
      <3> QED BY <1>1, <3>1, <3>2
    <2>5. PublishCounted'
      BY <1>i, <1>u, <1>1, <2>d, Zenon DEF PublishCounted
    <2> QED BY <1>g, <1>a, <2>1, <2>2, <2>3, <2>4, <2>5 DEF IInv, CountInv
  <1>2. CASE /\ received' = m /\ id \notin DOMAIN clearExpired(duplicate_cache_)
             /\ duplicate_cache_' = insert(id) /\ broadcast(m, FALSE, p, {})
    <2>l. last_publish_' = last_publish_
      BY <1>2 DEF broadcast
    <2>1. CacheTypes' /\ HistoryInv' /\ PromiseOutstanding' /\ ServedCounted'
      BY <1>i, <1>t, <1>u, <1>2, BroadcastInv, Zenon DEF CountInv
    <2>2. TypeOK'
      BY <1>i, <1>u, <2>1, <2>l, Zenon DEF TypeOK, CacheTypes
    <2>3. ReceivedKnown'
      <3> SUFFICES ASSUME NEW n \in Messages, sinceReceived'[n] < duplicate_cache_time
                   PROVE  /\ message_id_fn(n) \in DOMAIN duplicate_cache_'
                          /\ duplicate_cache_'[message_id_fn(n)] + sinceReceived'[n]
                                >= duplicate_cache_time
        BY DEF ReceivedKnown
      <3>1. CASE n = m
        <4>1. sinceReceived'[n] = 0
          BY <1>i, <1>t, <1>u, <1>2, <3>1 DEF GhostTypes
        <4>2. id \in DOMAIN duplicate_cache_' /\ duplicate_cache_'[id] = duplicate_cache_time
          <5> HIDE DEF id
          <5> QED BY <1>2, InsertValue, ZenonT(30)
        <4> QED BY <1>c, <3>1, <4>1, <4>2, SMTT(30)
      <3>2. CASE n # m
        <4>1. sinceReceived'[n] = sinceReceived[n]
          BY <1>i, <1>u, <3>2, SMTT(30) DEF GhostTypes
        <4> HIDE DEF id
        <4> QED BY <1>i, <1>t, <1>2, <4>1, InsertKnown
      <3> QED BY <3>1, <3>2
    <2>4. PublishCounted'
      <3>1. Signed => DOMAIN duplicate_cache_' \subseteq DOMAIN duplicate_cache_ \cup {m}
        <4>1. DOMAIN duplicate_cache_' \subseteq DOMAIN duplicate_cache_ \cup {id}
          <5> HIDE DEF id
          <5> QED BY <1>2, InsertValue, ClearValue, Zenon
        <4> QED BY <4>1, SMTT(20) DEF message_id_fn
      <3> QED BY Zenon, <1>i, <1>c, <1>u, <2>l, <3>1 DEF PublishCounted
    <2> QED BY <1>g, <1>a, <2>1, <2>2, <2>3, <2>4 DEF IInv, CountInv
  <1> QED BY <1>1, <1>2, OnPublishCases, Zenon

-----------------------------------------------------------------------------
(* What heartbeat keeps of the histories: every id of a topic it retains     *)
(* moves one slot up, and what it removes from the message cache was in the  *)
(* last slot, so in no slot any more.                                        *)
LEMMA ShiftedHistory ==
    ASSUME CacheAssumption, TypeOK, heartbeat, NEW t \in Topics, NEW i \in 1..history_length,
           NEW id \in history_'[t][i]
    PROVE  t \in retained /\ i - 1 \in 1..history_length - 1 /\ id \in history_[t][i - 1]
  <1>1. history_'[t] = IF t \in retained THEN shift(history_[t]) ELSE emptyHistory
    BY SMTT(30) DEF heartbeat
  <1>2. t \in retained
    BY <1>1 DEF emptyHistory
  <1>3. history_'[t][i] = IF i = 1 THEN {} ELSE history_[t][i - 1]
    BY <1>1, <1>2 DEF shift
  <1>4. i # 1
    BY <1>3
  <1>5. history_length \in Nat
    BY DEF CacheAssumption
  <1>6. i - 1 \in 1..history_length - 1
    BY <1>4, <1>5
  <1> QED BY <1>2, <1>3, <1>4, <1>6

(* An id that is not in the last slot survives the heartbeat in the message  *)
(* cache.                                                                    *)
LEMMA SurvivesHeartbeat ==
    ASSUME CacheAssumption, TypeOK, HistoryInv, heartbeat,
           NEW t \in Topics, NEW i \in 1..history_length - 1, NEW id \in history_[t][i]
    PROVE  id \in DOMAIN message_cache_'
  <1> DEFINE gone == UNION {expired(history_[u]) : u \in retained}
  <1>c. history_length \in Nat /\ i \in 1..history_length /\ history_length \in 1..history_length
        /\ i # history_length
    BY DEF CacheAssumption
  <1>1. id \in DOMAIN message_cache_
    BY <1>c DEF HistoryInv, HistoryServable, get
  <1>2. id \notin gone
    <2> SUFFICES ASSUME NEW u \in Topics, id \in history_[u][history_length] PROVE FALSE
      BY DEF expired, retained, live
    <2> QED BY <1>c DEF HistoryInv, HistoryOnce
  <1>3. DOMAIN message_cache_' = DOMAIN message_cache_ \ gone
    <2>1. message_cache_' = Drop(message_cache_, gone)
      BY DEF heartbeat
    <2> HIDE DEF gone
    <2> QED BY <2>1, DropValue, Zenon
  <1> QED BY <1>1, <1>2, <1>3, SMTT(20)

(* The heartbeat turns every history and clears what the counts speak of.    *)
LEMMA HeartbeatInv ==
    ASSUME CacheAssumption, IInv, heartbeat
    PROVE  IInv'
  <1> DEFINE gone == UNION {expired(history_[t]) : t \in retained}
  <1>i. /\ TypeOK /\ GhostTypes /\ HistoryInv /\ PromiseOutstanding /\ CountInv
        /\ ReceivedKnown /\ PublishCounted
    BY DEF IInv
  <1>c. /\ history_length \in Nat /\ duplicate_cache_time \in Nat /\ fanout_ttl \in Nat
        /\ max_ihave_length \in Nat /\ max_ihave_messages \in Nat
        /\ gossip_retransimission \in Nat
    BY DEF CacheAssumption
  <1>u. /\ UNCHANGED <<duplicate_cache_, published, sinceReceived, sincePublish>>
        /\ due /\ due' = FALSE
        /\ topics_' = [t \in Topics |-> IF t \in retained THEN topics_[t] ELSE "absent"]
        /\ last_publish_' = [t \in Topics |-> IF t \in retained THEN last_publish_[t] ELSE 0]
        /\ count_received_ihave_' = [p \in Peers |-> 0]
        /\ count_sent_iwant_' = [p \in Peers |-> 0]
        /\ asked' = [p \in Peers |-> {}]
    BY DEF heartbeat
  <1>p. /\ DOMAIN gossip_promises_' \subseteq DOMAIN gossip_promises_
        /\ \A x \in DOMAIN gossip_promises_' : gossip_promises_'[x] = gossip_promises_[x]
    <2>1. gossip_promises_' = Drop(gossip_promises_, broken)
      BY DEF heartbeat
    <2>2. /\ DOMAIN Drop(gossip_promises_, broken) = DOMAIN gossip_promises_ \ broken
          /\ \A x \in DOMAIN gossip_promises_ \ broken :
                Drop(gossip_promises_, broken)[x] = gossip_promises_[x]
      BY DropValue, Zenon
    <2> QED BY <2>1, <2>2
  <1>m. /\ DOMAIN message_cache_' = DOMAIN message_cache_ \ gone
        /\ \A k \in DOMAIN message_cache_' : message_cache_'[k] = message_cache_[k]
        /\ served' = [x \in Peers \X Ids |-> IF x[2] \in gone THEN 0 ELSE served[x]]
    <2>1. /\ message_cache_' = Drop(message_cache_, gone)
          /\ served' = [x \in Peers \X Ids |-> IF x[2] \in gone THEN 0 ELSE served[x]]
      BY DEF heartbeat
    <2> HIDE DEF gone
    <2>2. /\ DOMAIN Drop(message_cache_, gone) = DOMAIN message_cache_ \ gone
          /\ \A k \in DOMAIN message_cache_ \ gone :
                Drop(message_cache_, gone)[k] = message_cache_[k]
      BY DropValue, Zenon
    <2> QED BY <2>1, <2>2
  <1> HIDE DEF gone
  <1>1. TypeOK'
    <2>1. MarksOK'
      <3> SUFFICES ASSUME NEW p \in Peers
                   PROVE  /\ DOMAIN dont_send_'[p] \subseteq Ids
                          /\ Cardinality(DOMAIN dont_send_'[p]) <= kCapacity
                          /\ \A id \in DOMAIN dont_send_'[p] : dont_send_'[p][id] \in 0..kTtl
        BY SMTT(20) DEF MarksOK
      <3>1. /\ DOMAIN dont_send_[p] \subseteq Ids /\ Cardinality(DOMAIN dont_send_[p]) <= kCapacity
            /\ \A id \in DOMAIN dont_send_[p] : dont_send_[p][id] \in 0..kTtl
        BY <1>i DEF TypeOK
      <3>2. dont_send_'[p] = clearExpired(dont_send_[p])
        BY SMTT(20) DEF heartbeat
      <3>3. /\ DOMAIN dont_send_'[p] \subseteq DOMAIN dont_send_[p]
            /\ \A id \in DOMAIN dont_send_'[p] : dont_send_'[p][id] = dont_send_[p][id]
        BY <3>2, ClearValue, Zenon
      <3>4. IsFiniteSet(DOMAIN dont_send_[p])
        BY SMTT(30), <3>1, IdsFinite, FS_Subset
      <3>5. /\ Cardinality(DOMAIN dont_send_'[p]) <= Cardinality(DOMAIN dont_send_[p])
            /\ IsFiniteSet(DOMAIN dont_send_'[p])
        BY SMTT(30), <3>3, <3>4, FS_Subset
      <3>6. /\ Cardinality(DOMAIN dont_send_'[p]) \in Nat
            /\ Cardinality(DOMAIN dont_send_[p]) \in Nat /\ kCapacity \in Nat
        BY <3>4, <3>5, FS_CardinalityType DEF CacheAssumption
      <3> QED BY <3>1, <3>3, <3>5, <3>6
    <2>2. history_' \in [Topics -> History]
      <3>1. \A t \in Topics : shift(history_[t]) \in History /\ emptyHistory \in History
        <4>1. ASSUME NEW t \in Topics PROVE shift(history_[t]) \in History
          <5>1. history_[t] \in [1..history_length -> SUBSET Ids]
            BY <1>i DEF TypeOK, History
          <5>2. \A i \in 1..history_length : i # 1 => i - 1 \in 1..history_length
            BY <1>c
          <5>3. \A i \in 1..history_length : (IF i = 1 THEN {} ELSE history_[t][i - 1]) \in SUBSET Ids
            BY <5>1, <5>2, ZenonT(30)
          <5> QED BY <5>3, SMTT(30) DEF History, shift
        <4> QED BY <4>1 DEF History, emptyHistory
      <3> QED BY <3>1 DEF heartbeat
    <2>3. topics_' \in [Topics -> {"absent", "publish_only", "subscribed"}]
      BY SMTT(30), <1>i, <1>u DEF TypeOK
    <2>l. last_publish_' \in [Topics -> 0..fanout_ttl]
      <3>1. 0 \in 0..fanout_ttl BY <1>c
      <3> QED BY <1>i, <1>u, <3>1 DEF TypeOK
    <2>n. /\ count_received_ihave_' \in [Peers -> 0..max_ihave_messages + 1]
          /\ count_sent_iwant_' \in [Peers -> 0..max_ihave_length]
      <3>1. 0 \in 0..max_ihave_messages + 1 /\ 0 \in 0..max_ihave_length BY <1>c
      <3> QED BY <1>u, <3>1
    <2>4. /\ DOMAIN message_cache_' \subseteq Ids
          /\ \A id \in DOMAIN message_cache_' :
                message_cache_'[id] \in [Peers -> 0..gossip_retransimission + 1]
      BY <1>i, <1>m, Zenon DEF TypeOK
    <2>5. /\ DOMAIN gossip_promises_' \subseteq Ids \X Peers
          /\ \A x \in DOMAIN gossip_promises_' : gossip_promises_'[x] \in -1..iwant_followup_time
      BY <1>i, <1>p, Zenon DEF TypeOK
    <2> QED BY <1>i, <1>u, <2>1, <2>2, <2>3, <2>l, <2>n, <2>4, <2>5, ZenonT(30) DEF TypeOK, MarksOK, History
  <1>2. GhostTypes'
    <2>1. served' \in [Peers \X Ids -> Nat]
      BY <1>i, <1>m DEF GhostTypes
    <2>2. DOMAIN dont_send_' = Peers
      BY Zenon DEF heartbeat
    <2> QED BY <1>i, <1>u, <2>1, <2>2, Zenon DEF GhostTypes
  <1>3. HistoryKnown'
    <2> SUFFICES ASSUME NEW t \in Topics, NEW i \in 1..history_length, NEW id \in history_'[t][i]
                 PROVE  /\ id \in DOMAIN duplicate_cache_
                        /\ duplicate_cache_[id] + i - 1 + 0 >= duplicate_cache_time
      BY <1>u DEF HistoryKnown, late
    <2>1. i - 1 \in 1..history_length /\ id \in history_[t][i - 1]
      BY <1>i, <1>c, ShiftedHistory, SMTT(30)
    <2>2. /\ id \in DOMAIN duplicate_cache_
          /\ duplicate_cache_[id] + (i - 1) - 1 + 1 >= duplicate_cache_time
      BY <1>i, <1>u, <2>1, SMTT(20) DEF HistoryInv, HistoryKnown, late
    <2>3. duplicate_cache_[id] \in Int
      BY <1>i, <2>2 DEF TypeOK
    <2> QED BY <1>c, <2>2, <2>3, SMTT(30)
  <1>4. HistoryOnce'
    <2> SUFFICES ASSUME NEW t \in Topics, NEW u \in Topics, NEW i \in 1..history_length,
                        NEW j \in 1..history_length,
                        NEW id \in history_'[t][i] \cap history_'[u][j]
                 PROVE  t = u /\ i = j
      BY DEF HistoryOnce
    <2>1. /\ i - 1 \in 1..history_length /\ id \in history_[t][i - 1]
          /\ j - 1 \in 1..history_length /\ id \in history_[u][j - 1]
      BY SMTT(30), <1>i, <1>c, ShiftedHistory
    <2>2. t = u /\ i - 1 = j - 1
      BY SMTT(30), <1>i, <2>1 DEF HistoryInv, HistoryOnce
    <2> QED BY <2>2
  <1>5. HistoryServable'
    <2>1. \A t \in Topics : \A i \in 1..history_length :
              history_'[t][i] \subseteq DOMAIN message_cache_'
      BY <1>i, ShiftedHistory, SurvivesHeartbeat, SMTT(30)
    <2> QED BY <2>1, SMTT(30) DEF HistoryServable, get
  <1>6. PromiseOutstanding'
    BY <1>i, <1>p, <1>u DEF PromiseOutstanding
  <1>7. CountInv'
    <2>1. AskedCounted'
      BY <1>u, FS_EmptySet, SMTT(30) DEF AskedCounted
    <2>2. ServedCounted' /\ RetransmissionBounded'
      <3> SUFFICES ASSUME NEW p \in Peers, NEW id \in Ids
                   PROVE  /\ id \notin DOMAIN message_cache_' => served'[<<p, id>>] = 0
                          /\ id \in DOMAIN message_cache_'
                                => served'[<<p, id>>] <= message_cache_'[id][p]
                          /\ served'[<<p, id>>] <= gossip_retransimission
        BY DEF ServedCounted, RetransmissionBounded
      <3>1. /\ id \notin DOMAIN message_cache_ => served[<<p, id>>] = 0
            /\ id \in DOMAIN message_cache_ => served[<<p, id>>] <= message_cache_[id][p]
            /\ served[<<p, id>>] <= gossip_retransimission
        BY <1>i DEF CountInv, ServedCounted, RetransmissionBounded
      <3>2. served'[<<p, id>>] = IF id \in gone THEN 0 ELSE served[<<p, id>>]
        BY <1>m, SMTT(20)
      <3> QED BY <1>c, <1>m, <3>1, <3>2
    <2> QED BY <2>1, <2>2, SMTT(30) DEF CountInv
  <1>8. ReceivedKnown'
    BY <1>i, <1>u, SMTT(20) DEF ReceivedKnown
  <1>9. PublishCounted'
    BY <1>i, <1>u DEF PublishCounted
  <1> QED BY <1>1, <1>2, <1>3, <1>4, <1>5, <1>6, <1>7, <1>8, <1>9 DEF IInv, HistoryInv

-----------------------------------------------------------------------------
(* Every step keeps the invariant.                                           *)
LEMMA NextInv ==
    ASSUME CacheAssumption
    PROVE  IInv /\ [Next]_vars => IInv'
  <1> SUFFICES ASSUME IInv, [Next]_vars PROVE IInv'
    OBVIOUS
  <1>1. ASSUME NEW t \in Topics, subscribe(t) PROVE IInv'
    BY <1>1, SubscribeInv
  <1>2. ASSUME NEW m \in Local, NEW more \in SUBSET Peers, publish(m, more) PROVE IInv'
    BY <1>2, PublishInv
  <1>3. ASSUME NEW p \in Peers, NEW m \in Remote, onPublish(p, m) PROVE IInv'
    BY <1>3, OnPublishInv
  <1>4. ASSUME NEW p \in Peers, NEW t \in Topics, NEW ids \in SUBSET Ids,
               handle_ihave(p, t, ids)
        PROVE  IInv'
    BY <1>4, IHaveInv
  <1>5. ASSUME NEW p \in Peers, NEW id \in Ids, onIWant(p, id) PROVE IInv'
    BY <1>5, IWantInv
  <1>6. ASSUME NEW p \in Peers, NEW id \in Ids, onIDontWant(p, id) PROVE IInv'
    BY <1>6, IDontWantInv
  <1>7. ASSUME NEW p \in Peers, Reconnect(p) PROVE IInv'
    BY <1>7, ReconnectInv
  <1>8. CASE heartbeat
    BY <1>8, HeartbeatInv
  <1>9. CASE Tick
    BY <1>9, TickInv
  <1>10. CASE UNCHANGED vars
    <2>1. TypeOK' /\ GhostTypes'
      BY <1>10, Zenon DEF vars, IInv, TypeOK, GhostTypes, History
    <2>2. HistoryInv'
      BY SMTT(30), <1>10, HistoryKept DEF vars, IInv
    <2>p. PromiseOutstanding'
      BY <1>10 DEF vars, IInv, PromiseOutstanding
    <2>3. CountInv' /\ ReceivedKnown' /\ PublishCounted'
      BY <1>10, Zenon DEF vars, IInv, CountInv, ServedCounted, RetransmissionBounded,
                   AskedCounted, ReceivedKnown, PublishCounted
    <2> QED BY <2>1, <2>2, <2>p, <2>3 DEF IInv
  <1> QED
    BY <1>1, <1>2, <1>3, <1>4, <1>5, <1>6, <1>7, <1>8, <1>9, <1>10 DEF Next

(* The count of what was asked stays below max_ihave_length because the      *)
(* counter does.                                                             *)
LEMMA InvSound ==
    ASSUME CacheAssumption, IInv
    PROVE  CacheSound
  <1>1. ASSUME NEW p \in Peers PROVE Cardinality(asked[p]) <= max_ihave_length
    <2>1. Cardinality(asked[p]) <= count_sent_iwant_[p]
      BY DEF IInv, CountInv, AskedCounted
    <2>2. count_sent_iwant_[p] \in 0..max_ihave_length
      BY DEF IInv, TypeOK
    <2>3. Cardinality(asked[p]) \in Nat
      <3>1. IsFiniteSet(asked[p])
        BY IdsFinite, FS_Subset DEF IInv, GhostTypes
      <3> QED BY <3>1, FS_CardinalityType, Zenon
    <2>4. max_ihave_length \in Nat
      BY DEF CacheAssumption
    <2> QED BY <2>1, <2>2, <2>3, <2>4, SMTT(30)
  <1> QED BY SMTT(30), <1>1 DEF IInv, CacheSound, HistoryInv, CountInv, IWantBounded

(* The caches of Gossip are sound in every behaviour: what a history can     *)
(* announce is in the message cache, a message is asked of one peer at a     *)
(* time and not once it was received, and the limits on answers to IWANT and *)
(* on what is asked of a Peer hold, over any order of publishes, RPCs,       *)
(* reconnects and heartbeats, for signed and for anonymous messages.         *)
THEOREM AlwaysSound ==
    ASSUME CacheAssumption
    PROVE  Spec => []CacheSound
  <1>1. Init => IInv BY InitInv
  <1>2. IInv /\ [Next]_vars => IInv' BY NextInv
  <1>3. IInv => CacheSound BY InvSound
  <1> QED BY <1>1, <1>2, <1>3, PTL DEF Spec

-----------------------------------------------------------------------------
(* Only heartbeat announces, from slots whose ids survive it.                *)
LEMMA AnnouncesStep ==
    ASSUME CacheAssumption, IInv, Next
    PROVE  AnnouncesServable
  <1>i. TypeOK /\ HistoryInv
    BY DEF IInv
  <1>1. CASE \A p \in Peers : batch'[p].ihave = {}
    BY <1>1 DEF AnnouncesServable
  <1>2. CASE heartbeat
    <2>1. PICK ihave \in [Peers -> SUBSET Ids] :
              /\ emit_gossip(ihave)
              /\ batch' = [p \in Peers |-> [emptyRpc EXCEPT !.ihave = ihave[p]]]
      BY <1>2 DEF heartbeat
    <2> SUFFICES ASSUME NEW p \in Peers, NEW id \in ihave[p]
                 PROVE  id \in DOMAIN message_cache_'
      BY <2>1 DEF AnnouncesServable, emptyRpc
    <2>2. PICK t \in retained : id \in get(history_[t], history_gossip)
      BY <2>1 DEF emit_gossip
    <2>3. PICK i \in 1..history_gossip : id \in history_[t][i]
      BY <2>2 DEF get
    <2>4. t \in Topics
      BY <2>2 DEF retained, live
    <2>5. history_length \in Nat /\ history_gossip \in 1..history_length - 1
      BY DEF CacheAssumption
    <2>6. i \in 1..history_length - 1
      BY SMTT(30), <2>3, <2>5
    <2> QED BY <1>i, <1>2, <2>3, <2>4, <2>6, SurvivesHeartbeat
  <1>e. emptyBatch \in [Peers -> [publish : {{}}, ihave : {{}}, iwant : {{}}, idontwant : {{}}]]
    BY DEF emptyBatch, emptyRpc
  <1>3. CASE batch' = emptyBatch
    BY <1>1, <1>3 DEF emptyBatch, emptyRpc
  <1>4. ASSUME NEW p \in Peers, NEW ask, batch' = [emptyBatch EXCEPT ![p].iwant = ask]
        PROVE  AnnouncesServable
    BY <1>1, <1>4 DEF emptyBatch, emptyRpc
  <1>5. ASSUME NEW p \in Peers, NEW ids, batch' = [emptyBatch EXCEPT ![p].publish = ids]
        PROVE  AnnouncesServable
    BY <1>1, <1>5 DEF emptyBatch, emptyRpc
  <1>6. ASSUME NEW m, NEW own, NEW from, NEW more, broadcast(m, own, from, more)
        PROVE  AnnouncesServable
    BY <1>1, <1>6 DEF broadcast, emptyRpc
  <1>7. ASSUME NEW p \in Peers, NEW m \in Remote, onPublish(p, m) PROVE AnnouncesServable
    BY <1>3, <1>6, <1>7, Zenon DEF onPublish
  <1>8. ASSUME NEW m \in Local, NEW more, publish(m, more) PROVE AnnouncesServable
    BY <1>3, <1>6, <1>8, Zenon DEF publish
  <1>9. ASSUME NEW p \in Peers, NEW t \in Topics, NEW ids \in SUBSET Ids, handle_ihave(p, t, ids)
        PROVE  AnnouncesServable
    BY Zenon, <1>4, <1>9 DEF handle_ihave
  <1>10. ASSUME NEW p \in Peers, NEW id \in Ids, onIWant(p, id) PROVE AnnouncesServable
    BY Zenon, <1>5, <1>10 DEF onIWant
  <1> QED BY <1>2, <1>3, <1>7, <1>8, <1>9, <1>10
          DEF Next, subscribe, onIDontWant, Reconnect, Tick, Quiet

(* Only heartbeat drops a topic, and last_publish_ has then run down from    *)
(* fanout_ttl since the last publish.                                        *)
LEMMA KeepsFanoutStep ==
    ASSUME CacheAssumption, IInv, Next
    PROVE  KeepsFanout
  <1> SUFFICES ASSUME Signed, ~flood_publish, NEW t \in Topics,
                      topics_[t] # "absent", topics_'[t] = "absent"
               PROVE  sincePublish[t] >= fanout_ttl
    BY DEF KeepsFanout
  <1>i. TypeOK /\ GhostTypes /\ PublishCounted
    BY Zenon DEF IInv
  <1>1. CASE heartbeat
    <2>1. t \notin retained
      BY <1>1 DEF heartbeat
    <2>2. topics_[t] = "publish_only" /\ ~(last_publish_[t] > 0)
      BY <1>i, <2>1 DEF retained, live, TypeOK
    <2>3. last_publish_[t] + sincePublish[t] >= fanout_ttl
      BY <1>i, <2>2, SMTT(30) DEF PublishCounted
    <2>4. fanout_ttl \in Nat /\ last_publish_[t] \in Nat /\ sincePublish[t] \in Nat
      BY <1>i, TimesAreNumbers
    <2> QED BY <2>2, <2>3, <2>4
  <1>2. CASE topics_' = topics_
    BY SMTT(30), <1>2
  <1>3. ASSUME NEW u \in Topics, subscribe(u) PROVE FALSE
    BY Zenon, <1>i, <1>3 DEF subscribe, TypeOK
  <1>4. ASSUME NEW m \in Local, NEW more, publish(m, more) PROVE FALSE
    BY <1>i, <1>4, Zenon DEF publish, TypeOK
  <1> QED BY <1>1, <1>2, <1>3, <1>4, ZenonT(30)
          DEF Next, onPublish, handle_ihave, onIWant, onIDontWant, Reconnect, Tick

(* A message the application gets was not in the duplicate cache.            *)
LEMMA DeliversStep ==
    ASSUME CacheAssumption, IInv, Next
    PROVE  DeliversNew
  <1>i. TypeOK /\ GhostTypes /\ ReceivedKnown
    BY DEF IInv
  <1>1. CASE received' = NoMessage
    BY <1>1 DEF DeliversNew, CacheAssumption
  <1>2. ASSUME NEW p \in Peers, NEW m \in Remote, onPublish(p, m) PROVE DeliversNew
    <2> SUFFICES ASSUME received' = m,
                        message_id_fn(m) \notin DOMAIN clearExpired(duplicate_cache_)
                 PROVE  sinceReceived[m] >= duplicate_cache_time
      BY <1>1, <1>2, OnPublishCases, Zenon DEF DeliversNew
    <2>1. m \in Messages /\ message_id_fn(m) \in Ids
      BY DEF Messages, Ids
    <2>n. duplicate_cache_time \in Nat /\ sinceReceived[m] \in Nat
      BY <1>i, <2>1, TimesAreNumbers
    <2>2. SUFFICES ASSUME sinceReceived[m] < duplicate_cache_time PROVE FALSE
      BY <2>n
    <2>3. /\ message_id_fn(m) \in DOMAIN duplicate_cache_
          /\ duplicate_cache_[message_id_fn(m)] + sinceReceived[m] >= duplicate_cache_time
      BY <1>i, <2>1, <2>2 DEF ReceivedKnown
    <2>4. ~(duplicate_cache_[message_id_fn(m)] <= 0)
      <3>1. duplicate_cache_[message_id_fn(m)] \in Nat
        BY <1>i, <2>3, TimesAreNumbers
      <3> QED BY SMTT(30), <2>n, <2>2, <2>3, <3>1
    <2> QED BY <2>3, <2>4, ClearValue, Zenon
  <1> QED BY <1>1, <1>2, ZenonT(30)
          DEF Next, subscribe, publish, handle_ihave, onIWant, onIDontWant, Reconnect,
              heartbeat,
              Tick, Quiet

(* A heartbeat forgets nothing too early: no step announces what an IWANT    *)
(* would not find in the message cache, and no step drops a topic before     *)
(* fanout_ttl after the last publish.                                        *)
THEOREM KeepsWhatItNeeds ==
    ASSUME CacheAssumption
    PROVE  Spec => HeartbeatKeeps
  <1>1. Init => IInv BY InitInv
  <1>2. IInv /\ [Next]_vars => IInv' BY NextInv
  <1>3. IInv /\ [Next]_vars => [AnnouncesServable /\ KeepsFanout]_vars
    BY AnnouncesStep, KeepsFanoutStep
  <1> QED BY <1>1, <1>2, <1>3, PTL DEF Spec, HeartbeatKeeps

(* The application never gets a message twice within duplicate_cache_time,   *)
(* however many peers send it and however often.                             *)
THEOREM NeverTwice ==
    ASSUME CacheAssumption
    PROVE  Spec => DeliveredOnce
  <1>1. Init => IInv BY InitInv
  <1>2. IInv /\ [Next]_vars => IInv' BY NextInv
  <1>3. IInv /\ [Next]_vars => [DeliversNew]_vars
    BY DeliversStep
  <1> QED BY <1>1, <1>2, <1>3, PTL DEF Spec, DeliveredOnce
=============================================================================
