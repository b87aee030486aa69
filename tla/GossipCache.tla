---------------------------- MODULE GossipCache ----------------------------
(* What Gossip remembers of messages: the duplicate cache, the message cache *)
(* with the sliding history that expires it, the promises made by peers that *)
(* announced a message, and the IDONTWANT marks, with the handlers that use  *)
(* them: publish, the PUBLISH, IHAVE, IWANT and IDONTWANT parts of onMessage *)
(* and the second half of heartbeat.  All peers subscribe to all topics and  *)
(* speak gossipsub; the mesh is fixed here (GossipMesh models it).  Times    *)
(* are kept as what is left of them, in heartbeats.                          *)
EXTENDS Integers, FiniteSets, FiniteSetsExt, Functions

CONSTANTS
    Peers, Mesh,        \* peers, and those in the mesh of every topic
    Topics, TopicOf,    \* the topic of each message
    Local, Remote,      \* messages published here, and by other nodes
    AuthorOf,           \* who published a remote message: a peer, or NoPeer
    NoPeer,
    Signed,             \* message_authenticity is Signed, not Anonymous
    flood_publish,
    history_length, history_gossip,
    duplicate_cache_time, iwant_followup_time, fanout_ttl,
    kTtl, kCapacity,    \* of IDontWantCache
    max_ihave_length, max_ihave_messages, gossip_retransimission

Messages == Local \cup Remote
NoMessage == "no message"

(* As config.hpp has it: 60s over 5 slots of 1s, of which 3 are announced.   *)
CacheAssumption ==
    /\ IsFiniteSet(Peers) /\ Mesh \subseteq Peers /\ NoPeer \notin Peers
    /\ IsFiniteSet(Messages) /\ NoMessage \notin Messages /\ Local \cap Remote = {}
    /\ TopicOf \in [Messages -> Topics]
    /\ AuthorOf \in [Remote -> Peers \cup {NoPeer}]
    /\ Signed \in BOOLEAN /\ flood_publish \in BOOLEAN
    /\ history_length \in Nat /\ history_gossip \in 1..history_length - 1
    /\ duplicate_cache_time \in Nat /\ duplicate_cache_time > history_length
    /\ {iwant_followup_time, fanout_ttl, kTtl} \subseteq Nat
    /\ kCapacity \in Nat \ {0}
    /\ {max_ihave_length, max_ihave_messages, gossip_retransimission} \subseteq Nat

VARIABLES
    topics_,             \* absent, publish_only or subscribed
    last_publish_,       \* what is left of fanout_ttl since the last publish
    history_,            \* per topic, slot 1 is the newest
    message_cache_,      \* message id -> message and IWANT counters
    duplicate_cache_,    \* message id -> time left
    gossip_promises_,    \* <<message id, peer>> -> time left, -1 when overdue
    dont_send_,          \* per peer: message id -> time left
    count_received_ihave_, count_sent_iwant_,
    due,                 \* the heartbeat timer fired
    batch,               \* what the last handler queued for each peer
    received,            \* what the last handler gave the application, if anything
    published,           \* local messages published so far
    sinceReceived,       \* per message: heartbeats since the application got it
    sincePublish,        \* per topic: heartbeats since it was published to
    served,              \* <<peer, id>>: answers to IWANT since the entry was cached
    asked                \* ids asked of each Peer object since the last heartbeat

vars == <<topics_, last_publish_, history_, message_cache_, duplicate_cache_,
          gossip_promises_, dont_send_, count_received_ihave_, count_sent_iwant_, due,
          batch, received, published, sinceReceived, sincePublish, served, asked>>
ghosts == <<published, sinceReceived, sincePublish, served>>

-----------------------------------------------------------------------------
AnonId == "anonymous"

(* defaultMessageIdFn: the author and its sequence number, neither of which  *)
(* an anonymous message has                                                  *)
message_id_fn(m) == IF Signed THEN m ELSE AnonId

Ids == {message_id_fn(m) : m \in Messages}

Drop(f, S) == Restrict(f, DOMAIN f \ S)
With(f, k, v) == [x \in DOMAIN f \cup {k} |-> IF x = k THEN v ELSE f[x]]

(* TimeCache::clearExpired                                                   *)
clearExpired(cache) == Drop(cache, {k \in DOMAIN cache : cache[k] <= 0})

Faulty_forgetEarly(id) == With(clearExpired(duplicate_cache_), id, history_length)

(* DuplicateCache::insert of an id that is not there                         *)
insert(id) == With(clearExpired(duplicate_cache_), id, duplicate_cache_time)

emptyRpc == [publish |-> {}, ihave |-> {}, iwant |-> {}, idontwant |-> {}]
emptyBatch == [p \in Peers |-> emptyRpc]

History == [1..history_length -> SUBSET Ids]
emptyHistory == [i \in 1..history_length |-> {}]

(* History::add, shift and get                                               *)
add(h, id) == [h EXCEPT ![1] = @ \cup {id}]
shift(h) == [i \in 1..history_length |-> IF i = 1 THEN {} ELSE h[i - 1]]
get(h, slots) == UNION {h[i] : i \in 1..slots}

Quiet == batch' = emptyBatch /\ received' = NoMessage

live == {t \in Topics : topics_[t] # "absent"}

Init ==
    /\ topics_ = [t \in Topics |-> "absent"]
    /\ last_publish_ = [t \in Topics |-> 0]
    /\ history_ = [t \in Topics |-> emptyHistory]
    /\ message_cache_ = << >> /\ duplicate_cache_ = << >> /\ gossip_promises_ = << >>
    /\ dont_send_ = [p \in Peers |-> << >>]
    /\ count_received_ihave_ = [p \in Peers |-> 0]
    /\ count_sent_iwant_ = [p \in Peers |-> 0]
    /\ due = FALSE
    /\ batch = emptyBatch /\ received = NoMessage
    /\ published = {}
    /\ sinceReceived = [m \in Messages |-> duplicate_cache_time]
    /\ sincePublish = [t \in Topics |-> fanout_ttl]
    /\ served = [x \in Peers \X Ids |-> 0]
    /\ asked = [p \in Peers |-> {}]

-----------------------------------------------------------------------------
(* The peers broadcast sends to: those of the topic when flooding, else the  *)
(* mesh with, for a local message, others to fill it up.                     *)
recipients(publish, more) ==
    IF publish /\ flood_publish THEN Peers ELSE IF publish THEN Mesh \cup more ELSE Mesh

Faulty_keepPromises(id) == gossip_promises_

(* GossipPromises::remove                                                    *)
remove(id) == Drop(gossip_promises_, {id} \X Peers)

(* broadcast of a message that is larger than the IDONTWANT threshold.  The  *)
(* promises are removed before the peers that made them are looked up, so    *)
(* only the peers the message is sent to are told IDONTWANT.                 *)
broadcast(m, publish, from, more) ==
    LET id == message_id_fn(m)
        t == TopicOf[m]
        to == {p \in recipients(publish, more) :
                  ~publish => p # from /\ p # AuthorOf[m]} IN
    /\ message_cache_' = IF id \in DOMAIN message_cache_ THEN message_cache_
                         ELSE With(message_cache_, id, [p \in Peers |-> 0])
    /\ history_' = [history_ EXCEPT ![t] = add(@, id)]
    /\ gossip_promises_' = remove(id)
    /\ batch' = [p \in Peers |->
                    IF p \in to THEN [emptyRpc EXCEPT !.publish = {id},
                                          !.idontwant = IF publish THEN {} ELSE {id}]
                    ELSE emptyRpc]
    /\ last_publish_' = IF publish /\ ~flood_publish
                        THEN [last_publish_ EXCEPT ![t] = fanout_ttl] ELSE last_publish_

(* getOrCreateTopic for subscribe: an upgrade keeps the history.             *)
subscribe(t) ==
    /\ topics_[t] # "subscribed"
    /\ topics_' = [topics_ EXCEPT ![t] = "subscribed"]
    /\ Quiet
    /\ UNCHANGED <<last_publish_, history_, message_cache_, duplicate_cache_,
                   gossip_promises_, dont_send_, count_received_ihave_, count_sent_iwant_,
                   due, ghosts, asked>>

(* Gossip::publish: to a topic that need not be subscribed to                *)
publish(m, more) ==
    LET id == message_id_fn(m)
        t == TopicOf[m] IN
    /\ m \notin published
    /\ more \subseteq Peers \ Mesh
    /\ published' = published \cup {m}
    /\ topics_' = [topics_ EXCEPT ![t] = IF @ = "absent" THEN "publish_only" ELSE @]
    /\ sincePublish' = [sincePublish EXCEPT ![t] = 0]
    /\ IF id \in DOMAIN duplicate_cache_
       THEN /\ batch' = emptyBatch
            /\ UNCHANGED <<message_cache_, history_, gossip_promises_, last_publish_,
                           duplicate_cache_>>
       ELSE /\ duplicate_cache_' = insert(id)
            /\ broadcast(m, TRUE, NoPeer, more)
    /\ received' = NoMessage
    /\ UNCHANGED <<dont_send_, count_received_ihave_, count_sent_iwant_, due,
                   sinceReceived, served, asked>>

-----------------------------------------------------------------------------
(* onMessage, one part of the RPC at a time.                                 *)

(* A PUBLISH that passes validation: a message for an unknown topic and a    *)
(* duplicate are dropped, any other is delivered and relayed.                *)
onPublish(p, m) ==
    LET id == message_id_fn(m) IN
    /\ IF TopicOf[m] \notin live
       THEN /\ batch' = emptyBatch /\ received' = NoMessage
            /\ UNCHANGED <<message_cache_, history_, gossip_promises_, last_publish_,
                           duplicate_cache_>>
       ELSE IF id \in DOMAIN clearExpired(duplicate_cache_)
       THEN /\ batch' = emptyBatch /\ received' = NoMessage
            /\ duplicate_cache_' = clearExpired(duplicate_cache_)
            /\ UNCHANGED <<message_cache_, history_, gossip_promises_, last_publish_>>
       ELSE /\ duplicate_cache_' = insert(id)
            /\ received' = m
            /\ broadcast(m, FALSE, p, {})
    /\ sinceReceived' = [sinceReceived EXCEPT ![m] = IF received' = m THEN 0 ELSE @]
    /\ UNCHANGED <<topics_, dont_send_, count_received_ihave_, count_sent_iwant_, due,
                   published, sincePublish, served, asked>>

(* The announced ids worth asking for: unknown, and promised by nobody       *)
want_set(t, ids) ==
    IF t \in live
    THEN {id \in ids : /\ id \notin DOMAIN duplicate_cache_
                       /\ \A q \in Peers : <<id, q>> \notin DOMAIN gossip_promises_}
    ELSE {}

(* What is left of the ids that may be asked of a peer in one heartbeat      *)
iwant_left(p) == max_ihave_length - count_sent_iwant_[p]

(* handle_ihave of a peer whose score is not below gossip_threshold          *)
handle_ihave(p, t, ids) ==
    LET have == count_received_ihave_[p] + 1
        idle == have > max_ihave_messages \/ count_sent_iwant_[p] >= max_ihave_length
        want == IF idle THEN {} ELSE want_set(t, ids)
        count == Min({Cardinality(want), iwant_left(p)}) IN
    /\ count_received_ihave_[p] <= max_ihave_messages
    /\ count_received_ihave_' = [count_received_ihave_ EXCEPT ![p] = have]
    /\ \E ask \in kSubset(count, want) :
        /\ count_sent_iwant_' = [count_sent_iwant_ EXCEPT ![p] = @ + count]
        /\ gossip_promises_' = [x \in DOMAIN gossip_promises_ \cup (ask \X {p}) |->
               IF x \in DOMAIN gossip_promises_ THEN gossip_promises_[x]
               ELSE iwant_followup_time]
        /\ batch' = [emptyBatch EXCEPT ![p].iwant = ask]
        /\ asked' = [asked EXCEPT ![p] = @ \cup ask]
    /\ received' = NoMessage
    /\ UNCHANGED <<topics_, last_publish_, history_, message_cache_, duplicate_cache_,
                   dont_send_, due, ghosts>>

(* The counter an IWANT is checked against                                   *)
iwant(p, id) == message_cache_[id][p] + 1

(* An IWANT for one id by a peer whose score is not below gossip_threshold:  *)
(* answered so many times, and not after an IDONTWANT.  The counter stops    *)
(* mattering one past the limit.                                             *)
onIWant(p, id) ==
    /\ id \in DOMAIN message_cache_
    /\ message_cache_[id][p] <= gossip_retransimission
    /\ message_cache_' = [message_cache_ EXCEPT ![id][p] = @ + 1]
    /\ LET send == /\ iwant(p, id) <= gossip_retransimission
                   /\ id \notin DOMAIN dont_send_[p] IN
        /\ batch' = [emptyBatch EXCEPT ![p].publish = IF send THEN {id} ELSE {}]
        /\ served' = [served EXCEPT ![<<p, id>>] = IF send THEN @ + 1 ELSE @]
    /\ received' = NoMessage
    /\ UNCHANGED <<topics_, last_publish_, history_, duplicate_cache_, gossip_promises_,
                   dont_send_, count_received_ihave_, count_sent_iwant_, due, published,
                   sinceReceived, sincePublish, asked>>

(* The oldest entries of an IDontWantCache: those with the least time left   *)
oldest(cache) == {k \in DOMAIN cache : \A l \in DOMAIN cache : cache[k] <= cache[l]}

(* What makes room for one more entry: TimeCache::popFront at capacity       *)
evictions(cache) ==
    IF Cardinality(DOMAIN cache) >= kCapacity THEN {{k} : k \in oldest(cache)} ELSE {{}}

(* An IDONTWANT for one id: IDontWantCache::insert                           *)
onIDontWant(p, id) ==
    /\ id \notin DOMAIN dont_send_[p]
    /\ \E out \in evictions(dont_send_[p]) :
        dont_send_' = [dont_send_ EXCEPT ![p] = With(clearExpired(Drop(@, out)), id, kTtl)]
    /\ Quiet
    /\ UNCHANGED <<topics_, last_publish_, history_, message_cache_, duplicate_cache_,
                   gossip_promises_, count_received_ihave_, count_sent_iwant_, due,
                   ghosts, asked>>

(* The peer disconnects and connects again as a new Peer object.  Promises   *)
(* keep the old object alive, and IWANT counters are kept by peer id.        *)
Reconnect(p) ==
    /\ dont_send_' = [dont_send_ EXCEPT ![p] = << >>]
    /\ count_received_ihave_' = [count_received_ihave_ EXCEPT ![p] = 0]
    /\ count_sent_iwant_' = [count_sent_iwant_ EXCEPT ![p] = 0]
    /\ asked' = [asked EXCEPT ![p] = {}]
    /\ Quiet
    /\ UNCHANGED <<topics_, last_publish_, history_, message_cache_, duplicate_cache_,
                   gossip_promises_, due, ghosts>>

-----------------------------------------------------------------------------
Faulty_expireNext(h) == h[history_length - 1]

(* History::shift: the ids that leave the window                             *)
expired(h) == h[history_length]

Faulty_neverBroken == {x \in DOMAIN gossip_promises_ : gossip_promises_[x] < -1}

(* apply_iwant_penalties: the promises that ran out                          *)
broken == {x \in DOMAIN gossip_promises_ : gossip_promises_[x] < 0}

(* The topics heartbeat keeps: subscribed to, or published to recently       *)
retained == {t \in live : topics_[t] = "subscribed" \/ last_publish_[t] > 0}

(* emit_gossip: the ids an IHAVE for a topic may carry to one peer           *)
announcements(t) ==
    LET ids == get(history_[t], history_gossip) IN
    {{}} \cup kSubset(Min({Cardinality(ids), max_ihave_length}), ids)

emit_gossip(ihave) ==
    \A p \in Peers :
        /\ p \in Mesh => ihave[p] = {}
        /\ ihave[p] \subseteq UNION {get(history_[t], history_gossip) : t \in retained}
        /\ \A t \in retained :
              ihave[p] \cap get(history_[t], history_gossip) \in announcements(t)

(* heartbeat without the mesh: a dropped topic takes its history with it,    *)
(* and what the others have kept long enough leaves the message cache.       *)
heartbeat ==
    LET gone == UNION {expired(history_[t]) : t \in retained} IN
    /\ due /\ due' = FALSE
    /\ count_received_ihave_' = [p \in Peers |-> 0]
    /\ count_sent_iwant_' = [p \in Peers |-> 0]
    /\ asked' = [p \in Peers |-> {}]
    /\ gossip_promises_' = Drop(gossip_promises_, broken)
    /\ topics_' = [t \in Topics |-> IF t \in retained THEN topics_[t] ELSE "absent"]
    /\ last_publish_' = [t \in Topics |-> IF t \in retained THEN last_publish_[t] ELSE 0]
    /\ \E ihave \in [Peers -> SUBSET Ids] :
        /\ emit_gossip(ihave)
        /\ batch' = [p \in Peers |-> [emptyRpc EXCEPT !.ihave = ihave[p]]]
    /\ history_' = [t \in Topics |->
                       IF t \in retained THEN shift(history_[t]) ELSE emptyHistory]
    /\ message_cache_' = Drop(message_cache_, gone)
    /\ dont_send_' = [p \in Peers |-> clearExpired(dont_send_[p])]
    /\ served' = [x \in Peers \X Ids |-> IF x[2] \in gone THEN 0 ELSE served[x]]
    /\ received' = NoMessage
    /\ UNCHANGED <<duplicate_cache_, published, sinceReceived, sincePublish>>

Less(n, low) == IF n > low THEN n - 1 ELSE n
More(n, high) == IF n < high THEN n + 1 ELSE n

(* One heartbeat interval passes; the timer is served before the next.       *)
Tick ==
    /\ ~due /\ due' = TRUE
    /\ last_publish_' = [t \in Topics |-> Less(last_publish_[t], 0)]
    /\ duplicate_cache_' = [k \in DOMAIN duplicate_cache_ |-> Less(duplicate_cache_[k], 0)]
    /\ gossip_promises_' = [x \in DOMAIN gossip_promises_ |-> Less(gossip_promises_[x], -1)]
    /\ dont_send_' = [p \in Peers |-> [k \in DOMAIN dont_send_[p] |-> Less(dont_send_[p][k], 0)]]
    /\ sinceReceived' = [m \in Messages |-> More(sinceReceived[m], duplicate_cache_time)]
    /\ sincePublish' = [t \in Topics |-> More(sincePublish[t], fanout_ttl)]
    /\ Quiet
    /\ UNCHANGED <<topics_, history_, message_cache_, count_received_ihave_,
                   count_sent_iwant_, published, served, asked>>

Next ==
    \/ \E t \in Topics : subscribe(t)
    \/ \E m \in Local, more \in SUBSET Peers : publish(m, more)
    \/ \E p \in Peers :
        \/ \E m \in Remote : onPublish(p, m)
        \/ \E t \in Topics, ids \in SUBSET Ids \ {{}} : handle_ihave(p, t, ids)
        \/ \E id \in Ids : onIWant(p, id) \/ onIDontWant(p, id)
        \/ Reconnect(p)
    \/ heartbeat
    \/ Tick

Spec == Init /\ [][Next]_vars /\ WF_vars(heartbeat) /\ WF_vars(Tick)

-----------------------------------------------------------------------------
(* The members have the types the classes declare.                           *)
TypeOK ==
    /\ topics_ \in [Topics -> {"absent", "publish_only", "subscribed"}]
    /\ last_publish_ \in [Topics -> 0..fanout_ttl]
    /\ history_ \in [Topics -> History]
    /\ DOMAIN message_cache_ \subseteq Ids
    /\ \A id \in DOMAIN message_cache_ :
          message_cache_[id] \in [Peers -> 0..gossip_retransimission + 1]
    /\ DOMAIN duplicate_cache_ \subseteq Ids
    /\ \A id \in DOMAIN duplicate_cache_ : duplicate_cache_[id] \in 0..duplicate_cache_time
    /\ DOMAIN gossip_promises_ \subseteq Ids \X Peers
    /\ \A x \in DOMAIN gossip_promises_ : gossip_promises_[x] \in -1..iwant_followup_time
    /\ \A p \in Peers : /\ DOMAIN dont_send_[p] \subseteq Ids
                        /\ Cardinality(DOMAIN dont_send_[p]) <= kCapacity
                        /\ \A id \in DOMAIN dont_send_[p] : dont_send_[p][id] \in 0..kTtl
    /\ count_received_ihave_ \in [Peers -> 0..max_ihave_messages + 1]
    /\ count_sent_iwant_ \in [Peers -> 0..max_ihave_length]

(* Whatever is in the history of a topic, and so can be announced, is in the *)
(* message cache: a message that comes back after the duplicate cache forgot *)
(* it does not share an id with one that is still to be expired.             *)
HistoryServable ==
    \A t \in Topics : get(history_[t], history_length) \subseteq DOMAIN message_cache_

(* An id announced by emit_gossip is still in the message cache when the     *)
(* heartbeat is over, so the IWANT it invites can be answered.               *)
AnnouncesServable == \A p \in Peers : batch'[p].ihave \subseteq DOMAIN message_cache_'

(* A message is asked of one peer at a time, and never once it was received: *)
(* broadcast settles the promises of every message it relays.                *)
PromiseOutstanding ==
    \A x, y \in DOMAIN gossip_promises_ :
        x[1] = y[1] => x = y /\ x[1] \notin DOMAIN duplicate_cache_

(* The application gets a message once per duplicate_cache_time.             *)
DeliversNew == received' \in Messages => sinceReceived[received'] >= duplicate_cache_time

(* An IWANT for a cached message is answered at most gossip_retransimission  *)
(* times, however often the peer reconnects in between.                      *)
RetransmissionBounded ==
    \A x \in Peers \X Ids : served[x] <= gossip_retransimission

(* No Peer object is asked for more than max_ihave_length messages between   *)
(* two heartbeats, over however many IHAVEs they were announced.             *)
IWantBounded == \A p \in Peers : Cardinality(asked[p]) <= max_ihave_length

(* Every promise is settled: kept, or counted against the peer.              *)
PromisesSettled ==
    \A x \in Ids \X Peers : (x \in DOMAIN gossip_promises_) ~> (x \notin DOMAIN gossip_promises_)

(* "Time to live for fanout peers": a topic that is only published to is     *)
(* kept until fanout_ttl after the last publish, unless publishing floods or *)
(* drops the message as a duplicate, as it does with a second anonymous one. *)
KeepsFanout ==
    Signed /\ ~flood_publish =>
        \A t \in Topics : topics_[t] # "absent" /\ topics_'[t] = "absent"
            => sincePublish[t] >= fanout_ttl

(* The caches, counters and histories have their types; what can be          *)
(* announced is in the message cache; a message is asked of one peer at a    *)
(* time and never once it was received; an IWANT for a message is answered   *)
(* at most gossip_retransimission times and no Peer object asked for more    *)
(* than max_ihave_length messages between two heartbeats, over reconnects.   *)
CacheSound ==
    /\ TypeOK /\ HistoryServable /\ PromiseOutstanding
    /\ RetransmissionBounded /\ IWantBounded

(* A heartbeat forgets nothing too early: what emit_gossip announces can be  *)
(* served when the heartbeat is over, and a topic that is only published to  *)
(* is kept until fanout_ttl after the last publish, if messages are signed   *)
(* and not flooded.                                                          *)
HeartbeatKeeps == [][AnnouncesServable /\ KeepsFanout]_vars

(* The application gets a message once per duplicate_cache_time.             *)
DeliveredOnce == [][DeliversNew]_vars
=============================================================================
