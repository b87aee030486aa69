----------------------------- MODULE ScoreBook -----------------------------
(* The bookkeeping of gossip's peer score (score.hpp) for one topic that has *)
(* parameters, with the calls gossip.cpp makes.  Counters are integers in    *)
(* units of 1 / One, weights are integers, and decay halves a counter.  The  *)
(* unit of time is decay_interval.  Nothing in the code sets the delivery    *)
(* status Invalid or Ignored, application_score or slow_peer_penalty: these  *)
(* terms of the score are zero.                                              *)
EXTENDS Integers, FiniteSets, Functions

CONSTANTS
    Peers, Messages,
    One,                 \* one delivery or penalty
    decay_to_zero,
    quantum,             \* time_in_mesh_quantum, in whole seconds
    time_in_mesh_cap, time_in_mesh_weight,
    first_message_deliveries_cap, first_message_deliveries_weight,
    mesh_message_deliveries_cap, mesh_message_deliveries_threshold,
    mesh_message_deliveries_activation, mesh_message_deliveries_weight,
    mesh_failure_penalty_weight, behaviour_penalty_weight,
    topic_score_cap, graylist_threshold,
    retain_score, duplicate_cache_time, kTimeCacheDuration,
    MaxPenalty, MaxFailure   \* bounds of counters the code does not bound

(* What the configuration has to satisfy                                     *)
ScoreAssumption ==
    /\ IsFiniteSet(Peers)
    /\ {decay_to_zero, quantum, time_in_mesh_cap, time_in_mesh_weight,
        first_message_deliveries_cap, first_message_deliveries_weight,
        mesh_message_deliveries_cap, mesh_message_deliveries_threshold,
        mesh_message_deliveries_activation, topic_score_cap,
        retain_score, MaxPenalty, MaxFailure} \subseteq Nat
    /\ One \in Nat \ {0}
    /\ {mesh_message_deliveries_weight, mesh_failure_penalty_weight,
        behaviour_penalty_weight, graylist_threshold} \subseteq Int
    /\ mesh_failure_penalty_weight <= mesh_message_deliveries_weight
    /\ mesh_message_deliveries_weight <= 0
    /\ behaviour_penalty_weight <= 0
    /\ {duplicate_cache_time, kTimeCacheDuration} \subseteq Nat

VARIABLES
    peer_stats_,         \* for each peer that has any
    deliveries_,         \* message -> delivery record, with what is left of its time
    duplicate_cache_,    \* message -> time left (see GossipCache)
    connected,
    left,                \* peer -> score at its last disconnect and time since
    credits              \* <<message, peer>>: times a duplicate was credited, since
                         \* the message has its record

vars == <<peer_stats_, deliveries_, duplicate_cache_, connected, left, credits>>

-----------------------------------------------------------------------------
NotInMesh == -1
Never == -1

TopicStats == [mesh_active : Int, first_message_deliveries : Nat,
               mesh_message_deliveries_active : BOOLEAN,
               mesh_message_deliveries : Nat, mesh_failure_penalty : Nat]

(* mesh_active is the number of decays since the graft.                      *)
defaultStats ==
    [expires_at |-> Never, behaviour_penalty |-> 0,
     topic |-> [mesh_active |-> NotInMesh, first_message_deliveries |-> 0,
                mesh_message_deliveries_active |-> FALSE,
                mesh_message_deliveries |-> 0, mesh_failure_penalty |-> 0]]

Drop(f, S) == Restrict(f, DOMAIN f \ S)
With(f, k, v) == [x \in DOMAIN f \cup {k} |-> IF x = k THEN v ELSE f[x]]
Smaller(a, b) == IF b < a THEN b ELSE a

inMesh(ts) == ts.mesh_active # NotInMesh

(* mesh_time in whole seconds: a graft falls between two decays.             *)
mesh_time(ts) == IF ts.mesh_active = 0 THEN 0 ELSE ts.mesh_active - 1

(* The missing deliveries, in units; 0 when they do not count                *)
deficit(ts) ==
    IF /\ ts.mesh_message_deliveries_active
       /\ ts.mesh_message_deliveries < mesh_message_deliveries_threshold
    THEN mesh_message_deliveries_threshold - ts.mesh_message_deliveries ELSE 0

(* P1.  A quantum below a second is truncated to 0: more than 0 / 0 is       *)
(* infinite and cut to the cap, and 0 / 0 is not a number, which std::min    *)
(* and every sum keep.                                                       *)
isNaN(stats) == inMesh(stats.topic) /\ quantum = 0 /\ mesh_time(stats.topic) = 0
p1(ts) ==
    IF ~inMesh(ts) THEN 0
    ELSE IF quantum = 0 THEN time_in_mesh_cap
    ELSE Smaller(mesh_time(ts) \div quantum, time_in_mesh_cap)

(* The score of a peer, were P1 the given number                             *)
scoreWith(stats, p) ==
    LET ts == stats.topic
        topic_score == p * time_in_mesh_weight * One * One
            + ts.first_message_deliveries * first_message_deliveries_weight * One
            + deficit(ts) * deficit(ts) * mesh_message_deliveries_weight
            + ts.mesh_failure_penalty * mesh_failure_penalty_weight
    IN  (IF topic_score_cap > 0 THEN Smaller(topic_score, topic_score_cap) ELSE topic_score)
        + stats.behaviour_penalty * stats.behaviour_penalty * behaviour_penalty_weight

scoreOf(stats) == scoreWith(stats, p1(stats.topic))

(* Score::below and the comparison of disconnect: false of what is not a     *)
(* number.  A peer without statistics has the score 0.                       *)
below(p, threshold) ==
    IF p \in DOMAIN peer_stats_
    THEN ~isNaN(peer_stats_[p]) /\ scoreOf(peer_stats_[p]) < threshold
    ELSE 0 < threshold
positive(p) == ~isNaN(peer_stats_[p]) /\ scoreOf(peer_stats_[p]) > 0

Init ==
    /\ peer_stats_ = << >> /\ deliveries_ = << >> /\ duplicate_cache_ = << >>
    /\ connected = {} /\ left = << >>
    /\ credits = [x \in Messages \X Peers |-> 0]

-----------------------------------------------------------------------------

(* What connect makes of the statistics that were retained                   *)
unexpired(stats) == [stats EXCEPT !.expires_at = Never]

(* Score::connect, for a Peer object that is created                         *)
connect(p) ==
    /\ p \notin connected
    /\ connected' = connected \cup {p}
    /\ peer_stats_' = IF p \in DOMAIN peer_stats_
                      THEN [peer_stats_ EXCEPT ![p] = unexpired(@)]
                      ELSE With(peer_stats_, p, defaultStats)
    /\ left' = Drop(left, {p})
    /\ UNCHANGED <<deliveries_, duplicate_cache_, credits>>

(* Score::graft of a peer the callers found not to be below zero             *)
graft(p) ==
    /\ p \in connected /\ p \in DOMAIN peer_stats_
    /\ ~inMesh(peer_stats_[p].topic) /\ ~below(p, 0)
    /\ peer_stats_[p].topic.mesh_failure_penalty <= MaxFailure
    /\ peer_stats_' = [peer_stats_ EXCEPT ![p].topic.mesh_active = 0,
                                          ![p].topic.mesh_message_deliveries_active = FALSE]
    /\ UNCHANGED <<deliveries_, duplicate_cache_, connected, left, credits>>

(* What the end of a membership leaves: the deficit as a penalty             *)
outOfMesh(ts) ==
    [ts EXCEPT !.mesh_failure_penalty = @ + deficit(ts) * deficit(ts),
               !.mesh_active = NotInMesh, !.mesh_message_deliveries_active = FALSE]

(* Score::prune                                                              *)
prune(p) ==
    /\ p \in DOMAIN peer_stats_ /\ inMesh(peer_stats_[p].topic)
    /\ peer_stats_' = [peer_stats_ EXCEPT ![p].topic = outOfMesh(@)]
    /\ UNCHANGED <<deliveries_, duplicate_cache_, connected, left, credits>>

(* What disconnect keeps: nothing good, and everything bad for retain_score  *)
retained(p) ==
    IF positive(p) THEN Drop(peer_stats_, {p})
    ELSE [peer_stats_ EXCEPT
             ![p].topic = [outOfMesh(@) EXCEPT !.first_message_deliveries = 0],
             ![p].expires_at = retain_score]

(* Score::disconnect                                                         *)
disconnect(p) ==
    /\ p \in connected
    /\ connected' = connected \ {p}
    /\ peer_stats_' = retained(p)
    /\ left' = IF isNaN(peer_stats_[p]) THEN Drop(left, {p})
               ELSE With(left, p, [score |-> scoreOf(peer_stats_[p]), since |-> 0])
    /\ UNCHANGED <<deliveries_, duplicate_cache_, credits>>

(* Score::addPenalty: a GRAFT during backoff, or broken promises             *)
addPenalty(p, count) ==
    /\ p \in DOMAIN peer_stats_
    /\ peer_stats_[p].behaviour_penalty + count * One <= MaxPenalty
    /\ peer_stats_' = [peer_stats_ EXCEPT ![p].behaviour_penalty = @ + count * One]
    /\ UNCHANGED <<deliveries_, duplicate_cache_, connected, left, credits>>

-----------------------------------------------------------------------------
live(cache) == {k \in DOMAIN cache : cache[k].ttl > 0}

(* TimeCache::getOrDefault                                                   *)
getOrDefault(m) ==
    IF m \in live(deliveries_) THEN Restrict(deliveries_, live(deliveries_))
    ELSE With(Restrict(deliveries_, live(deliveries_)), m,
              [status |-> "unknown", open |-> FALSE, peers |-> {}, ttl |-> kTimeCacheDuration])

(* A delivery that counts for the mesh                                       *)
meshDelivery(ts) ==
    IF inMesh(ts)
    THEN [ts EXCEPT !.mesh_message_deliveries = Smaller(@ + One, mesh_message_deliveries_cap)]
    ELSE ts

(* mark_first_message_delivery                                               *)
mark_first_message_delivery(ts) ==
    meshDelivery([ts EXCEPT !.first_message_deliveries =
                                Smaller(@ + One, first_message_deliveries_cap)])

(* mark_duplicate_message_delivery, without a validation time, does nothing, *)
(* and with one counts inside the window.                                    *)
Faulty_noteNobody(record, p) == record.peers
notePeer(record, p) == record.peers \cup {p}

(* The credits that belong to the record getOrDefault returns                *)
credited(m) ==
    [x \in DOMAIN credits |-> IF x[1] = m /\ m \notin live(deliveries_) THEN 0 ELSE credits[x]]

duplicateMessage(p, m) ==
    LET records == getOrDefault(m)
        record == records[m]
        credit == /\ p \notin record.peers /\ record.status = "valid" /\ record.open
                  /\ p \in DOMAIN peer_stats_ /\ inMesh(peer_stats_[p].topic) IN
    /\ deliveries_' = [records EXCEPT ![m].peers = notePeer(record, p)]
    /\ peer_stats_' = IF credit THEN [peer_stats_ EXCEPT ![p].topic = meshDelivery(@)]
                      ELSE peer_stats_
    /\ credits' = [credited(m) EXCEPT ![<<m, p>>] = IF credit THEN @ + 1 ELSE @]

(* validateMessage, which only makes the record, and deliver_message         *)
deliver_message(p, m) ==
    LET records == getOrDefault(m) IN
    /\ peer_stats_' = IF p \in DOMAIN peer_stats_
                      THEN [peer_stats_ EXCEPT ![p].topic = mark_first_message_delivery(@)]
                      ELSE peer_stats_
    /\ deliveries_' = [records EXCEPT ![m] = IF @.status = "unknown"
                          THEN [@ EXCEPT !.status = "valid", !.open = TRUE] ELSE @]
    /\ credits' = credited(m)

(* onMessage of an RPC with one message: the graylist, then the duplicates   *)
onMessage(p, m) ==
    /\ p \in connected
    /\ IF below(p, graylist_threshold)
       THEN UNCHANGED <<peer_stats_, deliveries_, duplicate_cache_, credits>>
       ELSE IF m \in DOMAIN duplicate_cache_ /\ duplicate_cache_[m] > 0
       THEN duplicateMessage(p, m) /\ UNCHANGED duplicate_cache_
       ELSE /\ duplicate_cache_' = With(duplicate_cache_, m, duplicate_cache_time)
            /\ deliver_message(p, m)
    /\ UNCHANGED <<connected, left>>

(* publish: the own message is known without a delivery record               *)
publish(m) ==
    /\ m \notin DOMAIN duplicate_cache_
    /\ duplicate_cache_' = With(duplicate_cache_, m, duplicate_cache_time)
    /\ UNCHANGED <<peer_stats_, deliveries_, connected, left, credits>>

(* mesh_message_deliveries_window passes, much shorter than decay_interval   *)
WindowCloses(m) ==
    /\ m \in DOMAIN deliveries_ /\ deliveries_[m].open
    /\ deliveries_' = [deliveries_ EXCEPT ![m].open = FALSE]
    /\ UNCHANGED <<peer_stats_, duplicate_cache_, connected, left, credits>>

-----------------------------------------------------------------------------
(* A counter after one decay                                                 *)
decay(n) == IF n \div 2 < decay_to_zero THEN 0 ELSE n \div 2

decayTopic(ts) ==
    LET age == IF inMesh(ts) THEN Smaller(ts.mesh_active + 1,
                     mesh_message_deliveries_activation + time_in_mesh_cap + 2)
               ELSE NotInMesh IN
    [mesh_active |-> age,
     first_message_deliveries |-> decay(ts.first_message_deliveries),
     mesh_message_deliveries |-> decay(ts.mesh_message_deliveries),
     mesh_failure_penalty |-> decay(ts.mesh_failure_penalty),
     mesh_message_deliveries_active |->
        \/ ts.mesh_message_deliveries_active
        \/ age # NotInMesh /\ age > mesh_message_deliveries_activation]

Faulty_decayAway(stats) ==
    [stats EXCEPT !.topic = decayTopic(@), !.behaviour_penalty = decay(@),
                  !.expires_at = IF @ = Never THEN Never ELSE @ - 1]

(* The statistics of an absent peer do not decay                             *)
decayPeer(stats) ==
    IF stats.expires_at # Never THEN [stats EXCEPT !.expires_at = @ - 1]
    ELSE [stats EXCEPT !.topic = decayTopic(@), !.behaviour_penalty = decay(@)]

(* The statistics whose retain_score is over                                 *)
expired == {p \in DOMAIN peer_stats_ : peer_stats_[p].expires_at = 0}

(* Score::onDecay, after decay_interval                                      *)
onDecay ==
    /\ peer_stats_' = [p \in DOMAIN peer_stats_ \ expired |-> decayPeer(peer_stats_[p])]
    /\ deliveries_' = [m \in DOMAIN deliveries_ |->
                          [deliveries_[m] EXCEPT !.open = FALSE,
                                                 !.ttl = IF @ > 0 THEN @ - 1 ELSE 0]]
    /\ duplicate_cache_' = [m \in DOMAIN duplicate_cache_ |->
                               IF duplicate_cache_[m] > 0 THEN duplicate_cache_[m] - 1 ELSE 0]
    /\ left' = [p \in DOMAIN left |->
                   [left[p] EXCEPT !.since = Smaller(@ + 1, retain_score + 1)]]
    /\ UNCHANGED <<connected, credits>>

Next ==
    \/ \E p \in Peers :
        \/ connect(p) \/ graft(p) \/ prune(p) \/ disconnect(p)
        \/ \E count \in 1..2 : addPenalty(p, count)
        \/ \E m \in Messages : onMessage(p, m)
    \/ \E m \in Messages : publish(m) \/ WindowCloses(m)
    \/ onDecay

Spec == Init /\ [][Next]_vars /\ WF_vars(onDecay)

-----------------------------------------------------------------------------
(* The members have the types the structures declare.                        *)
TypeOK ==
    /\ DOMAIN peer_stats_ \subseteq Peers /\ connected \subseteq DOMAIN peer_stats_
    /\ \A p \in DOMAIN peer_stats_ :
        /\ peer_stats_[p].topic \in TopicStats
        /\ peer_stats_[p].expires_at \in {Never} \cup 0..retain_score
        /\ peer_stats_[p].behaviour_penalty \in 0..MaxPenalty
        /\ p \in connected <=> peer_stats_[p].expires_at = Never
    /\ \A m \in DOMAIN deliveries_ : deliveries_[m].ttl \in 0..kTimeCacheDuration

(* Leaving the mesh, whether pruned or disconnected, never raises the score: *)
(* the deficit of deliveries becomes a penalty that weighs no less.          *)
GainsNothing ==
    \A p \in DOMAIN peer_stats_ :
       /\ ~isNaN(peer_stats_[p])
       /\ inMesh(peer_stats_[p].topic)
       /\ p \in DOMAIN peer_stats_' => ~inMesh(peer_stats_'[p].topic)
       => (IF p \in DOMAIN peer_stats_' THEN scoreOf(peer_stats_'[p]) ELSE 0)
             <= scoreOf(peer_stats_[p])

(* A peer that comes back within retain_score has no better score than the   *)
(* one it left with.                                                         *)
KeepsScore ==
    \A p \in connected' \ connected :
       p \in DOMAIN left /\ left[p].since <= retain_score
       => scoreOf(peer_stats_'[p]) <= left[p].score

(* A delivery deficit counts only in the mesh, and only after the activation *)
(* time has passed since the last graft.                                     *)
DeficitNeedsTime ==
    \A p \in DOMAIN peer_stats_ :
        peer_stats_[p].topic.mesh_message_deliveries_active =>
            peer_stats_[p].topic.mesh_active > mesh_message_deliveries_activation

(* A peer is credited for the duplicates of a message once, as long as the   *)
(* delivery record lives.                                                    *)
DuplicateCreditOnce == \A x \in DOMAIN credits : credits[x] <= 1

(* What Score keeps is well formed, a deficit counts only after its time and *)
(* a duplicate once.                                                         *)
ScoreSound == TypeOK /\ DeficitNeedsTime /\ DuplicateCreditOnce

(* Leaving, the mesh or the connection, never pays.                          *)
NoGainByLeaving == [][GainsNothing /\ KeepsScore]_vars

(* The statistics of a peer that stays away are released.                    *)
StatsReleased ==
    \A p \in Peers : (p \notin connected) ~> (p \in connected \/ p \notin DOMAIN peer_stats_)
=============================================================================
