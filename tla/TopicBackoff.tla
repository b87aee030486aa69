---------------------------- MODULE TopicBackoff ----------------------------
(* The per-topic backoff tracker of Gossip (struct TopicBackoff): a circular *)
(* buffer of slots, one per heartbeat, each holding the peers whose backoff  *)
(* ends there, and an index from a peer to its slot number.  The callers     *)
(* update_backoff, get_backoff_time and is_backoff_with_slack convert        *)
(* between seconds and slots and are modelled with their integer widths.     *)
EXTENDS Integers

CONSTANTS
    Peers,              \* Peer objects (PeerPtr) the topic may meet
    prune_backoff,      \* Config::prune_backoff, in seconds
    heartbeat_interval, \* Config::heartbeat_interval, in seconds
    backoff_slack,      \* Config::backoff_slack, in heartbeats
    WordLimit,          \* 2^64 in the code: size_t and Backoff::rep are 64 bits wide
    MaxSlot             \* bound on slot_ (one per heartbeat, never reset)

size == prune_backoff \div heartbeat_interval + backoff_slack + 1

ASSUME ConfigAssumption ==
    /\ prune_backoff \in Nat
    /\ heartbeat_interval \in Nat \ {0}
    /\ backoff_slack \in Nat
    /\ MaxSlot \in Nat

(* The configuration fits the word: its own backoff is a positive signed     *)
(* number, and so is the number of slots.                                    *)
ASSUME WordAssumption ==
    /\ WordLimit \in Nat \ {0}
    /\ WordLimit % 2 = 0
    /\ 2 * (prune_backoff + backoff_slack + 1) < WordLimit

VARIABLES
    slots_,  \* slots_[i]: peers listed in the i-th slot of the buffer
    slot_,   \* current slot number, never wrapped
    peers_   \* slot number at which the backoff of a listed peer ends

vars == <<slots_, slot_, peers_>>

-----------------------------------------------------------------------------
(* The sequence of operations on the buffer.                                 *)

Init ==
    /\ slots_ = [i \in 0..size - 1 |-> {}]
    /\ slot_ = 0
    /\ peers_ = [p \in {} |-> 0]

saturating_sub(a, b) == IF a > b THEN a - b ELSE 0

(* TopicBackoff::get                                                         *)
get(p) == IF p \in DOMAIN peers_ THEN saturating_sub(peers_[p], slot_) ELSE 0

Faulty_Uncapped(n, bound) == n

AtMost(n, bound) == IF n < bound THEN n ELSE bound

(* TopicBackoff::update: list p at slot_ + slots, leaving its old list, if   *)
(* that is later than where it is listed now.                                *)
Relist(p, slot) ==
    LET unlisted == IF p \in DOMAIN peers_
                    THEN [slots_ EXCEPT ![peers_[p] % size] = @ \ {p}]
                    ELSE slots_
    IN  /\ slots_' = [unlisted EXCEPT ![slot % size] = @ \cup {p}]
        /\ peers_' = [q \in DOMAIN peers_ \cup {p} |->
                        IF q = p THEN slot ELSE peers_[q]]

Faulty_LastWins(p, slots) ==
    /\ UNCHANGED slot_
    /\ IF slots = 0
       THEN UNCHANGED <<slots_, peers_>>
       ELSE Relist(p, slot_ + AtMost(slots, size - 1))

update(p, slots) ==
    LET slot == slot_ + AtMost(slots, size - 1)
    IN  /\ UNCHANGED slot_
        /\ IF slots = 0 \/ (p \in DOMAIN peers_ /\ slot <= peers_[p])
           THEN UNCHANGED <<slots_, peers_>>
           ELSE Relist(p, slot)

(* TopicBackoff::shift: forget the peers of the current slot, move on.       *)
shift ==
    /\ slot_ < MaxSlot
    /\ peers_' = [q \in DOMAIN peers_ \ slots_[slot_ % size] |-> peers_[q]]
    /\ slots_' = [slots_ EXCEPT ![slot_ % size] = {}]
    /\ slot_' = slot_ + 1

-----------------------------------------------------------------------------
(* The callers in Gossip.  A PRUNE carries its backoff as an unsigned word   *)
(* which becomes a signed count of seconds; the quotient, rounded towards    *)
(* zero, is added to the slack as unsigned words again.                      *)

Signed(word) == IF 2 * word < WordLimit THEN word ELSE word - WordLimit

Quotient(a, b) == IF a >= 0 THEN a \div b ELSE -((-a) \div b)

SlotsOf(word) ==
    (Quotient(Signed(word), heartbeat_interval) + backoff_slack) % WordLimit

(* Gossip::update_backoff, on a PRUNE from p that names a backoff            *)
update_backoff(p, word) == update(p, SlotsOf(word))

(* Gossip::make_prune and remove_peer_from_mesh without a backoff value      *)
prune_default(p) == update_backoff(p, prune_backoff)

get_backoff_time(p) == saturating_sub(get(p), backoff_slack) * heartbeat_interval

is_backoff_with_slack(p) == get(p) > 0

Next ==
    \/ \E p \in Peers : prune_default(p)
    \/ \E p \in Peers, word \in 0..WordLimit - 1 : update_backoff(p, word)
    \/ shift

Spec == Init /\ [][Next]_vars

-----------------------------------------------------------------------------
(* The three members have the shape the struct declares.                     *)
TypeOK ==
    /\ slots_ \in [0..size - 1 -> SUBSET Peers]
    /\ slot_ \in 0..MaxSlot
    /\ DOMAIN peers_ \subseteq Peers
    /\ peers_ \in [DOMAIN peers_ -> Nat]

(* update and shift keep list and index in step: a peer is in the list of    *)
(* slot i exactly if the index sends it to a slot number that falls on i.    *)
(* In particular no peer is in two lists, and the iterator update erases     *)
(* through is one of the list it is erased from.                             *)
ListsMatchIndex ==
    \A i \in 0..size - 1 : \A p \in Peers :
        p \in slots_[i] <=> (p \in DOMAIN peers_ /\ peers_[p] % size = i)

(* No listed peer is overdue, and none is further away than one turn of the  *)
(* buffer: shift therefore never releases a peer a whole turn too early.     *)
WithinOneTurn ==
    \A p \in DOMAIN peers_ : slot_ <= peers_[p] /\ peers_[p] <= slot_ + size - 1

(* What makes the circular buffer usable as one: types, list and index in    *)
(* step, and nobody further away than a turn.                                *)
BackoffSound == TypeOK /\ ListsMatchIndex /\ WithinOneTurn

Horizon == INSTANCE BackoffHorizon WITH
    MaxHorizon <- size - 1,
    remaining <- [p \in Peers |-> get(p)]

(* The circular buffer implements the plain countdown, however updates and   *)
(* shifts are interleaved: what get answers for a peer goes up, within the   *)
(* buffer, only while all others keep theirs, and goes down only for all     *)
(* peers at once, by one heartbeat and not below zero.  By how much an       *)
(* update raises it is not said.                                             *)
CountsDown == Horizon!Spec
=============================================================================
