----------------------------- MODULE ReadBuffer -----------------------------
(* A buffer of fragments: bytes are appended to the last fragment while it   *)
(* has room, taken from the first one, and a fragment is kept for reuse.     *)
EXTENDS Integers, FiniteSets, Sequences, SequencesExt

CONSTANTS
    Bytes, MaxAdd, MaxOut,
    alloc_granularity_,
    MaxSize,            \* bytes in the buffer
    MaxFragment         \* bytes in a fragment, used ones included

BufferAssumption ==
    /\ alloc_granularity_ \in Nat \ {0}
    /\ {MaxAdd, MaxOut, MaxSize, MaxFragment} \subseteq Nat

VARIABLES
    fragments_,         \* sequence of [data, capacity]
    total_size_, first_byte_offset_, capacity_remains_,
    out,                \* what the last call copied out
    last                \* the last byte given to the buffer

vars == <<fragments_, total_size_, first_byte_offset_, capacity_remains_, out, last>>

-----------------------------------------------------------------------------
Buffer == [f |-> fragments_, size |-> total_size_, offset |-> first_byte_offset_,
           room |-> capacity_remains_, out |-> << >>]
Becomes(b) ==
    /\ fragments_' = b.f /\ total_size_' = b.size /\ first_byte_offset_' = b.offset
    /\ capacity_remains_' = b.room /\ out' = b.out

Empty == [f |-> << >>, size |-> 0, offset |-> 0, room |-> 0, out |-> << >>]
Init == fragments_ = << >> /\ total_size_ = 0 /\ first_byte_offset_ = 0 /\ capacity_remains_ = 0
        /\ out = << >> /\ last = 0

(* The bytes that were added and not consumed                                *)
Contents(b) ==
    LET all == FlattenSeq([i \in DOMAIN b.f |-> b.f[i].data]) IN SubSeq(all, b.offset + 1, Len(all))

(* capacity_remains_ after an add                                            *)
roomAfter(b, s) == IF b.room >= Len(s) THEN b.room - Len(s) ELSE alloc_granularity_

(* ReadBuffer::add: the last fragment has room for all, is enlarged, or a    *)
(* new fragment is made                                                      *)
add(b, s) ==
    LET k == Len(b.f)
        back == b.f[k]
        larger == Len(back.data) + Len(s) + alloc_granularity_
        cap == IF b.room >= Len(s) \/ larger < back.capacity THEN back.capacity ELSE larger
    IN  IF s = << >> THEN b
        ELSE [b EXCEPT
                !.f = IF b.room > 0
                      THEN [@ EXCEPT ![k] = [data |-> back.data \o s, capacity |-> cap]]
                      ELSE Append(@, [data |-> s, capacity |-> Len(s) + alloc_granularity_]),
                !.room = roomAfter(b, s),
                !.size = @ + Len(s)]

(* Fragments "not too large to avoid further allocations"                    *)
reusable(b) == {i \in DOMAIN b.f : b.f[i].capacity <= 2 * alloc_granularity_}

(* consumeAll: everything is copied out, and the first such fragment is      *)
(* kept, empty                                                               *)
consumeAll(b) ==
    LET small == reusable(b)
        kept == b.f[CHOOSE i \in small : \A j \in small : i <= j]
    IN  IF small = {} THEN [Empty EXCEPT !.out = b.out \o Contents(b)]
        ELSE [f |-> <<[data |-> << >>, capacity |-> kept.capacity]>>, size |-> 0, offset |-> 0,
              room |-> kept.capacity, out |-> b.out \o Contents(b)]

(* first_byte_offset_ once a fragment is used up                             *)
offsetAfter(b, n) == IF n < Len(b.f[1].data) - b.offset THEN b.offset + n ELSE 0

(* consumePart: the first fragment, or n bytes of it                         *)
consumePart(b, n) ==
    LET avail == Len(b.f[1].data) - b.offset
        k == IF n > avail THEN avail ELSE n
    IN  [b EXCEPT
            !.out = @ \o SubSeq(b.f[1].data, b.offset + 1, b.offset + k),
            !.offset = offsetAfter(b, k),
            !.f = IF k < avail THEN @ ELSE Tail(@)]

RECURSIVE consumeParts(_, _)
consumeParts(b, n) ==
    IF n = 0 THEN b
    ELSE LET c == consumePart(b, n)
         IN consumeParts(c, n - (Len(c.out) - Len(b.out)))

(* ReadBuffer::consume                                                       *)
consume(b, n) ==
    IF b.size = 0 THEN b
    ELSE IF n >= b.size THEN consumeAll(b)
    ELSE [consumeParts(b, n) EXCEPT !.size = @ - n]

(* ReadBuffer::addAndConsume on an empty buffer                              *)
direct(b, s, n) ==
    IF Len(s) <= n THEN [b EXCEPT !.out = @ \o s]
    ELSE LET c == add(b, SubSeq(s, n + 1, Len(s))) IN [c EXCEPT !.out = @ \o SubSeq(s, 1, n)]

Faulty_restLost(b, s, n) ==
    IF s = << >> THEN consume(b, n)
    ELSE IF n = 0 THEN add(b, s)
    ELSE IF b.size = 0 THEN direct(b, s, n)
    ELSE IF n <= b.size THEN add(consume(b, n), s) ELSE consumeAll(b)

(* ReadBuffer::addAndConsume: what is buffered comes out first               *)
addAndConsume(b, s, n) ==
    IF s = << >> THEN consume(b, n)
    ELSE IF n = 0 THEN add(b, s)
    ELSE IF b.size = 0 THEN direct(b, s, n)
    ELSE IF n <= b.size THEN add(consume(b, n), s)
    ELSE direct(consumeAll(b), s, n - b.size)

(* The bytes given to the buffer count through Bytes                         *)
piece(n) == [i \in 1..n |-> (last + i) % Cardinality(Bytes)]
Fits(b) == b.size <= MaxSize /\ \A i \in DOMAIN b.f : Len(b.f[i].data) <= MaxFragment
Given(n) == last' = (last + n) % Cardinality(Bytes)

Add(n) == LET b == add(Buffer, piece(n)) IN Fits(b) /\ Becomes(b) /\ Given(n)
Consume(n) == Becomes(consume(Buffer, n)) /\ UNCHANGED last
AddAndConsume(n, k) ==
    LET b == addAndConsume(Buffer, piece(n), k) IN Fits(b) /\ Becomes(b) /\ Given(n)
clear == Becomes(Empty) /\ UNCHANGED last

Next ==
    \/ \E n \in 0..MaxAdd : Add(n) \/ \E k \in 0..MaxOut : AddAndConsume(n, k)
    \/ \E n \in 0..MaxOut : Consume(n)
    \/ clear

Spec == Init /\ [][Next]_vars

-----------------------------------------------------------------------------
(* The counters describe the fragments: total_size_ is what is left in them, *)
(* the room in the last fragment is really allocated, and no fragment in     *)
(* front is used up, over any sequence of calls.                             *)
Consistent ==
    /\ total_size_ = Len(Contents(Buffer))
    /\ fragments_ = << >> => first_byte_offset_ = 0 /\ capacity_remains_ = 0
    /\ fragments_ # << >> =>
        LET l == Last(fragments_) IN Len(l.data) + capacity_remains_ <= l.capacity
    /\ total_size_ > 0 => Len(fragments_[1].data) > first_byte_offset_

(* An emptied buffer keeps at most one fragment of bounded capacity.         *)
MemoryBounded ==
    total_size_ = 0 => fragments_ = << >>
                       \/ (Len(fragments_) = 1 /\ fragments_[1].capacity <= 2 * alloc_granularity_)

(* The buffer is a queue of bytes.                                           *)
Queue == INSTANCE ByteQueue WITH queue <- Contents(Buffer)
QueueSpec == Queue!Spec

=============================================================================
