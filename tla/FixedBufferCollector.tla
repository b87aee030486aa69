------------------------ MODULE FixedBufferCollector ------------------------
(* Collects a message of an expected size from the pieces of a stream.  The  *)
(* bytes of the stream count through 0..Values-1.                            *)
EXTENDS Naturals, Sequences

CONSTANTS Sizes, Values, MaxPiece, memory_threshold_

CollectorAssumption ==
    Sizes \subseteq Nat /\ Values \in Nat \ {0} /\ {MaxPiece, memory_threshold_} \subseteq Nat

VARIABLES
    expected_size_, buffer_, capacity,
    data,       \* the piece of the stream that is not used yet
    end,        \* the byte after it in the stream
    asked,      \* the size given to expect, until it is returned
    start,      \* the byte the collector was at when expect was called
    ret         \* what add returned

vars == <<expected_size_, buffer_, capacity, data, end, asked, start, ret>>

None == << >>            \* std::nullopt; a value v is <<v>>
Front == IF data = << >> THEN end ELSE data[1]
stream(b, n) == [i \in 1..n |-> (b + i - 1) % Values]
Drop(s, n) == SubSeq(s, n + 1, Len(s))

Init ==
    /\ expected_size_ = 0 /\ buffer_ = << >> /\ capacity = 0
    /\ data = << >> /\ end = 0 /\ asked = None /\ start = 0 /\ ret = None

(* A piece arrives                                                           *)
Arrives(n) ==
    /\ data = << >>
    /\ data' = stream(end, n) /\ end' = (end + n) % Values /\ ret' = None
    /\ UNCHANGED <<expected_size_, buffer_, capacity, asked, start>>

(* The memory is given back if it is large and mostly not needed             *)
frees(size) == capacity > memory_threshold_ /\ size < (capacity * 3) \div 4

expect(size) ==
    /\ expected_size_' = size /\ buffer_' = << >>
    /\ capacity' = IF frees(size) THEN 0 ELSE capacity
    /\ asked' = <<size>> /\ start' = Front /\ ret' = None
    /\ UNCHANGED <<data, end>>

(* Enough for the message and nothing collected: the piece is only split     *)
split ==
    /\ ret' = <<SubSeq(data, 1, expected_size_)>> /\ data' = Drop(data, expected_size_)
    /\ expected_size_' = 0
    /\ UNCHANGED <<buffer_, capacity>>

Faulty_unread == expected_size_

unread == expected_size_ - Len(buffer_)

(* Up to unread bytes are collected                                          *)
collect ==
    LET n == IF Len(data) >= unread THEN unread ELSE Len(data)
        b == buffer_ \o SubSeq(data, 1, n)
    IN  /\ capacity' = IF buffer_ = << >> /\ capacity < expected_size_ THEN expected_size_ ELSE capacity
        /\ buffer_' = b /\ data' = Drop(data, n)
        /\ ret' = IF n = unread /\ unread > 0 THEN <<b>> ELSE None
        /\ UNCHANGED expected_size_

add ==
    /\ IF buffer_ = << >> /\ Len(data) >= expected_size_ THEN split ELSE collect
    /\ asked' = IF ret' = None THEN asked ELSE None
    /\ UNCHANGED <<end, start>>

(* reset frees the buffer whatever its size                                  *)
reset ==
    /\ expected_size_' = 0 /\ buffer_' = << >> /\ capacity' = 0 /\ ret' = None /\ asked' = None
    /\ UNCHANGED <<data, end, start>>

Next == add \/ (\E n \in 1..MaxPiece : Arrives(n)) \/ (\E s \in Sizes : expect(s)) \/ reset

Spec == Init /\ [][Next]_vars

-----------------------------------------------------------------------------
(* What add returns for a message that was asked for is the very stretch of  *)
(* the stream that follows the expect, whether it came in one piece or was   *)
(* collected; and nothing is returned twice: without an expect between, add  *)
(* never again returns a byte.                                               *)
ReturnsStretch ==
    add /\ ret' # None =>
     IF asked = None THEN ret' = <<<< >>>>
     ELSE ret' = <<stream(start, asked[1])>>

(* No byte of the stream is lost or used twice: what was collected for the   *)
(* message and what is left of the piece are consecutive.                    *)
Consecutive ==
    asked # None => buffer_ \o data = stream(start, Len(buffer_) + Len(data))

(* An expect leaves no memory above the threshold that the message does not  *)
(* mostly use, after messages of any sizes.                                  *)
GivesBack ==
    \A s \in Sizes : expect(s) => capacity' <= memory_threshold_ \/ s >= (capacity' * 3) \div 4

=============================================================================
