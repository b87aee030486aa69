----------------------------- MODULE ByteQueue -----------------------------
(* What a ReadBuffer promises: bytes come out in the order they went in,     *)
(* each once, as many as were asked for or as there are.                     *)
EXTENDS Naturals, FiniteSets, Sequences

CONSTANTS Bytes, MaxAdd, MaxOut

VARIABLES queue, out, last

(* The bytes given to the queue count through Bytes                          *)
given(n) == [i \in 1..n |-> (last + i) % Cardinality(Bytes)]

(* k bytes of s come out, or all of them                                     *)
Serve(s, k) ==
    LET n == IF k < Len(s) THEN k ELSE Len(s) IN
    out' = SubSeq(s, 1, n) /\ queue' = SubSeq(s, n + 1, Len(s))

Init == queue = << >> /\ out = << >> /\ last = 0

(* n bytes go in, then up to k come out                                      *)
Pass(n, k) == Serve(queue \o given(n), k) /\ last' = (last + n) % Cardinality(Bytes)
Clear == queue' = << >> /\ out' = << >> /\ UNCHANGED last

Next == (\E n \in 0..MaxAdd, k \in 0..MaxOut : Pass(n, k)) \/ Clear

Spec == Init /\ [][Next]_<<queue, out, last>>

=============================================================================
