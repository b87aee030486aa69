---------------------------- MODULE VarintReader ----------------------------
(* A VarintPrefixReader fed with pieces of a byte string.                    *)
EXTENDS Varint

CONSTANTS MaxLen, MaxPiece

VARIABLES
    reader,
    state,      \* what the last consume returned
    fed         \* the bytes taken since the reset

vars == <<reader, state, fed>>

Init == reader = reset /\ state = "kUnderflow" /\ fed = << >>

Consume(s) ==
    LET c == consumeBuffer(reader, s) IN
    /\ Len(fed) + Len(s) <= MaxLen
    /\ reader' = c.reader /\ state' = c.state
    /\ fed' = fed \o SubSeq(s, 1, IF c.reader.state = "kOverflow" THEN c.reader.got - reader.got
                                  ELSE Len(s) - Len(c.rest))

Reset == reader' = reset /\ state' = "kUnderflow" /\ fed' = << >>

Next == (\E n \in 1..MaxPiece : \E s \in [1..n -> Byte] : Consume(s)) \/ Reset

Spec == Init /\ [][Next]_vars

-----------------------------------------------------------------------------
(* The number a byte string stands for, without any width                    *)
exact[n \in 0..MaxLen] ==
    IF n = 0 THEN 0 ELSE exact[n - 1] + (IF n <= Len(fed) THEN low(fed[n]) * 2 ^ (Bits * (n - 1)) ELSE 0)

(* However the bytes are cut, a reader that is ready has the very number     *)
(* they stand for and took no byte of the message behind the prefix, and  *)
(* one that reports an overflow was given a number that does not fit, or a   *)
(* continuation that no number needs.                                        *)
ReadsExactly ==
    /\ reader.state = "kReady" =>
        /\ reader.value = exact[Len(fed)] /\ exact[Len(fed)] \in Uint
        /\ ~more(fed[Len(fed)]) /\ \A i \in 1..(Len(fed) - 1) : more(fed[i])
    /\ reader.state = "kOverflow" =>
        exact[Len(fed)] \notin Uint \/ (Len(fed) = kMaxBytes /\ more(fed[kMaxBytes]))
    /\ reader.state = "kUnderflow" => Len(fed) < kMaxBytes /\ \A i \in DOMAIN fed : more(fed[i])

(* The two decoders of the library agree on what is a varint and on its      *)
(* number: UVarint over the whole string, the reader byte by byte.           *)
DecodersAgree ==
    /\ (reader.state = "kReady") <=> (calculateSize(fed) > 0)
    /\ reader.state = "kReady" => calculateSize(fed) = reader.got /\ toUInt64(create(fed)) = reader.value

(* What is encoded is read back, and no other string for the number is       *)
(* shorter than the encoder's.                                               *)
EncodesBack ==
    reader.state = "kReady" =>
        LET e == encode(reader.value) IN
        /\ consumeBuffer(reset, e) = [reader |-> [reader EXCEPT !.got = Len(e)],
                                      state |-> "kReady", rest |-> << >>]
        /\ Len(e) <= Len(fed)

=============================================================================
