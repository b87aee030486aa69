------------------------------- MODULE Varint -------------------------------
(* Variable length integers: the encoders, the byte by byte reader and the   *)
(* decoder of a whole string.  A byte has Bits bits and a continuation flag, *)
(* an integer Width bits; the code has 7, 64 and at most 10 bytes.           *)
EXTENDS Integers, Sequences, SequencesExt

CONSTANTS Bits, Width

(* "just because 64 == 9*7 + 1"                                              *)
VarintAssumption == {Bits, Width} \subseteq Nat \ {0} /\ Width % Bits = 1 % Bits

kMaxBytes == (Width + Bits - 1) \div Bits
Byte == 0..(2 ^ (Bits + 1) - 1)
Uint == 0..(2 ^ Width - 1)

more(b) == b >= 2 ^ Bits
low(b) == b % 2 ^ Bits

-----------------------------------------------------------------------------
(* The groups of n, low ones first                                           *)
groups[n \in Uint] ==
    IF n < 2 ^ Bits THEN <<n>> ELSE <<low(n)>> \o groups[n \div 2 ^ Bits]

(* EncodeVarint and UVarint(number): all groups but the last have the flag   *)
encode(n) ==
    LET g == groups[n] IN [i \in DOMAIN g |-> IF i < Len(g) THEN g[i] + 2 ^ Bits ELSE g[i]]

(* VarintPrefixReader                                                        *)
reset == [value |-> 0, state |-> "kUnderflow", got |-> 0]

Faulty_overflows(b) == more(b)

(* What the last byte may not have: more than the bit that is left           *)
overflows(b) == low(b) > 1 \/ more(b)

(* VarintPrefixReader::consume(byte): the reader after it                    *)
consume(r, b) ==
    LET got == r.got + 1 IN
    IF r.state # "kUnderflow" THEN r
    ELSE IF got = kMaxBytes /\ overflows(b) THEN [r EXCEPT !.state = "kOverflow", !.got = got]
    ELSE [value |-> (r.value + low(b) * 2 ^ (Bits * (got - 1))) % 2 ^ Width,
          state |-> IF more(b) THEN "kUnderflow" ELSE "kReady",
          got |-> got]

(* and what the call returns                                                 *)
returned(r, b) == IF r.state = "kReady" THEN "kError" ELSE consume(r, b).state

(* VarintPrefixReader::consume(buffer): up to the first byte that is not     *)
(* answered kUnderflow; the buffer is cut on success only                    *)
consumeBuffer(r, s) ==
    LET after(i) == FoldLeft(consume, r, SubSeq(s, 1, i))
        answer(i) == returned(after(i - 1), s[i])
        stops == {i \in DOMAIN s : answer(i) # "kUnderflow"}
        n == IF stops = {} THEN Len(s) ELSE CHOOSE i \in stops : \A j \in stops : i <= j
        st == IF s = << >> THEN r.state ELSE answer(n)
    IN  [reader |-> after(n), state |-> st,
         rest |-> IF st \in {"kReady", "kUnderflow"} THEN SubSeq(s, n + 1, Len(s)) ELSE s]

(* slice << shift >> shift == slice, in Width bits                           *)
shiftFits(b, i) ==
    LET shift == Bits * (i - 1) IN
    shift < Width /\ ((low(b) * 2 ^ shift) % 2 ^ Width) \div 2 ^ shift = low(b)

(* UVarint::calculateSize: 0 when there is no varint at the front            *)
calculateSize(s) ==
    LET stop == {i \in DOMAIN s : ~shiftFits(s[i], i) \/ ~more(s[i])}
        i == CHOOSE j \in stop : \A k \in stop : j <= k
    IN  IF stop # {} /\ shiftFits(s[i], i) THEN i ELSE 0

(* UVarint::create, and its number                                           *)
create(s) == SubSeq(s, 1, calculateSize(s))
toUInt64(s) ==
    FoldLeft(LAMBDA v, i : (v + low(s[i]) * 2 ^ (Bits * (i - 1))) % 2 ^ Width, 0,
             [i \in 1..Len(s) |-> i])

=============================================================================
