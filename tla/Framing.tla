------------------------------ MODULE Framing ------------------------------
(* Length prefixed messages written to a stream in parts, sent back by the   *)
(* Echo protocol as it reads them, and read again in parts.                  *)
EXTENDS Varint

CONSTANTS
    Sizes,              \* of messages
    MaxMessages,
    max_size,           \* of readVarintMessage
    max_recv_size, max_server_repeats,      \* EchoConfig
    MayFail             \* whether the connection may break

FramingAssumption ==
    /\ Sizes \subseteq Uint /\ MayFail \in BOOLEAN
    /\ {MaxMessages, max_size, max_server_repeats} \subseteq Nat /\ max_recv_size \in Nat \ {0}

VARIABLES
    sent,       \* the messages writeVarintMessage was called with
    writing,    \* what is left of them: prefix and payload are written apart
    up, down,   \* bytes on the way to the server and back
    echo,       \* doRead: [pc, buf, max_repeat]
    reading,    \* readVarintMessage: [pc, varint, size, message]
    received,
    result,     \* how the last read ended
    alive       \* the connection

vars == <<sent, writing, up, down, echo, reading, received, result, alive>>
client == <<sent, writing>>
reader == <<reading, received, result>>

-----------------------------------------------------------------------------
newRead == [pc |-> "prefix", varint |-> reset, size |-> 0, message |-> << >>]

Init ==
    /\ sent = << >> /\ writing = << >> /\ up = << >> /\ down = << >>
    /\ echo = [pc |-> "read", buf |-> << >>, max_repeat |-> max_server_repeats]
    /\ reading = newRead /\ received = << >> /\ result = "none" /\ alive = TRUE

payload(i, n) == [j \in 1..n |-> (3 * i + j) % 2 ^ (Bits + 1)]
NonEmpty(parts) == SelectSeq(parts, LAMBDA p : p # << >>)
Drop(s, n) == SubSeq(s, n + 1, Len(s))
Take(s, n) == SubSeq(s, 1, n)

(* writeVarintMessage: the length, then the message                          *)
frame(m) == NonEmpty(<<encode(Len(m)), m>>)

writeVarintMessage(n) ==
    LET m == payload(Len(sent), n) IN
    /\ alive /\ writing = << >> /\ Len(sent) < MaxMessages
    /\ sent' = Append(sent, m) /\ writing' = frame(m)
    /\ UNCHANGED <<up, down, echo, reader, alive>>

Faulty_left(s, n) == << >>

(* in.subspan(n)                                                             *)
left(s, n) == Drop(s, n)

(* write: the stream takes n bytes of what is left                           *)
writeSome(n) ==
    /\ alive /\ writing # << >> /\ n \in DOMAIN writing[1]
    /\ up' = up \o Take(writing[1], n)
    /\ writing' = NonEmpty([writing EXCEPT ![1] = left(@, n)])
    /\ UNCHANGED <<sent, down, echo, reader, alive>>

-----------------------------------------------------------------------------
(* Echo::doRead reads what there is, up to max_recv_size                     *)
echoRead(n) ==
    /\ alive /\ echo.pc = "read" /\ n \in DOMAIN up /\ n <= max_recv_size
    /\ echo' = [echo EXCEPT !.pc = "write", !.buf = Take(up, n)]
    /\ up' = Drop(up, n)
    /\ UNCHANGED <<client, down, reader, alive>>

Faulty_roundDone(e) == [e EXCEPT !.pc = "read"]

(* A buffer is written: the next round, or stop                              *)
roundDone(e) ==
    LET k == IF max_server_repeats = 0 THEN 0 ELSE e.max_repeat - 1 IN
    [e EXCEPT !.max_repeat = k,
              !.pc = IF max_server_repeats = 0 \/ k # 0 THEN "read" ELSE "stopped"]

echoWrite(n) ==
    LET rest == Drop(echo.buf, n) IN
    /\ alive /\ echo.pc = "write" /\ n \in DOMAIN echo.buf
    /\ down' = down \o Take(echo.buf, n)
    /\ echo' = LET e == [echo EXCEPT !.buf = rest] IN IF rest = << >> THEN roundDone(e) ELSE e
    /\ UNCHANGED <<client, up, reader, alive>>

(* A read or a write of the server fails                                     *)
echoFails ==
    /\ ~alive /\ echo.pc # "stopped"
    /\ echo' = [echo EXCEPT !.pc = "stopped"]
    /\ UNCHANGED <<client, up, down, reader, alive>>

-----------------------------------------------------------------------------
Ended(r, v) ==
    result' = r /\ reading' = [reading EXCEPT !.pc = "done", !.varint = v] /\ UNCHANGED received
Continues(rd) == reading' = rd /\ UNCHANGED <<received, result>>
Received(m) == received' = Append(received, m) /\ reading' = newRead /\ result' = "ok"

(* size > max_size is refused                                                *)
accepts(size) == size <= max_size

(* readVarint reads one byte more; with the last one the size is judged      *)
readVarint ==
    LET v == consume(reading.varint, down[1]) IN
    /\ alive /\ reading.pc = "prefix" /\ down # << >>
    /\ down' = Tail(down)
    /\ CASE v.state = "kUnderflow" -> Continues([reading EXCEPT !.varint = v])
         [] v.state = "kOverflow" -> Ended("DECODE_SIZE", v)
         [] v.state = "kReady" ->
            IF ~accepts(v.value) THEN Ended("MESSAGE_TOO_LONG", v)
            ELSE IF v.value = 0 THEN Received(<< >>)
            ELSE Continues([reading EXCEPT !.pc = "message", !.varint = v, !.size = v.value])
    /\ UNCHANGED <<client, up, echo, alive>>

(* read of the message                                                       *)
readSome(n) ==
    LET m == reading.message \o Take(down, n) IN
    /\ alive /\ reading.pc = "message"
    /\ n \in DOMAIN down /\ Len(m) <= reading.size
    /\ down' = Drop(down, n)
    /\ IF Len(m) = reading.size THEN Received(m)
       ELSE Continues([reading EXCEPT !.message = m])
    /\ UNCHANGED <<client, up, echo, alive>>

(* The stream ends under a read: the error of the stream is passed on        *)
readFails ==
    /\ reading.pc # "done" /\ (~alive \/ (echo.pc = "stopped" /\ down = << >>))
    /\ Ended("STREAM_CLOSED", reading.varint)
    /\ UNCHANGED <<client, up, down, echo, alive>>

(* The connection breaks                                                     *)
Break == MayFail /\ alive /\ alive' = FALSE /\ UNCHANGED <<client, up, down, echo, reader>>

LargestPart == 2 ^ Width
Steps ==
    \/ \E n \in 1..LargestPart : writeSome(n) \/ echoRead(n) \/ echoWrite(n) \/ readSome(n)
    \/ echoFails \/ readVarint \/ readFails

Next == (\E n \in Sizes : writeVarintMessage(n)) \/ Steps \/ Break

Spec == Init /\ [][Next]_vars
FairSpec == Spec /\ WF_vars(Steps)

-----------------------------------------------------------------------------
(* Whatever parts the stream takes and gives, what is received are the       *)
(* messages that were sent, whole and in order; a prefix never decodes to    *)
(* nothing, and a message is refused as too long only if it is.              *)
FramesKept ==
    /\ IsPrefix(received, sent)
    /\ result # "DECODE_SIZE"
    /\ result = "MESSAGE_TOO_LONG" => Len(sent[Len(received) + 1]) > max_size

(* No buffer larger than max_size is made for a message, whatever size the   *)
(* prefix announces.                                                         *)
AllocationBounded == reading.size <= max_size

(* The server answers everything it has read before it stops, and reads at   *)
(* most max_server_repeats times.                                            *)
EchoComplete ==
    LET total == FlattenSeq([i \in DOMAIN sent |-> FlattenSeq(frame(sent[i]))])
        got == Len(total) - Len(FlattenSeq(writing)) - Len(up)
    IN  /\ alive /\ echo.pc = "stopped" => max_server_repeats # 0 /\ echo.buf = << >>
        /\ max_server_repeats # 0 => got <= max_recv_size * max_server_repeats

(* On a connection that does not break, and with a server that repeats for   *)
(* ever, every message comes back, or is the first one that is too long.     *)
AllReturn ==
    \A k \in 1..MaxMessages :
        (Len(sent) >= k) ~> (Len(received) >= k \/ result = "MESSAGE_TOO_LONG")
=============================================================================
