-------------------------------- MODULE Ping --------------------------------
(* Pings over one connection: the ping loop that runs as long as the         *)
(* connection, and single pings asked for by a caller.  A ping races its     *)
(* timer, whose handler may be queued already when the ping cancels it.      *)
EXTENDS Naturals, FiniteSets

CONSTANTS
    Loop, Callers       \* the ping loop, and callers of ping(connection)

Pingers == {Loop} \cup Callers

VARIABLES
    faithful,           \* the remote echoes, and answers the negotiation of streams
    connected,          \* the connection is open
    pc,                 \* pinger -> where its coroutine is
    stream,             \* pinger -> none, open or reset
    wire,               \* pinger -> its message: none, sent, back, or wrong
    timer,              \* pinger -> off, armed or expired (not handled yet)
    queued              \* pingers with an expired timer that outlived its ping

vars == <<faithful, connected, pc, stream, wire, timer, queued>>

-----------------------------------------------------------------------------
Init ==
    /\ faithful \in BOOLEAN
    /\ connected = TRUE
    /\ pc = [k \in Pingers |-> "yielded"]
    /\ stream = [k \in Pingers |-> "none"]
    /\ wire = [k \in Pingers |-> "none"]
    /\ timer = [k \in Pingers |-> "off"]
    /\ queued = {}

(* ping(stream, timeout): the timer starts, and the message is written       *)
begin(k) ==
    /\ pc' = [pc EXCEPT ![k] = "reading"]
    /\ timer' = [timer EXCEPT ![k] = "armed"]
    /\ wire' = [wire EXCEPT ![k] = "sent"]

(* pingLoop ends when there is no stream                                     *)
withoutStream == "ended"

(* The loop has lost its stream, or there is none yet: newStream waits for   *)
(* the remote to negotiate one, and no timer runs                            *)
newStream(k) ==
    /\ pc[k] \in {"yielded", "awake"} /\ stream[k] = "none"
    /\ pc' = [pc EXCEPT ![k] = "opening"]
    /\ UNCHANGED <<connected, stream, wire, timer, queued>>

(* newStream returns                                                         *)
opened(k, ok) ==
    /\ pc[k] = "opening"
    /\ ok => connected
    /\ faithful /\ connected => ok
    /\ IF ok
       THEN stream' = [stream EXCEPT ![k] = "open"] /\ begin(k)
       ELSE /\ pc' = [pc EXCEPT ![k] = withoutStream]
            /\ UNCHANGED <<stream, wire, timer>>
    /\ UNCHANGED <<connected, queued>>

(* The next ping of the loop on the stream it has                            *)
again(k) ==
    /\ pc[k] = "awake" /\ stream[k] # "none"
    /\ begin(k)
    /\ UNCHANGED <<connected, stream, queued>>

(* Ping::handle of the remote sends the message back; another implementation *)
(* may send something else, or nothing.                                      *)
handle(k, reply) ==
    /\ connected /\ stream[k] = "open" /\ wire[k] = "sent"
    /\ faithful => reply = "back"
    /\ wire' = [wire EXCEPT ![k] = reply]
    /\ UNCHANGED <<connected, pc, stream, timer, queued>>

Faulty_timerKept(k) == [timer EXCEPT ![k] = IF @ = "armed" THEN "armed" ELSE "off"]

(* timer.cancel(): too late for a handler that is queued                     *)
cancelled(k) == [timer EXCEPT ![k] = "off"]

(* pingLoop drops the stream of a ping that failed; a single ping closes its *)
(* stream in any case.                                                       *)
streamAfter(k, ok) == IF ok /\ k = Loop THEN stream ELSE [stream EXCEPT ![k] = "none"]

Faulty_breakOnFailure(k, ok) == IF k = Loop /\ ok THEN "sleeping" ELSE "ended"

(* The loop goes on after a ping, whether it failed or not                   *)
afterPing(k, ok) == IF k = Loop THEN "sleeping" ELSE "ended"

(* read returns: with the message, with another one, or failing because the  *)
(* stream was reset or lost                                                  *)
answered(k) ==
    LET dead == ~connected \/ stream[k] = "reset"
        ok == wire[k] = "back" /\ ~dead
    IN  /\ pc[k] = "reading"
        /\ dead \/ wire[k] \in {"back", "wrong"}
        /\ pc' = [pc EXCEPT ![k] = afterPing(k, ok)]
        /\ wire' = [wire EXCEPT ![k] = "none"]
        /\ stream' = streamAfter(k, ok)
        /\ queued' = IF timer[k] = "expired" /\ stream'[k] # "none" THEN queued \cup {k}
                     ELSE IF stream'[k] = "none" THEN queued \ {k} ELSE queued
        /\ timer' = cancelled(k)
        /\ UNCHANGED connected

(* The timer expires, and later its handler resets the stream                *)
Expire(k) ==
    /\ timer[k] = "armed" /\ timer' = [timer EXCEPT ![k] = "expired"]
    /\ UNCHANGED <<connected, pc, stream, wire, queued>>

resetBy(k) == [stream EXCEPT ![k] = IF @ = "open" THEN "reset" ELSE @]

onTimer(k) ==
    /\ timer[k] = "expired" \/ k \in queued
    /\ stream' = resetBy(k)
    /\ timer' = IF k \in queued THEN timer ELSE [timer EXCEPT ![k] = "off"]
    /\ queued' = queued \ {k}
    /\ UNCHANGED <<connected, pc, wire>>

(* The interval between two pings passes                                     *)
wake(k) ==
    /\ pc[k] = "sleeping" /\ pc' = [pc EXCEPT ![k] = "awake"]
    /\ UNCHANGED <<connected, stream, wire, timer, queued>>

(* The connection is closed                                                  *)
Close ==
    /\ connected /\ connected' = FALSE
    /\ UNCHANGED <<pc, stream, wire, timer, queued>>

Step(k) ==
    newStream(k) \/ again(k) \/ answered(k) \/ wake(k) \/ \E ok \in BOOLEAN : opened(k, ok)

(* What the coroutines do by themselves: a negotiation ends if the remote    *)
(* answers, or with the connection                                           *)
Goes(k) == Step(k) /\ (pc[k] = "opening" => faithful \/ ~connected)

Next ==
    /\ UNCHANGED faithful
    /\ \/ Close
       \/ \E k \in Pingers :
           \/ Step(k) \/ Expire(k) \/ onTimer(k)
           \/ \E reply \in {"back", "wrong"} : handle(k, reply)

Spec ==
    /\ Init /\ [][Next]_vars
    /\ \A k \in Pingers :
        /\ WF_vars(Goes(k) /\ UNCHANGED faithful)
        /\ WF_vars(onTimer(k) /\ UNCHANGED faithful)
        /\ WF_vars(Expire(k) /\ UNCHANGED faithful)

-----------------------------------------------------------------------------
(* A timer is never armed outside its ping: it is cancelled on every exit.   *)
(* Its handler may be queued by then, and still resets the stream the loop   *)
(* goes on with.                                                             *)
TimerWithinPing == \A k \in Pingers : timer[k] = "armed" => pc[k] = "reading"

(* A coroutine that ended holds no stream: the loop and every single ping    *)
(* give their streams back.                                                  *)
StreamsReturned == \A k \in Pingers : pc[k] = "ended" => stream[k] = "none"

(* Both hold for the loop and all callers, with any answers of the remote.   *)
PingSound == TimerWithinPing /\ StreamsReturned

(* A ping that has its stream ends, however silent the remote is: by its     *)
(* answer, its timer or the end of the connection.  One that has none yet    *)
(* has no timer either: it is let go when the remote answers the             *)
(* negotiation, or with the connection.                                      *)
PingEnds ==
    \A k \in Pingers :
        /\ (pc[k] = "reading") ~> (pc[k] # "reading")
        /\ (pc[k] = "opening" /\ (faithful \/ ~connected)) ~> (pc[k] # "opening")

(* The loop lets go of a connection that was closed.                         *)
LoopEnds == ~connected ~> (pc[Loop] = "ended")

(* The loop goes on pinging a connection whose remote opens streams, after   *)
(* any ping that failed.                                                     *)
PingsGoOn == faithful => [](connected => <>(pc[Loop] = "reading" \/ ~connected))
=============================================================================
