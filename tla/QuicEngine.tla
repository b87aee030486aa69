----------------------------- MODULE QuicEngine -----------------------------
(* The engine of the QUIC transport with one dialled connection and its      *)
(* streams: when lsquic is called, what its callbacks do, and the coroutines *)
(* that wait in readSome and writeSome.  lsquic calls back only from         *)
(* process_conns.  A coroutine resumed by a callback runs inside it until it *)
(* waits again: what it does are the operations taken while resumed.         *)
EXTENDS Integers, FiniteSets, Sequences, Functions

CONSTANTS
    Streams,
    MaxOpen            \* streams the remote lets us have open

VARIABLES
    conn,              \* none, handshake, open, closing or closed
    connecting,        \* ConnCtx::connecting holds the callback of connect
    answers,           \* calls of that callback
    ls_stream,         \* stream -> none, pending, open, closing or closed
    held,              \* streams whose QuicStream object exists
    reading, writing,  \* streams with a coroutine waiting
    data,              \* streams with something to read
    buffered,          \* streams with written data lsquic was not told to send
    flag,              \* streams whose StreamCtx::want_flush is set
    want_flush_, want_process_,
    inConns,           \* inside lsquic_engine_process_conns
    resumed,           \* ... and a coroutine runs
    crashed

vars == <<conn, connecting, answers, ls_stream, held, reading, writing, data, buffered,
          flag, want_flush_, want_process_, inConns, resumed, crashed>>
connVars == <<conn, connecting, answers>>
waitVars == <<reading, writing, data>>
flushVars == <<buffered, flag, want_flush_, want_process_>>

-----------------------------------------------------------------------------
Init ==
    /\ conn = "none" /\ connecting = FALSE /\ answers = 0
    /\ ls_stream = [s \in Streams |-> "none"]
    /\ held = {} /\ reading = {} /\ writing = {} /\ data = {} /\ buffered = {} /\ flag = {}
    /\ want_flush_ = << >> /\ want_process_ = FALSE
    /\ inConns = FALSE /\ resumed = FALSE
    /\ crashed = FALSE

CanRun == ~crashed /\ (inConns => resumed)
Alive(s) == ls_stream[s] \in {"open", "closing"}
hasCtx(s) == s \in held /\ Alive(s)

(* Engine::connect: lsquic_engine_connect calls on_new_conn, or fails        *)
connect ==
    /\ CanRun /\ conn = "none"
    /\ \/ conn' = "handshake" /\ connecting' = TRUE /\ UNCHANGED answers
       \/ conn' = "closed" /\ answers' = answers + 1 /\ UNCHANGED connecting
    /\ want_process_' = TRUE
    /\ UNCHANGED <<ls_stream, held, waitVars, buffered, flag, want_flush_, inConns, resumed, crashed>>

(* Engine::newStream: lsquic opens the stream in the call, or later          *)
newStream(s) ==
    /\ CanRun /\ conn = "open" /\ ls_stream[s] = "none"
    /\ \A t \in Streams : ls_stream[t] # "pending"
    /\ IF Cardinality({t \in Streams : Alive(t)}) < MaxOpen
       THEN /\ ls_stream' = [ls_stream EXCEPT ![s] = "open"]
            /\ held' = held \cup {s}
       ELSE /\ ls_stream' = [ls_stream EXCEPT ![s] = "pending"]
            /\ UNCHANGED held
    /\ UNCHANGED <<connVars, waitVars, flushVars, inConns, resumed, crashed>>

(* QuicStream::readSome                                                      *)
readSome(s) ==
    /\ CanRun /\ hasCtx(s) /\ s \notin reading
    /\ IF s \in data THEN data' = data \ {s} /\ UNCHANGED reading
       ELSE /\ ls_stream[s] = "open"
            /\ reading' = reading \cup {s} /\ UNCHANGED data
    /\ UNCHANGED <<connVars, ls_stream, held, writing, flushVars, inConns, resumed,
                   crashed>>

(* Engine::wantFlush                                                         *)
wantFlush(s) ==
    /\ flag' = flag \cup {s}
    /\ IF s \in held \ flag
       THEN want_flush_' = Append(want_flush_, s) /\ want_process_' = TRUE
       ELSE UNCHANGED <<want_flush_, want_process_>>

(* QuicStream::writeSome: lsquic takes the data, has no room, or refuses     *)
writeSome(s) ==
    /\ CanRun /\ hasCtx(s) /\ s \notin writing
    /\ wantFlush(s)
    /\ \/ ls_stream[s] = "open" /\ buffered' = buffered \cup {s} /\ UNCHANGED writing
       \/ ls_stream[s] = "open" /\ writing' = writing \cup {s} /\ UNCHANGED buffered
       \/ ls_stream[s] = "closing" /\ UNCHANGED <<buffered, writing>>
    /\ UNCHANGED <<connVars, ls_stream, held, reading, data, inConns, resumed, crashed>>

(* QuicStream::reset, and the destructor when nobody waits in the stream     *)
reset(s, drop) ==
    /\ CanRun /\ s \in held
    /\ drop \/ Alive(s)
    /\ drop => s \notin reading \cup writing
    /\ held' = IF drop THEN held \ {s} ELSE held
    /\ ls_stream' = [ls_stream EXCEPT ![s] = IF @ = "open" THEN "closing" ELSE @]
    /\ UNCHANGED <<connVars, waitVars, flushVars, inConns, resumed, crashed>>

(* QuicConnection::close                                                     *)
close ==
    /\ CanRun /\ conn = "open" /\ conn' = "closing"
    /\ UNCHANGED <<connecting, answers, ls_stream, held, waitVars, flushVars, inConns, resumed, crashed>>

-----------------------------------------------------------------------------
(* Packets arrive: readLoop, which ends in process                           *)
readLoop(s) ==
    /\ ~crashed /\ ~inConns
    /\ ls_stream[s] = "open" /\ s \notin data /\ data' = data \cup {s}
    /\ UNCHANGED <<connVars, ls_stream, held, reading, writing, flushVars, inConns, resumed, crashed>>

Faulty_forgetFlag(S) == flag

(* The flags process clears, of the streams it flushes                       *)
flushed(S) == flag \ S

(* Engine::process, posted by wantProcess, or by the timer or a packet.  The *)
(* stream_ctx_ of a stream that was closed after wantFlush is null.          *)
process ==
    LET alive == Range(want_flush_) \cap held IN
    /\ ~crashed /\ ~inConns
    /\ want_process_' = FALSE /\ want_flush_' = << >>
    /\ IF \E s \in alive : ~Alive(s)
       THEN /\ crashed' = TRUE /\ UNCHANGED <<buffered, flag, inConns>>
       ELSE /\ flag' = flushed(alive)
            /\ buffered' = buffered \ alive
            /\ inConns' = TRUE
            /\ UNCHANGED crashed
    /\ UNCHANGED <<connVars, ls_stream, held, waitVars, resumed>>

(* process_conns returns; a later timer or packet calls process again        *)
EndConns ==
    /\ inConns /\ inConns' = FALSE /\ resumed' = FALSE
    /\ UNCHANGED <<connVars, ls_stream, held, waitVars, flushVars, crashed>>

Callback == ~crashed /\ inConns

(* What is left of ConnCtx::connecting once its callback is taken            *)
taken == FALSE

(* on_hsk_done of a dial: the remote is who was dialled, or it is closed     *)
on_hsk_done(ok) ==
    /\ Callback /\ conn = "handshake" /\ connecting
    /\ connecting' = taken /\ answers' = answers + 1
    /\ conn' = IF ok THEN "open" ELSE "closing"
    /\ resumed' = TRUE
    /\ UNCHANGED <<ls_stream, held, waitVars, flushVars, inConns, crashed>>

Faulty_silentClose == answers

(* The callback of a dial that is not answered yet                           *)
answerClosed == IF connecting THEN answers + 1 ELSE answers

(* on_conn_closed, after the streams; before the handshake is done when that *)
(* takes too long                                                            *)
on_conn_closed ==
    /\ Callback /\ conn \in {"handshake", "closing"}
    /\ \A s \in Streams : ~Alive(s)
    /\ conn' = "closed"
    /\ answers' = answerClosed
    /\ connecting' = FALSE
    /\ ls_stream' = [s \in Streams |-> IF ls_stream[s] = "pending" THEN "none" ELSE ls_stream[s]]
    /\ resumed' = TRUE
    /\ UNCHANGED <<held, waitVars, flushVars, inConns, crashed>>

(* The connection ends: the remote closes it, or the idle timeout does       *)
ConnEnds ==
    /\ Callback /\ conn = "open" /\ conn' = "closing" /\ resumed' = FALSE
    /\ UNCHANGED <<connecting, answers, ls_stream, held, waitVars, flushVars, inConns,
                   crashed>>

(* on_new_stream outside of newStream: a stream of the remote, or one of     *)
(* ours that had to wait; both go to acceptStream.                           *)
on_new_stream(s) ==
    /\ Callback /\ conn = "open"
    /\ ls_stream[s] \in {"none", "pending"}
    /\ ls_stream[s] = "pending" => Cardinality({t \in Streams : Alive(t)}) < MaxOpen
    /\ ls_stream' = [ls_stream EXCEPT ![s] = "open"]
    /\ held' = held \cup {s}
    /\ resumed' = TRUE
    /\ UNCHANGED <<connVars, waitVars, flushVars, inConns, crashed>>

(* on_read: the coroutine reads again, and gets data                         *)
on_read(s) ==
    /\ Callback /\ s \in reading /\ s \in data
    /\ reading' = reading \ {s} /\ data' = data \ {s} /\ resumed' = TRUE
    /\ UNCHANGED <<connVars, ls_stream, held, writing, flushVars, inConns, crashed>>

(* on_write: the coroutine writes again, and there is room                   *)
on_write(s) ==
    /\ Callback /\ s \in writing /\ ls_stream[s] = "open"
    /\ writing' = writing \ {s} /\ buffered' = buffered \cup {s}
    /\ wantFlush(s)
    /\ resumed' = TRUE
    /\ UNCHANGED <<connVars, ls_stream, held, reading, data, inConns, crashed>>

(* The coroutines left waiting when a stream is closed                       *)
unblocked(s) == [reading |-> reading \ {s}, writing |-> writing \ {s}]

(* on_close: both coroutines are resumed, then the stream loses its context. *)
(* A writer calls wantFlush once more before it sees that it failed; a       *)
(* reader may go on to write.                                                *)
on_close(s) ==
    /\ Callback /\ Alive(s) /\ (ls_stream[s] = "closing" \/ conn = "closing")
    /\ \/ s \in reading \cup writing /\ wantFlush(s)
       \/ s \notin writing /\ UNCHANGED <<flag, want_flush_, want_process_>>
    /\ reading' = unblocked(s).reading /\ writing' = unblocked(s).writing
    /\ ls_stream' = [ls_stream EXCEPT ![s] = "closed"]
    /\ buffered' = buffered \ {s} /\ data' = data \ {s}
    /\ resumed' = TRUE
    /\ UNCHANGED <<connVars, held, inConns, crashed>>

Next ==
    \/ connect \/ close \/ process \/ EndConns \/ on_conn_closed \/ ConnEnds
    \/ \E ok \in BOOLEAN : on_hsk_done(ok)
    \/ \E s \in Streams :
        \/ newStream(s) \/ readSome(s) \/ writeSome(s) \/ readLoop(s)
        \/ \E drop \in BOOLEAN : reset(s, drop)
        \/ on_new_stream(s) \/ on_read(s) \/ on_write(s) \/ on_close(s)

(* process is posted, or its timer runs as long as there is a connection;    *)
(* lsquic serves what is ready, and ends a handshake by its timeout.         *)
Spec ==
    /\ Init /\ [][Next]_vars
    /\ WF_vars(process) /\ WF_vars(EndConns)
    /\ SF_vars(on_conn_closed)
    /\ \A s \in Streams : SF_vars(on_read(s)) /\ SF_vars(on_write(s)) /\ SF_vars(on_close(s))

-----------------------------------------------------------------------------
(* The members have their types.                                             *)
TypeOK ==
    /\ conn \in {"none", "handshake", "open", "closing", "closed"}
    /\ ls_stream \in [Streams -> {"none", "pending", "open", "closing", "closed"}]
    /\ UNION {held, reading, writing, data, buffered, flag} \subseteq Streams
    /\ Range(want_flush_) \subseteq Streams
    /\ IsInjective(want_flush_)

(* The callback of connect is called once: by the handshake, by its failure, *)
(* or by the end of the connection, whichever comes first.                   *)
AnsweredOnce ==
    /\ answers <= 1
    /\ answers = 0 <=> conn = "none" \/ (conn = "handshake" /\ connecting)

(* Written data is on its way: its stream is queued to be flushed, and       *)
(* process is posted.                                                        *)
FlushPending ==
    ~crashed => \A s \in buffered \cap held : s \in Range(want_flush_) /\ want_process_

(* No coroutine waits in a stream that has lost its context, where nothing   *)
(* would resume it.                                                          *)
WaitersServed == \A s \in reading \cup writing : Alive(s) /\ s \in held

(* A dial is answered once, written data is queued to be sent, and no        *)
(* coroutine waits where nothing would resume it.                            *)
EngineSound == TypeOK /\ AnsweredOnce /\ FlushPending /\ WaitersServed

(* A dial returns, and every coroutine that waits in a stream that is closed *)
(* is resumed.                                                               *)
ConnectReturns == (conn = "handshake") ~> (answers > 0)
ClosedResumes ==
    \A s \in Streams :
        (s \in reading \cup writing /\ ls_stream[s] = "closing")
            ~> (s \notin reading \cup writing \/ crashed)

(* Engine::process skips a stream whose lsquic stream is gone, as its check  *)
(* of ls_stream is there to do: it does not dereference a null pointer.      *)
ProcessSkipsClosed == ~crashed
=============================================================================
