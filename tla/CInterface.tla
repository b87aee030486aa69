----------------------------- MODULE CInterface -----------------------------
(* The C interface: a context with its event loop, hosts and streams behind  *)
(* pointers, and operations whose callbacks the loop calls.  Hosts and       *)
(* streams are used by the application before libp2p_context_run and by the  *)
(* callbacks inside it; libp2p_context_stop is called from any thread.       *)
EXTENDS ProtocolTable

CONSTANTS
    Hosts, Streams,     \* the wrappers that new allocates
    Seeds, NULL,        \* keypair seeds
    Index,              \* hash of a seed modulo 1000
    Names, Handlers,    \* protocol names, stream handlers of the application
    MaxOps

CAssumption == NULL \notin Seeds /\ Index \in [Seeds -> Nat]

VARIABLES
    ctx,        \* [alive, guard, running, stopped]
    run,        \* libp2p_context_run: "out", "entered", "looping"
    host,       \* [state, id, protocol_handlers, table, listening, connected]
    stream,     \* [state, host]
    ops,        \* operations in progress
    made,       \* operations made
    called,     \* the last callback
    addr,       \* the static string of libp2p_host_default_listen
    early,      \* hosts destroyed while the loop could go on with something of theirs
    stops       \* where run was when libp2p_context_stop was called, "no" before

vars == <<ctx, run, host, stream, ops, made, called, addr, early, stops>>
objects == <<host, stream, ops, made, called, addr, early>>

NoHost == [state |-> "none", id |-> 0, protocol_handlers |-> << >>, table |-> EmptyTable,
           listening |-> FALSE, connected |-> FALSE]
NoStream == [state |-> "none", host |-> NULL]
Nothing == [what |-> "none"]

(* libp2p_context_create                                                     *)
Init ==
    /\ ctx = [alive |-> TRUE, guard |-> TRUE, running |-> FALSE, stopped |-> FALSE]
    /\ run = "out" /\ stops = "no"
    /\ host = [h \in Hosts |-> NoHost] /\ stream = [s \in Streams |-> NoStream]
    /\ ops = {} /\ made = 0 /\ called = Nothing /\ addr = NULL /\ early = {}

(* The application has the thread: outside run, or in a callback of the loop *)
AppRuns == ctx.alive /\ run # "entered"
Loops == run = "looping" /\ ~ctx.stopped
Live(h) == host[h].state = "alive"
Silent == called' = Nothing

-----------------------------------------------------------------------------
(* libp2p_context_run: the flag, then the loop, then the flag again          *)
context_run ==
    /\ ctx.alive /\ run = "out"
    /\ run' = "entered" /\ ctx' = [ctx EXCEPT !.running = TRUE]
    /\ UNCHANGED <<objects, stops>>

Faulty_entered == [ctx EXCEPT !.stopped = FALSE]

(* io_context::run without restart: a stopped loop stays stopped             *)
entered == ctx

loop_starts ==
    /\ run = "entered"
    /\ run' = "looping" /\ ctx' = entered
    /\ UNCHANGED <<objects, stops>>

(* Sockets of listeners and of connections                                   *)
Reachable(h) == host[h].listening \/ host[h].connected
HasWork == ctx.guard \/ ops # {} \/ \E h \in Hosts : Reachable(h)

loop_ends ==
    /\ run = "looping" /\ (ctx.stopped \/ ~HasWork)
    /\ run' = "out" /\ ctx' = [ctx EXCEPT !.running = FALSE, !.stopped = TRUE]
    /\ UNCHANGED <<objects, stops>>

(* A handler throws, as coroSpawn does what its coroutine threw: run returns *)
(* an error and the loop is not stopped.  An operation that threw is over.   *)
loop_throws ==
    /\ Loops
    /\ run' = "out" /\ ctx' = [ctx EXCEPT !.running = FALSE]
    /\ ops' = ops \/ \E op \in ops : ops' = ops \ {op}
    /\ Silent
    /\ UNCHANGED <<host, stream, made, addr, early, stops>>

(* The connections of a host are closed                                      *)
disconnect(h) ==
    /\ Loops /\ host[h].connected
    /\ host' = [host EXCEPT ![h].connected = FALSE] /\ Silent
    /\ UNCHANGED <<ctx, run, stream, ops, made, addr, early, stops>>

(* libp2p_context_stop: the loop is stopped only if the flag says it runs    *)
stopped(c) == [c EXCEPT !.guard = FALSE, !.stopped = @ \/ c.running]

context_stop ==
    /\ ctx.alive /\ stops = "no"
    /\ ctx' = stopped(ctx) /\ stops' = run
    /\ UNCHANGED <<run, objects>>

(* libp2p_context_destroy, after its hosts as the header demands             *)
context_destroy ==
    /\ ctx.alive /\ run = "out" /\ \A h \in Hosts : ~Live(h)
    /\ ctx' = [ctx EXCEPT !.alive = FALSE, !.guard = FALSE] /\ ops' = {} /\ Silent
    /\ UNCHANGED <<run, host, stream, made, addr, early, stops>>

-----------------------------------------------------------------------------
(* libp2p_host_create: the key pair is the sample of the seed's index, of    *)
(* index 0 without a seed                                                    *)
index(seed) == IF seed = NULL THEN 0 ELSE Index[seed]

host_create(h, seed) ==
    /\ AppRuns /\ host[h].state = "none"
    /\ host' = [host EXCEPT ![h].state = "alive", ![h].id = index(seed)] /\ Silent
    /\ UNCHANGED <<ctx, run, stream, ops, made, addr, early, stops>>

(* Nothing of h can be called any more                                       *)
AtRest(h) == ctx.stopped \/ (~Reachable(h) /\ \A op \in ops : op.host # h)

(* libp2p_host_destroy, which may be called at any time: the wrapper is      *)
(* deleted, and BasicHost with its sockets if nothing else refers to it      *)
host_destroy(h) ==
    /\ AppRuns /\ Live(h)
    /\ \E referred \in BOOLEAN :
        host' = [host EXCEPT ![h].state = "freed", ![h].listening = @ /\ referred,
                             ![h].connected = @ /\ referred]
    /\ early' = IF AtRest(h) THEN early ELSE early \cup {h}
    /\ Silent
    /\ UNCHANGED <<ctx, run, stream, ops, made, addr, stops>>

(* libp2p_host_start and libp2p_host_listen                                  *)
host_listen(h) ==
    /\ AppRuns /\ Live(h) /\ ~host[h].listening
    /\ host' = [host EXCEPT ![h].listening = TRUE] /\ Silent
    /\ UNCHANGED <<ctx, run, stream, ops, made, addr, early, stops>>

(* libp2p_host_register_protocol: the map of the wrapper is overwritten, the *)
(* table of the listener is not                                              *)
register_protocol(h, name, f) ==
    /\ AppRuns /\ Live(h)
    /\ host' = [host EXCEPT
                    ![h].protocol_handlers = (name :> f) @@ @,
                    ![h].table = emplace(@, {name}, f)]
    /\ Silent
    /\ UNCHANGED <<ctx, run, stream, ops, made, addr, early, stops>>

(* libp2p_host_default_listen: a static string takes the host's address      *)
default_listen(h) ==
    /\ AppRuns /\ Live(h) /\ host[h].listening
    /\ addr' = h /\ Silent
    /\ UNCHANGED <<ctx, run, host, stream, ops, made, early, stops>>

-----------------------------------------------------------------------------
(* An operation is spawned on the context                                    *)
spawn(op) ==
    /\ AppRuns /\ made < MaxOps
    /\ made' = made + 1 /\ ops' = ops \cup {op} /\ Silent
    /\ UNCHANGED <<ctx, run, host, stream, addr, early, stops>>

host_dial(h) == Live(h) /\ spawn([n |-> made, kind |-> "dial", host |-> h])
host_new_stream(h) == Live(h) /\ spawn([n |-> made, kind |-> "new_stream", host |-> h])
stream_io(s) ==
    stream[s].state # "none" /\ Live(stream[s].host)
    /\ spawn([n |-> made, kind |-> "io", host |-> stream[s].host, stream |-> s])

Done(op) == Loops /\ op \in ops /\ ops' = ops \ {op}
Calls(c) == called' = c /\ UNCHANGED <<ctx, run, made, addr, early, stops>>

(* A connection of h may be there now                                        *)
connects(h, ok) == [host EXCEPT ![h].connected = @ \/ ok]

(* The connection attempt is over: "Always report the requested peer id"     *)
dialled(op, ok) ==
    /\ op.kind = "dial" /\ Done(op)
    /\ Calls([what |-> "dial", host |-> op.host, ok |-> ok, peer |-> "requested"])
    /\ host' = connects(op.host, ok)
    /\ UNCHANGED stream

(* A wrapper is allocated for a stream of host h                             *)
wrap(s, h) ==
    stream[s].state = "none" /\ stream' = [stream EXCEPT ![s] = [state |-> "open", host |-> h]]

streamMade(op, s) ==
    /\ op.kind = "new_stream" /\ Done(op) /\ wrap(s, op.host)
    /\ Calls([what |-> "new_stream", host |-> op.host, stream |-> s])
    /\ host' = connects(op.host, TRUE)

(* newStream connects to the peer first                                      *)
streamFailed(op, connected) ==
    /\ op.kind = "new_stream" /\ Done(op)
    /\ Calls([what |-> "new_stream", host |-> op.host, stream |-> NULL])
    /\ host' = connects(op.host, connected)
    /\ UNCHANGED stream

(* A read or a write is over; on a closed stream it fails                    *)
transferred(op, ok) ==
    /\ op.kind = "io" /\ Done(op) /\ (ok => stream[op.stream].state = "open")
    /\ Calls([what |-> "io", host |-> op.host, stream |-> op.stream, ok |-> ok])
    /\ UNCHANGED <<host, stream>>

(* GenericProtocolHandler::handle for an inbound stream                      *)
handle(h, name, s) ==
    /\ Loops /\ Reachable(h) /\ name \in DOMAIN host[h].table /\ wrap(s, h)
    /\ Calls([what |-> "handler", host |-> h, stream |-> s, name |-> name,
              handler |-> host[h].table[name]])
    /\ UNCHANGED <<host, ops>>

(* libp2p_stream_close: the stream is closed, the wrapper stays              *)
closed(s) == [stream EXCEPT ![s].state = "closed"]
stream_close(s) ==
    /\ AppRuns /\ stream[s].state = "open" /\ stream' = closed(s) /\ Silent
    /\ UNCHANGED <<ctx, run, host, ops, made, addr, early, stops>>

-----------------------------------------------------------------------------
Context ==
    context_run \/ loop_starts \/ loop_ends \/ loop_throws \/ context_stop \/ context_destroy
Calling ==
    \/ \E h \in Hosts :
        \/ \E seed \in Seeds \cup {NULL} : host_create(h, seed)
        \/ host_destroy(h) \/ host_listen(h) \/ default_listen(h)
        \/ host_dial(h) \/ host_new_stream(h)
        \/ \E n \in Names, f \in Handlers : register_protocol(h, n, f)
    \/ \E s \in Streams : stream_io(s) \/ stream_close(s)
Answer(op) ==
    \/ \E ok \in BOOLEAN : dialled(op, ok) \/ transferred(op, ok) \/ streamFailed(op, ok)
    \/ \E s \in Streams : streamMade(op, s)
Remote ==
    \E h \in Hosts : disconnect(h) \/ \E n \in Names, s \in Streams : handle(h, n, s)

Next == Context \/ Calling \/ Remote \/ \E op \in ops : Answer(op)

Spec == Init /\ [][Next]_vars
(* The loop goes on while it is not stopped                                  *)
FairSpec == Spec /\ WF_vars(loop_starts) /\ WF_vars(loop_ends)

-----------------------------------------------------------------------------
(* A callback is given a host that was destroyed only if it was destroyed    *)
(* with something left for the loop to go on with: while the loop was not    *)
(* stopped, and an operation, a listener or a connection of it was there.    *)
(* A loop that was stopped never goes on with what is left, although run may *)
(* be called again; one that run left by an exception does.                  *)
LiveHandles == called # Nothing => Live(called.host) \/ called.host \in early

(* A stop that comes once run has set its flag makes                      *)
(* libp2p_context_run return, whatever hosts listen and whatever operations  *)
(* are in progress.                                                          *)
StopReturns == (run # "out" /\ stops \in {"entered", "looping"}) ~> (run = "out")

(* libp2p_c.h: the loop's stop "Signals the context's event loop to stop,    *)
(* causing libp2p_context_run() to return", and is "thread-safe and can be   *)
(* called from signal handlers or other threads".  A stop just before run    *)
(* has set its flag only drops the work guard.                               *)
StopAlwaysReturns == (run # "out" /\ stops # "no") ~> (run = "out")
=============================================================================
