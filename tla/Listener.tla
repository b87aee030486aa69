------------------------------ MODULE Listener ------------------------------
(* The listeners of a host: ListenerManager's table of TransportListeners,   *)
(* QuicListener with its engine, and the coroutine that accepts connections  *)
(* from each.  Coroutines spawned before io_context::run are posted, later   *)
(* ones run at once until they wait.                                         *)
EXTENDS Integers, FiniteSets, Sequences, Functions

CONSTANTS
    Listeners,          \* TransportListener objects, created by listen
    Addresses,          \* addresses listen is called with
    Supported,          \* those a transport can listen on
    Anywhere,           \* those that leave the port to the system
    MaxArrivals         \* inbound connections of one listener

ListenerAssumption == Supported \subseteq Addresses /\ MaxArrivals \in Nat

VARIABLES
    orderly,            \* listen and start precede run, and handshakes succeed
    running,            \* within io_context::run
    started,
    listeners_,         \* address -> listener
    server_,            \* listener -> the address its engine is bound to
    loop,               \* listener -> its accept coroutine
    conn_signal_,       \* listener -> results that wait in the engine's channel
    arrived,            \* listener -> inbound connections so far
    cancelled,          \* listener -> handlers of its channel that are about to throw
    crashed

vars == <<orderly, running, started, listeners_, server_, loop, conn_signal_, arrived,
          cancelled, crashed>>

-----------------------------------------------------------------------------
NoServer == <<"closed">>
Bound(l, a) == IF a \in Anywhere THEN <<"interface", l>> ELSE <<"address", a>>
Interfaces == {<<"interface", l>> : l \in Listeners} \cup {<<"address", a>> : a \in Addresses}

Created == {l \in Listeners : loop[l] # "none"}
isClosed(l) == server_[l] = NoServer

Drop(f, S) == Restrict(f, DOMAIN f \ S)

Init ==
    /\ orderly \in BOOLEAN
    /\ running = FALSE /\ started = FALSE /\ crashed = FALSE
    /\ listeners_ = << >>
    /\ server_ = [l \in Listeners |-> NoServer]
    /\ loop = [l \in Listeners |-> "none"]
    /\ conn_signal_ = [l \in Listeners |-> << >>]
    /\ arrived = [l \in Listeners |-> 0]
    /\ cancelled = [l \in Listeners |-> 0]

(* QuicListener::listen: the system refuses an address that is bound         *)
canBind(l, a) == isClosed(l) /\ \A k \in Listeners : server_[k] # Bound(l, a)

(* The accept coroutine of a new listener, which looks for an engine before  *)
(* there is one if it does not wait for io_context::run                      *)
spawned == IF running THEN "ended" ELSE "posted"

(* TransportManager::findBest finds a transport                              *)
findBest(a) == a \in Supported

(* ListenerManager::listen                                                   *)
listen(a) ==
    /\ findBest(a) /\ a \notin DOMAIN listeners_
    /\ orderly => ~running
    /\ \E l \in Listeners \ Created :
        /\ loop' = [loop EXCEPT ![l] = spawned]
        /\ IF started /\ ~canBind(l, a)
           THEN UNCHANGED <<listeners_, server_>>
           ELSE /\ listeners_' = [x \in DOMAIN listeners_ \cup {a} |->
                                     IF x = a THEN l ELSE listeners_[x]]
                /\ server_' = IF started THEN [server_ EXCEPT ![l] = Bound(l, a)] ELSE server_
    /\ UNCHANGED <<running, started, conn_signal_, arrived, cancelled, crashed>>

(* ListenerManager::start: a listener that cannot listen is dropped.         *)
start ==
    LET ok == {a \in DOMAIN listeners_ : canBind(listeners_[a], a)} IN
    /\ ~started /\ started' = TRUE
    /\ orderly => ~running
    /\ listeners_' = Restrict(listeners_, ok)
    /\ server_' = [l \in Listeners |->
          IF \E a \in ok : listeners_[a] = l
          THEN Bound(l, CHOOSE a \in ok : listeners_[a] = l) ELSE server_[l]]
    /\ UNCHANGED <<running, loop, conn_signal_, arrived, cancelled, crashed>>

(* A result that a waiting coroutine was given, and has not resumed with     *)
handed(l) ==
    IF loop[l] = "waiting" /\ conn_signal_[l] # << >> THEN <<Head(conn_signal_[l])>> ELSE << >>

(* It waits, and was given none                                              *)
idle(l) == loop[l] = "waiting" /\ handed(l) = << >>

(* QuicListener::close destroys the engine with its channel.  That cancels   *)
(* the receive of a coroutine that waits, which ends it by an exception, and *)
(* every send that no receive has met, whose handler throws one.             *)
closed(S) ==
    /\ server_' = [l \in Listeners |-> IF l \in S THEN NoServer ELSE server_[l]]
    /\ conn_signal_' = [l \in Listeners |-> IF l \in S THEN handed(l) ELSE conn_signal_[l]]
    /\ loop' = [l \in Listeners |-> IF l \in S /\ idle(l) THEN "ended" ELSE loop[l]]
    /\ cancelled' = [l \in Listeners |->
          IF l \in S THEN cancelled[l] + Len(conn_signal_[l]) - Len(handed(l))
                          + (IF idle(l) THEN 1 ELSE 0)
          ELSE cancelled[l]]

(* What stop leaves in started                                               *)
stopped == FALSE

(* ListenerManager::stop                                                     *)
stop ==
    /\ started /\ started' = stopped
    /\ closed(Range(listeners_))
    /\ UNCHANGED <<running, listeners_, arrived, crashed>>

(* closeListener finds a listener by the address it was created with ...     *)
closeListener(a) ==
    /\ a \in DOMAIN listeners_
    /\ listeners_' = Drop(listeners_, {a})
    /\ closed({listeners_[a]})
    /\ UNCHANGED <<running, started, arrived, crashed>>

(* ... or by the address it is bound to, and then erases the iterator of the *)
(* search that failed.                                                       *)
closeInterface(i) ==
    /\ \E a \in DOMAIN listeners_ : server_[listeners_[a]] = i
    /\ \A a \in DOMAIN listeners_ : i # <<"address", a>>
    /\ crashed' = TRUE
    /\ UNCHANGED <<running, started, listeners_, server_, loop, conn_signal_, arrived, cancelled>>

(* removeListener does not close                                             *)
removeListener(a) ==
    /\ a \in DOMAIN listeners_
    /\ listeners_' = Drop(listeners_, {a})
    /\ UNCHANGED <<running, started, server_, loop, conn_signal_, arrived, cancelled, crashed>>

(* io_context::run; in an orderly program after start, and once              *)
Run ==
    /\ ~running /\ running' = TRUE
    /\ orderly => started /\ \A l \in Listeners : loop[l] \in {"none", "posted"}
    /\ UNCHANGED <<started, listeners_, server_, loop, conn_signal_, arrived, cancelled, crashed>>

Faulty_waitsAnyway(l) == "waiting"

(* What a posted accept coroutine does first: asyncAccept fails without an   *)
(* engine, and the loop ends with the first failure                          *)
firstAccept(l) == IF isClosed(l) THEN "ended" ELSE "waiting"

LoopStart(l) ==
    /\ running /\ loop[l] = "posted"
    /\ loop' = [loop EXCEPT ![l] = firstAccept(l)]
    /\ UNCHANGED <<running, started, listeners_, server_, conn_signal_, arrived>>
    /\ UNCHANGED <<cancelled, crashed>>

(* A handler that was cancelled throws, and run is left by the exception     *)
Throw(l) ==
    /\ running /\ cancelled[l] > 0
    /\ running' = FALSE /\ cancelled' = [cancelled EXCEPT ![l] = @ - 1]
    /\ UNCHANGED <<started, listeners_, server_, loop, conn_signal_, arrived, crashed>>

(* on_hsk_done of an inbound connection: Engine::onConnection                *)
Handshake(l, ok) ==
    /\ running /\ ~isClosed(l) /\ arrived[l] < MaxArrivals
    /\ orderly => ok
    /\ conn_signal_' = [conn_signal_ EXCEPT ![l] = Append(@, ok)]
    /\ arrived' = [arrived EXCEPT ![l] = @ + 1]
    /\ UNCHANGED <<running, started, listeners_, server_, loop, cancelled, crashed>>

(* The accept loop takes a result: a connection goes to onConnection, and    *)
(* the next one is waited for, if there is an engine; an error ends the loop *)
Accept(l) ==
    /\ running /\ loop[l] = "waiting" /\ conn_signal_[l] # << >>
    /\ conn_signal_' = [conn_signal_ EXCEPT ![l] = Tail(@)]
    /\ loop' = [loop EXCEPT ![l] = IF Head(conn_signal_[l]) THEN firstAccept(l) ELSE "ended"]
    /\ UNCHANGED <<running, started, listeners_, server_, arrived, cancelled, crashed>>

Next ==
    /\ ~crashed /\ UNCHANGED orderly
    /\ \/ \E a \in Addresses : listen(a) \/ closeListener(a) \/ removeListener(a)
       \/ \E i \in Interfaces : closeInterface(i)
       \/ start \/ stop \/ Run
       \/ \E l \in Listeners :
           LoopStart(l) \/ Accept(l) \/ Throw(l) \/ \E ok \in BOOLEAN : Handshake(l, ok)

(* The coroutines run.                                                       *)
Coroutine(l) == (LoopStart(l) \/ Accept(l)) /\ UNCHANGED orderly

Spec == Init /\ [][Next]_vars /\ \A l \in Listeners : WF_vars(Coroutine(l))

-----------------------------------------------------------------------------
(* The members have their types, and every listed listener was created.      *)
TypeOK ==
    /\ {orderly, running, started, crashed} \subseteq BOOLEAN
    /\ DOMAIN listeners_ \subseteq Supported /\ Range(listeners_) \subseteq Created
    /\ server_ \in [Listeners -> {NoServer} \cup Interfaces]
    /\ loop \in [Listeners -> {"none", "posted", "waiting", "ended"}]
    /\ conn_signal_ \in [Listeners -> Seq(BOOLEAN)]
    /\ arrived \in [Listeners -> 0..MaxArrivals] /\ cancelled \in [Listeners -> Nat]

(* The listed listeners are open while the manager is started, and closed    *)
(* while it is not, over any sequence of listen, close, start and stop.      *)
OpenIffStarted == \A a \in DOMAIN listeners_ : ~isClosed(listeners_[a]) <=> started

(* A coroutine waits for connections only where there is an engine, unless   *)
(* it was given one before the engine was destroyed, and a listener is       *)
(* listed under one address.                                                 *)
WaitsAtServer ==
    /\ \A l \in Listeners : loop[l] = "waiting" => ~isClosed(l) \/ conn_signal_[l] # << >>
    /\ \A a, b \in DOMAIN listeners_ : listeners_[a] = listeners_[b] => a = b

(* All three hold over any calls of listen, start, stop, close and remove    *)
(* and any arrivals.                                                         *)
ListenersSound == TypeOK /\ OpenIffStarted /\ WaitsAtServer

(* Every connection whose handshake is done is accepted, unless its listener *)
(* is closed or run is left: the listener "will react to every new           *)
(* connection".                                                              *)
AcceptsAll ==
    \A l \in Listeners :
        (conn_signal_[l] # << >>) ~> (conn_signal_[l] = << >> \/ ~running \/ crashed)

(* So it is in a program that listens before it runs, if no handshake fails. *)
OrderlyAcceptsAll ==
    \A l \in Listeners :
        (orderly /\ conn_signal_[l] # << >>) ~> (conn_signal_[l] = << >> \/ ~running \/ crashed)
=============================================================================
