--------------------------- MODULE MCConnections ---------------------------
(* A host's connections and its listeners, side by side: `part` says which   *)
(* of the two moves, since they share no state.                              *)
(*  - host: two peers; the first can have two connections at a time or one   *)
(*    after the other, which is where events of an old and a new one cross;  *)
(*  - listener: two listeners, one on a port the system chooses.             *)
EXTENDS ConnectionProofs, TLC

CONSTANTS p1, p2, c1, c2, c3, Parts

VARIABLE part

MCRemotePeer == c1 :> p1 @@ c2 :> p1 @@ c3 :> p2

ASSUME MCListenerAssumption == L!ListenerAssumption

lstVars == <<orderly, running, started, listeners_, server_, acceptLoop, conn_signal_,
             arrived, cancelled, crashed>>
mcVars == <<part, vars, lstVars>>

MCInit == part \in Parts /\ Init /\ L!Init /\ (part # "listener" => orderly)

MCNext ==
    /\ UNCHANGED part
    /\ \/ part = "host" /\ Next /\ UNCHANGED lstVars
       \/ part = "listener" /\ L!Next /\ UNCHANGED vars

(* Fairness, and ConnectionManager's own, of the part that moves             *)
MCSpec ==
    /\ MCInit /\ [][MCNext]_mcVars
    /\ \A l \in Listeners : WF_lstVars(part = "listener" /\ L!Coroutine(l))
    /\ \A c \in Conns :
        /\ WF_vars(part = "host" /\ Accept(c))
        /\ WF_vars(part = "host" /\ (AcceptStream(c) \/ RefuseStream(c)))
        /\ WF_vars(part = "host" /\ AcceptStreamFails(c))
        /\ WF_vars(part = "host" /\ net[c] = "closed" /\ Negotiated(c))
        /\ WF_vars(part = "host" /\ net[c] = "closing" /\ onClose(c))

-----------------------------------------------------------------------------
(* What has to happen.                                                       *)

(* A connection is taken over and let go: every handshake that is done is    *)
(* accepted, in a program that listens before it runs and as long as no      *)
(* handshake fails, its listener stays open and run is not left, and a       *)
(* connection that closes while its stream loop runs leaves the table.       *)
ConnectionsHandled == ClosedConnReaped /\ L!OrderlyAcceptsAll

(* Every handshake that is done is accepted, unless its listener is closed   *)
(* or run is left: the listener "will react to every new connection"         *)
(* (transport_listener.hpp).                                                 *)
AcceptsAll == L!AcceptsAll
=============================================================================
