-------------------------- MODULE ConnectionManager --------------------------
(* The life of a connection above the transport: ListenerManager hands an    *)
(* established connection to onConnection, which starts the loop that        *)
(* accepts its streams and lists it with ConnectionManager; the loop reports *)
(* the end of the connection; the host may close all connections to a peer.  *)
(* ConnectionManager publishes the events by which Gossip, Ping and Identify *)
(* know the connected peers, and BasicHost answers from its table whether a  *)
(* peer is connected.  All steps run on one io_context, so a step is what    *)
(* runs between two suspensions.                                             *)
EXTENDS Integers, Functions

CONSTANTS
    Peers,       \* remote peer ids
    Conns,       \* connection objects
    remotePeer,  \* the peer a connection was authenticated for
    MaxStreams,  \* bound on inbound streams waiting in stream_signal_
    Addresses,
    Dialable     \* addresses that some transport can dial

ASSUME ConnectionAssumption ==
    /\ remotePeer \in [Conns -> Peers]
    /\ MaxStreams \in Nat
    /\ Dialable \subseteq Addresses

VARIABLES
    connections_,  \* ConnectionManager: peer -> set of connections
    net,           \* transport state of a connection; "closed" is isClosed()
    loop,          \* where the stream loop of onConnection stands
    streams,       \* inbound streams waiting in stream_signal_
    known,         \* peers announced by OnNewConnection, not yet by PeerDisconnected
    closedEvents   \* OnConnectionClosed events published for a connection

vars == <<connections_, net, loop, streams, known, closedEvents>>

-----------------------------------------------------------------------------
(* The table of connections.                                                 *)

Listed(tbl, c) ==
    remotePeer[c] \in DOMAIN tbl /\ c \in tbl[remotePeer[c]]

(* addConnectionToPeer                                                       *)
With(tbl, c) ==
    [p \in DOMAIN tbl \cup {remotePeer[c]} |->
        IF p # remotePeer[c] THEN tbl[p]
        ELSE {c} \cup (IF p \in DOMAIN tbl THEN tbl[p] ELSE {})]

(* onConnectionClosed: forget the connection, and with the last one the peer *)
Without(tbl, c) ==
    LET p == remotePeer[c]
    IN  CASE p \notin DOMAIN tbl -> tbl
          [] p \in DOMAIN tbl /\ tbl[p] \subseteq {c} -> Restrict(tbl, DOMAIN tbl \ {p})
          [] OTHER -> [tbl EXCEPT ![p] = @ \ {c}]

-----------------------------------------------------------------------------
Init ==
    /\ connections_ = [p \in {} |-> {}]
    /\ net = [c \in Conns |-> "none"]
    /\ loop = [c \in Conns |-> "none"]
    /\ streams = [c \in Conns |-> 0]
    /\ known = {}
    /\ closedEvents = [c \in Conns |-> 0]

(* The events onConnectionClosed publishes for c, given the table before.    *)
PublishClosed(c) ==
    /\ closedEvents' = IF Listed(connections_, c)
                       THEN [closedEvents EXCEPT ![c] = @ + 1]
                       ELSE closedEvents
    /\ known' = IF /\ remotePeer[c] \in DOMAIN connections_
                   /\ connections_[remotePeer[c]] \subseteq {c}
                THEN known \ {remotePeer[c]}
                ELSE known

onConnectionClosed(c) ==
    /\ connections_' = Without(connections_, c)
    /\ PublishClosed(c)

addConnectionToPeer(c) ==
    /\ connections_' = With(connections_, c)
    /\ known' = known \cup {remotePeer[c]}
    /\ UNCHANGED closedEvents

(* onConnection: the loop is spawned first and runs at once.  If the         *)
(* connection is open it waits for a stream, and the connection is listed.   *)
onConnectionOpen(c) ==
    /\ loop' = [loop EXCEPT ![c] = "accept"]
    /\ addConnectionToPeer(c)

(* onConnection for a connection that closed while it waited in conn_signal_:*)
(* the loop ends before the connection is listed.                            *)
onConnectionDead(c) ==
    /\ loop' = [loop EXCEPT ![c] = "done"]
    /\ connections_' = With(Without(connections_, c), c)
    /\ closedEvents' = IF Listed(connections_, c)
                       THEN [closedEvents EXCEPT ![c] = @ + 1]
                       ELSE closedEvents
    /\ known' = known \cup {remotePeer[c]}

Faulty_EndUnreported(c) ==
    /\ loop' = [loop EXCEPT ![c] = IF net[c] = "closed" THEN "done" ELSE "accept"]
    /\ UNCHANGED <<connections_, known, closedEvents>>

(* The stream loop goes back to its condition.                               *)
LoopTop(c) ==
    IF net[c] = "closed"
    THEN loop' = [loop EXCEPT ![c] = "done"] /\ onConnectionClosed(c)
    ELSE /\ loop' = [loop EXCEPT ![c] = "accept"]
         /\ UNCHANGED <<connections_, known, closedEvents>>

-----------------------------------------------------------------------------

(* Inbound handshake done: on_hsk_done sends the connection to conn_signal_. *)
Handshake(c) ==
    /\ net[c] = "none"
    /\ net' = [net EXCEPT ![c] = "open"]
    /\ loop' = [loop EXCEPT ![c] = "signalled"]
    /\ UNCHANGED <<connections_, streams, known, closedEvents>>

(* The accept loop of the listener takes the connection from conn_signal_.   *)
Accept(c) ==
    /\ loop[c] = "signalled"
    /\ \/ net[c] # "closed" /\ onConnectionOpen(c)
       \/ net[c] = "closed" /\ onConnectionDead(c)
    /\ UNCHANGED <<net, streams>>

(* Outbound handshake done: the dialer's coroutine is resumed inside         *)
(* on_hsk_done and calls onConnection.                                       *)
Dialled(c) ==
    /\ net[c] = "none"
    /\ net' = [net EXCEPT ![c] = "open"]
    /\ onConnectionOpen(c)
    /\ UNCHANGED streams

(* on_new_stream: the remote opens a stream.                                 *)
onStream(c) ==
    /\ net[c] = "open"
    /\ streams[c] < MaxStreams
    /\ streams' = [streams EXCEPT ![c] = @ + 1]
    /\ UNCHANGED <<connections_, net, loop, known, closedEvents>>

(* acceptStream returns a stream; selectOneOf starts.                        *)
AcceptStream(c) ==
    /\ loop[c] = "accept"
    /\ streams[c] > 0
    /\ streams' = [streams EXCEPT ![c] = @ - 1]
    /\ loop' = [loop EXCEPT ![c] = "negotiate"]
    /\ UNCHANGED <<connections_, net, known, closedEvents>>

(* acceptStream returns a stream and no protocol is served.                  *)
RefuseStream(c) ==
    /\ loop[c] = "accept"
    /\ streams[c] > 0
    /\ streams' = [streams EXCEPT ![c] = @ - 1]
    /\ LoopTop(c)
    /\ UNCHANGED net

(* selectOneOf is over; the stream went to its protocol or was reset.        *)
Negotiated(c) ==
    /\ loop[c] = "negotiate"
    /\ LoopTop(c)
    /\ UNCHANGED <<net, streams>>

(* acceptStream returns the error onClose put into stream_signal_.           *)
AcceptStreamFails(c) ==
    /\ loop[c] = "accept"
    /\ net[c] = "closed"
    /\ streams[c] = 0
    /\ LoopTop(c)
    /\ UNCHANGED <<net, streams>>

(* on_conn_closed: the remote or a timeout ended the connection, or close()  *)
(* takes effect.                                                             *)
onClose(c) ==
    /\ net[c] \in {"open", "closing"}
    /\ net' = [net EXCEPT ![c] = "closed"]
    /\ UNCHANGED <<connections_, loop, streams, known, closedEvents>>

Faulty_NoPeerDisconnected(p) ==
    /\ p \in DOMAIN connections_
    /\ net' = [c \in Conns |-> IF c \in connections_[p] /\ net[c] = "open"
                               THEN "closing" ELSE net[c]]
    /\ closedEvents' = [c \in Conns |-> IF c \in connections_[p]
                                        THEN closedEvents[c] + 1
                                        ELSE closedEvents[c]]
    /\ connections_' = Restrict(connections_, DOMAIN connections_ \ {p})
    /\ UNCHANGED <<loop, streams, known>>

(* Host::disconnect.  close() of a connection only asks the transport, so    *)
(* nothing calls back before the function returns and count(p) is 0.         *)
closeConnectionsToPeer(p) ==
    /\ p \in DOMAIN connections_
    /\ net' = [c \in Conns |-> IF c \in connections_[p] /\ net[c] = "open"
                               THEN "closing" ELSE net[c]]
    /\ closedEvents' = [c \in Conns |-> IF c \in connections_[p]
                                        THEN closedEvents[c] + 1
                                        ELSE closedEvents[c]]
    /\ connections_' = Restrict(connections_, DOMAIN connections_ \ {p})
    /\ known' = known \ {p}
    /\ UNCHANGED <<loop, streams>>

Next ==
    \/ \E c \in Conns :
        \/ Handshake(c) \/ Accept(c) \/ Dialled(c)
        \/ onStream(c) \/ AcceptStream(c) \/ RefuseStream(c)
        \/ Negotiated(c) \/ AcceptStreamFails(c) \/ onClose(c)
    \/ \E p \in Peers : closeConnectionsToPeer(p)

(* The io_context runs every posted handler, a closing connection is closed  *)
(* by the transport, and the streams of a closed connection fail.            *)
Fairness ==
    \A c \in Conns :
        /\ WF_vars(Accept(c))
        /\ WF_vars(AcceptStream(c) \/ RefuseStream(c))
        /\ WF_vars(AcceptStreamFails(c))
        /\ WF_vars(net[c] = "closed" /\ Negotiated(c))
        /\ WF_vars(net[c] = "closing" /\ onClose(c))

Spec == Init /\ [][Next]_vars /\ Fairness

-----------------------------------------------------------------------------
(* What BasicHost tells of a peer; its addresses are those of the PeerInfo   *)
(* the caller has and those the address repository has at that moment.       *)

Faulty_getBestConnectionForPeer(p) == p \in DOMAIN connections_

(* A listed connection that is not closed                                    *)
getBestConnectionForPeer(p) ==
    p \in DOMAIN connections_ /\ \E c \in connections_[p] : net[c] # "closed"

findBest(a) == a \in Dialable

(* BasicHost::connectedness for a PeerInfo with these addresses              *)
connectedness(p, addresses, stored) ==
    IF getBestConnectionForPeer(p) THEN "CONNECTED"
    ELSE IF \E a \in addresses \cup stored : findBest(a) THEN "CAN_CONNECT"
    ELSE "CAN_NOT_CONNECT"

-----------------------------------------------------------------------------
(* The members have the types the classes declare.                           *)
TypeOK ==
    /\ DOMAIN connections_ \subseteq Peers
    /\ connections_ \in [DOMAIN connections_ -> SUBSET Conns]
    /\ net \in [Conns -> {"none", "open", "closing", "closed"}]
    /\ loop \in [Conns -> {"none", "signalled", "accept", "negotiate", "done"}]
    /\ streams \in [Conns -> 0..MaxStreams]
    /\ known \in SUBSET Peers
    /\ closedEvents \in [Conns -> Nat]

(* A peer is in the table only with a connection: the branch "inconsistency: *)
(* iterator and no peers" of closeConnectionsToPeer is dead.                 *)
NoEmptyEntry == \A p \in DOMAIN connections_ : connections_[p] # {}

(* Subscribers that add a peer on OnNewConnection and drop it on             *)
(* PeerDisconnected (Gossip::start) hold exactly the peers of the table,     *)
(* whichever of onConnectionClosed and closeConnectionsToPeer comes first.   *)
SubscribersAgree == known = DOMAIN connections_

(* A connection gets one OnConnectionClosed, by the report of its loop or by *)
(* closeConnectionsToPeer, never by both, and is gone from the table then.   *)
ClosedOnce ==
    \A c \in Conns :
        /\ closedEvents[c] <= 1
        /\ closedEvents[c] = 1 => ~Listed(connections_, c)

(* A connection is listed under the peer it was authenticated for, and only  *)
(* after onConnection started its loop.                                      *)
ListedWithLoop ==
    \A p \in DOMAIN connections_ : \A c \in connections_[p] :
        remotePeer[c] = p /\ loop[c] \notin {"none", "signalled"}

(* No open connection is lost: as long as its stream loop runs and nobody    *)
(* asked to close it, getConnectionsToPeer returns it.                       *)
OpenConnListed ==
    \A c \in Conns :
        net[c] = "open" /\ loop[c] \in {"accept", "negotiate"} => Listed(connections_, c)

(* The table, the stream loops and the events tell the same story, in every  *)
(* order of handshakes, closes, reports of loops and calls of the user.      *)
TableSound ==
    /\ TypeOK /\ NoEmptyEntry /\ ListedWithLoop
    /\ SubscribersAgree /\ ClosedOnce /\ OpenConnListed

(* "CONNECTED: we have at least one connection to this peer" is the truth,   *)
(* whatever addresses are known: the host says so exactly of the peers with  *)
(* an open connection that was accepted or dialled, also after disconnect,   *)
(* after a connection that died before it was accepted, and while a closed   *)
(* one is still listed.                                                      *)
ConnectedIsTrue ==
    \A p \in Peers, addresses, stored \in SUBSET Addresses :
        connectedness(p, addresses, stored) = "CONNECTED" <=>
            \E c \in Conns : /\ remotePeer[c] = p /\ net[c] = "open"
                             /\ loop[c] \in {"accept", "negotiate"}

(* A connection whose loop was running when it closed leaves the table.      *)
ClosedConnReaped ==
    \A c \in Conns :
        (Listed(connections_, c) /\ net[c] = "closed" /\ loop[c] # "done")
            ~> ~Listed(connections_, c)
=============================================================================
