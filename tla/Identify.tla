------------------------------ MODULE Identify ------------------------------
(* The identify exchange over every connection: the remote answers on a      *)
(* stream of its own with what it is at that moment, and recv_identify       *)
(* stores the answer in the repositories.                                    *)
EXTENDS PeerRepository

CONSTANTS
    Conns, PeerOf,     \* connections, and who is at the other end
    RecentlyConnected  \* peer::ttl::kRecentlyConnected

IdentifyAssumption == PeerOf \in [Conns -> Peers] /\ RecentlyConnected \in Ttls

VARIABLES
    offers,            \* peer -> what it would answer now
    recv,              \* connection -> where recv_identify is
    stream,            \* connection -> none, open or reset
    answer,            \* connection -> the message on its way
    published          \* connections whose message was published -> when

exchangeVars == <<offers, recv, stream, answer, published>>
vars == <<storeVars, exchangeVars>>

-----------------------------------------------------------------------------
(* An Identify message; badAddress: an address that does not parse           *)
Messages ==
    [protocols : SUBSET Protocols, listen : Lists, agent : Agents, badAddress : BOOLEAN]

NoMessage == [protocols |-> {}, listen |-> << >>, agent |-> "none", badAddress |-> TRUE]

Init ==
    /\ StoreInit
    /\ offers \in [Peers -> {m \in Messages : m.protocols = Protocols /\ ~m.badAddress}]
    /\ recv = [c \in Conns |-> "none"]
    /\ stream = [c \in Conns |-> "none"]
    /\ answer = [c \in Conns |-> NoMessage]
    /\ published = << >>

(* The remote gains or loses protocols and addresses                         *)
RemoteChanges(p, m) ==
    /\ m # offers[p] /\ offers' = [offers EXCEPT ![p] = m]
    /\ UNCHANGED <<storeVars, recv, stream, answer, published>>

(* The subscription of start: a new connection starts recv_identify, which   *)
(* first yields                                                              *)
onConnected(c) ==
    /\ recv[c] = "none" /\ recv' = [recv EXCEPT ![c] = "yielded"]
    /\ UNCHANGED <<storeVars, offers, stream, answer, published>>

(* newStream fails, or gives a stream on which recv_identify reads           *)
newStream(c, ok) ==
    /\ recv[c] = "yielded"
    /\ recv' = [recv EXCEPT ![c] = IF ok THEN "reading" ELSE "done"]
    /\ stream' = [stream EXCEPT ![c] = IF ok THEN "open" ELSE @]
    /\ UNCHANGED <<storeVars, offers, answer, published>>

(* Identify::handle of the remote                                            *)
handle(c) ==
    /\ recv[c] = "reading" /\ recv' = [recv EXCEPT ![c] = "answered"]
    /\ answer' = [answer EXCEPT ![c] = offers[PeerOf[c]]]
    /\ UNCHANGED <<storeVars, offers, stream, published>>

Faulty_storeProtocols(p, m) == protocols' = withProtocols(p, m.protocols)

(* Nothing is stored of a message with a part that does not parse            *)
storeBad(p, m) == UNCHANGED protocols

(* stream->reset() after the exchange, however it ended                      *)
released(c) == [stream EXCEPT ![c] = "reset"]

(* readVarintMessage returns the message: it is decoded as a whole, stored   *)
(* and published                                                             *)
recv_identify(c) ==
    LET m == answer[c]
        p == PeerOf[c]
    IN  /\ recv[c] = "answered" /\ recv' = [recv EXCEPT ![c] = "done"]
        /\ stream' = released(c)
        /\ IF m.badAddress
           THEN /\ storeBad(p, m)
                /\ UNCHANGED <<addrVars, told, agentVars, published>>
           ELSE /\ protocols' = withProtocols(p, m.protocols)
                /\ told' = [told EXCEPT ![p] = @ \cup m.protocols]
                /\ upsertAddresses(p, m.listen, RecentlyConnected)
                /\ agents' = withAgent(p, m.agent, RecentlyConnected)
                /\ agentUntil' = put(agentUntil, p, now + RecentlyConnected * Ratio)
                /\ published' = put(published, c, now)
        /\ UNCHANGED <<keyVars, offers, answer>>

(* The stream or its connection fails before the message is read             *)
readFails(c) ==
    /\ recv[c] \in {"reading", "answered"} /\ recv' = [recv EXCEPT ![c] = "done"]
    /\ stream' = released(c)
    /\ UNCHANGED <<storeVars, offers, answer, published>>

(* Garbage collection of the repositories, and time                          *)
Expire ==
    /\ \/ collectGarbage /\ UNCHANGED <<keyVars, protocolVars, agentVars>>
       \/ collectProtocols \/ collectAgents
       \/ Clock
    /\ UNCHANGED exchangeVars

Next ==
    \/ \E p \in Peers, m \in Messages : RemoteChanges(p, m)
    \/ \E c \in Conns :
        \/ onConnected(c) \/ handle(c) \/ recv_identify(c) \/ readFails(c)
        \/ \E ok \in BOOLEAN : newStream(c, ok)
    \/ Expire

Spec == Init /\ [][Next]_vars

-----------------------------------------------------------------------------
(* The exchanges with p whose message was published                          *)
heard(p) == {c \in DOMAIN published : PeerOf[c] = p}

(* A message is stored as a whole or not at all, whichever of its parts is   *)
(* bad and however many connections to one peer answer at once: the          *)
(* protocols of a peer are those of all published messages, its addresses    *)
(* come from them and its agent from the last; until the time to live of a   *)
(* message ends, a collection leaves all its addresses and an agent.         *)
StoredWhole ==
    \A p \in Peers :
        /\ setOf(protocols, p) = UNION {answer[c].protocols : c \in heard(p)}
        /\ known(entry(db_, p)) \subseteq UNION {Range(answer[c].listen) : c \in heard(p)}
        /\ p \in DOMAIN agents =>
            \E c \in heard(p) : /\ agents[p].ua = answer[c].agent
                                /\ \A d \in heard(p) : published[d] <= published[c]
        /\ \A c \in heard(p) : now < published[c] + RecentlyConnected * Ratio =>
            p \in DOMAIN agents /\ Range(answer[c].listen) \subseteq known(entry(db_, p))

(* recv_identify gives back the stream it opened, whatever happened to the   *)
(* exchange.                                                                 *)
StreamsReleased == \A c \in Conns : recv[c] = "done" => stream[c] # "open"
=============================================================================
