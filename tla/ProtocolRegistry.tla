-------------------------- MODULE ProtocolRegistry --------------------------
(* Inbound streams of several connections find their protocol handler while  *)
(* protocols are being registered.                                           *)
EXTENDS ProtocolTable

CONSTANTS
    Letters, Names,
    Protocols,          \* handlers
    Ids,                \* the names each handler serves
    Streams

(* Names are texts, and handlers serve names                                 *)
RegistryAssumption ==
    Names \subseteq Seq(Letters) /\ Ids \in [Protocols -> SUBSET Names]

VARIABLES
    protocols_,
    order,      \* the handlers in the order they were registered
    stream      \* [pc, offered, name, handler] of each inbound stream

vars == <<protocols_, order, stream>>

New == [pc |-> "new", offered |-> {}, name |-> << >>, handler |-> {}]
Init == protocols_ = EmptyTable /\ order = << >> /\ stream = [s \in Streams |-> New]

listenProtocol(p) ==
    /\ p \notin Range(order)
    /\ protocols_' = emplace(protocols_, Ids[p], p) /\ order' = Append(order, p)
    /\ UNCHANGED stream

(* acceptStream gave a stream: what is served now is negotiated, if anything *)
offers(s) ==
    LET served == getSupportedProtocols(protocols_) IN
    IF served = {} THEN [stream[s] EXCEPT !.pc = "reset"]
    ELSE [stream[s] EXCEPT !.pc = "negotiating", !.offered = served]

acceptStream(s) ==
    /\ stream[s].pc = "new"
    /\ stream' = [stream EXCEPT ![s] = offers(s)]
    /\ UNCHANGED <<protocols_, order>>

(* selectOneOf ended with one of the names: its handler is looked up now     *)
selected(s, n) ==
    /\ stream[s].pc = "negotiating" /\ n \in stream[s].offered
    /\ stream' = [stream EXCEPT ![s] =
                    LET h == getProtocol(protocols_, n) IN
                    [@ EXCEPT !.name = n, !.handler = h, !.pc = IF h = {} THEN "reset" ELSE "handled"]]
    /\ UNCHANGED <<protocols_, order>>

(* selectOneOf failed                                                        *)
notSelected(s) ==
    /\ stream[s].pc = "negotiating"
    /\ stream' = [stream EXCEPT ![s].pc = "reset"]
    /\ UNCHANGED <<protocols_, order>>

Next ==
    \/ \E p \in Protocols : listenProtocol(p)
    \/ \E s \in Streams : acceptStream(s) \/ notSelected(s) \/ \E n \in Names : selected(s, n)

Spec == Init /\ [][Next]_vars

-----------------------------------------------------------------------------
(* A stream goes to the handler that was the first to register the name it   *)
(* negotiated, whatever was registered between the offer and the lookup and  *)
(* whatever names are prefixes of each other.                                *)
First(i, n) == n \in Ids[order[i]] /\ \A j \in 1..(i - 1) : n \notin Ids[order[j]]

FirstServes ==
    \A s \in Streams :
        stream[s].pc = "handled" =>
            \E i \in DOMAIN order : First(i, stream[s].name) /\ stream[s].handler = {order[i]}

(* A name that was negotiated is always served: no stream is reset after the *)
(* remote was told that its protocol is accepted.                            *)
NoEmptyPromise == \A s \in Streams : stream[s].name # << >> => stream[s].pc = "handled"

(* Both hold over any registrations and any interleaving of streams.         *)
HandlersServe == FirstServes /\ NoEmptyPromise
=============================================================================
