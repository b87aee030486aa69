------------------------------- MODULE Dialer -------------------------------
(* Dialer::dial towards one peer: the contexts of different peers are        *)
(* separate entries of dialing_peers_ and never meet.  Any number of calls   *)
(* run as coroutines; a call that finds neither a connection nor a context   *)
(* becomes the one that rotates through the addresses, and waits for the     *)
(* transport once for each of them.                                          *)
EXTENDS Integers, FiniteSets, Sequences

CONSTANTS
    Calls,         \* calls of dial
    NoCall,
    Addresses,     \* addresses of the peer
    Dialable,      \* the ones some transport can dial
    NoCtx,
    MaxAddresses,  \* bound on the addresses one call brings
    MaxInbound     \* bound on the connections opened by the peer

ASSUME DialerAssumption ==
    /\ NoCall \notin Calls
    /\ Dialable \subseteq Addresses
    /\ {MaxAddresses, MaxInbound} \subseteq Nat

VARIABLES
    ctx,        \* the DialCtx of the peer in dialing_peers_, or NoCtx
    owner,      \* the call that waits for the transport in rotate
    returned,   \* what each call returned
    connected,  \* ConnectionManager has an open connection to the peer
    inbound     \* how often the peer has connected

vars == <<ctx, owner, returned, connected, inbound>>

Errors == {"ANOTHER_DIAL_IN_PROGRESS", "STATE_INCONSISTENCY", "NO_DESTINATION_ADDRESS",
           "ADDRESS_FAMILY_NOT_SUPPORTED", "HOST_UNREACHABLE", "TRANSPORT_ERROR"}

Lists == UNION {[1..n -> Addresses] : n \in 0..MaxAddresses}

Set(s) == {s[k] : k \in DOMAIN s}

Count(s, a) == Cardinality({k \in DOMAIN s : s[k] = a})

(* A DialCtx; result says that an attempt failed.  For the properties it     *)
(* also holds the list of the call that made it, all the addresses offered   *)
(* to it and the attempts made.                                              *)
DialCtx ==
    [addr_queue : Seq(Addresses), addr_seen : SUBSET Addresses, result : BOOLEAN,
     dialled : BOOLEAN, first : Seq(Addresses), offered : SUBSET Addresses,
     tried : Seq(Dialable)]

ASSUME NoCtxAssumption == NoCtx \notin DialCtx

Init ==
    /\ ctx = NoCtx
    /\ owner = NoCall
    /\ returned = [c \in Calls |-> "none"]
    /\ connected = FALSE
    /\ inbound = 0

-----------------------------------------------------------------------------
Return(c, value) == returned' = [returned EXCEPT ![c] = value]

Faulty_KeepContext == UNCHANGED ctx /\ owner' = NoCall

(* The entry goes; the coroutine that calls it is about to return.           *)
completeDial == ctx' = NoCtx /\ owner' = NoCall

(* What rotate returns when the queue is empty.                              *)
Exhausted(x) ==
    CASE ~x.dialled -> "ADDRESS_FAMILY_NOT_SUPPORTED"
      [] x.dialled /\ x.result -> "TRANSPORT_ERROR"
      [] OTHER -> "HOST_UNREACHABLE"

Faulty_StopAtUnsupported(c, x) ==
    \/ /\ ~(x.addr_queue # <<>> /\ Head(x.addr_queue) \in Dialable)
       /\ Return(c, Exhausted(x))
       /\ completeDial
    \/ /\ x.addr_queue # <<>> /\ Head(x.addr_queue) \in Dialable
       /\ ctx' = [x EXCEPT !.addr_queue = Tail(@),
                           !.dialled = TRUE,
                           !.tried = Append(@, Head(x.addr_queue))]
       /\ owner' = c
       /\ UNCHANGED returned

(* rotate runs, over addresses no transport supports, to the next attempt or *)
(* to the end of the queue.                                                  *)
rotate(c, x) ==
    LET able == {k \in DOMAIN x.addr_queue : x.addr_queue[k] \in Dialable}
    IN  \/ /\ able = {}
           /\ Return(c, Exhausted(x))
           /\ completeDial
        \/ \E k \in able :
            /\ \A l \in able : k <= l
            /\ ctx' = [x EXCEPT !.addr_queue = SubSeq(@, k + 1, Len(@)),
                                !.dialled = TRUE,
                                !.tried = Append(@, x.addr_queue[k])]
            /\ owner' = c
            /\ UNCHANGED returned

-----------------------------------------------------------------------------
(* The ways a call of dial can go.                                           *)

CanCall(c) == returned[c] = "none" /\ c # owner

(* There is a connection already.                                            *)
Reuse(c) ==
    /\ CanCall(c)
    /\ connected
    /\ Return(c, "connection")
    /\ UNCHANGED <<ctx, owner, connected, inbound>>

FirstAt(s, a) == CHOOSE k \in DOMAIN s : s[k] = a /\ \A l \in 1..k - 1 : s[l] # a

Faulty_AllOf(s) == {s}

(* The addresses of a list that the context has not seen, each once and in   *)
(* the order of the list: a set of one.                                      *)
Unseen(s) ==
    {u \in Lists : /\ Set(u) = Set(s) \ ctx.addr_seen
                   /\ \A m, n \in DOMAIN u : m < n => FirstAt(s, u[m]) < FirstAt(s, u[n])}

(* A dial is under way: it gets the addresses it has not seen.               *)
Another(c, addresses) ==
    /\ CanCall(c)
    /\ ~connected /\ ctx # NoCtx
    /\ \E more \in Unseen(addresses) :
        ctx' = [ctx EXCEPT !.addr_queue = @ \o more,
                           !.addr_seen = @ \cup Set(addresses),
                           !.offered = @ \cup Set(addresses)]
    /\ Return(c, "ANOTHER_DIAL_IN_PROGRESS")
    /\ UNCHANGED <<owner, connected, inbound>>

(* Without addresses there is nothing to dial.                               *)
NoAddress(c) ==
    /\ CanCall(c)
    /\ ~connected /\ ctx = NoCtx
    /\ Return(c, "NO_DESTINATION_ADDRESS")
    /\ UNCHANGED <<ctx, owner, connected, inbound>>

(* The call makes the context and dials.                                     *)
StartDial(c, addresses) ==
    /\ CanCall(c)
    /\ ~connected /\ ctx = NoCtx
    /\ addresses # <<>>
    /\ rotate(c, [addr_queue |-> addresses, addr_seen |-> Set(addresses),
                  result |-> FALSE, dialled |-> FALSE, first |-> addresses,
                  offered |-> Set(addresses), tried |-> <<>>])
    /\ UNCHANGED <<connected, inbound>>

-----------------------------------------------------------------------------
(* The transport answers.                                                    *)

(* The error is kept, and the next address is tried.                         *)
AttemptFails ==
    /\ owner # NoCall
    /\ IF ctx = NoCtx
       THEN Return(owner, "STATE_INCONSISTENCY") /\ owner' = NoCall /\ UNCHANGED ctx
       ELSE rotate(owner, [ctx EXCEPT !.result = TRUE])
    /\ UNCHANGED <<connected, inbound>>

(* The new connection goes to ListenerManager::onConnection, which lists it. *)
AttemptSucceeds ==
    /\ owner # NoCall
    /\ IF ctx = NoCtx
       THEN /\ Return(owner, "STATE_INCONSISTENCY")
            /\ owner' = NoCall
            /\ UNCHANGED <<ctx, connected>>
       ELSE /\ connected' = TRUE
            /\ completeDial
            /\ Return(owner, "connection")
    /\ UNCHANGED inbound

(* The peer connects on its own, and connections close.                      *)
PeerConnects ==
    /\ inbound < MaxInbound
    /\ inbound' = inbound + 1
    /\ connected' = TRUE
    /\ UNCHANGED <<ctx, owner, returned>>

Disconnected ==
    /\ connected
    /\ connected' = FALSE
    /\ UNCHANGED <<ctx, owner, returned, inbound>>

Next ==
    \/ \E c \in Calls :
        \/ Reuse(c) \/ NoAddress(c)
        \/ \E addresses \in Lists : Another(c, addresses) \/ StartDial(c, addresses)
    \/ AttemptFails \/ AttemptSucceeds
    \/ PeerConnects \/ Disconnected

(* Resolving and the handshake end, by their own timeouts at the latest.     *)
Fairness == WF_vars(AttemptFails \/ AttemptSucceeds)

Spec == Init /\ [][Next]_vars /\ Fairness

-----------------------------------------------------------------------------
(* The context has the type the class declares.                              *)
TypeOK ==
    /\ ctx \in DialCtx \cup {NoCtx}
    /\ owner \in Calls \cup {NoCall}
    /\ returned \in [Calls -> Errors \cup {"none", "connection"}]
    /\ connected \in BOOLEAN
    /\ inbound \in 0..MaxInbound

(* A context belongs to exactly one running call: it is never left behind    *)
(* to refuse all later calls, and never gone when the transport answers.     *)
CtxHasOwner ==
    /\ ctx # NoCtx <=> owner # NoCall
    /\ owner # NoCall => returned[owner] = "none" /\ ctx.dialled

(* The two "would never happen" ends of rotate: no call returns them.        *)
NeverInconsistent ==
    \A c \in Calls : returned[c] \notin {"STATE_INCONSISTENCY", "HOST_UNREACHABLE"}

(* A context and the call that owns it come and go together, and rotate is   *)
(* never asked to go on with a dial that is not there.                       *)
DialSound == TypeOK /\ CtxHasOwner /\ NeverInconsistent

(* An address is dialled once, however many calls bring it, unless the call  *)
(* that started the dial listed it several times itself.                     *)
TriedOnce ==
    ctx # NoCtx =>
        \A a \in Addresses : Count(ctx.tried, a) <= 1 \/ Count(ctx.tried, a) <= Count(ctx.first, a)

(* A dial gives up only when all addresses a transport supports were tried,  *)
(* those that other calls brought in the meantime included.                  *)
GivesUpLast ==
    [][ctx # NoCtx /\ ctx' = NoCtx /\ returned'[owner] # "connection"
        => ctx.offered \cap Dialable \subseteq Set(ctx.tried)]_vars

(* The call that dials returns.                                              *)
DialReturns == \A c \in Calls : owner = c ~> returned[c] # "none"
=============================================================================
