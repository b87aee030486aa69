-------------------------- MODULE TransportProofs --------------------------
(* Proofs about Dialer for any number of calls and addresses, and about      *)
(* QuicEngine (E) for any streams.                                           *)
EXTENDS Dialer, FiniteSetTheorems, FunctionTheorems, WellFoundedInduction, TLAPS

(* Every supported address offered to a context was tried or is queued.      *)
Remembers(x) ==
    /\ x.offered = x.addr_seen
    /\ \A a \in x.offered \cap Dialable : a \in Set(x.tried) \cup Set(x.addr_queue)

NothingForgotten == ctx # NoCtx => Remembers(ctx)

(* That a dial gives up last needs the addresses to be remembered; that the  *)
(* context is there when the transport answers needs its owner.              *)
IInv == TypeOK /\ CtxHasOwner /\ NeverInconsistent /\ NothingForgotten

-----------------------------------------------------------------------------
(* The members of an appended, a joined and a cut sequence.                  *)
LEMMA SetOfAppend ==
    ASSUME NEW S, NEW s \in Seq(S), NEW a \in S
    PROVE  Append(s, a) \in Seq(S) /\ Set(Append(s, a)) = Set(s) \cup {a}
  <1>1. Append(s, a) \in Seq(S) OBVIOUS
  <1>2. /\ DOMAIN Append(s, a) = 1..Len(s) + 1 /\ DOMAIN s = 1..Len(s) /\ Len(s) \in Nat
        /\ \A k \in 1..Len(s) : Append(s, a)[k] = s[k]
        /\ Append(s, a)[Len(s) + 1] = a
    OBVIOUS
  <1>3. Set(Append(s, a)) \subseteq Set(s) \cup {a} BY <1>2 DEF Set
  <1>4. Set(s) \cup {a} \subseteq Set(Append(s, a)) BY <1>2 DEF Set
  <1> QED BY <1>1, <1>3, <1>4

(* The members of two queues put together.                                   *)
LEMMA SetOfConcat ==
    ASSUME NEW S, NEW s \in Seq(S), NEW t \in Seq(S)
    PROVE  s \o t \in Seq(S) /\ Set(s) \cup Set(t) \subseteq Set(s \o t)
  <1>1. /\ s \o t \in Seq(S)
        /\ DOMAIN (s \o t) = 1..Len(s) + Len(t)
        /\ DOMAIN s = 1..Len(s) /\ DOMAIN t = 1..Len(t)
        /\ Len(s) \in Nat /\ Len(t) \in Nat
        /\ \A k \in 1..Len(s) : (s \o t)[k] = s[k]
        /\ \A k \in 1..Len(t) : (s \o t)[Len(s) + k] = t[k]
    OBVIOUS
  <1>2. Set(s) \subseteq Set(s \o t) BY <1>1 DEF Set
  <1>3. Set(t) \subseteq Set(s \o t)
    <2> SUFFICES ASSUME NEW k \in 1..Len(t) PROVE t[k] \in Set(s \o t)
      BY <1>1 DEF Set
    <2>1. Len(s) + k \in DOMAIN (s \o t) BY <1>1
    <2> QED BY Zenon, <1>1, <2>1 DEF Set
  <1> QED BY <1>1, <1>2, <1>3

(* The members of a queue behind position k.                                 *)
LEMMA SetOfRest ==
    ASSUME NEW S, NEW s \in Seq(S), NEW k \in DOMAIN s
    PROVE  /\ SubSeq(s, k + 1, Len(s)) \in Seq(S)
           /\ \A l \in DOMAIN s : l > k => s[l] \in Set(SubSeq(s, k + 1, Len(s)))
  <1> DEFINE r == SubSeq(s, k + 1, Len(s))
  <1>1. /\ DOMAIN s = 1..Len(s) /\ Len(s) \in Nat /\ k \in Nat /\ k \in 1..Len(s)
        /\ r \in Seq(S)
    OBVIOUS
  <1>2. /\ Len(r) = Len(s) - k
        /\ \A j \in 1..Len(s) - k : r[j] = s[k + j]
    OBVIOUS
  <1>3. ASSUME NEW l \in DOMAIN s, l > k PROVE s[l] \in Set(r)
    <2>1. l - k \in 1..Len(s) - k /\ k + (l - k) = l BY <1>1, <1>3
    <2>2. r[l - k] = s[l] BY <1>2, <2>1
    <2>3. l - k \in DOMAIN r BY <1>1, <1>2, <2>1
    <2> HIDE DEF r
    <2> QED BY <2>2, <2>3 DEF Set
  <1> QED BY <1>1, <1>3

-----------------------------------------------------------------------------
(* rotate either ends the dial, and then every supported address was tried,  *)
(* or goes on with a context that forgot none.                               *)
LEMMA RotateValue ==
    ASSUME NEW c, NEW x \in DialCtx, Remembers(x), rotate(c, x)
    PROVE  \/ /\ ctx' = NoCtx /\ owner' = NoCall
              /\ returned' = [returned EXCEPT ![c] = Exhausted(x)]
              /\ x.offered \cap Dialable \subseteq Set(x.tried)
           \/ /\ ctx' \in DialCtx /\ Remembers(ctx') /\ ctx'.dialled
              /\ owner' = c /\ returned' = returned
  <1> DEFINE q == x.addr_queue
             able == {k \in DOMAIN q : q[k] \in Dialable}
  <1>0. q \in Seq(Addresses) /\ x.tried \in Seq(Dialable) BY DEF DialCtx
  <1>1. CASE /\ able = {}
             /\ Return(c, Exhausted(x))
             /\ completeDial
    <2>1. \A a \in x.offered \cap Dialable : a \in Set(x.tried) \/ a \in Set(q)
      BY DEF Remembers
    <2>2. \A a \in Set(q) : a \notin Dialable BY <1>1 DEF Set
    <2>3. x.offered \cap Dialable \subseteq Set(x.tried) BY <2>1, <2>2
    <2> QED BY <1>1, <2>3 DEF Return, completeDial
  <1>2. ASSUME NEW k \in able, \A l \in able : k <= l,
               ctx' = [x EXCEPT !.addr_queue = SubSeq(@, k + 1, Len(@)),
                                !.dialled = TRUE,
                                !.tried = Append(@, x.addr_queue[k])],
               owner' = c, UNCHANGED returned
        PROVE  /\ ctx' \in DialCtx /\ Remembers(ctx') /\ ctx'.dialled
               /\ owner' = c /\ returned' = returned
    <2> DEFINE r == SubSeq(q, k + 1, Len(q))
               t == Append(x.tried, q[k])
    <2>1. r \in Seq(Addresses) /\ \A l \in DOMAIN q : l > k => q[l] \in Set(r)
      BY <1>0, SetOfRest
    <2>2. t \in Seq(Dialable) /\ Set(t) = Set(x.tried) \cup {q[k]}
      BY <1>0, SetOfAppend
    <2>3. /\ ctx' = [x EXCEPT !.addr_queue = r, !.dialled = TRUE, !.tried = t]
          /\ owner' = c /\ returned' = returned
      BY <1>2
    <2>4. Set(q) \cap Dialable \subseteq Set(r) \cup {q[k]}
      <3> SUFFICES ASSUME NEW l \in DOMAIN q, q[l] \in Dialable
                   PROVE  q[l] \in Set(r) \cup {q[k]}
        BY Zenon DEF Set
      <3>1. l \in able /\ k \in Nat /\ l \in Nat BY <1>0
      <3>2. l > k \/ l = k BY <1>2, <3>1
      <3> QED BY <2>1, <3>2
    <2> HIDE DEF r, t
    <2>5. ctx' \in DialCtx /\ ctx'.dialled BY Zenon, <2>1, <2>2, <2>3 DEF DialCtx
    <2>6. /\ ctx'.addr_queue = r /\ ctx'.tried = t
          /\ ctx'.offered = x.offered /\ ctx'.addr_seen = x.addr_seen
      BY <2>3 DEF DialCtx
    <2>7. Remembers(ctx') BY <2>2, <2>4, <2>6 DEF Remembers
    <2> QED BY <2>3, <2>5, <2>7
  <1> QED BY Zenon, <1>1, <1>2 DEF rotate

(* The first context of a dial forgets nothing.                              *)
LEMMA NewContext ==
    ASSUME NEW s \in Seq(Addresses)
    PROVE  LET x == [addr_queue |-> s, addr_seen |-> Set(s), result |-> FALSE,
                     dialled |-> FALSE, first |-> s, offered |-> Set(s), tried |-> <<>>]
           IN  x \in DialCtx /\ Remembers(x)
  <1>1. Set(s) \subseteq Addresses BY DEF Set
  <1>2. <<>> \in Seq(Dialable) OBVIOUS
  <1> QED BY <1>1, <1>2 DEF DialCtx, Remembers

-----------------------------------------------------------------------------
(* The lists a call may bring are sequences of addresses.                    *)
LEMMA ListsAreSeqs == Lists \subseteq Seq(Addresses)
  BY DialerAssumption DEF Lists

(* Nobody dials yet.                                                         *)
LEMMA InitInv == Init => IInv
  <1> SUFFICES ASSUME Init PROVE IInv
    OBVIOUS
  <1>1. TypeOK
    <2>0. connected \in BOOLEAN BY Zenon DEF Init
    <2>1. inbound \in 0..MaxInbound BY DialerAssumption DEF Init
    <2>2. ctx \in DialCtx \cup {NoCtx} /\ owner \in Calls \cup {NoCall} BY DEF Init
    <2>3. returned \in [Calls -> Errors \cup {"none", "connection"}] BY DEF Init
    <2> QED BY <2>0, <2>1, <2>2, <2>3 DEF TypeOK
  <1>2. CtxHasOwner /\ NeverInconsistent /\ NothingForgotten
    BY DEF Init, CtxHasOwner, NeverInconsistent, NothingForgotten
  <1> QED BY <1>1, <1>2 DEF IInv

(* The rotation that starts a dial, or goes on after a failed attempt,       *)
(* preserves the invariant: it returns one of the expected errors.           *)
LEMMA RotateInv ==
    ASSUME IInv, NEW c \in Calls, NEW x \in DialCtx, Remembers(x), rotate(c, x),
           returned[c] = "none",
           x.dialled => x.result,
           connected' \in BOOLEAN, inbound' = inbound
    PROVE  IInv'
  <1> USE DialerAssumption, NoCtxAssumption
  <1>1. CASE /\ ctx' = NoCtx /\ owner' = NoCall
             /\ returned' = [returned EXCEPT ![c] = Exhausted(x)]
    <2>1. Exhausted(x) \in {"ADDRESS_FAMILY_NOT_SUPPORTED", "TRANSPORT_ERROR"}
      BY DEF Exhausted, DialCtx
    <2> QED BY <1>1, <2>1 DEF IInv, TypeOK, CtxHasOwner, NeverInconsistent, NothingForgotten,
                              Errors
  <1>2. CASE /\ ctx' \in DialCtx /\ Remembers(ctx') /\ ctx'.dialled
             /\ owner' = c /\ returned' = returned
    BY <1>2 DEF IInv, TypeOK, CtxHasOwner, NeverInconsistent, NothingForgotten
  <1> QED BY <1>1, <1>2, RotateValue

(* A call for a peer that is being dialled adds its addresses.               *)
LEMMA AnotherInv ==
    ASSUME IInv, NEW c \in Calls, NEW s \in Lists, Another(c, s)
    PROVE  IInv'
  <1> USE DialerAssumption, NoCtxAssumption
  <1>1. ctx \in DialCtx /\ Remembers(ctx) /\ owner \in Calls /\ c # owner
        /\ ctx.dialled /\ returned[owner] = "none"
    BY DEF Another, CanCall, IInv, TypeOK, NothingForgotten, CtxHasOwner
  <1>2. PICK more \in Unseen(s) :
            ctx' = [ctx EXCEPT !.addr_queue = @ \o more,
                               !.addr_seen = @ \cup Set(s),
                               !.offered = @ \cup Set(s)]
    BY Zenon DEF Another
  <1>3. more \in Seq(Addresses) /\ Set(more) = Set(s) \ ctx.addr_seen
    BY ListsAreSeqs DEF Unseen
  <1> DEFINE q == ctx.addr_queue \o more
  <1>4. q \in Seq(Addresses) /\ Set(ctx.addr_queue) \cup Set(more) \subseteq Set(q)
    BY <1>1, <1>3, SetOfConcat DEF DialCtx
  <1>5. Set(s) \subseteq Addresses BY ListsAreSeqs DEF Set
  <1>6. ctx' = [ctx EXCEPT !.addr_queue = q, !.addr_seen = @ \cup Set(s),
                           !.offered = @ \cup Set(s)]
    BY <1>2
  <1> HIDE DEF q
  <1>7. ctx' \in DialCtx BY Zenon, <1>1, <1>4, <1>5, <1>6 DEF DialCtx
  <1>8. /\ ctx'.addr_queue = q /\ ctx'.tried = ctx.tried /\ ctx'.dialled = ctx.dialled
        /\ ctx'.offered = ctx.offered \cup Set(s)
        /\ ctx'.addr_seen = ctx.addr_seen \cup Set(s)
    BY Zenon, <1>1, <1>6 DEF DialCtx
  <1>9. Remembers(ctx') BY <1>1, <1>3, <1>4, <1>8 DEF Remembers
  <1>10. /\ returned' = [returned EXCEPT ![c] = "ANOTHER_DIAL_IN_PROGRESS"]
         /\ UNCHANGED <<owner, connected, inbound>>
    BY DEF Another, Return
  <1> QED BY <1>1, <1>7, <1>8, <1>9, <1>10
    DEF IInv, TypeOK, CtxHasOwner, NeverInconsistent, NothingForgotten, Errors

(* A failed attempt rotates on; the context is there.                        *)
LEMMA AttemptFailsRotates ==
    ASSUME IInv, AttemptFails
    PROVE  /\ owner \in Calls /\ returned[owner] = "none" /\ ctx # NoCtx
           /\ [ctx EXCEPT !.result = TRUE] \in DialCtx
           /\ Remembers([ctx EXCEPT !.result = TRUE])
           /\ [ctx EXCEPT !.result = TRUE].result
           /\ rotate(owner, [ctx EXCEPT !.result = TRUE])
           /\ UNCHANGED <<connected, inbound>>
  <1>1. owner \in Calls /\ ctx # NoCtx /\ ctx \in DialCtx /\ returned[owner] = "none"
        /\ Remembers(ctx)
    BY DEF AttemptFails, IInv, TypeOK, CtxHasOwner, NothingForgotten
  <1> DEFINE x == [ctx EXCEPT !.result = TRUE]
  <1>2. x \in DialCtx /\ x.result /\ x.offered = ctx.offered /\ x.addr_seen = ctx.addr_seen
        /\ x.tried = ctx.tried /\ x.addr_queue = ctx.addr_queue
    BY Zenon, <1>1 DEF DialCtx
  <1>3. rotate(owner, x) /\ UNCHANGED <<connected, inbound>> BY <1>1 DEF AttemptFails
  <1> HIDE DEF x
  <1>4. Remembers(x) BY <1>1, <1>2 DEF Remembers
  <1> QED BY <1>1, <1>2, <1>3, <1>4 DEF x

(* Every step keeps the inductive invariant.                                 *)
LEMMA NextInv == IInv /\ [Next]_vars => IInv'
  <1> SUFFICES ASSUME IInv, [Next]_vars PROVE IInv'
    OBVIOUS
  <1> USE DialerAssumption, NoCtxAssumption
  <1>1. ASSUME NEW c \in Calls, Reuse(c) \/ NoAddress(c) PROVE IInv'
    BY <1>1 DEF Reuse, NoAddress, CanCall, Return, IInv, TypeOK, CtxHasOwner,
                NeverInconsistent, NothingForgotten, Errors
  <1>2. ASSUME NEW c \in Calls, NEW s \in Lists, Another(c, s) PROVE IInv'
    BY <1>2, AnotherInv
  <1>3. ASSUME NEW c \in Calls, NEW s \in Lists, StartDial(c, s) PROVE IInv'
    <2> DEFINE x == [addr_queue |-> s, addr_seen |-> Set(s), result |-> FALSE,
                     dialled |-> FALSE, first |-> s, offered |-> Set(s), tried |-> <<>>]
    <2>1. x \in DialCtx /\ Remembers(x) BY ListsAreSeqs, NewContext
    <2>2. /\ rotate(c, x) /\ returned[c] = "none" /\ x.dialled = FALSE
          /\ connected' = connected /\ inbound' = inbound
      BY <1>3 DEF StartDial, CanCall
    <2>3. connected' \in BOOLEAN BY <2>2 DEF IInv, TypeOK
    <2> HIDE DEF x
    <2> QED BY <2>1, <2>2, <2>3, RotateInv
  <1>4. CASE AttemptFails
    <2> DEFINE x == [ctx EXCEPT !.result = TRUE]
    <2>1. /\ owner \in Calls /\ returned[owner] = "none" /\ x \in DialCtx /\ Remembers(x)
          /\ x.result /\ rotate(owner, x) /\ UNCHANGED <<connected, inbound>>
      BY <1>4, AttemptFailsRotates
    <2>2. connected' \in BOOLEAN BY <2>1 DEF IInv, TypeOK
    <2> HIDE DEF x
    <2> QED BY <2>1, <2>2, RotateInv
  <1>5. CASE AttemptSucceeds
    <2>1. /\ owner \in Calls /\ ctx' = NoCtx /\ owner' = NoCall /\ connected' = TRUE
          /\ returned' = [returned EXCEPT ![owner] = "connection"]
          /\ inbound' = inbound
      BY <1>5 DEF AttemptSucceeds, completeDial, Return, IInv, TypeOK, CtxHasOwner
    <2>2. TypeOK' BY <2>1 DEF IInv, TypeOK
    <2>3. CtxHasOwner' /\ NothingForgotten' BY <2>1 DEF CtxHasOwner, NothingForgotten
    <2>4. NeverInconsistent' BY <2>1 DEF IInv, TypeOK, NeverInconsistent
    <2> QED BY <2>2, <2>3, <2>4 DEF IInv
  <1>6. CASE PeerConnects \/ Disconnected
    <2>1. UNCHANGED <<ctx, owner, returned>> BY <1>6 DEF PeerConnects, Disconnected
    <2>2. connected' \in BOOLEAN BY Zenon, <1>6 DEF PeerConnects, Disconnected
    <2>3. inbound' \in 0..MaxInbound BY <1>6 DEF PeerConnects, Disconnected, IInv, TypeOK
    <2> QED BY <2>1, <2>2, <2>3 DEF IInv, TypeOK, CtxHasOwner, NeverInconsistent,
                                    NothingForgotten
  <1>7. CASE UNCHANGED vars
    BY <1>7 DEF vars, IInv, TypeOK, CtxHasOwner, NeverInconsistent, NothingForgotten
  <1> QED BY <1>1, <1>2, <1>3, <1>4, <1>5, <1>6, <1>7 DEF Next

(* The inductive invariant holds throughout.                                 *)
LEMMA Invariant == Spec => []IInv
  BY InitInv, NextInv, PTL DEF Spec

(* The context of a dial keeps its type, and only supported addresses are    *)
(* handed to a transport.                                                    *)
THEOREM TypeCorrect == Spec => []TypeOK
  <1>1. IInv => TypeOK BY DEF IInv
  <1> QED BY <1>1, Invariant, PTL

(* No context is left behind by a call that returned.                        *)
THEOREM OneOwner == Spec => []CtxHasOwner
  <1>1. IInv => CtxHasOwner BY DEF IInv
  <1> QED BY <1>1, Invariant, PTL

(* The branches rotate calls impossible are.                                 *)
THEOREM NoInconsistency == Spec => []NeverInconsistent
  <1>1. IInv => NeverInconsistent BY DEF IInv
  <1> QED BY <1>1, Invariant, PTL

(* Context and owner come and go together.                                   *)
THEOREM AlwaysSound == Spec => []DialSound
  <1>1. IInv => DialSound BY DEF IInv, DialSound
  <1> QED BY <1>1, Invariant, PTL

(* No address offered to a dial is forgotten.                                *)
THEOREM AllTried == Spec => GivesUpLast
  <1> DEFINE A == ctx # NoCtx /\ ctx' = NoCtx /\ returned'[owner] # "connection"
                    => ctx.offered \cap Dialable \subseteq Set(ctx.tried)
  <1>1. IInv /\ [Next]_vars => [A]_vars
    <2> SUFFICES ASSUME IInv, Next, ctx # NoCtx, ctx' = NoCtx,
                        returned'[owner] # "connection"
                 PROVE  ctx.offered \cap Dialable \subseteq Set(ctx.tried)
      OBVIOUS
    <2>1. ~ \E c \in Calls : Reuse(c) \/ NoAddress(c) \/ \E s \in Lists : StartDial(c, s)
      BY Zenon DEF Reuse, NoAddress, StartDial
    <2>2. ~ (PeerConnects \/ Disconnected) BY DEF PeerConnects, Disconnected
    <2>3. ASSUME NEW c \in Calls, NEW s \in Lists, Another(c, s) PROVE FALSE
      <3>1. IInv' BY <2>3, AnotherInv
      <3>2. owner' = owner /\ owner # NoCall BY <2>3 DEF Another, IInv, CtxHasOwner
      <3> QED BY <3>1, <3>2 DEF IInv, CtxHasOwner
    <2>4. CASE AttemptSucceeds
      BY <2>4 DEF AttemptSucceeds, Return, IInv, TypeOK
    <2>5. CASE AttemptFails
      <3> DEFINE x == [ctx EXCEPT !.result = TRUE]
      <3>1. x \in DialCtx /\ Remembers(x) /\ rotate(owner, x) BY <2>5, AttemptFailsRotates
      <3>2. x.offered = ctx.offered /\ x.tried = ctx.tried
        BY DEF IInv, TypeOK, DialCtx
      <3> HIDE DEF x
      <3>3. x.offered \cap Dialable \subseteq Set(x.tried)
        BY <3>1, RotateValue, NoCtxAssumption
      <3> QED BY <3>2, <3>3
    <2> QED BY <2>1, <2>2, <2>3, <2>4, <2>5 DEF Next
  <1> QED BY <1>1, Invariant, PTL DEF Spec, GivesUpLast

-----------------------------------------------------------------------------
(* The positions of an address, which Count counts.                          *)
Places(s, a) == {k \in DOMAIN s : s[k] = a}

(* An address has finitely many places in a list.                            *)
LEMMA PlacesFinite ==
    ASSUME NEW S, NEW s \in Seq(S), NEW a
    PROVE  /\ IsFiniteSet(Places(s, a)) /\ Count(s, a) \in Nat
           /\ Count(s, a) = Cardinality(Places(s, a))
           /\ a \notin Set(s) => Count(s, a) = 0
  <1>1. Places(s, a) \subseteq 1..Len(s) /\ Len(s) \in Int
    BY DEF Places
  <1>2. IsFiniteSet(Places(s, a))
    BY <1>1, FS_Interval, FS_Subset
  <1>3. Count(s, a) = Cardinality(Places(s, a))
    BY DEF Count, Places
  <1>4. a \notin Set(s) => Places(s, a) = {}
    BY DEF Set, Places
  <1> QED BY <1>2, <1>3, <1>4, FS_CardinalityType, FS_EmptySet

(* An address appended is counted once more, and no other is.                *)
LEMMA CountOfAppend ==
    ASSUME NEW S, NEW s \in Seq(S), NEW x \in S, NEW a
    PROVE  /\ x = a => Count(Append(s, x), a) <= Count(s, a) + 1
           /\ x # a => Count(Append(s, x), a) <= Count(s, a)
  <1>1. /\ DOMAIN Append(s, x) = 1..Len(s) + 1 /\ DOMAIN s = 1..Len(s) /\ Len(s) \in Nat
        /\ \A k \in 1..Len(s) : Append(s, x)[k] = s[k]
        /\ Append(s, x)[Len(s) + 1] = x /\ Append(s, x) \in Seq(S)
    OBVIOUS
  <1>2. Places(Append(s, x), a) \subseteq Places(s, a) \cup {Len(s) + 1}
    BY <1>1 DEF Places
  <1>3. x # a => Places(Append(s, x), a) \subseteq Places(s, a)
    BY <1>1 DEF Places
  <1>4. /\ IsFiniteSet(Places(s, a)) /\ Count(s, a) = Cardinality(Places(s, a))
        /\ Count(s, a) \in Nat
    BY PlacesFinite
  <1>5. Count(Append(s, x), a) = Cardinality(Places(Append(s, x), a))
        /\ Count(Append(s, x), a) \in Nat
    BY Zenon, <1>1, PlacesFinite
  <1>6. /\ IsFiniteSet(Places(s, a) \cup {Len(s) + 1})
        /\ Cardinality(Places(s, a) \cup {Len(s) + 1}) \in Nat
        /\ Cardinality(Places(s, a) \cup {Len(s) + 1}) <= Cardinality(Places(s, a)) + 1
    <2> DEFINE P == Places(s, a)
    <2>1. IsFiniteSet(P) /\ Cardinality(P) \in Nat
      BY <1>4, FS_CardinalityType
    <2> HIDE DEF P
    <2>2. /\ IsFiniteSet(P \cup {Len(s) + 1})
          /\ Cardinality(P \cup {Len(s) + 1})
                = IF Len(s) + 1 \in P THEN Cardinality(P) ELSE Cardinality(P) + 1
      BY <2>1, FS_AddElement
    <2>3. /\ Cardinality(P \cup {Len(s) + 1}) \in Nat
          /\ Cardinality(P \cup {Len(s) + 1}) <= Cardinality(P) + 1
      BY <2>1, <2>2
    <2> QED BY <2>2, <2>3 DEF P
  <1>7. Cardinality(Places(Append(s, x), a)) <= Cardinality(Places(s, a) \cup {Len(s) + 1})
    BY <1>2, <1>6, FS_Subset
  <1>8. x # a => Cardinality(Places(Append(s, x), a)) <= Cardinality(Places(s, a))
    BY <1>3, <1>4, FS_Subset
  <1> QED BY <1>4, <1>5, <1>6, <1>7, <1>8

(* What is behind a position has one occurrence less of what stands there.   *)
LEMMA CountOfRest ==
    ASSUME NEW S, NEW s \in Seq(S), NEW k \in DOMAIN s, NEW a
    PROVE  LET r == SubSeq(s, k + 1, Len(s)) IN
           /\ Set(r) \subseteq Set(s)
           /\ s[k] = a => Count(r, a) + 1 <= Count(s, a)
           /\ s[k] # a => Count(r, a) <= Count(s, a)
  <1> DEFINE r == SubSeq(s, k + 1, Len(s))
             P == Places(s, a) \ {k}
  <1>1. /\ DOMAIN s = 1..Len(s) /\ Len(s) \in Nat /\ k \in 1..Len(s)
        /\ r \in Seq(S) /\ Len(r) = Len(s) - k /\ DOMAIN r = 1..Len(s) - k
        /\ \A j \in 1..Len(s) - k : r[j] = s[j + k]
    OBVIOUS
  <1>2. \A j \in DOMAIN r : j + k \in DOMAIN s /\ j + k # k /\ r[j] = s[j + k]
    BY <1>1
  <1>3. Set(r) \subseteq Set(s)
    <2> SUFFICES ASSUME NEW j \in DOMAIN r PROVE r[j] \in Set(s)
      BY DEF Set
    <2> QED BY <1>2 DEF Set
  <1> DEFINE R == Places(r, a)
             f == [j \in R |-> j + k]
  <1>4. f \in Injection(R, P)
    <2>1. \A j \in R : j \in DOMAIN r /\ r[j] = a /\ j \in Int
      BY <1>1 DEF Places
    <2>2. \A j \in R : j + k \in P
      BY <1>2, <2>1 DEF Places
    <2>3. \A i, j \in R : i + k = j + k => i = j
      BY <1>1, <2>1
    <2> HIDE DEF R, P
    <2>4. f \in [R -> P] /\ \A i, j \in R : f[i] = f[j] => i = j
      BY <2>2, <2>3
    <2> HIDE DEF f
    <2> QED BY <2>4, Fun_IsInj
  <1>5. /\ IsFiniteSet(Places(s, a)) /\ Count(s, a) = Cardinality(Places(s, a))
        /\ Count(s, a) \in Nat
        /\ Count(r, a) = Cardinality(R) /\ Count(r, a) \in Nat
    <2>1. /\ IsFiniteSet(Places(s, a)) /\ Count(s, a) = Cardinality(Places(s, a))
          /\ Count(s, a) \in Nat
      BY PlacesFinite
    <2>2. r \in Seq(S)
      BY <1>1
    <2> HIDE DEF r
    <2>3. Count(r, a) = Cardinality(R) /\ Count(r, a) \in Nat
      BY <2>2, PlacesFinite
    <2> QED BY <2>1, <2>3
  <1>6. /\ IsFiniteSet(P) /\ Cardinality(P) \in Nat
        /\ Cardinality(P) = IF k \in Places(s, a) THEN Cardinality(Places(s, a)) - 1
                            ELSE Cardinality(Places(s, a))
    BY <1>5, FS_RemoveElement, FS_CardinalityType
  <1>7. Cardinality(R) <= Cardinality(P)
    <2> HIDE DEF R, P, f
    <2> QED BY <1>4, <1>6, FS_Injection
  <1>8. k \in Places(s, a) <=> s[k] = a
    BY DEF Places
  <1>9. /\ s[k] = a => Count(r, a) + 1 <= Count(s, a)
        /\ s[k] # a => Count(r, a) <= Count(s, a)
    <2> HIDE DEF R, P, f, r
    <2> QED BY <1>5, <1>6, <1>7, <1>8
  <1> QED BY <1>3, <1>9

(* A list behind another adds its occurrences.                               *)
LEMMA CountOfConcat ==
    ASSUME NEW S, NEW s \in Seq(S), NEW t \in Seq(S), NEW a
    PROVE  /\ Set(s \o t) \subseteq Set(s) \cup Set(t)
           /\ Count(s \o t, a) <= Count(s, a) + Count(t, a)
  <1> DEFINE u == s \o t
             U == Places(u, a)
             A == Places(s, a)
             B == U \ A
             f == [k \in B |-> k - Len(s)]
  <1>1. /\ u \in Seq(S) /\ Len(s) \in Nat /\ Len(t) \in Nat
        /\ DOMAIN u = 1..Len(s) + Len(t) /\ DOMAIN s = 1..Len(s) /\ DOMAIN t = 1..Len(t)
        /\ \A k \in 1..Len(s) : u[k] = s[k]
        /\ \A k \in DOMAIN u : k > Len(s) => u[k] = t[k - Len(s)]
    OBVIOUS
  <1>2. \A k \in DOMAIN u : \/ k \in DOMAIN s /\ u[k] = s[k]
                            \/ k - Len(s) \in DOMAIN t /\ u[k] = t[k - Len(s)] /\ k \notin DOMAIN s
    BY <1>1
  <1>3. Set(u) \subseteq Set(s) \cup Set(t)
    <2> SUFFICES ASSUME NEW k \in DOMAIN u PROVE u[k] \in Set(s) \cup Set(t)
      BY DEF Set
    <2> QED BY <1>2 DEF Set
  <1>4. f \in Injection(B, Places(t, a))
    <2>1. \A k \in B : k \in DOMAIN u /\ u[k] = a /\ k \notin A /\ k \in Int
      BY <1>1 DEF Places
    <2>2. \A k \in B : k - Len(s) \in Places(t, a)
      BY <1>2, <2>1 DEF Places
    <2>3. \A i, j \in B : i - Len(s) = j - Len(s) => i = j
      BY <1>1, <2>1
    <2> HIDE DEF B
    <2>4. f \in [B -> Places(t, a)] /\ \A i, j \in B : f[i] = f[j] => i = j
      BY <2>2, <2>3
    <2> HIDE DEF f
    <2> QED BY <2>4, Fun_IsInj
  <1>5. /\ IsFiniteSet(A) /\ Count(s, a) = Cardinality(A) /\ Count(s, a) \in Nat
    BY PlacesFinite
  <1>6. /\ IsFiniteSet(Places(t, a)) /\ Count(t, a) = Cardinality(Places(t, a))
        /\ Count(t, a) \in Nat
    BY PlacesFinite
  <1>7. IsFiniteSet(U) /\ Count(u, a) = Cardinality(U) /\ Count(u, a) \in Nat
    <2>1. u \in Seq(S)
      BY <1>1
    <2> HIDE DEF u
    <2> QED BY <2>1, PlacesFinite
  <1> HIDE DEF U, A, f, u
  <1>8. IsFiniteSet(B) /\ Cardinality(B) <= Cardinality(Places(t, a)) /\ Cardinality(B) \in Nat
    <2>1. IsFiniteSet(B) /\ Cardinality(B) <= Cardinality(Places(t, a))
      <3> HIDE DEF B
      <3> QED BY <1>4, <1>6, FS_Injection
    <2> QED BY <2>1, FS_CardinalityType
  <1>9. /\ IsFiniteSet(A \cup B) /\ Cardinality(A \cup B) <= Cardinality(A) + Cardinality(B)
        /\ Cardinality(A \cup B) \in Nat
    <2>1. Cardinality(A \cap B) = 0
      <3>1. A \cap B = {}
        OBVIOUS
      <3> QED BY Zenon, <3>1, FS_EmptySet
    <2>2. IsFiniteSet(A \cup B)
          /\ Cardinality(A \cup B) = Cardinality(A) + Cardinality(B) - Cardinality(A \cap B)
      <3> HIDE DEF B
      <3> QED BY <1>5, <1>8, FS_Union
    <2>3. Cardinality(A) \in Nat /\ Cardinality(B) \in Nat
      BY <1>5, <1>8
    <2> HIDE DEF B
    <2> QED BY <2>1, <2>2, <2>3
  <1>10. Cardinality(U) <= Cardinality(A \cup B)
    <2>1. U \subseteq A \cup B
      OBVIOUS
    <2> HIDE DEF B
    <2> QED BY <1>9, <2>1, FS_Subset
  <1> QED BY <1>3, <1>5, <1>6, <1>7, <1>8, <1>9, <1>10 DEF u

(* The addresses a dial has not seen are queued once each.                   *)
LEMMA CountOfUnseen ==
    ASSUME NEW s \in Lists, NEW more \in Unseen(s), NEW a
    PROVE  Count(more, a) <= 1
  <1>1. more \in Seq(Addresses) /\ s \in Seq(Addresses) /\ Set(more) \subseteq Set(s)
    BY ListsAreSeqs DEF Unseen
  <1>2. \A m, n \in DOMAIN more : m < n => FirstAt(s, more[m]) < FirstAt(s, more[n])
    BY Zenon DEF Unseen
  <1>3. CASE Places(more, a) = {}
    <2>1. Count(more, a) = 0
      BY <1>3, FS_EmptySet DEF Count, Places
    <2> QED BY <2>1
  <1>4. ASSUME NEW m \in Places(more, a) PROVE Count(more, a) <= 1
    <2>1. m \in DOMAIN more /\ more[m] = a /\ a \in Set(s)
      BY Zenon, <1>1, <1>4 DEF Places, Set
    <2>2. FirstAt(s, a) \in Int
      <3> DEFINE P == Places(s, a)
      <3>1. P # {} /\ P \subseteq Nat
        BY <1>1, <2>1 DEF Places, Set
      <3> HIDE DEF P
      <3>2. PICK k \in P : \A l \in P : k <= l
        <4> DEFINE less == {p \in Nat \X Nat : p[1] < p[2]}
        <4>1. \A l, k \in Nat : l < k => <<l, k>> \in less
          OBVIOUS
        <4>2. IsWellFoundedOn(less, Nat)
          BY NatLessThanWellFounded DEF OpToRel
        <4> HIDE DEF less
        <4>3. PICK k \in P : \A l \in P : ~(<<l, k>> \in less)
          BY Zenon, <3>1, <4>2, WFMin
        <4>4. ASSUME NEW l \in P PROVE k <= l
          <5>1. k \in Nat /\ l \in Nat
            BY <3>1
          <5>2. ~(l < k)
            BY Zenon, <4>1, <4>3, <5>1
          <5> QED BY <5>1, <5>2
        <4> QED BY <4>4
      <3>3. /\ k \in DOMAIN s /\ s[k] = a
            /\ \A l \in 1..k - 1 : s[l] # a
        <4>1. k \in 1..Len(s) /\ s[k] = a /\ k \in DOMAIN s /\ Len(s) \in Nat
          BY <1>1, <3>2 DEF P, Places
        <4>2. ASSUME NEW l \in 1..k - 1, s[l] = a PROVE FALSE
          <5>1. l \in DOMAIN s /\ ~(k <= l)
            BY <1>1, <4>1
          <5> QED BY <3>2, <4>2, <5>1 DEF P, Places
        <4> QED BY <4>1, <4>2
      <3>4. FirstAt(s, a) \in DOMAIN s
        BY Zenon, <3>3 DEF FirstAt
      <3> QED BY <1>1, <3>4
    <2>3. ASSUME NEW n \in Places(more, a) PROVE n = m
      <3>1. n \in DOMAIN more /\ more[n] = a
        BY DEF Places
      <3>2. ~(FirstAt(s, a) < FirstAt(s, a))
        BY <2>2
      <3>3. ~(m < n) /\ ~(n < m)
        BY Zenon, <1>2, <2>1, <3>1, <3>2
      <3>4. m \in Int /\ n \in Int
        BY <1>1, <2>1, <3>1
      <3> QED BY <3>3, <3>4
    <2>4. Places(more, a) = {m}
      BY <2>3
    <2>5. Count(more, a) = Cardinality({m})
      BY <2>4 DEF Count, Places
    <2> QED BY <2>5, FS_Singleton
  <1> QED BY <1>3, <1>4

-----------------------------------------------------------------------------
(* An address was tried or waits once, or as often as the list that started  *)
(* the dial has it; and the context has seen it.                             *)
Often(x, a) == Count(x.tried, a) + Count(x.addr_queue, a)

Bounded(x) ==
    /\ \A a \in Addresses : Often(x, a) <= 1 \/ Often(x, a) <= Count(x.first, a)
    /\ Set(x.tried) \cup Set(x.addr_queue) \subseteq x.addr_seen

TriesBounded == ctx # NoCtx => Bounded(ctx)

(* rotate moves one occurrence from the queue to the attempts.               *)
LEMMA RotateBounded ==
    ASSUME NEW c, NEW x \in DialCtx, Bounded(x), rotate(c, x)
    PROVE  TriesBounded'
  <1> DEFINE q == x.addr_queue
             able == {k \in DOMAIN q : q[k] \in Dialable}
  <1>0. q \in Seq(Addresses) /\ x.tried \in Seq(Dialable)
    BY DEF DialCtx
  <1>1. CASE completeDial
    BY <1>1 DEF completeDial, TriesBounded
  <1>2. ASSUME NEW k \in able,
               ctx' = [x EXCEPT !.addr_queue = SubSeq(@, k + 1, Len(@)),
                                !.dialled = TRUE,
                                !.tried = Append(@, x.addr_queue[k])]
        PROVE  TriesBounded'
    <2> DEFINE r == SubSeq(q, k + 1, Len(q))
               t == Append(x.tried, q[k])
    <2>1. /\ r \in Seq(Addresses) /\ Set(r) \subseteq Set(q)
          /\ t \in Seq(Dialable) /\ Set(t) = Set(x.tried) \cup {q[k]}
          /\ q[k] \in Set(q) /\ k \in DOMAIN q /\ q[k] \in Dialable
      <3>1. k \in DOMAIN q /\ q[k] \in Dialable /\ q[k] \in Set(q)
        BY DEF Set
      <3>2. r \in Seq(Addresses)
        BY <1>0, <3>1, SetOfRest
      <3>3. Set(r) \subseteq Set(q)
        BY Zenon, <1>0, <3>1, CountOfRest
      <3>4. t \in Seq(Dialable) /\ Set(t) = Set(x.tried) \cup {q[k]}
        BY <1>0, <3>1, SetOfAppend
      <3> QED BY <3>1, <3>2, <3>3, <3>4
    <2>2. ASSUME NEW a \in Addresses
          PROVE  Count(t, a) + Count(r, a) <= Count(x.tried, a) + Count(q, a)
      <3>1. /\ q[k] = a => Count(t, a) <= Count(x.tried, a) + 1
            /\ q[k] # a => Count(t, a) <= Count(x.tried, a)
        BY <1>0, <2>1, CountOfAppend
      <3>2. /\ q[k] = a => Count(r, a) + 1 <= Count(q, a)
            /\ q[k] # a => Count(r, a) <= Count(q, a)
        BY <1>0, <2>1, CountOfRest
      <3>3. /\ Count(q, a) \in Nat /\ Count(x.tried, a) \in Nat
            /\ Count(r, a) \in Nat /\ Count(t, a) \in Nat
        <4> HIDE DEF r, t
        <4> QED BY <1>0, <2>1, PlacesFinite
      <3> HIDE DEF r, t
      <3> QED BY <3>1, <3>2, <3>3
    <2>3. ctx' = [x EXCEPT !.addr_queue = r, !.dialled = TRUE, !.tried = t]
      BY <1>2
    <2> HIDE DEF r, t
    <2>4. /\ ctx'.addr_queue = r /\ ctx'.tried = t /\ ctx'.first = x.first
          /\ ctx'.addr_seen = x.addr_seen
      BY <2>3 DEF DialCtx
    <2>5. Set(t) \cup Set(r) \subseteq x.addr_seen
      BY <2>1 DEF Bounded
    <2>6. ASSUME NEW a \in Addresses
          PROVE  Count(t, a) + Count(r, a) <= 1 \/ Count(t, a) + Count(r, a) <= Count(x.first, a)
      <3>1. /\ Count(q, a) \in Nat /\ Count(x.tried, a) \in Nat /\ Count(x.first, a) \in Nat
            /\ Count(r, a) \in Nat /\ Count(t, a) \in Nat
        BY <1>0, <2>1, PlacesFinite DEF DialCtx
      <3>2. \/ Count(x.tried, a) + Count(q, a) <= 1
            \/ Count(x.tried, a) + Count(q, a) <= Count(x.first, a)
        BY DEF Bounded, Often
      <3> QED BY <2>2, <3>1, <3>2
    <2> QED BY <2>4, <2>5, <2>6 DEF TriesBounded, Bounded, Often
  <1> QED BY Zenon, <1>1, <1>2 DEF rotate

(* The addresses another call brings were neither tried nor queued before.   *)
LEMMA AnotherBounded ==
    ASSUME IInv, TriesBounded, NEW c \in Calls, NEW s \in Lists, Another(c, s)
    PROVE  TriesBounded'
  <1>1. ctx \in DialCtx /\ Bounded(ctx)
    BY DEF Another, CanCall, IInv, TypeOK, TriesBounded
  <1>2. PICK more \in Unseen(s) :
            ctx' = [ctx EXCEPT !.addr_queue = @ \o more,
                               !.addr_seen = @ \cup Set(s),
                               !.offered = @ \cup Set(s)]
    BY Zenon DEF Another
  <1>3. more \in Seq(Addresses) /\ Set(more) = Set(s) \ ctx.addr_seen
    BY ListsAreSeqs DEF Unseen
  <1> DEFINE q == ctx.addr_queue
             t == ctx.tried
             r == q \o more
  <1>4. q \in Seq(Addresses) /\ t \in Seq(Dialable) /\ ctx.first \in Seq(Addresses)
    BY <1>1 DEF DialCtx
  <1>5. r \in Seq(Addresses) /\ Set(r) \subseteq Set(q) \cup Set(more)
    BY SMTT(30), <1>3, <1>4, CountOfConcat
  <1>6. ctx' = [ctx EXCEPT !.addr_queue = r, !.addr_seen = @ \cup Set(s),
                           !.offered = @ \cup Set(s)]
    BY <1>2
  <1>7. /\ ctx'.addr_queue = r /\ ctx'.tried = t /\ ctx'.first = ctx.first
        /\ ctx'.addr_seen = ctx.addr_seen \cup Set(s)
    <2> HIDE DEF r
    <2> QED BY Zenon, <1>1, <1>6 DEF DialCtx
  <1>8. ASSUME NEW a \in Addresses
        PROVE  Count(t, a) + Count(r, a) <= 1 \/ Count(t, a) + Count(r, a) <= Count(ctx.first, a)
    <2>1. /\ Count(q, a) \in Nat /\ Count(t, a) \in Nat /\ Count(ctx.first, a) \in Nat
          /\ Count(more, a) \in Nat
          /\ a \notin Set(q) => Count(q, a) = 0
          /\ a \notin Set(t) => Count(t, a) = 0
          /\ a \notin Set(more) => Count(more, a) = 0
      BY <1>3, <1>4, PlacesFinite
    <2>2. Count(r, a) \in Nat
      <3> HIDE DEF r
      <3> QED BY <1>5, PlacesFinite
    <2>3. Count(r, a) <= Count(q, a) + Count(more, a)
      BY <1>3, <1>4, CountOfConcat
    <2>4. Count(more, a) <= 1
      BY CountOfUnseen
    <2>5. \/ Count(t, a) + Count(q, a) <= 1
          \/ Count(t, a) + Count(q, a) <= Count(ctx.first, a)
      BY <1>1 DEF Bounded, Often
    <2>6. a \in Set(more) => a \notin Set(q) /\ a \notin Set(t)
      BY <1>1, <1>3 DEF Bounded
    <2> HIDE DEF r, q, t
    <2> QED BY <2>1, <2>2, <2>3, <2>4, <2>5, <2>6
  <1>9. Set(t) \cup Set(r) \subseteq ctx.addr_seen \cup Set(s)
    BY <1>1, <1>3, <1>5 DEF Bounded
  <1> HIDE DEF r
  <1> QED BY <1>7, <1>8, <1>9 DEF TriesBounded, Bounded, Often

(* The first context has tried nothing, and queues the list it was given.    *)
LEMMA NewBounded ==
    ASSUME NEW s \in Seq(Addresses)
    PROVE  Bounded([addr_queue |-> s, addr_seen |-> Set(s), result |-> FALSE,
                    dialled |-> FALSE, first |-> s, offered |-> Set(s), tried |-> <<>>])
  <1>1. <<>> \in Seq(Addresses) /\ Set(<<>>) = {}
    BY DEF Set
  <1>2. \A a \in Addresses : Count(<<>>, a) = 0 /\ Count(s, a) \in Nat
    BY Zenon, <1>1, PlacesFinite
  <1> QED BY <1>1, <1>2 DEF Bounded, Often

(* No step tries an address twice, unless the first list has it twice.       *)
LEMMA NextBounded == IInv /\ TriesBounded /\ [Next]_vars => TriesBounded'
  <1> SUFFICES ASSUME IInv, TriesBounded, [Next]_vars PROVE TriesBounded'
    OBVIOUS
  <1>1. CASE UNCHANGED ctx
    BY <1>1 DEF TriesBounded
  <1>2. ASSUME NEW c \in Calls, NEW s \in Lists, Another(c, s) PROVE TriesBounded'
    BY <1>2, AnotherBounded
  <1>3. ASSUME NEW c \in Calls, NEW s \in Lists, StartDial(c, s) PROVE TriesBounded'
    <2> DEFINE x == [addr_queue |-> s, addr_seen |-> Set(s), result |-> FALSE,
                     dialled |-> FALSE, first |-> s, offered |-> Set(s), tried |-> <<>>]
    <2>1. x \in DialCtx /\ Bounded(x)
      BY ListsAreSeqs, NewContext, NewBounded
    <2>2. rotate(c, x)
      BY <1>3 DEF StartDial
    <2> HIDE DEF x
    <2> QED BY <2>1, <2>2, RotateBounded
  <1>4. CASE AttemptFails
    <2> DEFINE x == [ctx EXCEPT !.result = TRUE]
    <2>1. x \in DialCtx /\ rotate(owner, x) /\ ctx # NoCtx
      BY <1>4, AttemptFailsRotates
    <2>2. ctx \in DialCtx /\ Bounded(ctx)
      BY <2>1 DEF IInv, TypeOK, TriesBounded
    <2>3. /\ x.addr_queue = ctx.addr_queue /\ x.tried = ctx.tried /\ x.first = ctx.first
          /\ x.addr_seen = ctx.addr_seen
      BY Zenon, <2>2 DEF DialCtx
    <2> HIDE DEF x
    <2>4. Bounded(x)
      BY <2>2, <2>3 DEF Bounded, Often
    <2> QED BY <2>1, <2>4, RotateBounded
  <1>5. CASE AttemptSucceeds
    BY <1>5 DEF AttemptSucceeds, completeDial, TriesBounded
  <1> QED BY <1>1, <1>2, <1>3, <1>4, <1>5
    DEF Next, Reuse, NoAddress, PeerConnects, Disconnected, vars

(* No address is dialled twice for being brought by several calls.           *)
THEOREM DialledOnce == Spec => []TriedOnce
  <1>1. Init => TriesBounded
    BY DEF Init, TriesBounded
  <1>2. IInv /\ TriesBounded => TriedOnce
    <2> SUFFICES ASSUME IInv, TriesBounded, ctx # NoCtx, NEW a \in Addresses
                 PROVE  \/ Count(ctx.tried, a) <= 1
                        \/ Count(ctx.tried, a) <= Count(ctx.first, a)
      BY DEF TriedOnce
    <2>1. ctx \in DialCtx /\ Bounded(ctx)
      BY DEF IInv, TypeOK, TriesBounded
    <2>2. /\ Count(ctx.tried, a) \in Nat /\ Count(ctx.addr_queue, a) \in Nat
          /\ Count(ctx.first, a) \in Nat
      BY <2>1, PlacesFinite DEF DialCtx
    <2> QED BY <2>1, <2>2 DEF Bounded, Often
  <1> QED BY <1>1, <1>2, Invariant, NextBounded, PTL DEF Spec

-----------------------------------------------------------------------------
(* The QUIC engine, beside the Dialer.                                       *)
CONSTANTS Streams, MaxOpen
VARIABLES conn, connecting, answers, ls_stream, held, reading, writing, data, buffered,
          flag, want_flush_, want_process_, inConns, resumed, crashed

E == INSTANCE QuicEngine

(* The callback of connect is called once, whichever of handshake, failure   *)
(* and end of the connection comes first; a stream with written data is      *)
(* queued to be flushed, and process posted; and no coroutine waits in a     *)
(* stream that has lost its context.                                         *)
EngineSound == E!EngineSound

(* connecting holds the callback exactly during the handshake, and the       *)
(* callback was called once if that is over.                                 *)
EConnInv ==
    /\ connecting = IF conn = "handshake" THEN TRUE ELSE FALSE
    /\ answers = IF conn \in {"none", "handshake"} THEN 0 ELSE 1

(* The flag of a held stream says that it is queued, a queue that is not     *)
(* empty that process is posted; a flag is never set before the stream is    *)
(* opened, so no stream is opened with one.                                  *)
EFlushInv ==
    /\ want_flush_ \in Seq(Streams)
    /\ E!Range(want_flush_) \subseteq flag /\ buffered \subseteq flag
    /\ want_flush_ # << >> => want_process_ = TRUE
    /\ ~crashed => flag \cap held \subseteq E!Range(want_flush_)
    /\ \A s \in flag : ls_stream[s] \in {"open", "closing", "closed"}

EInv == E!TypeOK /\ EConnInv /\ EFlushInv /\ E!WaitersServed

(* Engine::wantFlush queues the stream unless its flag is set, so never a    *)
(* second time.                                                              *)
LEMMA WantFlushValue ==
    ASSUME E!TypeOK, EFlushInv, NEW s \in held, s \in Streams, E!wantFlush(s)
    PROVE  /\ flag' = flag \cup {s} /\ want_flush_' \in Seq(Streams)
           /\ E!Range(want_flush_') = E!Range(want_flush_) \cup ({s} \ flag)
           /\ E!IsInjective(want_flush_')
           /\ want_flush_' # << >> => want_process_' = TRUE
  <1>q. /\ want_flush_ \in Seq(Streams) /\ E!IsInjective(want_flush_)
        /\ E!Range(want_flush_) \subseteq flag
        /\ want_flush_ # << >> => want_process_ = TRUE
    BY DEF EFlushInv, E!TypeOK
  <1>1. flag' = flag \cup {s}
    BY DEF E!wantFlush
  <1>2. CASE s \in flag
    <2>1. want_flush_' = want_flush_ /\ want_process_' = want_process_ /\ {s} \ flag = {}
      BY <1>2 DEF E!wantFlush
    <2> QED BY Zenon, <1>1, <1>q, <2>1
  <1>3. CASE s \notin flag
    <2>2. want_flush_' = Append(want_flush_, s) /\ want_process_' = TRUE
      BY <1>3 DEF E!wantFlush
    <2> DEFINE n == Len(want_flush_)
    <2>3. /\ n \in Nat /\ DOMAIN want_flush_ = 1..n
          /\ want_flush_' \in Seq(Streams) /\ DOMAIN want_flush_' = 1..n + 1
          /\ \A k \in 1..n : want_flush_'[k] = want_flush_[k]
          /\ want_flush_'[n + 1] = s
      BY <1>q, <2>2
    <2> HIDE DEF n
    <2>4. \A k \in 1..n : want_flush_[k] # s
      <3>1. \A k \in 1..n : want_flush_[k] \in E!Range(want_flush_)
        BY <2>3 DEF E!Range
      <3> QED BY Zenon, <1>q, <1>3, <3>1
    <2>5. E!IsInjective(want_flush_')
      BY <1>q, <2>3, <2>4 DEF E!IsInjective
    <2>6. E!Range(want_flush_') = E!Range(want_flush_) \cup {s}
      <3>1. E!Range(want_flush_') \subseteq E!Range(want_flush_) \cup {s}
        BY <2>3 DEF E!Range
      <3>2. E!Range(want_flush_) \cup {s} \subseteq E!Range(want_flush_')
        BY <2>3 DEF E!Range
      <3> QED BY <3>1, <3>2
    <2> QED BY <1>1, <1>3, <2>2, <2>3, <2>5, <2>6
  <1> QED BY Zenon, <1>2, <1>3

(* A fresh engine has nothing to flush and nobody waiting.                   *)
LEMMA EInit == E!Init => EInv
  <1> SUFFICES ASSUME E!Init PROVE EInv
    OBVIOUS
  <1>1. << >> \in Seq(Streams) /\ E!Range(<< >>) = {} /\ E!IsInjective(<< >>)
    BY DEF E!Range, E!IsInjective
  <1>2. EFlushInv
    BY <1>1 DEF E!Init, EFlushInv
  <1>3. EConnInv
    BY Zenon DEF E!Init, EConnInv
  <1>w. E!WaitersServed
    BY DEF E!Init, E!WaitersServed
  <1>4. E!TypeOK
    BY <1>1 DEF E!Init, E!TypeOK
  <1> QED BY <1>2, <1>3, <1>w, <1>4 DEF EInv

(* What a step that leaves the flush queue alone has to keep.                *)
LEMMA FlushKept ==
    ASSUME E!TypeOK, EFlushInv, UNCHANGED <<buffered, flag, want_flush_, want_process_, crashed>>,
           \A s \in flag : /\ s \in held' => s \in held
                           /\ ls_stream'[s] \in {"open", "closing", "closed"}
    PROVE  EFlushInv'
  BY DEF EFlushInv, E!Range

(* What a step that calls wantFlush has to keep.                             *)
LEMMA FlushQueued ==
    ASSUME E!TypeOK, EFlushInv, ~crashed, NEW s \in held, s \in Streams, E!wantFlush(s),
           UNCHANGED <<held, crashed>>, buffered' \subseteq buffered \cup {s},
           \A x \in flag \cup {s} : ls_stream'[x] \in {"open", "closing", "closed"}
    PROVE  EFlushInv' /\ E!IsInjective(want_flush_') /\ E!Range(want_flush_') \subseteq Streams
  <1>1. /\ flag' = flag \cup {s} /\ want_flush_' \in Seq(Streams)
        /\ E!Range(want_flush_') = E!Range(want_flush_) \cup ({s} \ flag)
        /\ E!IsInjective(want_flush_')
        /\ want_flush_' # << >> => want_process_' = TRUE
    BY Zenon, WantFlushValue
  <1>2. /\ E!Range(want_flush_) \subseteq flag /\ buffered \subseteq flag
        /\ flag \cap held \subseteq E!Range(want_flush_)
        /\ E!Range(want_flush_) \subseteq Streams
    BY DEF EFlushInv, E!TypeOK
  <1>3. E!Range(want_flush_)' = E!Range(want_flush_')
    BY DEF E!Range
  <1>4. /\ E!Range(want_flush_') \subseteq flag' /\ buffered' \subseteq flag'
        /\ flag' \cap held \subseteq E!Range(want_flush_')
        /\ E!Range(want_flush_') \subseteq Streams
    BY <1>1, <1>2
  <1>5. \A x \in flag' : ls_stream'[x] \in {"open", "closing", "closed"}
    BY <1>1
  <1> QED BY <1>1, <1>3, <1>4, <1>5 DEF EFlushInv

(* Every callback and call keeps the invariant of the engine.                *)
LEMMA ENext == EInv /\ [E!Next]_E!vars => EInv'
  <1> SUFFICES ASSUME EInv, [E!Next]_E!vars PROVE EInv'
    OBVIOUS
  <1>i. E!TypeOK /\ EConnInv /\ EFlushInv /\ E!WaitersServed
    BY DEF EInv
  <1>f. \A s \in flag : s \in Streams /\ ls_stream[s] \in {"open", "closing", "closed"}
    BY <1>i DEF EFlushInv, E!TypeOK
  <1>1. CASE E!connect
    <2>1. E!TypeOK'
      BY <1>i, <1>1 DEF E!connect, E!waitVars, E!TypeOK, E!Range
    <2>2. EConnInv'
      <3>1. answers = 0
        BY <1>i, <1>1 DEF E!connect, EConnInv
      <3>2. connecting = FALSE
        BY <1>i, <1>1 DEF E!connect, EConnInv
      <3>3. \/ conn' = "handshake" /\ connecting' = TRUE /\ answers' = 0
            \/ conn' = "closed" /\ connecting' = FALSE /\ answers' = 1
        BY <1>1, <3>1, <3>2 DEF E!connect
      <3> QED BY Zenon, <3>3 DEF EConnInv
    <2>3. EFlushInv'
      BY <1>i, <1>1 DEF E!connect, EFlushInv, E!Range
    <2>4. E!WaitersServed'
      BY <1>i, <1>1 DEF E!connect, E!waitVars, E!WaitersServed, E!Alive
    <2> QED BY <2>1, <2>2, <2>3, <2>4 DEF EInv
  <1>2. CASE E!close \/ E!ConnEnds
    <2>u. /\ conn = "open" /\ conn' = "closing"
          /\ UNCHANGED <<connecting, answers, ls_stream, held, reading, writing, data,
                         buffered, flag, want_flush_, want_process_, crashed>>
      BY <1>2 DEF E!close, E!ConnEnds, E!waitVars, E!flushVars
    <2>1. E!TypeOK'
      BY <1>i, <2>u DEF E!TypeOK, E!Range
    <2>2. EConnInv'
      BY <1>i, <2>u DEF EConnInv
    <2>3. EFlushInv'
      BY <1>i, <1>f, <2>u, FlushKept
    <2>4. E!WaitersServed'
      BY <1>i, <2>u DEF E!WaitersServed, E!Alive
    <2> QED BY <2>1, <2>2, <2>3, <2>4 DEF EInv
  <1>3. CASE E!process
    <2>u. UNCHANGED <<conn, connecting, answers, ls_stream, held, reading, writing, data>>
      BY <1>3 DEF E!process, E!connVars, E!waitVars
    <2> DEFINE alive == E!Range(want_flush_) \cap held
    <2>p. /\ ~crashed /\ want_flush_' = << >>
          /\ \/ crashed' /\ UNCHANGED <<buffered, flag>>
             \/ /\ flag' = flag \ alive
                /\ buffered' = buffered \ alive
      BY <1>3 DEF E!process, E!flushed
    <2>e. << >> \in Seq(Streams) /\ E!Range(<< >>) = {} /\ E!IsInjective(<< >>)
      BY DEF E!Range, E!IsInjective
    <2> HIDE DEF alive
    <2>1. E!TypeOK'
      <3>1. E!Range(want_flush_)' = {} /\ E!IsInjective(want_flush_)'
        BY <2>p, <2>e DEF E!Range, E!IsInjective
      <3> QED BY <1>i, <2>u, <2>p, <3>1 DEF E!TypeOK
    <2>2. EConnInv'
      BY <1>i, <2>u DEF EConnInv
    <2>3. EFlushInv'
      <3>1. E!Range(want_flush_)' = {} /\ want_flush_' \in Seq(Streams)
        BY <2>p, <2>e DEF E!Range
      <3>2. flag' \subseteq flag /\ buffered' \subseteq flag'
        BY <1>i, <2>p DEF EFlushInv
      <3>3. ~crashed' => flag' \cap held = {}
        BY <1>i, <2>p DEF EFlushInv, alive
      <3> QED BY <1>f, <2>u, <2>p, <3>1, <3>2, <3>3 DEF EFlushInv
    <2>4. E!WaitersServed'
      BY <1>i, <2>u DEF E!WaitersServed, E!Alive
    <2> QED BY <2>1, <2>2, <2>3, <2>4 DEF EInv
  <1>4. CASE E!EndConns \/ UNCHANGED E!vars
    <2>u. UNCHANGED <<conn, connecting, answers, ls_stream, held, reading, writing, data,
                      buffered, flag, want_flush_, want_process_, crashed>>
      BY <1>4 DEF E!EndConns, E!connVars, E!waitVars, E!flushVars, E!vars
    <2>1. E!TypeOK'
      BY <1>i, <2>u DEF E!TypeOK, E!Range
    <2>2. EConnInv'
      BY <1>i, <2>u DEF EConnInv
    <2>3. EFlushInv'
      BY <1>i, <1>f, <2>u, FlushKept
    <2>4. E!WaitersServed'
      BY <1>i, <2>u DEF E!WaitersServed, E!Alive
    <2> QED BY <2>1, <2>2, <2>3, <2>4 DEF EInv
  <1>5. CASE E!on_conn_closed
    <2>u. /\ conn \in {"handshake", "closing"} /\ conn' = "closed"
          /\ answers' = IF connecting THEN answers + 1 ELSE answers
          /\ connecting' = FALSE
          /\ UNCHANGED <<held, reading, writing, data, buffered, flag, want_flush_,
                         want_process_, crashed>>
      BY <1>5 DEF E!on_conn_closed, E!answerClosed, E!waitVars, E!flushVars
    <2>l. /\ ls_stream' \in [Streams -> {"none", "pending", "open", "closing", "closed"}]
          /\ \A s \in Streams : ls_stream[s] # "pending" => ls_stream'[s] = ls_stream[s]
      BY <1>i, <1>5 DEF E!on_conn_closed, E!TypeOK
    <2>1. E!TypeOK'
      BY <1>i, <2>u, <2>l DEF E!TypeOK, E!Range
    <2>2. EConnInv'
      <3>1. CASE conn = "handshake"
        <4>1. connecting = TRUE
          BY <1>i, <3>1 DEF EConnInv
        <4>2. answers' = 1
          BY <1>i, <2>u, <3>1, <4>1 DEF EConnInv
        <4> QED BY Zenon, <2>u, <4>2 DEF EConnInv
      <3>2. CASE conn = "closing"
        BY Zenon, <1>i, <2>u, <3>2 DEF EConnInv
      <3> QED BY <2>u, <3>1, <3>2
    <2>3. EFlushInv'
      BY <1>i, <1>f, <2>u, <2>l, FlushKept
    <2>4. E!WaitersServed'
      BY <1>i, <2>u, <2>l DEF E!WaitersServed, E!Alive, E!TypeOK
    <2> QED BY <2>1, <2>2, <2>3, <2>4 DEF EInv
  <1>6. ASSUME NEW ok \in BOOLEAN, E!on_hsk_done(ok) PROVE EInv'
    <2>u. /\ conn = "handshake" /\ connecting /\ connecting' = FALSE
          /\ answers' = answers + 1 /\ conn' \in {"open", "closing"}
          /\ UNCHANGED <<ls_stream, held, reading, writing, data, buffered, flag,
                         want_flush_, want_process_, crashed>>
      BY <1>6 DEF E!on_hsk_done, E!taken, E!waitVars, E!flushVars
    <2>1. E!TypeOK'
      BY <1>i, <2>u DEF E!TypeOK, E!Range
    <2>2. EConnInv'
      <3>1. answers' = 1
        BY <1>i, <2>u DEF EConnInv
      <3> QED BY Zenon, <2>u, <3>1 DEF EConnInv
    <2>3. EFlushInv'
      BY <1>i, <1>f, <2>u, FlushKept
    <2>4. E!WaitersServed'
      BY <1>i, <2>u DEF E!WaitersServed, E!Alive
    <2> QED BY <2>1, <2>2, <2>3, <2>4 DEF EInv
  <1>7. ASSUME NEW s \in Streams, E!newStream(s) \/ E!on_new_stream(s) PROVE EInv'
    <2>u. /\ UNCHANGED <<conn, connecting, answers, reading, writing, data, buffered, flag,
                         want_flush_, want_process_, crashed>>
          /\ ls_stream[s] \in {"none", "pending"} /\ held' \subseteq held \cup {s}
          /\ held \subseteq held'
          /\ \E l \in {"open", "pending"} : ls_stream' = [ls_stream EXCEPT ![s] = l]
      BY <1>7 DEF E!newStream, E!on_new_stream, E!connVars, E!waitVars, E!flushVars
    <2>l. /\ ls_stream' \in [Streams -> {"none", "pending", "open", "closing", "closed"}]
          /\ \A x \in Streams : x # s => ls_stream'[x] = ls_stream[x]
      BY <1>i, <2>u DEF E!TypeOK
    <2>s. s \notin flag
      BY <1>f, <2>u
    <2>1. E!TypeOK'
      BY <1>i, <2>u, <2>l DEF E!TypeOK, E!Range
    <2>2. EConnInv'
      BY <1>i, <2>u DEF EConnInv
    <2>3. EFlushInv'
      <3>1. \A x \in flag : /\ x \in held' => x \in held
                            /\ ls_stream'[x] \in {"open", "closing", "closed"}
        BY <1>f, <2>u, <2>l, <2>s
      <3> QED BY <1>i, <2>u, <3>1, FlushKept
    <2>4. E!WaitersServed'
      <3>1. s \notin reading \cup writing
        BY <1>i, <2>u DEF E!WaitersServed, E!Alive
      <3> QED BY <1>i, <2>u, <2>l, <3>1 DEF E!WaitersServed, E!Alive, E!TypeOK
    <2> QED BY <2>1, <2>2, <2>3, <2>4 DEF EInv
  <1>8. ASSUME NEW s \in Streams, E!readSome(s) \/ E!readLoop(s) \/ E!on_read(s) PROVE EInv'
    <2>u. /\ UNCHANGED <<conn, connecting, answers, ls_stream, held, writing, buffered, flag,
                         want_flush_, want_process_, crashed>>
          /\ data' \subseteq data \cup {s}
          /\ reading' \subseteq reading \/ (E!hasCtx(s) /\ reading' = reading \cup {s})
      BY SMTT(30), <1>8 DEF E!readSome, E!readLoop, E!on_read, E!connVars, E!flushVars
    <2>1. E!TypeOK'
      BY <1>i, <2>u DEF E!TypeOK, E!Range
    <2>2. EConnInv'
      BY <1>i, <2>u DEF EConnInv
    <2>3. EFlushInv'
      BY <1>i, <1>f, <2>u, FlushKept
    <2>4. E!WaitersServed'
      BY <1>i, <2>u DEF E!WaitersServed, E!Alive, E!hasCtx
    <2> QED BY <2>1, <2>2, <2>3, <2>4 DEF EInv
  <1>9. ASSUME NEW s \in Streams, E!writeSome(s) \/ E!on_write(s) PROVE EInv'
    <2>u. /\ UNCHANGED <<conn, connecting, answers, ls_stream, held, reading, data, crashed>>
          /\ ~crashed /\ E!wantFlush(s) /\ buffered' \subseteq buffered \cup {s}
          /\ writing' \subseteq writing \cup {s}
      BY <1>9 DEF E!writeSome, E!on_write, E!connVars, E!CanRun, E!Callback
    <2>h. s \in held /\ E!Alive(s)
      BY <1>i, <1>9 DEF E!writeSome, E!on_write, E!hasCtx, E!WaitersServed
    <2>3. EFlushInv' /\ E!IsInjective(want_flush_') /\ E!Range(want_flush_') \subseteq Streams
      <3>1. \A x \in flag \cup {s} : ls_stream'[x] \in {"open", "closing", "closed"}
        BY <1>f, <2>u, <2>h DEF E!Alive
      <3> QED BY <1>i, <2>u, <2>h, <3>1, FlushQueued
    <2>1. E!TypeOK'
      <3>1. flag' = flag \cup {s}
        BY <2>u DEF E!wantFlush
      <3>2. E!Range(want_flush_)' = E!Range(want_flush_')
            /\ E!IsInjective(want_flush_)' = E!IsInjective(want_flush_')
        BY DEF E!Range, E!IsInjective
      <3> QED BY <1>i, <2>u, <2>3, <3>1, <3>2 DEF E!TypeOK
    <2>2. EConnInv'
      BY <1>i, <2>u DEF EConnInv
    <2>4. E!WaitersServed'
      BY <1>i, <2>u, <2>h DEF E!WaitersServed, E!Alive
    <2> QED BY <2>1, <2>2, <2>3, <2>4 DEF EInv
  <1>10. ASSUME NEW s \in Streams, NEW drop \in BOOLEAN, E!reset(s, drop) PROVE EInv'
    <2>u. /\ UNCHANGED <<conn, connecting, answers, reading, writing, data, buffered, flag,
                         want_flush_, want_process_, crashed>>
          /\ held' = (IF drop THEN held \ {s} ELSE held)
          /\ drop => s \notin reading \cup writing
          /\ ls_stream' = [ls_stream EXCEPT ![s] = IF @ = "open" THEN "closing" ELSE @]
      BY <1>10 DEF E!reset, E!connVars, E!waitVars, E!flushVars
    <2>l. /\ ls_stream' \in [Streams -> {"none", "pending", "open", "closing", "closed"}]
          /\ \A x \in Streams : \/ ls_stream'[x] = ls_stream[x]
                                \/ ls_stream[x] = "open" /\ ls_stream'[x] = "closing"
      BY <1>i, <2>u DEF E!TypeOK
    <2>1. E!TypeOK'
      BY <1>i, <2>u, <2>l DEF E!TypeOK, E!Range
    <2>2. EConnInv'
      BY <1>i, <2>u DEF EConnInv
    <2>3. EFlushInv'
      <3>1. \A x \in flag : /\ x \in held' => x \in held
                            /\ ls_stream'[x] \in {"open", "closing", "closed"}
        BY <1>f, <2>u, <2>l
      <3> QED BY <1>i, <2>u, <3>1, FlushKept
    <2>4. E!WaitersServed'
      BY <1>i, <2>u, <2>l DEF E!WaitersServed, E!Alive, E!TypeOK
    <2> QED BY <2>1, <2>2, <2>3, <2>4 DEF EInv
  <1>11. ASSUME NEW s \in Streams, E!on_close(s) PROVE EInv'
    <2>u. /\ UNCHANGED <<conn, connecting, answers, held, crashed>>
          /\ ~crashed /\ E!Alive(s)
          /\ reading' = reading \ {s} /\ writing' = writing \ {s}
          /\ buffered' = buffered \ {s} /\ data' = data \ {s}
          /\ ls_stream' = [ls_stream EXCEPT ![s] = "closed"]
          /\ \/ s \in reading \cup writing /\ E!wantFlush(s)
             \/ UNCHANGED <<flag, want_flush_, want_process_>>
      BY <1>11 DEF E!on_close, E!unblocked, E!connVars, E!Callback
    <2>l. /\ ls_stream' \in [Streams -> {"none", "pending", "open", "closing", "closed"}]
          /\ ls_stream'[s] = "closed"
          /\ \A x \in Streams : x # s => ls_stream'[x] = ls_stream[x]
      BY <1>i, <2>u DEF E!TypeOK
    <2>o. \A x \in flag \cup {s} : ls_stream'[x] \in {"open", "closing", "closed"}
      BY <1>f, <2>l
    <2>p. E!Range(want_flush_)' = E!Range(want_flush_')
          /\ E!IsInjective(want_flush_)' = E!IsInjective(want_flush_')
      BY DEF E!Range, E!IsInjective
    <2>3. /\ EFlushInv' /\ E!IsInjective(want_flush_') /\ E!Range(want_flush_') \subseteq Streams
          /\ flag' \subseteq Streams
      <3>1. CASE s \in reading \cup writing /\ E!wantFlush(s)
        <4>1. s \in held
          BY <1>i, <3>1 DEF E!WaitersServed
        <4>2. buffered' \subseteq buffered \cup {s}
          BY <2>u
        <4>3. EFlushInv' /\ E!IsInjective(want_flush_') /\ E!Range(want_flush_') \subseteq Streams
          BY SMTT(30), <1>i, <2>u, <2>o, <3>1, <4>1, <4>2, FlushQueued
        <4> QED BY <1>f, <3>1, <4>3 DEF E!wantFlush
      <3>2. CASE UNCHANGED <<flag, want_flush_, want_process_>>
        <4>1. EFlushInv'
          BY <1>i, <2>u, <2>o, <3>2 DEF EFlushInv, E!Range
        <4> QED BY <1>i, <1>f, <3>2, <4>1 DEF E!TypeOK
      <3> QED BY <2>u, <3>1, <3>2
    <2>1. E!TypeOK'
      BY <1>i, <2>u, <2>l, <2>p, <2>3 DEF E!TypeOK
    <2>2. EConnInv'
      BY <1>i, <2>u DEF EConnInv
    <2>4. E!WaitersServed'
      BY <1>i, <2>u, <2>l DEF E!WaitersServed, E!Alive, E!TypeOK
    <2> QED BY <2>1, <2>2, <2>3, <2>4 DEF EInv
  <1> QED
    BY SMTT(30), <1>1, <1>2, <1>3, <1>4, <1>5, <1>6, <1>7, <1>8, <1>9, <1>10, <1>11 DEF E!Next

(* The engine is sound for any streams: connect is answered once, written    *)
(* data is queued to be sent as long as process did not crash, and no        *)
(* coroutine waits in a stream that has lost its context.                    *)
THEOREM EngineAlwaysSound == E!Spec => []EngineSound
  <1>1. EInv => EngineSound
    <2> SUFFICES ASSUME EInv PROVE EngineSound
      OBVIOUS
    <2>1. E!FlushPending
      <3> SUFFICES ASSUME ~crashed, NEW s \in buffered \cap held
                   PROVE  s \in E!Range(want_flush_) /\ want_process_
        BY DEF E!FlushPending
      <3>1. s \in E!Range(want_flush_)
        BY DEF EInv, EFlushInv
      <3>2. want_flush_ # << >>
        BY <3>1 DEF E!Range
      <3> QED BY <3>1, <3>2 DEF EInv, EFlushInv
    <2>2. E!AnsweredOnce
      BY DEF EInv, EConnInv, E!AnsweredOnce
    <2> QED BY <2>1, <2>2 DEF EInv, EngineSound, E!EngineSound
  <1> QED BY <1>1, EInit, ENext, PTL DEF E!Spec
=============================================================================
