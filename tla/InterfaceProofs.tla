-------------------------- MODULE InterfaceProofs --------------------------
(* Proofs about the interfaces an application meets: EventBus for any        *)
(* handles, subscriptions and events, and CInterface (C) for any hosts,      *)
(* streams and operations.                                                   *)
EXTENDS EventBus, FiniteSetTheorems, TLAPS

-----------------------------------------------------------------------------
(* Sequences without repetitions.                                            *)

Once(s) == \A j, k \in 1..Len(s) : s[j] = s[k] => j = k

(* A new member at the end.                                                  *)
LEMMA AppendOnce ==
    ASSUME NEW S, NEW s \in Seq(S), NEW x \in S, Once(s), x \notin Range(s)
    PROVE  Once(Append(s, x))
  <1>1. \A k \in 1..Len(s) : s[k] # x
    BY DEF Range
  <1> QED BY <1>1 DEF Once

(* The members of a sequence with one more.                                  *)
LEMMA AppendRange ==
    ASSUME NEW S, NEW s \in Seq(S), NEW x \in S
    PROVE  Append(s, x) \in Seq(S) /\ Range(Append(s, x)) = Range(s) \cup {x}
  <1> DEFINE t == Append(s, x)
  <1>1. /\ DOMAIN t = 1..(Len(s) + 1) /\ t[Len(s) + 1] = x /\ DOMAIN s = 1..Len(s)
        /\ \A k \in 1..Len(s) : t[k] = s[k]
    OBVIOUS
  <1>2. Len(s) \in Nat
    OBVIOUS
  <1> HIDE DEF t
  <1>3. Range(t) = Range(s) \cup {x}
    BY <1>1, <1>2 DEF Range
  <1> QED BY <1>3 DEF t

(* A sequence without its last member.                                       *)
LEMMA FrontOf ==
    ASSUME NEW S, NEW s \in Seq(S), s # << >>
    PROVE  /\ Front(s) \in Seq(S) /\ Len(Front(s)) = Len(s) - 1 /\ Len(s) \in Nat \ {0}
           /\ \A k \in 1..(Len(s) - 1) : Front(s)[k] = s[k]
  <1>1. Len(s) \in Nat \ {0}
    OBVIOUS
  <1> PICK n \in Nat : n = Len(s) - 1
    BY <1>1
  <1>2. Front(s) = SubSeq(s, 1, n)
    BY DEF Front
  <1>3. SubSeq(s, 1, n) \in Seq(S) /\ Len(SubSeq(s, 1, n)) = n
    BY <1>1
  <1>4. \A k \in 1..n : SubSeq(s, 1, n)[k] = s[k]
    BY <1>1
  <1> QED BY <1>1, <1>2, <1>3, <1>4

(* A sequence without its first member.                                      *)
LEMMA TailOnce ==
    ASSUME NEW S, NEW s \in Seq(S), s # << >>, Once(s)
    PROVE  /\ Tail(s) \in Seq(S) /\ Once(Tail(s)) /\ Head(s) \in Range(s)
           /\ Range(Tail(s)) = Range(s) \ {Head(s)}
  <1> DEFINE t == Tail(s)
  <1>1. /\ t \in Seq(S) /\ Len(t) = Len(s) - 1 /\ DOMAIN t = 1..Len(t) /\ Len(s) \in Nat \ {0}
        /\ \A k \in 1..Len(t) : t[k] = s[k + 1]
        /\ DOMAIN s = 1..Len(s) /\ Head(s) = s[1]
    OBVIOUS
  <1> HIDE DEF t
  <1>2. Once(t)
    BY <1>1 DEF Once
  <1>3. \A x \in Range(t) : x \in Range(s) \ {Head(s)}
    BY <1>1 DEF Range, Once
  <1>4. ASSUME NEW x \in Range(s) \ {Head(s)} PROVE x \in Range(t)
    <2>1. PICK k \in 1..Len(s) : s[k] = x
      BY <1>1 DEF Range
    <2>2. k # 1
      BY <1>1, <1>4, <2>1
    <2>3. k - 1 \in 1..Len(t) /\ t[k - 1] = x
      BY <1>1, <2>1, <2>2
    <2> QED BY <1>1, <2>3 DEF Range
  <1>5. Head(s) \in Range(s)
    BY <1>1 DEF Range
  <1>6. Range(t) = Range(s) \ {Head(s)}
    BY <1>3, <1>4
  <1> QED BY <1>1, <1>2, <1>5, <1>6 DEF t

(* Two sequences put together.                                               *)
LEMMA ConcatOf ==
    ASSUME NEW S, NEW s \in Seq(S), NEW t \in Seq(S)
    PROVE  /\ s \o t \in Seq(S) /\ Len(s \o t) = Len(s) + Len(t)
           /\ \A j \in 1..Len(s) : (s \o t)[j] = s[j]
           /\ \A j \in 1..Len(t) : (s \o t)[Len(s) + j] = t[j]
  <1>1. s \o t \in Seq(S) /\ Len(s \o t) = Len(s) + Len(t) /\ Len(s) \in Nat /\ Len(t) \in Nat
    OBVIOUS
  <1>2. \A j \in 1..Len(s) : (s \o t)[j] = s[j]
    OBVIOUS
  <1>3. \A j \in 1..Len(t) : (s \o t)[Len(s) + j] = t[j]
    OBVIOUS
  <1> QED BY <1>1, <1>2, <1>3

(* RemoveFirst takes the one place of an element away.                       *)
LEMMA RemoveOnce ==
    ASSUME NEW S, NEW s \in Seq(S), NEW x, Once(s)
    PROVE  /\ RemoveFirst(s, x) \in Seq(S) /\ Once(RemoveFirst(s, x))
           /\ Range(RemoveFirst(s, x)) = Range(s) \ {x}
  <1>1. CASE x \notin Range(s)
    <2>1. ~ \E k \in 1..Len(s) : s[k] = x
      BY <1>1 DEF Range
    <2>2. RemoveFirst(s, x) = s
      BY <2>1 DEF RemoveFirst
    <2> QED BY <1>1, <2>2
  <1>2. CASE x \in Range(s)
    <2>1. PICK k \in 1..Len(s) : s[k] = x
      BY <1>2 DEF Range
    <2>2. {j \in 1..Len(s) : s[j] = x} = {k}
      BY <2>1 DEF Once
    <2>3. Min({k}) = k
      BY DEF Min
    <2>4. RemoveFirst(s, x) = SubSeq(s, 1, k - 1) \o SubSeq(s, k + 1, Len(s))
      BY Zenon, <2>1, <2>2, <2>3 DEF RemoveFirst, SelectInSeq, RemoveAt
    <2> DEFINE a == SubSeq(s, 1, k - 1)
               b == SubSeq(s, k + 1, Len(s))
               t == a \o b
    <2>5. /\ a \in Seq(S) /\ Len(a) = k - 1 /\ \A j \in 1..(k - 1) : a[j] = s[j]
      OBVIOUS
    <2>6. /\ b \in Seq(S) /\ Len(b) = Len(s) - k /\ \A j \in 1..(Len(s) - k) : b[j] = s[k + j]
      OBVIOUS
    <2> HIDE DEF a, b
    <2>7. /\ t \in Seq(S) /\ Len(t) = Len(s) - 1
          /\ \A j \in 1..(Len(s) - 1) : t[j] = IF j < k THEN s[j] ELSE s[j + 1]
      <3>1. k \in Nat /\ Len(s) \in Nat /\ 1 <= k /\ k <= Len(s)
        OBVIOUS
      <3>2. /\ t \in Seq(S) /\ Len(t) = Len(a) + Len(b)
            /\ \A j \in 1..Len(a) : t[j] = a[j]
            /\ \A j \in 1..Len(b) : t[Len(a) + j] = b[j]
        <4>1. a \in Seq(S) /\ b \in Seq(S)
          BY <2>5, <2>6, Zenon
        <4>2. a \o b \in Seq(S)
          BY <4>1, Zenon, ConcatOf
        <4>3. Len(a \o b) = Len(a) + Len(b)
          BY <4>1, Zenon, ConcatOf
        <4>4. \A j \in 1..Len(a) : (a \o b)[j] = a[j]
          BY <4>1, Zenon, ConcatOf
        <4>5. \A j \in 1..Len(b) : (a \o b)[Len(a) + j] = b[j]
          BY <4>1, SMTT(30)
        <4> QED BY <4>2, <4>3, <4>4, <4>5, Zenon
      <3> HIDE DEF t
      <3>3. ASSUME NEW j \in 1..(Len(s) - 1), j < k PROVE t[j] = s[j]
        BY <2>5, <3>1, <3>2, <3>3
      <3>4. ASSUME NEW j \in 1..(Len(s) - 1), j >= k PROVE t[j] = s[j + 1]
        <4> DEFINE l == j - (k - 1)
        <4>1. l \in 1..(Len(s) - k) /\ (k - 1) + l = j /\ k + l = j + 1
          BY <3>1, <3>4
        <4> HIDE DEF l
        <4>2. t[(k - 1) + l] = b[l] /\ b[l] = s[k + l]
          BY SMTT(30), <2>5, <2>6, <3>2, <4>1
        <4> QED BY <4>1, <4>2
      <3> QED BY SMTT(30), <2>5, <2>6, <3>1, <3>2, <3>3, <3>4
    <2> HIDE DEF t
    <2>8. Once(t)
      <3> SUFFICES ASSUME NEW j \in 1..(Len(s) - 1), NEW l \in 1..(Len(s) - 1), t[j] = t[l]
                   PROVE  j = l
        BY <2>7 DEF Once
      <3> DEFINE at(m) == IF m < k THEN m ELSE m + 1
      <3>1. at(j) \in 1..Len(s) /\ at(l) \in 1..Len(s) /\ s[at(j)] = s[at(l)]
        BY <2>7
      <3>2. at(j) = at(l)
        BY <3>1 DEF Once
      <3> QED BY <3>2
    <2>9. \A y \in Range(t) : y \in Range(s) \ {x}
      BY <2>1, <2>7 DEF Range, Once
    <2>10. ASSUME NEW y \in Range(s) \ {x} PROVE y \in Range(t)
      <3>1. PICK j \in 1..Len(s) : s[j] = y
        BY DEF Range
      <3>2. j # k
        BY <2>1, <2>10, <3>1
      <3>3. CASE j < k
        <4>1. j \in 1..Len(t) /\ t[j] = y
          BY <2>1, <2>7, <3>1, <3>3
        <4> QED BY <2>7, <4>1 DEF Range
      <3>4. CASE j > k
        <4>1. j - 1 \in 1..Len(t) /\ t[j - 1] = y
          BY <2>1, <2>7, <3>1, <3>4
        <4> QED BY <2>7, <4>1 DEF Range
      <3> QED BY <3>2, <3>3, <3>4
    <2> QED BY Zenon, <2>4, <2>7, <2>8, <2>9, <2>10 DEF t, a, b
  <1> QED BY <1>1, <1>2

-----------------------------------------------------------------------------
(* EventBus.                                                                 *)

(* A subscriber is called at most once for an event, none that was dropped   *)
(* since the publish, and all the others unless an exception left it; a      *)
(* subscription lives as long as its handle, over moves and assignments.     *)
CalledOnce == [][CallsOnce /\ Told' /\ OwnedOnce']_vars

(* Handles and slots belong together, one to one; slots are numbered in the  *)
(* order of the subscriptions.                                               *)
SlotInv ==
    /\ made \in Nat /\ slots \in Seq(Nat) /\ Once(slots) /\ Range(slots) \subseteq 1..made
    /\ handle \in [Handles -> Nat]
    /\ \A h \in Handles : handle[h] # 0 => handle[h] \in Range(slots)
    /\ \A h, g \in Handles : handle[h] # 0 /\ handle[h] = handle[g] => h = g
    /\ \A s \in Range(slots) : \E h \in Handles : handle[h] = s

(* Every publish has the slots of its moment.                                *)
Entries == Nat \X Nat
DueInv ==
    /\ events \in Nat /\ due \in Seq(Seq(Nat)) /\ Len(due) = events
    /\ \A e \in 1..events : Once(due[e]) /\ Range(due[e]) \subseteq 1..made
    /\ log \in Seq(Entries) /\ \A c \in Range(log) : c[2] \in 1..events

(* A publish in progress has called every slot that is no longer to do and   *)
(* still connected, and none that is to do; here n events were published to  *)
(* the slots of d, with the calls g made, and the slots o are connected.     *)
Calling(c, n, d, g, o) ==
    /\ c.event \in 1..n /\ Once(c.todo) /\ Range(c.todo) \subseteq Range(d[c.event])
    /\ \A s \in Range(c.todo) : <<s, c.event>> \notin g
    /\ \A s \in Range(d[c.event]) \ Range(c.todo) : s \in o => <<s, c.event>> \in g

CallRecords == [event : Nat, todo : Seq(Nat), running : BOOLEAN]
CallInv ==
    /\ calls \in Seq(CallRecords)
    /\ \A j, k \in 1..Len(calls) : calls[j].event = calls[k].event => j = k
    /\ \A j \in 1..Len(calls) : Calling(calls[j], events, due, Range(log), Range(slots))

BInv == SlotInv /\ DueInv /\ CallInv /\ Told

(* Told, of the publish calls cs in progress.                                *)
Open(cs, e) == \E j \in 1..Len(cs) : cs[j].event = e
AllTold(cs, n, d, g, o, l) ==
    \A e \in 1..n : e \notin l /\ ~Open(cs, e) =>
        \A s \in Range(d[e]) : s \in o => <<s, e>> \in g

(* Told in terms of the state before a step.                                 *)
LEMMA ToldNow ==
    ASSUME calls \in Seq(CallRecords)
    PROVE  Told <=> AllTold(calls, events, due, Range(log), Range(slots), left)
  <1>1. DOMAIN calls = 1..Len(calls)
    OBVIOUS
  <1> QED BY <1>1 DEF Told, AllTold, Open, Connected

(* Told in terms of the state after a step.                                  *)
LEMMA ToldNext ==
    ASSUME calls' \in Seq(CallRecords)
    PROVE  Told' <=> AllTold(calls', events', due', Range(log'), Range(slots'), left')
  <1>1. DOMAIN calls' = 1..Len(calls')
    OBVIOUS
  <1> QED BY <1>1 DEF Told, AllTold, Open, Connected

(* Nobody has subscribed or published yet.                                   *)
LEMMA BInit == Init => BInv
  <1> SUFFICES ASSUME Init PROVE BInv OBVIOUS
  <1>1. SlotInv
    BY DEF Init, SlotInv, Once, Range
  <1>2. DueInv
    BY DEF Init, DueInv, Range
  <1>3. CallInv
    BY DEF Init, CallInv
  <1>4. Told
    BY DEF Init, Told
  <1> QED BY <1>1, <1>2, <1>3, <1>4 DEF BInv

(* A step that only drops slots or makes one with a new number: who was due  *)
(* and is connected now was connected before.                                *)
LEMMA SlotsChange ==
    ASSUME BInv, SlotInv', UNCHANGED <<calls, log, events, due, left>>,
           made \in Nat, made' \in Nat, made <= made',
           \A s \in Range(slots') : s \in Range(slots) \/ s > made
    PROVE  BInv'
  <1>1. \A e \in 1..events : \A s \in Range(due[e]) : Connected(s)' => Connected(s)
    BY DEF BInv, DueInv, Connected
  <1>2. DueInv'
    BY DEF BInv, DueInv
  <1>3. \A c : Calling(c, events, due, Range(log), Range(slots)) =>
             Calling(c, events', due', Range(log'), Range(slots'))
    BY <1>1 DEF Calling, Connected
  <1>4. CallInv'
    BY <1>3 DEF BInv, CallInv
  <1>5. Told'
    BY <1>1 DEF BInv, Told
  <1> QED BY <1>2, <1>4, <1>5 DEF BInv

(* Dropping a handle disconnects its slot.                                   *)
LEMMA UnsubscribeInv == ASSUME BInv, NEW h \in Handles, unsubscribe(h) PROVE BInv'
  <1>1. /\ slots' \in Seq(Nat) /\ Once(slots') /\ Range(slots') = Range(slots) \ {handle[h]}
    BY RemoveOnce DEF BInv, SlotInv, unsubscribe, disconnect
  <1>2. /\ handle' = [handle EXCEPT ![h] = 0] /\ handle[h] # 0
        /\ UNCHANGED <<calls, log, made, events, due, left>>
    BY DEF unsubscribe
  <1>3. SlotInv'
    BY <1>1, <1>2 DEF BInv, SlotInv
  <1> QED BY <1>1, <1>2, <1>3, SlotsChange DEF BInv, SlotInv

(* Subscribing disconnects what the handle had and connects a new slot.      *)
LEMMA SubscribeInv == ASSUME BInv, NEW h \in Handles, subscribe(h) PROVE BInv'
  <1> DEFINE t == disconnect(handle[h])
  <1>1. t \in Seq(Nat) /\ Once(t) /\ Range(t) = Range(slots) \ {handle[h]}
    BY RemoveOnce DEF BInv, SlotInv, disconnect
  <1>2. /\ made' = made + 1 /\ slots' = Append(t, made + 1)
        /\ handle' = [handle EXCEPT ![h] = made + 1]
        /\ UNCHANGED <<calls, log, events, due, left>>
    BY DEF subscribe, replaced
  <1>3. made \in Nat /\ Range(slots) \subseteq 1..made
    BY DEF BInv, SlotInv
  <1>4. made + 1 \in Nat /\ made + 1 \notin Range(t)
    BY <1>1, <1>3
  <1> HIDE DEF t
  <1>5. Once(slots') /\ slots' \in Seq(Nat) /\ Range(slots') = Range(t) \cup {made + 1}
    BY <1>1, <1>2, <1>4, AppendOnce, AppendRange
  <1>6. SlotInv'
    BY <1>1, <1>2, <1>3, <1>5 DEF BInv, SlotInv
  <1>7. made' \in Nat /\ made <= made' /\ \A s \in Range(slots') : s \in Range(slots) \/ s > made
    BY <1>1, <1>2, <1>3, <1>5
  <1> QED BY <1>2, <1>3, <1>6, <1>7, SlotsChange

(* Moving a handle disconnects what the target had.                          *)
LEMMA MoveInv ==
    ASSUME BInv, NEW h \in Handles, NEW g \in Handles, move(h, g) PROVE BInv'
  <1>1. /\ slots' \in Seq(Nat) /\ Once(slots') /\ Range(slots') = Range(slots) \ {handle[h]}
    BY RemoveOnce DEF BInv, SlotInv, move, replaced, disconnect
  <1>2. /\ handle' = [handle EXCEPT ![h] = handle[g], ![g] = 0] /\ handle[g] # 0 /\ h # g
        /\ UNCHANGED <<calls, log, made, events, due, left>>
    BY DEF move
  <1>3. SlotInv'
    BY Zenon, <1>1, <1>2 DEF BInv, SlotInv
  <1>4. made \in Nat /\ made <= made /\ \A s \in Range(slots') : s \in Range(slots)
    BY <1>1 DEF BInv, SlotInv
  <1> QED BY <1>2, <1>3, <1>4, SlotsChange

(* A new publish has called nobody: its event has a number of its own.       *)
LEMMA PublishInv == ASSUME BInv, publish PROVE BInv'
  <1>1. /\ events' = events + 1 /\ due' = Append(due, slots)
        /\ UNCHANGED <<slots, handle, log, made, left>>
        /\ IF hasSubscribers
           THEN calls' = Append(calls, [event |-> events + 1, todo |-> slots, running |-> FALSE])
           ELSE calls' = calls
    BY DEF publish
  <1>2. SlotInv'
    BY <1>1 DEF BInv, SlotInv
  <1>3. /\ events \in Nat /\ due \in Seq(Seq(Nat)) /\ Len(due) = events /\ slots \in Seq(Nat)
        /\ Once(slots) /\ Range(slots) \subseteq 1..made
        /\ \A c \in Range(log) : c[2] \in 1..events
    BY DEF BInv, DueInv, SlotInv
  <1>4. /\ due' \in Seq(Seq(Nat)) /\ Len(due') = events + 1 /\ due'[events + 1] = slots
        /\ \A e \in 1..events : due'[e] = due[e]
    BY <1>1, <1>3
  <1>5. DueInv'
    BY <1>1, <1>3, <1>4 DEF BInv, DueInv
  <1>6. \A s : <<s, events + 1>> \notin Range(log)
    BY <1>3
  <1>7. \A c : Calling(c, events, due, Range(log), Range(slots)) =>
             Calling(c, events', due', Range(log'), Range(slots')) /\ c.event \in 1..events
    BY <1>1, <1>3, <1>4 DEF Calling, Connected
  <1>8. CASE hasSubscribers
    <2> DEFINE n == [event |-> events + 1, todo |-> slots, running |-> FALSE]
    <2>1. n \in CallRecords
      BY <1>3 DEF CallRecords
    <2>2. Calling(n, events', due', Range(log'), Range(slots'))
      BY <1>1, <1>3, <1>4, <1>6 DEF Calling
    <2>3. n.event = events + 1
      OBVIOUS
    <2>4. calls' = Append(calls, n)
      BY <1>1, <1>8
    <2> HIDE DEF n
    <2>5. /\ calls \in Seq(CallRecords)
          /\ \A j, k \in 1..Len(calls) : calls[j].event = calls[k].event => j = k
          /\ \A j \in 1..Len(calls) : Calling(calls[j], events, due, Range(log), Range(slots))
      BY DEF BInv, CallInv
    <2>6. /\ calls' \in Seq(CallRecords)
          /\ Len(calls') = Len(calls) + 1 /\ calls'[Len(calls) + 1] = n /\ Len(calls) \in Nat
          /\ \A j \in 1..Len(calls) : calls'[j] = calls[j]
      BY <2>1, <2>4, <2>5
    <2>k. \A j \in 1..Len(calls') : j \in 1..Len(calls) \/ j = Len(calls) + 1
      BY <2>6
    <2>7. \A j \in 1..Len(calls') : Calling(calls'[j], events', due', Range(log'), Range(slots'))
      BY <1>7, <2>2, <2>5, <2>6, <2>k
    <2>e. /\ calls'[Len(calls) + 1].event = events + 1
          /\ \A j \in 1..Len(calls) : calls'[j].event = calls[j].event /\ calls[j].event # events + 1
      <3>1. \A j \in 1..Len(calls) : calls[j].event \in 1..events
        BY <1>7, <2>5
      <3> QED BY <1>3, <2>3, <2>6, <3>1
    <2>8. \A j, k \in 1..Len(calls') : calls'[j].event = calls'[k].event => j = k
      BY <2>5, <2>e, <2>k
    <2>9. CallInv'
      BY <2>6, <2>7, <2>8 DEF CallInv
    <2>10. Told'
      <3>1. AllTold(calls, events, due, Range(log), Range(slots), left)
        BY <2>5, ToldNow DEF BInv
      <3>2. ASSUME NEW e \in 1..(events + 1), ~Open(calls', e)
            PROVE  e \in 1..events /\ ~Open(calls, e)
        <4>1. Len(calls) + 1 \in 1..Len(calls') /\ 1..Len(calls) \subseteq 1..Len(calls')
          BY <2>6
        <4>2. e # events + 1
          BY <2>e, <3>2, <4>1 DEF Open
        <4>3. e \in 1..events
          BY <1>3, <4>2
        <4>4. ~Open(calls, e)
          BY <2>e, <3>2, <4>1 DEF Open
        <4> QED BY <4>3, <4>4
      <3>3. AllTold(calls', events', due', Range(log'), Range(slots'), left')
        BY SMTT(30), <1>1, <1>4, <3>1, <3>2 DEF AllTold
      <3> QED BY <2>6, <3>3, ToldNext
    <2> QED BY <1>2, <1>5, <2>9, <2>10 DEF BInv
  <1>9. CASE ~hasSubscribers
    <2>1. calls' = calls /\ Range(slots) = {}
      BY <1>1, <1>3, <1>9 DEF hasSubscribers, Range
    <2>2. CallInv'
      BY <1>7, <2>1 DEF BInv, CallInv
    <2>3. Told'
      <3> SUFFICES ASSUME NEW e \in 1..(events + 1),
                          e \notin {calls[j].event : j \in DOMAIN calls} \cup left,
                          NEW s \in Range(due'[e]), s \in Range(slots)
                   PROVE  <<s, e>> \in Range(log)
        BY <1>1, <2>1 DEF Told, Connected
      <3> QED BY <2>1
    <2> QED BY <1>2, <1>5, <2>2, <2>3 DEF BInv
  <1> QED BY <1>8, <1>9

(* The call on top and the others.                                           *)
LEMMA TopCall ==
    ASSUME BInv, calls # << >>
    PROVE  /\ Len(calls) \in 1..Len(calls) /\ Top = calls[Len(calls)]
           /\ Calling(Top, events, due, Range(log), Range(slots))
           /\ Top \in CallRecords
  <1>1. calls \in Seq(CallRecords)
    BY DEF BInv, CallInv
  <1>2. Len(calls) \in 1..Len(calls)
    BY <1>1
  <1>3. Calling(calls[Len(calls)], events, due, Range(log), Range(slots))
    BY <1>2 DEF BInv, CallInv
  <1>4. calls[Len(calls)] \in CallRecords
    BY <1>1, <1>2
  <1> QED BY <1>2, <1>3, <1>4 DEF Top

(* A step that replaces the call on top by another of the same event.        *)
LEMMA OneCall ==
    ASSUME BInv, calls # << >>, NEW x, calls' = [calls EXCEPT ![Len(calls)] = x],
           x \in CallRecords, x.event = Top.event,
           UNCHANGED <<slots, handle, made, events, due, left>>,
           DueInv', Calling(x, events', due', Range(log'), Range(slots')),
           \A c : Calling(c, events, due, Range(log), Range(slots)) /\ c.event # x.event =>
                     Calling(c, events', due', Range(log'), Range(slots')),
           Range(log) \subseteq Range(log')
    PROVE  BInv'
  <1>1. /\ calls \in Seq(CallRecords)
        /\ \A j, k \in 1..Len(calls) : calls[j].event = calls[k].event => j = k
        /\ \A j \in 1..Len(calls) : Calling(calls[j], events, due, Range(log), Range(slots))
    BY DEF BInv, CallInv
  <1>2. Len(calls) \in 1..Len(calls) /\ Top = calls[Len(calls)]
    BY TopCall
  <1>3. /\ calls' \in Seq(CallRecords)
        /\ Len(calls') = Len(calls) /\ calls'[Len(calls)] = x /\ DOMAIN calls' = DOMAIN calls
        /\ \A j \in 1..Len(calls) : j # Len(calls) => calls'[j] = calls[j]
    BY SMTT(30), <1>1, <1>2
  <1>4. \A j \in 1..Len(calls) : calls'[j].event = calls[j].event
    BY ZenonT(30), <1>2, <1>3
  <1>5. \A j \in 1..Len(calls) : Calling(calls'[j], events', due', Range(log'), Range(slots'))
    BY ZenonT(30), <1>1, <1>2, <1>3, <1>4
  <1>6. CallInv'
    BY Zenon, <1>1, <1>3, <1>4, <1>5 DEF CallInv
  <1>7. SlotInv'
    BY SMTT(30) DEF BInv, SlotInv
  <1>8. \A e : Open(calls', e) <=> Open(calls, e)
    BY ZenonT(30), <1>3, <1>4 DEF Open
  <1>9. Told'
    <2>1. AllTold(calls, events, due, Range(log), Range(slots), left)
      BY <1>1, ToldNow DEF BInv
    <2>2. AllTold(calls', events', due', Range(log'), Range(slots'), left')
      BY <1>8, <2>1 DEF AllTold
    <2> QED BY Zenon, <1>3, <2>2, ToldNext
  <1> QED BY <1>6, <1>7, <1>9 DEF BInv

(* The next slot of the call on top is called if it is still connected.      *)
LEMMA NextSlotInv == ASSUME BInv, next PROVE BInv'
  <1> DEFINE s == Head(Top.todo)
  <1> PICK b : b = callable(s)
    OBVIOUS
  <1> DEFINE x == [calls[Len(calls)] EXCEPT !.todo = Tail(@), !.running = b]
  <1>1. /\ calls # << >> /\ Top.todo # << >> /\ UNCHANGED <<slots, handle, made, events, due, left>>
        /\ log' = IF s \in Range(slots) THEN Append(log, <<s, Top.event>>) ELSE log
        /\ calls' = [calls EXCEPT ![Len(calls)] = x]
    <2>1. /\ calls # << >> /\ Top.todo # << >>
          /\ UNCHANGED <<slots, handle, made, events, due, left>>
      BY DEF next
    <2>2. log' = IF s \in Range(slots) THEN Append(log, <<s, Top.event>>) ELSE log
      BY DEF next, callable, Connected
    <2>3. calls' = [calls EXCEPT ![Len(calls)].todo = Tail(@), ![Len(calls)].running = b]
      BY DEF next, after
    <2>4. calls' = [calls EXCEPT ![Len(calls)] = x]
      <3>1. Len(calls) \in DOMAIN calls /\ calls \in Seq(CallRecords)
        BY TopCall, <2>1 DEF BInv, CallInv
      <3> QED BY Zenon, <2>3, <3>1
    <2> QED BY <2>1, <2>2, <2>4
  <1>2. /\ Len(calls) \in 1..Len(calls) /\ Top = calls[Len(calls)] /\ Top \in CallRecords
        /\ Calling(Top, events, due, Range(log), Range(slots))
    BY <1>1, TopCall
  <1>3. /\ Tail(Top.todo) \in Seq(Nat) /\ Once(Tail(Top.todo)) /\ s \in Range(Top.todo)
        /\ Range(Tail(Top.todo)) = Range(Top.todo) \ {s} /\ s \in Nat
    BY <1>1, <1>2, TailOnce DEF Calling, CallRecords
  <1>4. b \in BOOLEAN
    BY DEF callable, Connected
  <1>5. /\ x \in CallRecords /\ x.event = Top.event /\ x.todo = Tail(Top.todo)
    BY Zenon, <1>2, <1>3, <1>4 DEF CallRecords
  <1>6. log \in Seq(Entries) /\ Top.event \in Nat /\ Top.event \in 1..events
    BY <1>2 DEF BInv, DueInv, Calling, CallRecords
  <1>7. /\ log' \in Seq(Entries)
        /\ Range(log') = IF s \in Range(slots) THEN Range(log) \cup {<<s, Top.event>>} ELSE Range(log)
    <2>1. <<s, Top.event>> \in Entries
      BY <1>3, <1>6 DEF Entries
    <2>2. CASE s \in Range(slots)
      <3> PICK c : c = <<s, Top.event>>
        BY Zenon
      <3>1. log' = Append(log, c)
        BY <1>1, <2>2
      <3>2. log' \in Seq(Entries) /\ Range(log') = Range(log) \cup {c}
        <4>1. log \in Seq(Entries) /\ c \in Entries
          BY <1>6, <2>1
        <4>2. Append(log, c) \in Seq(Entries) /\ Range(Append(log, c)) = Range(log) \cup {c}
          BY <4>1, AppendRange
        <4> QED BY Zenon, <3>1, <4>2
      <3> QED BY <2>2, <3>2
    <2>3. CASE s \notin Range(slots)
      BY <1>1, <1>6, <2>3
    <2> QED BY <2>2, <2>3
  <1> HIDE DEF x, s
  <1>8. DueInv'
    <2>1. \A c \in Range(log') : c[2] \in 1..events
      <3>1. \A c \in Range(log') : c \in Range(log) \/ c = <<s, Top.event>>
        BY <1>7
      <3>2. <<s, Top.event>>[2] = Top.event
        OBVIOUS
      <3>3. \A c \in Range(log) : c[2] \in 1..events
        BY DEF BInv, DueInv
      <3> QED BY <1>6, <3>1, <3>2, <3>3
    <2> QED BY Zenon, <1>1, <1>7, <2>1 DEF BInv, DueInv
  <1>9. Calling(x, events', due', Range(log'), Range(slots'))
    BY Zenon, <1>1, <1>2, <1>3, <1>5, <1>7 DEF Calling
  <1>10. \A c : Calling(c, events, due, Range(log), Range(slots)) /\ c.event # x.event =>
                   Calling(c, events', due', Range(log'), Range(slots'))
    BY Zenon, <1>1, <1>5, <1>7 DEF Calling
  <1> QED BY Zenon, <1>1, <1>5, <1>7, <1>8, <1>9, <1>10, OneCall

(* The subscriber returns.                                                   *)
LEMMA ReturnInv == ASSUME BInv, return PROVE BInv'
  <1> DEFINE x == [Top EXCEPT !.running = FALSE]
  <1>1. /\ calls # << >> /\ UNCHANGED <<slots, handle, log, made, events, due, left>>
        /\ calls' = [calls EXCEPT ![Len(calls)] = x]
    BY DEF return, Top
  <1>2. Top \in CallRecords /\ Calling(Top, events, due, Range(log), Range(slots))
    BY <1>1, TopCall
  <1>3. x \in CallRecords /\ x.event = Top.event /\ x.todo = Top.todo
    BY Zenon, <1>2 DEF CallRecords
  <1> HIDE DEF x
  <1>4. DueInv'
    BY <1>1 DEF BInv, DueInv
  <1>5. Calling(x, events', due', Range(log'), Range(slots'))
    BY <1>1, <1>2, <1>3 DEF Calling
  <1> QED BY Zenon, <1>1, <1>3, <1>4, <1>5, OneCall

(* A publish with nothing left to do is over: who is connected was called.   *)
LEMMA PublishedInv == ASSUME BInv, published PROVE BInv'
  <1>1. /\ calls # << >> /\ Top.todo = << >> /\ calls' = Front(calls)
        /\ UNCHANGED <<slots, handle, log, made, events, due, left>>
    BY DEF published
  <1>2. /\ calls \in Seq(CallRecords)
        /\ \A j, k \in 1..Len(calls) : calls[j].event = calls[k].event => j = k
        /\ \A j \in 1..Len(calls) : Calling(calls[j], events, due, Range(log), Range(slots))
    BY DEF BInv, CallInv
  <1>3. /\ calls' \in Seq(CallRecords) /\ Len(calls') = Len(calls) - 1 /\ Len(calls) \in Nat \ {0}
        /\ \A j \in 1..(Len(calls) - 1) : calls'[j] = calls[j]
    BY <1>1, <1>2, FrontOf
  <1>4. Calling(Top, events, due, Range(log), Range(slots)) /\ Top = calls[Len(calls)]
    BY <1>1, TopCall
  <1>5. CallInv'
    BY <1>1, <1>2, <1>3 DEF CallInv
  <1>6. AllTold(calls, events, due, Range(log), Range(slots), left)
    BY <1>2, ToldNow DEF BInv
  <1>7. AllTold(calls', events, due, Range(log), Range(slots), left)
    <2> SUFFICES ASSUME NEW e \in 1..events, e \notin left, ~Open(calls', e),
                        NEW s \in Range(due[e]), s \in Range(slots)
                 PROVE  <<s, e>> \in Range(log)
      BY DEF AllTold
    <2>1. CASE e = Top.event
      <3>1. Range(Top.todo) = {}
        BY <1>1 DEF Range
      <3> QED BY <1>4, <2>1, <3>1 DEF Calling
    <2>2. CASE e # Top.event
      <3>1. \A j \in 1..Len(calls) : j \in 1..Len(calls') \/ j = Len(calls)
        BY <1>3
      <3>2. ~Open(calls, e)
        BY <1>3, <1>4, <2>2, <3>1 DEF Open
      <3> QED BY <1>6, <3>2 DEF AllTold
    <2> QED BY <2>1, <2>2
  <1>8. Told'
    BY <1>1, <1>3, <1>7, ToldNext
  <1>9. SlotInv' /\ DueInv'
    BY <1>1 DEF BInv, SlotInv, DueInv
  <1> QED BY <1>5, <1>8, <1>9 DEF BInv

(* An exception leaves all the publish calls in progress.                    *)
LEMMA ThrowInv == ASSUME BInv, throw PROVE BInv'
  <1>1. /\ calls' = << >> /\ left' = left \cup {calls[j].event : j \in DOMAIN calls}
        /\ UNCHANGED <<slots, handle, log, made, events, due>>
    BY DEF throw
  <1>2. CallInv'
    BY <1>1 DEF CallInv
  <1>3. Told'
    BY <1>1 DEF BInv, Told, Connected
  <1>4. SlotInv' /\ DueInv'
    BY <1>1 DEF BInv, SlotInv, DueInv
  <1> QED BY <1>2, <1>3, <1>4 DEF BInv

(* Every step of the bus keeps the invariant.                                *)
LEMMA BNext == BInv /\ [Next]_vars => BInv'
  <1> SUFFICES ASSUME BInv, [Next]_vars PROVE BInv' OBVIOUS
  <1>1. CASE UNCHANGED vars
    <2>1. SlotInv' /\ DueInv'
      BY <1>1 DEF vars, BInv, SlotInv, DueInv
    <2>2. CallInv'
      BY <1>1 DEF vars, BInv, CallInv
    <2>3. Told'
      BY <1>1 DEF vars, BInv, Told, Connected
    <2> QED BY <2>1, <2>2, <2>3 DEF BInv
  <1>2. CASE Next
    BY SMTT(30), <1>2, PublishInv, UnsubscribeInv, SubscribeInv, MoveInv, NextSlotInv, ReturnInv,
       PublishedInv, ThrowInv DEF Next, Use, Dispatch
  <1> QED BY <1>1, <1>2

(* As many handles own a slot as there are slots.                            *)
LEMMA InvOwned == ASSUME SlotInv PROVE OwnedOnce
  <1> DEFINE owners == {h \in Handles : handle[h] # 0}
             owner == [k \in 1..Len(slots) |-> CHOOSE h \in Handles : handle[h] = slots[k]]
  <1>1. \A k \in 1..Len(slots) : slots[k] \in Range(slots) /\ slots[k] # 0
    BY SMTT(30) DEF SlotInv, Range
  <1>2. \A k \in 1..Len(slots) : owner[k] \in Handles /\ handle[owner[k]] = slots[k]
    BY <1>1 DEF SlotInv
  <1>3. owner \in [1..Len(slots) -> owners]
    BY <1>1, <1>2
  <1>4. \A j, k \in 1..Len(slots) : owner[j] = owner[k] => j = k
    BY <1>2 DEF SlotInv, Once
  <1>5. ASSUME NEW h \in owners PROVE \E k \in 1..Len(slots) : owner[k] = h
    <2>1. PICK k \in 1..Len(slots) : slots[k] = handle[h]
      BY <1>5 DEF SlotInv, Range
    <2> QED BY <1>1, <1>2, <2>1 DEF SlotInv
  <1>6. owner \in Bijection(1..Len(slots), owners)
    BY Zenon, <1>3, <1>4, <1>5 DEF Bijection, Injection, IsInjective, Surjection
  <1>7. Cardinality(owners) = Len(slots)
    BY <1>6, FS_CountingElements DEF ExistsBijection, SlotInv
  <1> QED BY <1>7 DEF OwnedOnce, SlotInv, Connected

(* Whoever is called was due, is connected, and was not called before.       *)
LEMMA InvCalls == ASSUME BInv, [Next]_vars PROVE CallsOnce
  <1> SUFFICES ASSUME Len(log') > Len(log)
               PROVE  LET c == Last(log') IN
                      c \notin Range(log) /\ c[1] \in Range(due[c[2]]) /\ Connected(c[1])
    BY DEF CallsOnce
  <1>1. next
    BY DEF BInv, DueInv, Next, Use, Dispatch, vars, publish, unsubscribe, subscribe, move, return,
           published, throw
  <1> DEFINE s == Head(Top.todo)
  <1>2. /\ log' = Append(log, <<s, Top.event>>) /\ s \in Range(slots)
        /\ calls # << >> /\ Top.todo # << >>
    BY <1>1 DEF BInv, DueInv, next, callable, Connected
  <1>3. Top \in CallRecords /\ Calling(Top, events, due, Range(log), Range(slots))
    BY <1>2, TopCall
  <1>4. s \in Range(Top.todo) /\ s \in Nat /\ Top.event \in Nat
    BY <1>2, <1>3, TailOnce DEF CallRecords, Calling
  <1>5. Last(log') = <<s, Top.event>>
    BY <1>2, <1>4 DEF Last, BInv, DueInv, Entries
  <1> QED BY <1>2, <1>3, <1>4, <1>5 DEF Calling, Connected

(* The event bus: for any number of handles, subscriptions and events and    *)
(* subscribers that use the channel while they are called, nobody is called  *)
(* twice for an event or after it was dropped, who stays is called unless an *)
(* exception leaves the publish, and a subscription has one owner.           *)
THEOREM AlwaysCalledOnce == Spec => CalledOnce
  <1>1. BInv /\ [Next]_vars => BInv'
    BY BNext
  <1>2. BInv /\ BInv' /\ [Next]_vars => CallsOnce /\ Told' /\ OwnedOnce'
    <2>1. SlotInv' => OwnedOnce'
      BY InvOwned, PTL
    <2> QED BY <2>1, InvCalls DEF BInv
  <1> QED BY BInit, <1>1, <1>2, PTL DEF Spec, CalledOnce

-----------------------------------------------------------------------------
(* The C interface.                                                          *)

CONSTANTS Hosts, Streams, Seeds, NULL, Index, Names, Handlers, MaxOps
VARIABLES ctx, run, host, stream, ops, spawned, called, addr, early, stops
C == INSTANCE CInterface WITH made <- spawned

(* A callback is given a host that was destroyed only if it was destroyed    *)
(* with something of it left for the loop to go on with.                     *)
LiveHandles == C!LiveHandles

(* Only a host that lives, or was destroyed too early, has a socket or an    *)
(* operation that a loop goes on with.                                       *)
Owned(h) == C!Live(h) \/ h \in early

Fields == {"state", "id", "protocol_handlers", "table", "listening", "connected"}

HostInv ==
    /\ DOMAIN host = Hosts
    /\ \A h \in Hosts :
        /\ DOMAIN host[h] = Fields
        /\ host[h].listening \in BOOLEAN /\ host[h].connected \in BOOLEAN
        /\ host[h].listening \/ host[h].connected => Owned(h) \/ ctx.stopped

ObjectInv ==
    /\ stream \in [Streams -> [state : {"none", "open", "closed"}, host : Hosts \cup {NULL}]]
    /\ \A s \in Streams : stream[s].state # "none" => stream[s].host \in Hosts
    /\ \A op \in ops : op.host \in Hosts /\ (Owned(op.host) \/ ctx.stopped)
    /\ called # C!Nothing => called.host \in Hosts /\ Owned(called.host)

CInv ==
    /\ ctx \in [alive : BOOLEAN, guard : BOOLEAN, running : BOOLEAN, stopped : BOOLEAN]
    /\ HostInv /\ ObjectInv

(* Nothing is made yet.                                                      *)
LEMMA CInit == C!Init => CInv
  <1> SUFFICES ASSUME C!Init PROVE CInv OBVIOUS
  <1>1. ctx \in [alive : BOOLEAN, guard : BOOLEAN, running : BOOLEAN, stopped : BOOLEAN]
    BY DEF C!Init
  <1>2. HostInv
    BY Zenon DEF C!Init, HostInv, C!NoHost, Fields
  <1>3. ObjectInv
    BY DEF C!Init, ObjectInv, C!NoStream
  <1> QED BY SMTT(30), <1>1, <1>2, <1>3 DEF CInv

(* The context: a loop that was stopped stays so.                            *)
LEMMA ContextInv == ASSUME CInv, C!Context PROVE CInv'
  <1>1. /\ ctx' \in [alive : BOOLEAN, guard : BOOLEAN, running : BOOLEAN, stopped : BOOLEAN]
        /\ ctx.stopped => ctx'.stopped
    BY ZenonT(30) DEF CInv, C!Context, C!context_run, C!loop_starts, C!entered, C!loop_ends,
           C!loop_throws, C!context_stop, C!stopped, C!context_destroy
  <1>2. /\ UNCHANGED <<host, stream, early>> /\ ops' \subseteq ops
        /\ called' = called \/ called' = C!Nothing
    BY SMTT(30) DEF C!Context, C!context_run, C!loop_starts, C!loop_ends, C!loop_throws,
           C!context_stop, C!context_destroy, C!objects, C!Silent
  <1>3. HostInv'
    BY SMTT(30), <1>1, <1>2 DEF CInv, HostInv, C!Live, Owned
  <1>4. ObjectInv'
    BY SMTT(30), <1>1, <1>2 DEF CInv, ObjectInv, C!Live, Owned
  <1> QED BY <1>1, <1>3, <1>4 DEF CInv

(* What happens to one host leaves every other host as it is.                *)
LEMMA OneHost ==
    ASSUME CInv, NEW h \in Hosts, NEW x, host' = [host EXCEPT ![h] = x],
           UNCHANGED <<ctx, stream, ops>>, called' = C!Nothing, early \subseteq early',
           DOMAIN x = Fields, x.listening \in BOOLEAN, x.connected \in BOOLEAN,
           \/ x.state = "alive" \/ h \in early' \/ ctx.stopped
           \/ ~x.listening /\ ~x.connected /\ \A op \in ops : op.host # h
    PROVE  CInv'
  <1>1. /\ DOMAIN host' = Hosts /\ host'[h] = x
        /\ \A g \in Hosts \ {h} : host'[g] = host[g]
    BY DEF CInv, HostInv
  <1>2. HostInv'
    BY SMTT(30), <1>1 DEF CInv, HostInv, C!Live, Owned
  <1>3. ObjectInv'
    BY SMTT(30), <1>1 DEF CInv, ObjectInv, C!Live, Owned
  <1> QED BY <1>2, <1>3 DEF CInv

(* Creating, destroying and using a host, and losing its connections.        *)
LEMMA HostCallInv ==
    ASSUME CInv, NEW h \in Hosts,
           \/ \E seed \in Seeds \cup {NULL} : C!host_create(h, seed)
           \/ C!host_destroy(h) \/ C!host_listen(h) \/ C!disconnect(h)
           \/ \E n \in Names, f \in Handlers : C!register_protocol(h, n, f)
    PROVE  CInv'
  <1>0. /\ DOMAIN host[h] = Fields /\ host[h].listening \in BOOLEAN /\ host[h].connected \in BOOLEAN
        /\ host[h].listening \/ host[h].connected => Owned(h) \/ ctx.stopped
    BY DEF CInv, HostInv
  <1>1. ASSUME NEW seed \in Seeds \cup {NULL}, C!host_create(h, seed) PROVE CInv'
    <2> DEFINE x == [host[h] EXCEPT !.state = "alive", !.id = C!index(seed)]
    <2>1. /\ host' = [host EXCEPT ![h] = x] /\ UNCHANGED <<ctx, stream, ops, early>>
          /\ called' = C!Nothing
      BY Zenon, <1>1 DEF C!host_create, C!Silent
    <2>2. /\ DOMAIN x = Fields /\ x.state = "alive" /\ x.listening = host[h].listening
          /\ x.connected = host[h].connected
      BY <1>0 DEF Fields
    <2> HIDE DEF x
    <2> QED BY Zenon, <1>0, <2>1, <2>2, OneHost
  <1>2. CASE C!host_destroy(h)
    <2>1. PICK referred \in BOOLEAN :
             host' = [host EXCEPT ![h].state = "freed", ![h].listening = @ /\ referred,
                                  ![h].connected = @ /\ referred]
      BY Zenon, <1>2 DEF C!host_destroy
    <2> DEFINE x == [host[h] EXCEPT !.state = "freed", !.listening = @ /\ referred,
                                    !.connected = @ /\ referred]
    <2>2. /\ host' = [host EXCEPT ![h] = x] /\ UNCHANGED <<ctx, stream, ops>>
          /\ called' = C!Nothing
      BY Zenon, <1>2, <2>1 DEF C!host_destroy, C!Silent
    <2>3. early' = IF C!AtRest(h) THEN early ELSE early \cup {h}
      BY Zenon, <1>2 DEF C!host_destroy
    <2>4. /\ DOMAIN x = Fields /\ x.listening = (host[h].listening /\ referred)
          /\ x.connected = (host[h].connected /\ referred)
      BY Zenon, <1>0 DEF Fields
    <2> HIDE DEF x
    <2>5. /\ x.listening \in BOOLEAN /\ x.connected \in BOOLEAN
          /\ x.listening => host[h].listening
          /\ x.connected => host[h].connected
      BY Zenon, <1>0, <2>4
    <2>6. early \subseteq early' /\ (C!AtRest(h) \/ h \in early')
      BY <2>3
    <2>7. C!AtRest(h) =>
             ctx.stopped \/ (~x.listening /\ ~x.connected /\ \A op \in ops : op.host # h)
      BY Zenon, <2>5 DEF C!AtRest, C!Reachable
    <2> QED BY Zenon, <2>2, <2>4, <2>5, <2>6, <2>7, OneHost
  <1>3. CASE C!host_listen(h)
    <2> DEFINE x == [host[h] EXCEPT !.listening = TRUE]
    <2>1. /\ host' = [host EXCEPT ![h] = x] /\ UNCHANGED <<ctx, stream, ops, early>>
          /\ called' = C!Nothing /\ host[h].state = "alive"
      BY <1>3 DEF C!host_listen, C!Silent, C!Live
    <2>2. /\ DOMAIN x = Fields /\ x.state = "alive" /\ x.listening = TRUE
          /\ x.connected = host[h].connected
      BY SMTT(30), <1>0, <2>1 DEF Fields
    <2> HIDE DEF x
    <2> QED BY Zenon, <1>0, <2>1, <2>2, OneHost
  <1>4. ASSUME NEW n \in Names, NEW f \in Handlers, C!register_protocol(h, n, f) PROVE CInv'
    <2> PICK u, v : host' = [host EXCEPT ![h].protocol_handlers = u, ![h].table = v]
      BY Zenon, <1>4 DEF C!register_protocol
    <2> DEFINE x == [host[h] EXCEPT !.protocol_handlers = u, !.table = v]
    <2>1. /\ host' = [host EXCEPT ![h] = x] /\ UNCHANGED <<ctx, stream, ops, early>>
          /\ called' = C!Nothing /\ host[h].state = "alive"
      BY ZenonT(30), <1>4 DEF C!register_protocol, C!Silent, C!Live
    <2>2. /\ DOMAIN x = Fields /\ x.state = "alive" /\ x.listening = host[h].listening
          /\ x.connected = host[h].connected
      BY <1>0, <2>1 DEF Fields
    <2> HIDE DEF x
    <2> QED BY Zenon, <1>0, <2>1, <2>2, OneHost
  <1>5. CASE C!disconnect(h)
    <2> DEFINE x == [host[h] EXCEPT !.connected = FALSE]
    <2>1. /\ host' = [host EXCEPT ![h] = x] /\ UNCHANGED <<ctx, stream, ops, early>>
          /\ called' = C!Nothing /\ host[h].connected
      BY Zenon, <1>5 DEF C!disconnect, C!Silent
    <2>2. /\ DOMAIN x = Fields /\ x.state = host[h].state /\ x.listening = host[h].listening
          /\ x.connected = FALSE
      BY SMTT(30), <1>0 DEF Fields
    <2>3. x.state = "alive" \/ h \in early' \/ ctx.stopped
      BY Zenon, <1>0, <2>1, <2>2 DEF Owned, C!Live
    <2> HIDE DEF x
    <2> QED BY Zenon, <1>0, <2>1, <2>2, <2>3, OneHost
  <1> QED BY SMTT(30), <1>1, <1>2, <1>3, <1>4, <1>5

(* The steps that leave the hosts and the context alone.                     *)
LEMMA SameHosts ==
    ASSUME CInv, UNCHANGED <<ctx, host, early>>, ObjectInv'
    PROVE  CInv'
  BY DEF CInv, HostInv, C!Live, Owned

(* An operation is spawned for a host that lives.                            *)
LEMMA SpawnInv ==
    ASSUME CInv, NEW op, op.host \in Hosts, C!Live(op.host), C!spawn(op)
    PROVE  CInv'
  <1>1. /\ UNCHANGED <<ctx, host, stream, early>> /\ ops' = ops \cup {op} /\ called' = C!Nothing
    BY DEF C!spawn, C!Silent
  <1>2. ObjectInv'
    BY SMTT(30), <1>1 DEF CInv, ObjectInv, C!Live, Owned
  <1> QED BY SMTT(30), <1>1, <1>2, SameHosts

(* What a callback brings about: a connection of its host may be there.      *)
LEMMA CallbackInv ==
    ASSUME CInv, NEW c, c.host \in Hosts, Owned(c.host), C!Calls(c), ops' \subseteq ops,
           host' = host \/ \E b \in BOOLEAN : host' = C!connects(c.host, b),
           stream' = stream \/ \E s \in Streams : C!wrap(s, c.host)
    PROVE  CInv'
  <1>1. UNCHANGED <<ctx, early>> /\ called' = c
    BY SMTT(30) DEF C!Calls
  <1>2. /\ stream' \in [Streams -> [state : {"none", "open", "closed"}, host : Hosts \cup {NULL}]]
        /\ \A s \in Streams : stream'[s].state # "none" => stream'[s].host \in Hosts
    BY SMTT(30) DEF CInv, ObjectInv, C!wrap
  <1> DEFINE Kept ==
                /\ DOMAIN host' = Hosts
                /\ \A g \in Hosts :
                    /\ DOMAIN host'[g] = Fields /\ host'[g].state = host[g].state
                    /\ host'[g].listening = host[g].listening
                    /\ host'[g].connected \in BOOLEAN
                    /\ g # c.host => host'[g] = host[g]
  <1>3. Kept
    <2>1. CASE host' = host
      BY SMTT(30), <2>1 DEF CInv, HostInv
    <2>2. ASSUME NEW b \in BOOLEAN, host' = C!connects(c.host, b) PROVE Kept
      <3> DEFINE h == c.host
                 x == [host[h] EXCEPT !.connected = @ \/ b]
      <3>1. host' = [host EXCEPT ![h] = x]
        BY Zenon, <2>2 DEF C!connects
      <3>2. DOMAIN host = Hosts /\ DOMAIN host[h] = Fields /\ host[h].connected \in BOOLEAN
        BY DEF CInv, HostInv
      <3>3. /\ DOMAIN x = Fields /\ x.state = host[h].state /\ x.listening = host[h].listening
            /\ x.connected = (host[h].connected \/ b)
        BY Zenon, <3>2 DEF Fields
      <3>4. x.connected \in BOOLEAN
        BY Zenon, <3>3
      <3> HIDE DEF x
      <3> QED BY SMTT(30), <3>1, <3>2, <3>3, <3>4 DEF CInv, HostInv
    <2> QED BY <2>1, <2>2
  <1>4. \A h \in Hosts : Owned(h) => Owned(h)'
    BY SMTT(30), <1>1, <1>3 DEF Owned, C!Live
  <1>5. HostInv'
    BY SMTT(30), <1>1, <1>3, <1>4 DEF CInv, HostInv
  <1>6. ObjectInv'
    BY SMTT(30), <1>1, <1>2, <1>4 DEF CInv, ObjectInv
  <1> QED BY SMTT(30), <1>1, <1>5, <1>6 DEF CInv

(* A loop that is not stopped completes an operation of a host that lives,   *)
(* or was destroyed too early.                                               *)
LEMMA AnswerInv == ASSUME CInv, NEW op \in ops, C!Answer(op) PROVE CInv'
  <1>1. ASSUME C!Done(op) PROVE op.host \in Hosts /\ Owned(op.host) /\ ops' \subseteq ops
    BY SMTT(30), <1>1 DEF CInv, ObjectInv, C!Done, C!Loops
  <1>2. ASSUME NEW ok \in BOOLEAN, C!dialled(op, ok) PROVE CInv'
    <2> DEFINE c == [what |-> "dial", host |-> op.host, ok |-> ok, peer |-> "requested"]
    <2>1. /\ C!Done(op) /\ C!Calls(c) /\ UNCHANGED stream /\ c.host = op.host
          /\ host' = C!connects(op.host, ok)
      BY SMTT(30), <1>2 DEF C!dialled
    <2> HIDE DEF c
    <2> QED BY SMTT(30), <1>1, <2>1, CallbackInv
  <1>3. ASSUME NEW ok \in BOOLEAN, C!transferred(op, ok) PROVE CInv'
    <2> DEFINE c == [what |-> "io", host |-> op.host, stream |-> op.stream, ok |-> ok]
    <2>1. C!Done(op) /\ C!Calls(c) /\ UNCHANGED <<host, stream>> /\ c.host = op.host
      BY SMTT(30), <1>3 DEF C!transferred
    <2> HIDE DEF c
    <2> QED BY <1>1, <2>1, CallbackInv
  <1>4. ASSUME NEW ok \in BOOLEAN, C!streamFailed(op, ok) PROVE CInv'
    <2> DEFINE c == [what |-> "new_stream", host |-> op.host, stream |-> NULL]
    <2>1. /\ C!Done(op) /\ C!Calls(c) /\ UNCHANGED stream /\ c.host = op.host
          /\ host' = C!connects(op.host, ok)
      BY SMTT(30), <1>4 DEF C!streamFailed
    <2> HIDE DEF c
    <2> QED BY SMTT(30), <1>1, <2>1, CallbackInv
  <1>5. ASSUME NEW s \in Streams, C!streamMade(op, s) PROVE CInv'
    <2> DEFINE c == [what |-> "new_stream", host |-> op.host, stream |-> s]
    <2>1. /\ C!Done(op) /\ C!Calls(c) /\ C!wrap(s, op.host) /\ c.host = op.host
          /\ host' = C!connects(op.host, TRUE)
      BY SMTT(30), <1>5 DEF C!streamMade
    <2> HIDE DEF c
    <2>2. /\ \E b \in BOOLEAN : host' = C!connects(c.host, b)
          /\ \E r \in Streams : C!wrap(r, c.host)
      BY Zenon, <2>1
    <2> QED BY Zenon, <1>1, <2>1, <2>2, CallbackInv
  <1> QED BY SMTT(30), <1>2, <1>3, <1>4, <1>5 DEF C!Answer

(* A remote loses its connection, or opens a stream, for which               *)
(* GenericProtocolHandler::handle is called.                                 *)
LEMMA RemoteInv == ASSUME CInv, C!Remote PROVE CInv'
  <1>1. ASSUME NEW h \in Hosts, NEW n \in Names, NEW s \in Streams, C!handle(h, n, s) PROVE CInv'
    <2> DEFINE c == [what |-> "handler", host |-> h, stream |-> s, name |-> n,
                     handler |-> host[h].table[n]]
    <2>1. /\ C!Calls(c) /\ C!wrap(s, h) /\ C!Loops /\ C!Reachable(h)
          /\ UNCHANGED <<host, ops>> /\ c.host = h
      BY SMTT(30), <1>1 DEF C!handle
    <2>2. Owned(h)
      BY SMTT(30), <2>1 DEF CInv, HostInv, C!Loops, C!Reachable
    <2> HIDE DEF c
    <2> QED BY SMTT(30), <2>1, <2>2, CallbackInv
  <1> QED BY SMTT(30), <1>1, HostCallInv DEF C!Remote

(* The application's calls.                                                  *)
LEMMA CallingInv == ASSUME CInv, C!Calling PROVE CInv'
  <1>1. ASSUME NEW h \in Hosts, C!default_listen(h) PROVE CInv'
    <2>1. UNCHANGED <<ctx, host, stream, ops, early>> /\ called' = C!Nothing
      BY SMTT(30), <1>1 DEF C!default_listen, C!Silent
    <2>2. ObjectInv'
      BY SMTT(30), <2>1 DEF CInv, ObjectInv, C!Live, Owned
    <2> QED BY SMTT(30), <2>1, <2>2, SameHosts
  <1>2. ASSUME NEW h \in Hosts, C!host_dial(h) \/ C!host_new_stream(h) PROVE CInv'
    <2>1. PICK op \in {[n |-> spawned, kind |-> k, host |-> h] : k \in {"dial", "new_stream"}} :
             C!spawn(op)
      BY SMTT(30), <1>2 DEF C!host_dial, C!host_new_stream
    <2>2. op.host = h /\ C!Live(h)
      BY SMTT(30), <1>2, <2>1 DEF C!host_dial, C!host_new_stream
    <2> QED BY SMTT(30), <2>1, <2>2, SpawnInv
  <1>3. ASSUME NEW s \in Streams, C!stream_io(s) PROVE CInv'
    <2> DEFINE op == [n |-> spawned, kind |-> "io", host |-> stream[s].host, stream |-> s]
    <2>1. C!spawn(op) /\ C!Live(stream[s].host) /\ stream[s].state # "none"
      BY SMTT(30), <1>3 DEF C!stream_io
    <2>2. op.host = stream[s].host /\ stream[s].host \in Hosts
      BY SMTT(30), <2>1 DEF CInv, ObjectInv
    <2> HIDE DEF op
    <2> QED BY SMTT(30), <2>1, <2>2, SpawnInv
  <1>4. ASSUME NEW s \in Streams, C!stream_close(s) PROVE CInv'
    <2>1. /\ UNCHANGED <<ctx, host, ops, early>> /\ called' = C!Nothing
          /\ stream' = [stream EXCEPT ![s].state = "closed"] /\ stream[s].state = "open"
      BY SMTT(30), <1>4 DEF C!stream_close, C!Silent, C!closed
    <2>2. /\ stream' \in [Streams -> [state : {"none", "open", "closed"}, host : Hosts \cup {NULL}]]
          /\ \A r \in Streams : stream'[r].state # "none" => stream'[r].host \in Hosts
      BY SMTT(30), <2>1 DEF CInv, ObjectInv
    <2>3. ObjectInv'
      BY SMTT(30), <2>1, <2>2 DEF CInv, ObjectInv, C!Live, Owned
    <2> QED BY SMTT(30), <2>1, <2>3, SameHosts
  <1> QED BY SMTT(30), <1>1, <1>2, <1>3, <1>4, HostCallInv DEF C!Calling

(* Whatever happens, CInv is kept.                                           *)
LEMMA CNext == CInv /\ [C!Next]_C!vars => CInv'
  <1> SUFFICES ASSUME CInv, [C!Next]_C!vars PROVE CInv' OBVIOUS
  <1>1. CASE UNCHANGED C!vars
    BY SMTT(30), <1>1 DEF C!vars, CInv, HostInv, ObjectInv, C!Live, Owned
  <1>2. CASE C!Next
    BY SMTT(30), <1>2, ContextInv, CallingInv, RemoteInv, AnswerInv DEF C!Next
  <1> QED BY <1>1, <1>2

(* For any number of hosts, streams and operations and any order of calls,   *)
(* answers, stops, exceptions and runs, and with hosts destroyed at any      *)
(* time: a callback is given a host that was destroyed only if its wrapper   *)
(* was deleted while the loop was not stopped and an operation, a listener   *)
(* or a connection of it was there.                                          *)
THEOREM HandlesAlwaysLive == C!Spec => []LiveHandles
  <1>1. CInv => LiveHandles
    BY DEF CInv, ObjectInv, LiveHandles, C!LiveHandles, Owned
  <1> QED BY <1>1, CInit, CNext, PTL DEF C!Spec
=============================================================================
