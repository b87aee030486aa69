-------------------------- MODULE ConnectionProofs --------------------------
(* Proofs about ConnectionManager, and what BasicHost tells of it, for any   *)
(* number of peers, connections, waiting streams and addresses; and about    *)
(* Listener (L) for any listeners and addresses.                             *)
EXTENDS ConnectionManager, Sequences, TLAPS

-----------------------------------------------------------------------------
(* The table operations.                                                     *)

TableOK(tbl) ==
    DOMAIN tbl \subseteq Peers /\ tbl \in [DOMAIN tbl -> SUBSET Conns]

(* addConnectionToPeer adds one connection and disturbs no other.            *)
LEMMA WithTable ==
    ASSUME NEW tbl, TableOK(tbl), NEW c \in Conns
    PROVE  /\ TableOK(With(tbl, c))
           /\ DOMAIN With(tbl, c) = DOMAIN tbl \cup {remotePeer[c]}
           /\ \A d \in Conns : Listed(With(tbl, c), d) <=> d = c \/ Listed(tbl, d)
           /\ \A p \in DOMAIN With(tbl, c) : \A d \in With(tbl, c)[p] :
                 \/ d = c /\ p = remotePeer[c]
                 \/ p \in DOMAIN tbl /\ d \in tbl[p]
           /\ (\A p \in DOMAIN tbl : tbl[p] # {}) =>
                 \A p \in DOMAIN With(tbl, c) : With(tbl, c)[p] # {}
  <1>1. remotePeer[c] \in Peers BY ConnectionAssumption
  <1> QED BY <1>1 DEF TableOK, With, Listed

(* onConnectionClosed removes one connection, and the peer exactly if it was *)
(* the last one.                                                             *)
LEMMA WithoutTable ==
    ASSUME NEW tbl, TableOK(tbl), NEW c \in Conns
    PROVE  /\ TableOK(Without(tbl, c))
           /\ DOMAIN Without(tbl, c) =
                 IF remotePeer[c] \in DOMAIN tbl /\ tbl[remotePeer[c]] \subseteq {c}
                 THEN DOMAIN tbl \ {remotePeer[c]} ELSE DOMAIN tbl
           /\ \A d \in Conns : Listed(Without(tbl, c), d) <=> d # c /\ Listed(tbl, d)
           /\ \A p \in DOMAIN Without(tbl, c) : \A d \in Without(tbl, c)[p] :
                 p \in DOMAIN tbl /\ d \in tbl[p]
           /\ (\A p \in DOMAIN tbl : tbl[p] # {}) =>
                 \A p \in DOMAIN Without(tbl, c) : Without(tbl, c)[p] # {}
  <1>0. remotePeer[c] \in Peers BY ConnectionAssumption
  <1>1. CASE remotePeer[c] \notin DOMAIN tbl
    <2>1. Without(tbl, c) = tbl BY <1>1 DEF Without
    <2> QED BY <2>1, <1>1 DEF Listed
  <1>2. CASE remotePeer[c] \in DOMAIN tbl /\ tbl[remotePeer[c]] \subseteq {c}
    <2>1. Without(tbl, c) = [p \in DOMAIN tbl \ {remotePeer[c]} |-> tbl[p]]
      BY <1>2 DEF Without, Restrict
    <2> QED BY <2>1, <1>2 DEF Listed, TableOK
  <1>3. CASE remotePeer[c] \in DOMAIN tbl /\ ~(tbl[remotePeer[c]] \subseteq {c})
    <2>1. Without(tbl, c) = [tbl EXCEPT ![remotePeer[c]] = @ \ {c}]
      BY <1>3 DEF Without
    <2> QED BY <2>1, <1>3 DEF Listed, TableOK
  <1> QED BY <1>1, <1>2, <1>3

-----------------------------------------------------------------------------
(* What the safety invariants leave implicit: a connection exists as soon as *)
(* it is signalled, and no event concerns one that was not handed over yet.  *)
FreshUntouched ==
    \A c \in Conns :
        /\ net[c] = "none" <=> loop[c] = "none"
        /\ loop[c] \in {"none", "signalled"} => closedEvents[c] = 0

IInv ==
    /\ TypeOK
    /\ NoEmptyEntry
    /\ SubscribersAgree
    /\ ClosedOnce
    /\ ListedWithLoop
    /\ OpenConnListed
    /\ FreshUntouched

(* The empty table satisfies the invariant.                                  *)
LEMMA InitInv == Init => IInv
  BY ConnectionAssumption
  DEF Init, IInv, TypeOK, NoEmptyEntry, SubscribersAgree, ClosedOnce, ListedWithLoop,
      OpenConnListed, FreshUntouched, Listed

(* The table after addConnectionToPeer.                                      *)
LEMMA AddInv ==
    ASSUME IInv, NEW c \in Conns, connections_' = With(connections_, c)
    PROVE  /\ TableOK(connections_')
           /\ DOMAIN connections_' = DOMAIN connections_ \cup {remotePeer[c]}
           /\ \A d \in Conns : Listed(connections_', d) <=> d = c \/ Listed(connections_, d)
           /\ \A p \in DOMAIN connections_' : \A d \in connections_'[p] :
                 \/ d = c /\ p = remotePeer[c]
                 \/ p \in DOMAIN connections_ /\ d \in connections_[p]
           /\ \A p \in DOMAIN connections_' : connections_'[p] # {}
  <1>1. TableOK(connections_) /\ \A p \in DOMAIN connections_ : connections_[p] # {}
    BY DEF IInv, TypeOK, TableOK, NoEmptyEntry
  <1>2. /\ TableOK(connections_')
        /\ DOMAIN connections_' = DOMAIN connections_ \cup {remotePeer[c]}
    BY Zenon, <1>1, WithTable
  <1>3. \A d \in Conns : Listed(connections_', d) <=> d = c \/ Listed(connections_, d)
    BY Zenon, <1>1, WithTable
  <1>4. \A p \in DOMAIN connections_' : \A d \in connections_'[p] :
           \/ d = c /\ p = remotePeer[c]
           \/ p \in DOMAIN connections_ /\ d \in connections_[p]
    BY Zenon, <1>1, WithTable
  <1>5. \A p \in DOMAIN connections_' : connections_'[p] # {}
    BY <1>1 DEF With
  <1> QED BY <1>2, <1>3, <1>4, <1>5

(* onConnection for an open connection.                                      *)
LEMMA OpenInv ==
    ASSUME IInv, NEW c \in Conns,
           loop[c] \in {"none", "signalled"},
           onConnectionOpen(c), streams' = streams,
           net' \in [Conns -> {"none", "open", "closing", "closed"}],
           net'[c] # "none",
           \A d \in Conns : d # c => net'[d] = net[d]
    PROVE  IInv'
  <1>t. TableOK(connections_) /\ remotePeer[c] \in Peers
    BY ConnectionAssumption DEF IInv, TypeOK, TableOK
  <1>c. /\ connections_' = With(connections_, c) /\ UNCHANGED closedEvents
        /\ known' = known \cup {remotePeer[c]}
        /\ loop' = [loop EXCEPT ![c] = "accept"]
    BY DEF onConnectionOpen, addConnectionToPeer
  <1>w. /\ TableOK(connections_')
        /\ DOMAIN connections_' = DOMAIN connections_ \cup {remotePeer[c]}
        /\ \A d \in Conns : Listed(connections_', d) <=> d = c \/ Listed(connections_, d)
        /\ \A p \in DOMAIN connections_' : \A d \in connections_'[p] :
              \/ d = c /\ p = remotePeer[c]
              \/ p \in DOMAIN connections_ /\ d \in connections_[p]
        /\ \A p \in DOMAIN connections_' : connections_'[p] # {}
    BY <1>c, AddInv
  <1>1. TypeOK'
    BY <1>t, <1>w, <1>c DEF IInv, TypeOK, TableOK
  <1>2. NoEmptyEntry'
    BY <1>w DEF NoEmptyEntry
  <1>3. SubscribersAgree'
    BY <1>w, <1>c DEF IInv, SubscribersAgree
  <1>4. ClosedOnce'
    <2>1. \A d \in Conns : closedEvents'[d] = 1 => d # c /\ ~Listed(connections_, d)
      BY <1>c DEF IInv, ClosedOnce, FreshUntouched
    <2> QED BY <2>1, <1>w, <1>c DEF IInv, ClosedOnce
  <1>5. ListedWithLoop'
    BY <1>w, <1>c DEF IInv, TypeOK, TableOK, ListedWithLoop
  <1>6. OpenConnListed'
    BY <1>w, <1>c DEF IInv, TypeOK, OpenConnListed
  <1>7. FreshUntouched'
    BY <1>c DEF IInv, TypeOK, FreshUntouched
  <1> QED BY <1>1, <1>2, <1>3, <1>4, <1>5, <1>6, <1>7 DEF IInv

(* onConnection for a connection that closed before it was handed over.      *)
LEMMA DeadInv ==
    ASSUME IInv, NEW c \in Conns,
           loop[c] = "signalled", net[c] = "closed",
           onConnectionDead(c), UNCHANGED <<net, streams>>
    PROVE  IInv'
  <1> DEFINE rest == Without(connections_, c)
  <1>t. TableOK(connections_) /\ remotePeer[c] \in Peers
    BY ConnectionAssumption DEF IInv, TypeOK, TableOK
  <1>n. ~Listed(connections_, c)
    BY DEF IInv, ListedWithLoop, Listed
  <1>r. /\ TableOK(rest)
        /\ \A d \in Conns : Listed(rest, d) <=> Listed(connections_, d)
        /\ \A p \in DOMAIN rest : \A d \in rest[p] :
              p \in DOMAIN connections_ /\ d \in connections_[p]
        /\ \A p \in DOMAIN rest : rest[p] # {}
        /\ DOMAIN rest = DOMAIN connections_
    <2>1. /\ TableOK(rest)
          /\ \A d \in Conns : Listed(rest, d) <=> d # c /\ Listed(connections_, d)
          /\ \A p \in DOMAIN rest : \A d \in rest[p] :
                p \in DOMAIN connections_ /\ d \in connections_[p]
          /\ \A p \in DOMAIN rest : rest[p] # {}
      BY Zenon, <1>t, WithoutTable DEF IInv, NoEmptyEntry
    <2>2. ~(/\ remotePeer[c] \in DOMAIN connections_
            /\ connections_[remotePeer[c]] \subseteq {c})
      BY <1>n DEF IInv, NoEmptyEntry, Listed
    <2>3. DOMAIN rest = DOMAIN connections_
      BY Zenon, <1>t, <2>2, WithoutTable
    <2> QED BY <2>1, <2>3, <1>n
  <1>c. /\ connections_' = With(rest, c) /\ UNCHANGED closedEvents
        /\ known' = known \cup {remotePeer[c]}
        /\ loop' = [loop EXCEPT ![c] = "done"]
    BY <1>n DEF onConnectionDead
  <1>w. /\ TableOK(connections_')
        /\ DOMAIN connections_' = DOMAIN connections_ \cup {remotePeer[c]}
        /\ \A d \in Conns : Listed(connections_', d) <=> d = c \/ Listed(connections_, d)
        /\ \A p \in DOMAIN connections_' : \A d \in connections_'[p] :
              \/ d = c /\ p = remotePeer[c]
              \/ p \in DOMAIN connections_ /\ d \in connections_[p]
        /\ \A p \in DOMAIN connections_' : connections_'[p] # {}
    <2> HIDE DEF rest
    <2>t. TableOK(rest) BY <1>r
    <2>0. connections_' = With(rest, c) BY <1>c
    <2>1. TableOK(With(rest, c)) BY Zenon, <2>t, WithTable
    <2>2. DOMAIN With(rest, c) = DOMAIN rest \cup {remotePeer[c]}
      BY Zenon, <2>t, WithTable
    <2>3. \A d \in Conns : Listed(With(rest, c), d) <=> d = c \/ Listed(rest, d)
      BY Zenon, <2>t, WithTable
    <2>4. \A p \in DOMAIN With(rest, c) : \A d \in With(rest, c)[p] :
             \/ d = c /\ p = remotePeer[c]
             \/ p \in DOMAIN rest /\ d \in rest[p]
      BY Zenon, <2>t, WithTable
    <2>5. \A p \in DOMAIN With(rest, c) : With(rest, c)[p] # {}
      <3>1. \A p \in DOMAIN rest : rest[p] # {} BY <1>r
      <3> QED BY <3>1 DEF With
    <2>6. TableOK(connections_') /\ \A p \in DOMAIN connections_' : connections_'[p] # {}
      BY <2>0, <2>1, <2>5
    <2>7. DOMAIN connections_' = DOMAIN connections_ \cup {remotePeer[c]}
      BY <2>0, <2>2, <1>r
    <2>8. \A d \in Conns : Listed(connections_', d) <=> d = c \/ Listed(connections_, d)
      BY <2>0, <2>3, <1>r
    <2>9. \A p \in DOMAIN connections_' : \A d \in connections_'[p] :
             \/ d = c /\ p = remotePeer[c]
             \/ p \in DOMAIN connections_ /\ d \in connections_[p]
      <3>1. \A p \in DOMAIN rest : \A d \in rest[p] :
               p \in DOMAIN connections_ /\ d \in connections_[p]
        BY <1>r
      <3> QED BY <2>0, <2>4, <3>1
    <2> QED BY <2>6, <2>7, <2>8, <2>9
  <1>1. TypeOK'
    BY <1>t, <1>w, <1>c DEF IInv, TypeOK, TableOK
  <1>2. NoEmptyEntry'
    BY <1>w DEF NoEmptyEntry
  <1>3. SubscribersAgree'
    BY <1>w, <1>c DEF IInv, SubscribersAgree
  <1>4. ClosedOnce'
    <2>1. \A d \in Conns : closedEvents'[d] = 1 => d # c /\ ~Listed(connections_, d)
      BY <1>c DEF IInv, ClosedOnce, FreshUntouched
    <2> QED BY <2>1, <1>w, <1>c DEF IInv, ClosedOnce
  <1>5. ListedWithLoop'
    BY <1>w, <1>c DEF IInv, TypeOK, TableOK, ListedWithLoop
  <1>6. OpenConnListed'
    BY <1>w, <1>c DEF IInv, TypeOK, OpenConnListed
  <1>7. FreshUntouched'
    BY <1>c DEF IInv, TypeOK, FreshUntouched
  <1> QED BY <1>1, <1>2, <1>3, <1>4, <1>5, <1>6, <1>7 DEF IInv

(* The stream loop at its condition: it waits on, or reports the end.        *)
LEMMA LoopTopInv ==
    ASSUME IInv, NEW c \in Conns,
           loop[c] \in {"accept", "negotiate"},
           LoopTop(c), net' = net, streams' \in [Conns -> 0..MaxStreams]
    PROVE  IInv'
  <1>1. CASE net[c] # "closed"
    <2>1. /\ loop' = [loop EXCEPT ![c] = "accept"]
          /\ UNCHANGED <<connections_, known, closedEvents>>
      BY <1>1 DEF LoopTop
    <2> QED BY <2>1
        DEF IInv, TypeOK, NoEmptyEntry, SubscribersAgree, ClosedOnce, ListedWithLoop,
            OpenConnListed, FreshUntouched, Listed
  <1>2. CASE net[c] = "closed"
    <2>t. TableOK(connections_) /\ remotePeer[c] \in Peers
      BY ConnectionAssumption DEF IInv, TypeOK, TableOK
    <2>c. /\ loop' = [loop EXCEPT ![c] = "done"]
          /\ connections_' = Without(connections_, c)
          /\ PublishClosed(c)
      BY <1>2 DEF LoopTop, onConnectionClosed
    <2>w. /\ TableOK(connections_')
          /\ DOMAIN connections_' =
                IF /\ remotePeer[c] \in DOMAIN connections_
                   /\ connections_[remotePeer[c]] \subseteq {c}
                THEN DOMAIN connections_ \ {remotePeer[c]} ELSE DOMAIN connections_
          /\ \A d \in Conns :
                Listed(connections_', d) <=> d # c /\ Listed(connections_, d)
          /\ \A p \in DOMAIN connections_' : \A d \in connections_'[p] :
                p \in DOMAIN connections_ /\ d \in connections_[p]
          /\ \A p \in DOMAIN connections_' : connections_'[p] # {}
      <3> DEFINE rest == Without(connections_, c)
      <3>0. TableOK(connections_) /\ connections_' = rest BY <2>t, <2>c
      <3>n. \A p \in DOMAIN connections_ : connections_[p] # {}
        BY DEF IInv, NoEmptyEntry
      <3>1. TableOK(rest) BY Zenon, <3>0, WithoutTable
      <3>2. DOMAIN rest =
               IF /\ remotePeer[c] \in DOMAIN connections_
                  /\ connections_[remotePeer[c]] \subseteq {c}
               THEN DOMAIN connections_ \ {remotePeer[c]} ELSE DOMAIN connections_
        BY Zenon, <3>0, WithoutTable
      <3>3. \A d \in Conns : Listed(rest, d) <=> d # c /\ Listed(connections_, d)
        BY Zenon, <3>0, WithoutTable
      <3>4. \A p \in DOMAIN rest : \A d \in rest[p] :
               p \in DOMAIN connections_ /\ d \in connections_[p]
        BY Zenon, <3>0, WithoutTable
      <3>5. \A p \in DOMAIN rest : rest[p] # {}
        BY Zenon, <3>0, <3>n, WithoutTable
      <3> HIDE DEF rest
      <3> QED BY <3>0, <3>1, <3>2, <3>3, <3>4, <3>5
    <2>1. TypeOK'
      <3>1. closedEvents' \in [Conns -> Nat] /\ known' \in SUBSET Peers
        BY <2>c DEF IInv, TypeOK, PublishClosed
      <3> QED BY <3>1, <2>t, <2>c, <2>w DEF IInv, TypeOK, TableOK
    <2>2. NoEmptyEntry'
      BY <2>w DEF NoEmptyEntry
    <2>3. SubscribersAgree'
      BY <2>w, <2>c DEF IInv, SubscribersAgree, PublishClosed
    <2>4. ClosedOnce'
      <3> SUFFICES ASSUME NEW d \in Conns
                   PROVE  /\ closedEvents'[d] <= 1
                          /\ closedEvents'[d] = 1 => ~Listed(connections_', d)
        BY DEF ClosedOnce
      <3>1. closedEvents[d] \in Nat /\ closedEvents[d] <= 1
        BY DEF IInv, TypeOK, ClosedOnce
      <3>2. CASE Listed(connections_, c) /\ d = c
        <4>1. closedEvents[c] = 0
          BY <3>1, <3>2 DEF IInv, ClosedOnce
        <4>2. closedEvents'[c] = closedEvents[c] + 1
          BY <2>c, <3>2 DEF IInv, TypeOK, PublishClosed
        <4> QED BY <4>1, <4>2, <2>w, <3>2
      <3>3. CASE ~(Listed(connections_, c) /\ d = c)
        <4>1. closedEvents'[d] = closedEvents[d]
          BY <2>c, <3>3 DEF IInv, TypeOK, PublishClosed
        <4>2. closedEvents[d] = 1 => ~Listed(connections_, d)
          BY DEF IInv, ClosedOnce
        <4> QED BY <4>1, <4>2, <3>1, <2>w
      <3> QED BY <3>2, <3>3
    <2>5. ListedWithLoop'
      BY <2>w, <2>c DEF IInv, TypeOK, TableOK, ListedWithLoop
    <2>6. OpenConnListed'
      BY <2>w, <2>c, <1>2 DEF IInv, TypeOK, OpenConnListed
    <2>7. FreshUntouched'
      BY <2>c DEF IInv, TypeOK, FreshUntouched, PublishClosed
    <2> QED BY <2>1, <2>2, <2>3, <2>4, <2>5, <2>6, <2>7 DEF IInv
  <1> QED BY <1>1, <1>2

(* closeConnectionsToPeer forgets the peer and all its connections.          *)
LEMMA DisconnectInv ==
    ASSUME IInv, NEW p \in Peers, closeConnectionsToPeer(p)
    PROVE  IInv'
  <1>c. /\ p \in DOMAIN connections_
        /\ connections_' = [q \in DOMAIN connections_ \ {p} |-> connections_[q]]
        /\ net' = [c \in Conns |-> IF c \in connections_[p] /\ net[c] = "open"
                                  THEN "closing" ELSE net[c]]
        /\ closedEvents' = [c \in Conns |-> IF c \in connections_[p]
                                           THEN closedEvents[c] + 1
                                           ELSE closedEvents[c]]
        /\ known' = known \ {p}
        /\ UNCHANGED <<loop, streams>>
    BY DEF closeConnectionsToPeer, Restrict
  <1>m. \A c \in Conns : c \in connections_[p] <=> Listed(connections_, c) /\ remotePeer[c] = p
    BY <1>c DEF IInv, ListedWithLoop, Listed
  <1>l. \A c \in Conns :
           Listed(connections_', c) <=> Listed(connections_, c) /\ remotePeer[c] # p
    BY <1>c DEF Listed
  <1>1. TypeOK'
    BY <1>c DEF IInv, TypeOK
  <1>2. NoEmptyEntry'
    BY <1>c DEF IInv, NoEmptyEntry
  <1>3. SubscribersAgree'
    BY <1>c DEF IInv, SubscribersAgree
  <1>4. ClosedOnce'
    <2> SUFFICES ASSUME NEW c \in Conns
                 PROVE  /\ closedEvents'[c] <= 1
                        /\ closedEvents'[c] = 1 => ~Listed(connections_', c)
      BY DEF ClosedOnce
    <2>1. /\ closedEvents[c] \in Nat /\ closedEvents[c] <= 1
          /\ closedEvents[c] = 1 => ~Listed(connections_, c)
      BY DEF IInv, TypeOK, ClosedOnce
    <2>2. CASE c \in connections_[p]
      <3>1. closedEvents'[c] = closedEvents[c] + 1
        BY <2>2, <1>c
      <3>2. Listed(connections_, c) /\ ~Listed(connections_', c)
        BY <2>2, <1>m, <1>l
      <3> QED BY <2>1, <3>1, <3>2
    <2>3. CASE c \notin connections_[p]
      BY Zenon, <2>1, <2>3, <1>c, <1>l
    <2> QED BY <2>2, <2>3
  <1>5. ListedWithLoop'
    BY <1>c DEF IInv, ListedWithLoop
  <1>6. OpenConnListed'
    BY SMTT(60), <1>c, <1>m, <1>l DEF IInv, OpenConnListed
  <1>7. FreshUntouched'
    <2>1. \A c \in Conns : c \in connections_[p] => loop[c] \notin {"none", "signalled"}
      BY <1>c DEF IInv, ListedWithLoop
    <2> QED BY <1>c, <2>1 DEF IInv, TypeOK, FreshUntouched
  <1> QED BY <1>1, <1>2, <1>3, <1>4, <1>5, <1>6, <1>7 DEF IInv

(* Every step keeps the inductive invariant.                                 *)
LEMMA NextInv == IInv /\ [Next]_vars => IInv'
  <1> SUFFICES ASSUME IInv, [Next]_vars PROVE IInv'
    OBVIOUS
  <1> DEFINE quiet == UNCHANGED <<connections_, known, closedEvents>>
  <1>q. ASSUME quiet, net' = net, streams' \in [Conns -> 0..MaxStreams],
               loop' \in [Conns -> {"none", "signalled", "accept", "negotiate", "done"}],
               \A c \in Conns : \/ loop'[c] = loop[c]
                                \/ /\ loop[c] \in {"accept", "negotiate"}
                                   /\ loop'[c] \in {"accept", "negotiate"}
        PROVE  IInv'
    BY <1>q DEF IInv, TypeOK, NoEmptyEntry, SubscribersAgree, ClosedOnce, ListedWithLoop,
                OpenConnListed, FreshUntouched, Listed
  <1>1. ASSUME NEW c \in Conns, Handshake(c) PROVE IInv'
    BY <1>1 DEF Handshake, IInv, TypeOK, NoEmptyEntry, SubscribersAgree, ClosedOnce,
                ListedWithLoop, OpenConnListed, FreshUntouched, Listed
  <1>2. ASSUME NEW c \in Conns, Accept(c) PROVE IInv'
    <2>1. loop[c] = "signalled" /\ UNCHANGED <<net, streams>>
      BY <1>2 DEF Accept
    <2>2. CASE net[c] # "closed" /\ onConnectionOpen(c)
      <3>1. net[c] # "none"
        BY <2>1 DEF IInv, FreshUntouched
      <3>2. net' \in [Conns -> {"none", "open", "closing", "closed"}]
        BY <2>1 DEF IInv, TypeOK
      <3> QED BY <2>1, <2>2, <3>1, <3>2, OpenInv
    <2>3. CASE net[c] = "closed" /\ onConnectionDead(c)
      BY <2>1, <2>3, DeadInv
    <2> QED BY <1>2, <2>2, <2>3 DEF Accept
  <1>3. ASSUME NEW c \in Conns, Dialled(c) PROVE IInv'
    <2>1. /\ net[c] = "none" /\ net' = [net EXCEPT ![c] = "open"]
          /\ onConnectionOpen(c) /\ streams' = streams
      BY <1>3 DEF Dialled
    <2>2. /\ loop[c] \in {"none", "signalled"}
          /\ net' \in [Conns -> {"none", "open", "closing", "closed"}]
          /\ net'[c] # "none"
          /\ \A d \in Conns : d # c => net'[d] = net[d]
      BY <2>1 DEF IInv, TypeOK, FreshUntouched
    <2> QED BY <2>1, <2>2, OpenInv
  <1>4. ASSUME NEW c \in Conns, onStream(c) PROVE IInv'
    <2>1. streams' \in [Conns -> 0..MaxStreams]
      BY <1>4, ConnectionAssumption DEF onStream, IInv, TypeOK
    <2> QED BY <1>4, <1>q, <2>1 DEF onStream, IInv, TypeOK
  <1>5. ASSUME NEW c \in Conns, AcceptStream(c) PROVE IInv'
    <2>1. streams' \in [Conns -> 0..MaxStreams]
      BY <1>5, ConnectionAssumption DEF AcceptStream, IInv, TypeOK
    <2>2. loop' \in [Conns -> {"none", "signalled", "accept", "negotiate", "done"}]
      BY <1>5 DEF AcceptStream, IInv, TypeOK
    <2>3. \A d \in Conns : \/ loop'[d] = loop[d]
                            \/ /\ loop[d] \in {"accept", "negotiate"}
                               /\ loop'[d] \in {"accept", "negotiate"}
      BY <1>5 DEF AcceptStream, IInv, TypeOK
    <2> QED BY <1>5, <1>q, <2>1, <2>2, <2>3 DEF AcceptStream
  <1>6. ASSUME NEW c \in Conns, RefuseStream(c) PROVE IInv'
    <2>1. streams' \in [Conns -> 0..MaxStreams]
      BY <1>6, ConnectionAssumption DEF RefuseStream, IInv, TypeOK
    <2> QED BY <1>6, <2>1, LoopTopInv DEF RefuseStream
  <1>7. ASSUME NEW c \in Conns, Negotiated(c) \/ AcceptStreamFails(c) PROVE IInv'
    <2>1. streams' \in [Conns -> 0..MaxStreams]
      BY <1>7 DEF Negotiated, AcceptStreamFails, IInv, TypeOK
    <2> QED BY <1>7, <2>1, LoopTopInv DEF Negotiated, AcceptStreamFails
  <1>8. ASSUME NEW c \in Conns, onClose(c) PROVE IInv'
    BY <1>8 DEF onClose, IInv, TypeOK, NoEmptyEntry, SubscribersAgree, ClosedOnce,
                ListedWithLoop, OpenConnListed, FreshUntouched, Listed
  <1>9. ASSUME NEW p \in Peers, closeConnectionsToPeer(p) PROVE IInv'
    BY <1>9, DisconnectInv
  <1>10. CASE UNCHANGED vars
    BY <1>10, <1>q DEF vars, IInv, TypeOK
  <1> QED BY <1>1, <1>2, <1>3, <1>4, <1>5, <1>6, <1>7, <1>8, <1>9, <1>10 DEF Next

(* ConnectionManager and the stream loops stay well typed.                   *)
THEOREM TypeCorrect == Spec => []TypeOK
  <1>1. IInv => TypeOK BY DEF IInv
  <1> QED BY InitInv, NextInv, <1>1, PTL DEF Spec

(* The peers announced to subscribers are the peers of the table.            *)
THEOREM EventsMatchTable == Spec => []SubscribersAgree
  <1>1. IInv => SubscribersAgree BY DEF IInv
  <1> QED BY InitInv, NextInv, <1>1, PTL DEF Spec

(* A connection is announced closed at most once.                            *)
THEOREM OneClosedEvent == Spec => []ClosedOnce
  <1>1. IInv => ClosedOnce BY DEF IInv
  <1> QED BY InitInv, NextInv, <1>1, PTL DEF Spec

(* No open connection is missing from the table.                             *)
THEOREM NoConnectionLost == Spec => []OpenConnListed
  <1>1. IInv => OpenConnListed BY DEF IInv
  <1> QED BY InitInv, NextInv, <1>1, PTL DEF Spec

(* Table, loops and events agree, in whatever order loops report and the     *)
(* user closes.                                                              *)
THEOREM TableAgrees == Spec => []TableSound
  <1>1. IInv => TableSound BY DEF IInv, TableSound
  <1> QED BY InitInv, NextInv, <1>1, PTL DEF Spec

-----------------------------------------------------------------------------
(* What BasicHost needs to know of the table: a listed connection is open    *)
(* with a running loop, or closed, since a connection that is asked to close *)
(* is forgotten in the same step; and one in conn_signal_ was not asked to.  *)
ListedLive ==
    \A p \in DOMAIN connections_ : \A c \in connections_[p] :
        net[c] = "closed" \/ (net[c] = "open" /\ loop[c] \in {"accept", "negotiate"})
SignalledOpen ==
    \A c \in Conns : loop[c] = "signalled" => net[c] \in {"open", "closed"}

HInv == IInv /\ ListedLive /\ SignalledOpen

(* The empty table satisfies the invariant.                                  *)
LEMMA HInitInv == Init => HInv
  <1>1. Init => ListedLive /\ SignalledOpen BY DEF Init, ListedLive, SignalledOpen
  <1> QED BY <1>1, InitInv DEF HInv

(* A step that lists c, or nothing, and leaves the others of the table as    *)
(* they were.                                                                *)
LEMMA StillLive ==
    ASSUME ListedLive, NEW c \in Conns,
           \A p \in DOMAIN connections_' : \A d \in connections_'[p] :
              d = c \/ (p \in DOMAIN connections_ /\ d \in connections_[p]),
           \A p \in DOMAIN connections_' : \A d \in connections_'[p] :
              d # c => net'[d] = net[d] /\ loop'[d] = loop[d],
           \/ net'[c] = "closed"
           \/ net'[c] = "open" /\ loop'[c] \in {"accept", "negotiate"}
           \/ \A p \in DOMAIN connections_' : c \notin connections_'[p]
    PROVE  ListedLive'
  BY DEF ListedLive

(* Every step keeps the inductive invariant.                                 *)
LEMMA HNextInv == HInv /\ [Next]_vars => HInv'
  <1> SUFFICES ASSUME HInv, [Next]_vars PROVE ListedLive' /\ SignalledOpen'
    BY NextInv DEF HInv
  <1>i. IInv /\ ListedLive /\ SignalledOpen BY DEF HInv
  <1>m. /\ TableOK(connections_)
        /\ \A p \in DOMAIN connections_ : \A c \in connections_[p] :
              c \in Conns /\ remotePeer[c] = p /\ loop[c] \notin {"none", "signalled"}
    BY <1>i DEF IInv, TypeOK, TableOK, ListedWithLoop
  <1>f. /\ net \in [Conns -> {"none", "open", "closing", "closed"}]
        /\ loop \in [Conns -> {"none", "signalled", "accept", "negotiate", "done"}]
        /\ \A c \in Conns : net[c] = "none" <=> loop[c] = "none"
    BY <1>i DEF IInv, TypeOK, FreshUntouched
  <1>1. ASSUME NEW c \in Conns, Handshake(c) PROVE ListedLive' /\ SignalledOpen'
    BY <1>1, <1>i, <1>m, <1>f DEF Handshake, ListedLive, SignalledOpen
  <1>o. ASSUME NEW c \in Conns, onConnectionOpen(c),
               \A d \in Conns : d # c => net'[d] = net[d], net'[c] = "open"
        PROVE  ListedLive' /\ SignalledOpen'
    <2>1. connections_' = With(connections_, c) /\ loop' = [loop EXCEPT ![c] = "accept"]
      BY <1>o DEF onConnectionOpen, addConnectionToPeer
    <2>2. \A p \in DOMAIN connections_' : \A d \in connections_'[p] :
             d = c \/ (p \in DOMAIN connections_ /\ d \in connections_[p])
      BY Zenon, <2>1, <1>i, AddInv
    <2>3. loop'[c] = "accept" /\ \A d \in Conns : d # c => loop'[d] = loop[d]
      BY <2>1, <1>f
    <2>4. ListedLive'
      BY <1>o, <1>i, <1>m, <2>2, <2>3, StillLive
    <2>5. SignalledOpen'
      BY <1>o, <1>i, <2>3 DEF SignalledOpen
    <2> QED BY <2>4, <2>5
  <1>2. ASSUME NEW c \in Conns, Accept(c) PROVE ListedLive' /\ SignalledOpen'
    <2>1. loop[c] = "signalled" /\ net' = net
      BY <1>2 DEF Accept
    <2>2. CASE net[c] # "closed" /\ onConnectionOpen(c)
      <3>1. net'[c] = "open" BY <2>1, <2>2, <1>i DEF SignalledOpen
      <3> QED BY <2>1, <2>2, <3>1, <1>o
    <2>3. CASE net[c] = "closed" /\ onConnectionDead(c)
      <3> DEFINE rest == Without(connections_, c)
      <3>1. connections_' = With(rest, c) /\ loop' = [loop EXCEPT ![c] = "done"]
        BY <2>3 DEF onConnectionDead
      <3>2. /\ TableOK(rest)
            /\ \A p \in DOMAIN rest : \A d \in rest[p] :
                  p \in DOMAIN connections_ /\ d \in connections_[p]
        BY Zenon, <1>m, WithoutTable
      <3> HIDE DEF rest
      <3>3. \A p \in DOMAIN With(rest, c) : \A d \in With(rest, c)[p] :
               \/ d = c /\ p = remotePeer[c]
               \/ p \in DOMAIN rest /\ d \in rest[p]
        BY Zenon, <3>2, WithTable
      <3>4. \A p \in DOMAIN connections_' : \A d \in connections_'[p] :
               d = c \/ (p \in DOMAIN connections_ /\ d \in connections_[p])
        BY <3>1, <3>2, <3>3
      <3>5. loop'[c] = "done" /\ \A d \in Conns : d # c => loop'[d] = loop[d]
        BY <3>1, <1>f
      <3>6. ListedLive'
        BY <2>1, <2>3, <1>i, <1>m, <3>4, <3>5, StillLive
      <3>7. SignalledOpen'
        BY <2>1, <1>i, <3>5 DEF SignalledOpen
      <3> QED BY <3>6, <3>7
    <2> QED BY <1>2, <2>2, <2>3 DEF Accept
  <1>3. ASSUME NEW c \in Conns, Dialled(c) PROVE ListedLive' /\ SignalledOpen'
    <2>1. /\ onConnectionOpen(c) /\ net'[c] = "open"
          /\ \A d \in Conns : d # c => net'[d] = net[d]
      BY <1>3, <1>f DEF Dialled
    <2> QED BY <2>1, <1>o
  <1>l. ASSUME NEW c \in Conns, loop[c] \in {"accept", "negotiate"}, LoopTop(c), net' = net
        PROVE  ListedLive' /\ SignalledOpen'
    <2>1. CASE net[c] # "closed"
      <3>1. connections_' = connections_ /\ loop' = [loop EXCEPT ![c] = "accept"]
        BY <2>1, <1>l DEF LoopTop
      <3>2. loop'[c] = "accept" /\ \A d \in Conns : d # c => loop'[d] = loop[d]
        BY <3>1, <1>f
      <3>3. ListedLive'
        BY <1>l, <1>i, <1>m, <3>1, <3>2 DEF ListedLive
      <3>4. SignalledOpen'
        BY <1>l, <1>i, <3>2 DEF SignalledOpen
      <3> QED BY <3>3, <3>4
    <2>2. CASE net[c] = "closed"
      <3>1. connections_' = Without(connections_, c) /\ loop' = [loop EXCEPT ![c] = "done"]
        BY <2>2, <1>l DEF LoopTop, onConnectionClosed
      <3>2. \A p \in DOMAIN connections_' : \A d \in connections_'[p] :
               p \in DOMAIN connections_ /\ d \in connections_[p]
        <4> DEFINE rest == Without(connections_, c)
        <4>1. \A p \in DOMAIN rest : \A d \in rest[p] :
                 p \in DOMAIN connections_ /\ d \in connections_[p]
          BY Zenon, <1>m, WithoutTable
        <4>2. connections_' = rest BY <3>1
        <4> HIDE DEF rest
        <4> QED BY <4>1, <4>2
      <3>3. loop'[c] = "done" /\ \A d \in Conns : d # c => loop'[d] = loop[d]
        BY <3>1, <1>f
      <3>4. ListedLive'
        BY <2>2, <1>l, <1>i, <1>m, <3>2, <3>3, StillLive
      <3>5. SignalledOpen'
        BY <1>l, <1>i, <3>3 DEF SignalledOpen
      <3> QED BY <3>4, <3>5
    <2> QED BY <2>1, <2>2
  <1>4. ASSUME NEW c \in Conns, onStream(c) PROVE ListedLive' /\ SignalledOpen'
    BY <1>4, <1>i DEF onStream, ListedLive, SignalledOpen
  <1>5. ASSUME NEW c \in Conns, AcceptStream(c) PROVE ListedLive' /\ SignalledOpen'
    BY <1>5, <1>i, <1>m, <1>f DEF AcceptStream, ListedLive, SignalledOpen
  <1>6. ASSUME NEW c \in Conns, RefuseStream(c) \/ Negotiated(c) \/ AcceptStreamFails(c)
        PROVE  ListedLive' /\ SignalledOpen'
    BY <1>6, <1>l DEF RefuseStream, Negotiated, AcceptStreamFails
  <1>7. ASSUME NEW c \in Conns, onClose(c) PROVE ListedLive' /\ SignalledOpen'
    BY <1>7, <1>i, <1>m, <1>f DEF onClose, ListedLive, SignalledOpen
  <1>8. ASSUME NEW p \in Peers, closeConnectionsToPeer(p)
        PROVE  ListedLive' /\ SignalledOpen'
    <2>1. /\ p \in DOMAIN connections_
          /\ connections_' = [q \in DOMAIN connections_ \ {p} |-> connections_[q]]
          /\ net' = [c \in Conns |-> IF c \in connections_[p] /\ net[c] = "open"
                                    THEN "closing" ELSE net[c]]
          /\ loop' = loop
      BY <1>8 DEF closeConnectionsToPeer, Restrict
    <2>2. \A c \in Conns : c \notin connections_[p] => net'[c] = net[c]
      BY <2>1
    <2>3. ListedLive'
      BY <1>i, <1>m, <2>1, <2>2 DEF ListedLive
    <2>4. SignalledOpen'
      BY <1>i, <1>m, <2>1, <2>2 DEF SignalledOpen
    <2> QED BY <2>3, <2>4
  <1>9. CASE UNCHANGED vars
    BY <1>9, <1>i DEF vars, ListedLive, SignalledOpen
  <1> QED BY <1>1, <1>2, <1>3, <1>4, <1>5, <1>6, <1>7, <1>8, <1>9 DEF Next

(* BasicHost::connectedness says CONNECTED of exactly the peers with an open *)
(* connection that was accepted or dialled, whatever addresses are known.    *)
THEOREM HostTellsTruth == Spec => []ConnectedIsTrue
  <1>1. HInv => ConnectedIsTrue
    <2> SUFFICES ASSUME HInv, NEW p \in Peers
                 PROVE  getBestConnectionForPeer(p) <=>
                           \E c \in Conns : /\ remotePeer[c] = p /\ net[c] = "open"
                                            /\ loop[c] \in {"accept", "negotiate"}
      BY DEF ConnectedIsTrue, connectedness
    <2>1. ASSUME getBestConnectionForPeer(p)
          PROVE  \E c \in Conns : /\ remotePeer[c] = p /\ net[c] = "open"
                                  /\ loop[c] \in {"accept", "negotiate"}
      BY <2>1 DEF getBestConnectionForPeer, HInv, IInv, TypeOK, ListedWithLoop, ListedLive
    <2>2. ASSUME NEW c \in Conns, remotePeer[c] = p, net[c] = "open",
                 loop[c] \in {"accept", "negotiate"}
          PROVE  getBestConnectionForPeer(p)
      BY <2>2 DEF getBestConnectionForPeer, HInv, IInv, OpenConnListed, Listed
    <2> QED BY <2>1, <2>2
  <1> QED BY HInitInv, HNextInv, <1>1, PTL DEF Spec

-----------------------------------------------------------------------------
(* Listener.                                                                 *)

CONSTANTS Listeners, ListenAddresses, Supported, Anywhere, MaxArrivals
VARIABLES orderly, running, started, listeners_, server_, acceptLoop, conn_signal_, arrived,
          cancelled, crashed
L == INSTANCE Listener WITH Addresses <- ListenAddresses, loop <- acceptLoop

(* Listed listeners are open exactly while the manager is started, an accept *)
(* coroutine waits only where there is an engine or holds what one gave it,  *)
(* and a listener is listed under one address.                               *)
ListenersSound == L!ListenersSound

(* A listener that was not created has no engine.                            *)
LInv ==
    /\ L!ListenersSound
    /\ \A l \in Listeners : acceptLoop[l] = "none" => L!isClosed(l)

(* A bound engine is told from none.                                         *)
LEMMA BoundIsOpen ==
    ASSUME NEW l \in Listeners, NEW a \in ListenAddresses
    PROVE  L!Bound(l, a) \in L!Interfaces /\ L!Bound(l, a) # L!NoServer
  <1>1. \A x, y : <<x, y>> # <<"closed">>
    OBVIOUS
  <1>2. L!Bound(l, a) # L!NoServer
    BY <1>1 DEF L!Bound, L!NoServer
  <1>3. L!Bound(l, a) \in L!Interfaces
    BY DEF L!Bound, L!Interfaces
  <1> QED BY <1>2, <1>3

(* Nothing is listed before the first call of listen.                        *)
LEMMA LInit ==
    ASSUME L!ListenerAssumption
    PROVE  L!Init => LInv
  <1> SUFFICES ASSUME L!Init PROVE LInv
    OBVIOUS
  <1>1. DOMAIN listeners_ = {} /\ L!Range(listeners_) = {}
    BY DEF L!Init, L!Range
  <1>2. L!TypeOK
    <2>1. /\ {orderly, running, started, crashed} \subseteq BOOLEAN
          /\ acceptLoop \in [Listeners -> {"none", "posted", "waiting", "ended"}]
          /\ server_ \in [Listeners -> {L!NoServer} \cup L!Interfaces]
      BY Zenon DEF L!Init
    <2>2. /\ conn_signal_ \in [Listeners -> Seq(BOOLEAN)]
          /\ arrived \in [Listeners -> 0..MaxArrivals] /\ cancelled \in [Listeners -> Nat]
      BY DEF L!Init, L!ListenerAssumption
    <2> QED BY <1>1, <2>1, <2>2 DEF L!TypeOK
  <1>3. L!OpenIffStarted /\ L!WaitsAtServer
    BY <1>1 DEF L!Init, L!OpenIffStarted, L!WaitsAtServer
  <1>4. \A l \in Listeners : acceptLoop[l] = "none" => L!isClosed(l)
    BY DEF L!Init, L!isClosed
  <1> QED BY <1>2, <1>3, <1>4 DEF LInv, L!ListenersSound

(* What the invariant says of a listed listener.                             *)
LEMMA ListedFacts ==
    ASSUME LInv
    PROVE  /\ L!TypeOK /\ L!OpenIffStarted /\ L!WaitsAtServer
           /\ \A a \in DOMAIN listeners_ :
                /\ a \in Supported /\ listeners_[a] \in Listeners
                /\ acceptLoop[listeners_[a]] # "none"
  <1>1. L!TypeOK /\ L!OpenIffStarted /\ L!WaitsAtServer
    BY DEF LInv, L!ListenersSound
  <1>2. \A a \in DOMAIN listeners_ : listeners_[a] \in L!Range(listeners_)
    BY DEF L!Range
  <1> QED BY <1>1, <1>2 DEF L!TypeOK, L!Created

(* The shape in which a step is shown to keep the invariant.                 *)
LEMMA LInvFrom ==
    ASSUME L!TypeOK,
           orderly' = orderly, {running', started', crashed'} \subseteq BOOLEAN,
           \A a \in DOMAIN listeners_' :
              /\ a \in Supported /\ listeners_'[a] \in Listeners
              /\ acceptLoop'[listeners_'[a]] # "none"
              /\ server_'[listeners_'[a]] # L!NoServer <=> started',
           \A a, b \in DOMAIN listeners_' : listeners_'[a] = listeners_'[b] => a = b,
           server_' \in [Listeners -> {L!NoServer} \cup L!Interfaces],
           acceptLoop' \in [Listeners -> {"none", "posted", "waiting", "ended"}],
           conn_signal_' \in [Listeners -> Seq(BOOLEAN)],
           arrived' \in [Listeners -> 0..MaxArrivals] /\ cancelled' \in [Listeners -> Nat],
           \A l \in Listeners : /\ acceptLoop'[l] = "waiting" =>
                                       server_'[l] # L!NoServer \/ conn_signal_'[l] # << >>
                                /\ acceptLoop'[l] = "none" => server_'[l] = L!NoServer
    PROVE  LInv'
  <1>1. L!TypeOK'
    <2>1. {orderly', running', started', crashed'} \subseteq BOOLEAN
      BY DEF L!TypeOK
    <2>2. (L!Range(listeners_))' \subseteq (L!Created)' /\ DOMAIN listeners_' \subseteq Supported
      BY DEF L!Range, L!Created
    <2> QED BY <2>1, <2>2 DEF L!TypeOK, L!Interfaces, L!NoServer
  <1>2. L!OpenIffStarted'
    BY DEF L!OpenIffStarted, L!isClosed, L!NoServer
  <1>3. L!WaitsAtServer'
    BY DEF L!WaitsAtServer, L!isClosed, L!NoServer
  <1>4. (\A l \in Listeners : acceptLoop[l] = "none" => L!isClosed(l))'
    BY DEF L!isClosed, L!NoServer
  <1> QED BY <1>1, <1>2, <1>3, <1>4 DEF LInv, L!ListenersSound

(* listen lists a listener that was just created, under a new address, and   *)
(* opens it if the manager is started.                                       *)
LEMMA ListenKeeps ==
    ASSUME L!ListenerAssumption, LInv, NEW a \in ListenAddresses, L!listen(a), orderly' = orderly
    PROVE  LInv'
  <1>t. /\ L!TypeOK /\ L!OpenIffStarted /\ L!WaitsAtServer
        /\ \A x \in DOMAIN listeners_ : /\ x \in Supported /\ listeners_[x] \in Listeners
                                        /\ acceptLoop[listeners_[x]] # "none"
    BY ListedFacts
  <1>p. PICK l \in Listeners \ L!Created :
           /\ acceptLoop' = [acceptLoop EXCEPT ![l] = L!spawned]
           /\ IF started /\ ~L!canBind(l, a)
              THEN UNCHANGED <<listeners_, server_>>
              ELSE /\ listeners_' = [x \in DOMAIN listeners_ \cup {a} |->
                                        IF x = a THEN l ELSE listeners_[x]]
                   /\ server_' = IF started THEN [server_ EXCEPT ![l] = L!Bound(l, a)]
                                 ELSE server_
    BY Zenon DEF L!listen
  <1>w. /\ a \in Supported /\ a \notin DOMAIN listeners_
        /\ UNCHANGED <<running, started, conn_signal_, arrived, cancelled, crashed>>
    BY DEF L!listen, L!findBest
  <1>l. /\ acceptLoop[l] = "none" /\ server_[l] = L!NoServer
        /\ \A x \in DOMAIN listeners_ : listeners_[x] # l
    BY <1>p, <1>t DEF L!Created, LInv, L!isClosed
  <1>u. /\ acceptLoop'[l] \in {"posted", "ended"}
        /\ \A k \in Listeners : k # l => acceptLoop'[k] = acceptLoop[k]
        /\ acceptLoop' \in [Listeners -> {"none", "posted", "waiting", "ended"}]
    BY <1>p, <1>t DEF L!TypeOK, L!spawned
  <1>o. /\ \A x \in DOMAIN listeners_ : server_[listeners_[x]] # L!NoServer <=> started
        /\ \A k \in Listeners : acceptLoop[k] = "waiting" =>
                                    server_[k] # L!NoServer \/ conn_signal_[k] # << >>
        /\ \A x, y \in DOMAIN listeners_ : listeners_[x] = listeners_[y] => x = y
        /\ \A k \in Listeners : acceptLoop[k] = "none" => server_[k] = L!NoServer
    BY <1>t DEF L!OpenIffStarted, L!WaitsAtServer, L!isClosed, LInv
  <1>y. /\ {running', started', crashed'} \subseteq BOOLEAN
        /\ conn_signal_' \in [Listeners -> Seq(BOOLEAN)]
        /\ arrived' \in [Listeners -> 0..MaxArrivals] /\ cancelled' \in [Listeners -> Nat]
    BY <1>t, <1>w DEF L!TypeOK
  <1>1. CASE started /\ ~L!canBind(l, a)
    <2>1. UNCHANGED <<listeners_, server_>>
      BY <1>1, <1>p
    <2>2. server_' \in [Listeners -> {L!NoServer} \cup L!Interfaces]
      BY <1>t, <2>1 DEF L!TypeOK
    <2>3. \A x \in DOMAIN listeners_' :
             /\ x \in Supported /\ listeners_'[x] \in Listeners
             /\ acceptLoop'[listeners_'[x]] # "none"
             /\ server_'[listeners_'[x]] # L!NoServer <=> started'
      BY <1>t, <1>u, <1>o, <1>w, <1>l, <2>1
    <2>4. /\ \A x, y \in DOMAIN listeners_' : listeners_'[x] = listeners_'[y] => x = y
          /\ \A k \in Listeners : /\ acceptLoop'[k] = "waiting" =>
                                         server_'[k] # L!NoServer \/ conn_signal_'[k] # << >>
                                  /\ acceptLoop'[k] = "none" => server_'[k] = L!NoServer
      BY <1>u, <1>o, <1>w, <2>1
    <2> QED BY <1>t, <1>u, <1>y, <2>2, <2>3, <2>4, LInvFrom
  <1>2. CASE ~(started /\ ~L!canBind(l, a))
    <2>1. /\ DOMAIN listeners_' = DOMAIN listeners_ \cup {a} /\ listeners_'[a] = l
          /\ \A x \in DOMAIN listeners_ : listeners_'[x] = listeners_[x]
      BY <1>2, <1>p, <1>w
    <2>b. L!Bound(l, a) \in L!Interfaces /\ L!Bound(l, a) # L!NoServer
      BY <1>p, BoundIsOpen
    <2>2. /\ server_' \in [Listeners -> {L!NoServer} \cup L!Interfaces]
          /\ server_'[l] # L!NoServer <=> started
          /\ \A k \in Listeners : k # l => server_'[k] = server_[k]
      <3>1. server_ \in [Listeners -> {L!NoServer} \cup L!Interfaces]
        BY <1>t DEF L!TypeOK
      <3>2. server_' = IF started THEN [server_ EXCEPT ![l] = L!Bound(l, a)] ELSE server_
        BY <1>2, <1>p
      <3> QED BY Zenon, <1>p, <1>l, <2>b, <3>1, <3>2
    <2>3. \A x \in DOMAIN listeners_' :
             /\ x \in Supported /\ listeners_'[x] \in Listeners
             /\ acceptLoop'[listeners_'[x]] # "none"
             /\ server_'[listeners_'[x]] # L!NoServer <=> started'
      BY <1>t, <1>u, <1>o, <1>w, <1>l, <1>p, <2>1, <2>2
    <2>4. /\ \A x, y \in DOMAIN listeners_' : listeners_'[x] = listeners_'[y] => x = y
          /\ \A k \in Listeners : /\ acceptLoop'[k] = "waiting" =>
                                         server_'[k] # L!NoServer \/ conn_signal_'[k] # << >>
                                  /\ acceptLoop'[k] = "none" => server_'[k] = L!NoServer
      BY <1>u, <1>o, <1>w, <1>l, <2>1, <2>2
    <2> QED BY <1>t, <1>u, <1>y, <2>2, <2>3, <2>4, LInvFrom
  <1> QED BY <1>1, <1>2

(* start opens every listed listener it keeps; by WaitsAtServer each of them *)
(* is listed under one address, so it is bound once.                         *)
LEMMA StartKeeps ==
    ASSUME L!ListenerAssumption, LInv, L!start, orderly' = orderly
    PROVE  LInv'
  <1>t. /\ L!TypeOK /\ L!OpenIffStarted /\ L!WaitsAtServer
        /\ \A x \in DOMAIN listeners_ : /\ x \in Supported /\ listeners_[x] \in Listeners
                                        /\ acceptLoop[listeners_[x]] # "none"
    BY ListedFacts
  <1> DEFINE ok == {a \in DOMAIN listeners_ : L!canBind(listeners_[a], a)}
             first(l) == CHOOSE a \in ok : listeners_[a] = l
  <1>w. /\ started' = TRUE /\ listeners_' = [x \in ok |-> listeners_[x]]
        /\ server_' = [l \in Listeners |-> IF \E a \in ok : listeners_[a] = l
                                           THEN L!Bound(l, first(l)) ELSE server_[l]]
        /\ UNCHANGED <<running, acceptLoop, conn_signal_, arrived, cancelled, crashed>>
    BY DEF L!start, L!Restrict
  <1>o. /\ \A k \in Listeners : acceptLoop[k] = "waiting" =>
                                    server_[k] # L!NoServer \/ conn_signal_[k] # << >>
        /\ \A x, y \in DOMAIN listeners_ : listeners_[x] = listeners_[y] => x = y
        /\ \A k \in Listeners : acceptLoop[k] = "none" => server_[k] = L!NoServer
    BY <1>t DEF L!WaitsAtServer, L!isClosed, LInv
  <1>f. \A l \in Listeners : (\E a \in ok : listeners_[a] = l) =>
           /\ first(l) \in ok /\ listeners_[first(l)] = l
           /\ L!Bound(l, first(l)) \in L!Interfaces /\ L!Bound(l, first(l)) # L!NoServer
    <2> SUFFICES ASSUME NEW l \in Listeners, NEW b \in ok, listeners_[b] = l
                 PROVE  /\ first(l) \in ok /\ listeners_[first(l)] = l
                        /\ L!Bound(l, first(l)) \in L!Interfaces
                        /\ L!Bound(l, first(l)) # L!NoServer
      OBVIOUS
    <2>1. first(l) \in ok /\ listeners_[first(l)] = l
      OBVIOUS
    <2>2. first(l) \in ListenAddresses
      BY <1>t, <2>1 DEF L!ListenerAssumption
    <2> HIDE DEF first
    <2> QED BY <2>1, <2>2, BoundIsOpen
  <1> HIDE DEF first
  <1>s. /\ \A l \in Listeners : server_'[l] = IF \E a \in ok : listeners_[a] = l
                                              THEN L!Bound(l, first(l)) ELSE server_[l]
        /\ server_' \in [Listeners -> {L!NoServer} \cup L!Interfaces]
    BY <1>t, <1>f, <1>w DEF L!TypeOK
  <1>1. \A x \in DOMAIN listeners_' :
           /\ x \in Supported /\ listeners_'[x] \in Listeners
           /\ acceptLoop'[listeners_'[x]] # "none"
           /\ server_'[listeners_'[x]] # L!NoServer <=> started'
    <2> SUFFICES ASSUME NEW x \in ok
                 PROVE  /\ x \in Supported /\ listeners_[x] \in Listeners
                        /\ acceptLoop[listeners_[x]] # "none"
                        /\ server_'[listeners_[x]] # L!NoServer
      BY <1>w
    <2>1. /\ x \in Supported /\ listeners_[x] \in Listeners /\ acceptLoop[listeners_[x]] # "none"
      BY <1>t
    <2> QED BY <1>f, <1>s, <2>1
  <1>2. \A x, y \in DOMAIN listeners_' : listeners_'[x] = listeners_'[y] => x = y
    BY <1>o, <1>w
  <1>3. \A k \in Listeners : /\ acceptLoop'[k] = "waiting" =>
                                    server_'[k] # L!NoServer \/ conn_signal_'[k] # << >>
                             /\ acceptLoop'[k] = "none" => server_'[k] = L!NoServer
    BY <1>f, <1>o, <1>s, <1>t, <1>w
  <1>4. /\ {running', started', crashed'} \subseteq BOOLEAN
        /\ acceptLoop' \in [Listeners -> {"none", "posted", "waiting", "ended"}]
        /\ conn_signal_' \in [Listeners -> Seq(BOOLEAN)]
        /\ arrived' \in [Listeners -> 0..MaxArrivals] /\ cancelled' \in [Listeners -> Nat]
    BY <1>t, <1>w DEF L!TypeOK
  <1> QED BY <1>t, <1>s, <1>1, <1>2, <1>3, <1>4, LInvFrom

(* Closing listeners leaves no coroutine that waits at them and was given    *)
(* nothing, and creates none.                                                *)
LEMMA ClosedKeeps ==
    ASSUME LInv, NEW S, L!closed(S)
    PROVE  /\ \A l \in Listeners : server_'[l] = IF l \in S THEN L!NoServer ELSE server_[l]
           /\ \A l \in Listeners : acceptLoop'[l] = "none" <=> acceptLoop[l] = "none"
           /\ server_' \in [Listeners -> {L!NoServer} \cup L!Interfaces]
           /\ acceptLoop' \in [Listeners -> {"none", "posted", "waiting", "ended"}]
           /\ conn_signal_' \in [Listeners -> Seq(BOOLEAN)] /\ cancelled' \in [Listeners -> Nat]
           /\ \A l \in Listeners : /\ acceptLoop'[l] = "waiting" =>
                                          server_'[l] # L!NoServer \/ conn_signal_'[l] # << >>
                                   /\ acceptLoop'[l] = "none" => server_'[l] = L!NoServer
  <1>t. L!TypeOK /\ L!WaitsAtServer
    BY ListedFacts
  <1>o. \A l \in Listeners : /\ acceptLoop[l] = "waiting" =>
                                    server_[l] # L!NoServer \/ conn_signal_[l] # << >>
                             /\ acceptLoop[l] = "none" => server_[l] = L!NoServer
    BY <1>t DEF L!WaitsAtServer, L!isClosed, LInv
  <1>h. \A l \in Listeners :
           /\ L!handed(l) \in Seq(BOOLEAN) /\ Len(conn_signal_[l]) - Len(L!handed(l)) \in Nat
           /\ L!idle(l) <=> acceptLoop[l] = "waiting" /\ L!handed(l) = << >>
    <2> SUFFICES ASSUME NEW l \in Listeners
                 PROVE  /\ L!handed(l) \in Seq(BOOLEAN)
                        /\ Len(conn_signal_[l]) - Len(L!handed(l)) \in Nat
      BY DEF L!idle
    <2>1. conn_signal_[l] \in Seq(BOOLEAN)
      BY <1>t DEF L!TypeOK
    <2>2. CASE acceptLoop[l] = "waiting" /\ conn_signal_[l] # << >>
      <3>1. L!handed(l) = <<Head(conn_signal_[l])>>
        BY Zenon, <2>2 DEF L!handed
      <3>2. /\ Head(conn_signal_[l]) \in BOOLEAN
            /\ Len(conn_signal_[l]) \in Nat /\ Len(conn_signal_[l]) >= 1
        BY <2>1, <2>2
      <3>3. <<Head(conn_signal_[l])>> \in Seq(BOOLEAN) /\ Len(<<Head(conn_signal_[l])>>) = 1
        BY <3>2
      <3> QED BY <3>1, <3>2, <3>3
    <2>3. CASE ~(acceptLoop[l] = "waiting" /\ conn_signal_[l] # << >>)
      <3>1. L!handed(l) = << >>
        BY Zenon, <2>3 DEF L!handed
      <3> QED BY <2>1, <3>1
    <2> QED BY <2>2, <2>3
  <1>1. \A l \in Listeners :
           /\ server_'[l] = IF l \in S THEN L!NoServer ELSE server_[l]
           /\ acceptLoop'[l] = IF l \in S /\ L!idle(l) THEN "ended" ELSE acceptLoop[l]
           /\ conn_signal_'[l] = IF l \in S THEN L!handed(l) ELSE conn_signal_[l]
    BY Zenon DEF L!closed
  <1>2. /\ server_' \in [Listeners -> {L!NoServer} \cup L!Interfaces]
        /\ acceptLoop' \in [Listeners -> {"none", "posted", "waiting", "ended"}]
    BY Zenon, <1>t DEF L!closed, L!TypeOK
  <1>3. conn_signal_' \in [Listeners -> Seq(BOOLEAN)]
    BY Zenon, <1>t, <1>h DEF L!closed, L!TypeOK
  <1>4. cancelled' \in [Listeners -> Nat]
    <2>1. \A l \in Listeners : cancelled[l] + Len(conn_signal_[l]) - Len(L!handed(l))
                                 + (IF L!idle(l) THEN 1 ELSE 0) \in Nat
      <3> SUFFICES ASSUME NEW l \in Listeners
                   PROVE  cancelled[l] + Len(conn_signal_[l]) - Len(L!handed(l))
                          + (IF L!idle(l) THEN 1 ELSE 0) \in Nat
        OBVIOUS
      <3>1. cancelled[l] \in Nat /\ conn_signal_[l] \in Seq(BOOLEAN)
        BY <1>t DEF L!TypeOK
      <3>2. Len(conn_signal_[l]) \in Nat /\ Len(L!handed(l)) \in Nat
        BY <1>h, <3>1
      <3> QED BY <1>h, <3>1, <3>2
    <2> QED BY Zenon, <1>t, <2>1 DEF L!closed, L!TypeOK
  <1>5. \A l \in Listeners :
           /\ acceptLoop'[l] = "waiting" => server_'[l] # L!NoServer \/ conn_signal_'[l] # << >>
           /\ acceptLoop'[l] = "none" <=> acceptLoop[l] = "none"
           /\ acceptLoop'[l] = "none" => server_'[l] = L!NoServer
    BY <1>o, <1>h, <1>1
  <1> QED BY <1>1, <1>2, <1>3, <1>4, <1>5

(* stop closes exactly the listed listeners.                                 *)
LEMMA StopKeeps ==
    ASSUME LInv, L!stop, orderly' = orderly
    PROVE  LInv'
  <1>t. /\ L!TypeOK /\ L!WaitsAtServer
        /\ \A x \in DOMAIN listeners_ : /\ x \in Supported /\ listeners_[x] \in Listeners
                                        /\ acceptLoop[listeners_[x]] # "none"
    BY ListedFacts
  <1>w. /\ started' = FALSE /\ L!closed(L!Range(listeners_))
        /\ UNCHANGED <<running, listeners_, arrived, crashed>>
    BY DEF L!stop, L!stopped
  <1>1. \A x \in DOMAIN listeners_' :
           /\ x \in Supported /\ listeners_'[x] \in Listeners
           /\ acceptLoop'[listeners_'[x]] # "none"
           /\ server_'[listeners_'[x]] # L!NoServer <=> started'
    <2> SUFFICES ASSUME NEW x \in DOMAIN listeners_
                 PROVE  /\ x \in Supported /\ listeners_[x] \in Listeners
                        /\ acceptLoop'[listeners_[x]] # "none"
                        /\ server_'[listeners_[x]] = L!NoServer
      BY <1>w
    <2>1. listeners_[x] \in L!Range(listeners_)
      BY DEF L!Range
    <2> QED BY <1>t, <1>w, <2>1, ClosedKeeps
  <1>2. \A x, y \in DOMAIN listeners_' : listeners_'[x] = listeners_'[y] => x = y
    BY <1>t, <1>w DEF L!WaitsAtServer
  <1>3. /\ {running', started', crashed'} \subseteq BOOLEAN
        /\ arrived' \in [Listeners -> 0..MaxArrivals]
    BY Zenon, <1>t, <1>w DEF L!TypeOK
  <1> QED BY <1>t, <1>w, <1>1, <1>2, <1>3, ClosedKeeps, LInvFrom

(* The table without one of its addresses.                                   *)
LEMMA DropValue ==
    ASSUME NEW a \in DOMAIN listeners_, listeners_' = L!Drop(listeners_, {a})
    PROVE  /\ DOMAIN listeners_' = DOMAIN listeners_ \ {a}
           /\ \A x \in DOMAIN listeners_' : listeners_'[x] = listeners_[x]
  BY DEF L!Drop, L!Restrict

(* closeListener closes one listener, which is listed under no other         *)
(* address.                                                                  *)
LEMMA CloseKeeps ==
    ASSUME LInv, NEW a, L!closeListener(a), orderly' = orderly
    PROVE  LInv'
  <1>t. /\ L!TypeOK /\ L!OpenIffStarted /\ L!WaitsAtServer
        /\ \A x \in DOMAIN listeners_ : /\ x \in Supported /\ listeners_[x] \in Listeners
                                        /\ acceptLoop[listeners_[x]] # "none"
    BY ListedFacts
  <1>w. /\ a \in DOMAIN listeners_ /\ listeners_' = L!Drop(listeners_, {a})
        /\ L!closed({listeners_[a]}) /\ UNCHANGED <<running, started, arrived, crashed>>
    BY DEF L!closeListener
  <1>d. /\ DOMAIN listeners_' = DOMAIN listeners_ \ {a}
        /\ \A x \in DOMAIN listeners_' : listeners_'[x] = listeners_[x]
    BY Zenon, <1>w, DropValue
  <1>o. /\ \A x \in DOMAIN listeners_ : server_[listeners_[x]] # L!NoServer <=> started
        /\ \A x, y \in DOMAIN listeners_ : listeners_[x] = listeners_[y] => x = y
    BY <1>t DEF L!OpenIffStarted, L!WaitsAtServer, L!isClosed
  <1>1. \A x \in DOMAIN listeners_' :
           /\ x \in Supported /\ listeners_'[x] \in Listeners
           /\ acceptLoop'[listeners_'[x]] # "none"
           /\ server_'[listeners_'[x]] # L!NoServer <=> started'
    <2> SUFFICES ASSUME NEW x \in DOMAIN listeners_, x # a
                 PROVE  /\ x \in Supported /\ listeners_[x] \in Listeners
                        /\ acceptLoop'[listeners_[x]] # "none"
                        /\ server_'[listeners_[x]] = server_[listeners_[x]]
      BY <1>d, <1>o, <1>w
    <2>1. listeners_[x] \notin {listeners_[a]}
      BY <1>o, <1>w
    <2> QED BY Zenon, <1>t, <1>w, <2>1, ClosedKeeps
  <1>2. \A x, y \in DOMAIN listeners_' : listeners_'[x] = listeners_'[y] => x = y
    BY SMTT(30), <1>o, <1>d
  <1>3. /\ {running', started', crashed'} \subseteq BOOLEAN
        /\ arrived' \in [Listeners -> 0..MaxArrivals]
    BY <1>t, <1>w DEF L!TypeOK
  <1> QED BY Zenon, <1>t, <1>w, <1>1, <1>2, <1>3, ClosedKeeps, LInvFrom

(* The steps that neither list, open nor close a listener: the accept        *)
(* coroutines go on, connections arrive, and listeners are forgotten.        *)
LEMMA QuietKeeps ==
    ASSUME LInv, orderly' = orderly, UNCHANGED <<started, server_>>,
           {running', crashed'} \subseteq BOOLEAN,
           /\ DOMAIN listeners_' \subseteq DOMAIN listeners_
           /\ \A x \in DOMAIN listeners_' : listeners_'[x] = listeners_[x],
           acceptLoop' \in [Listeners -> {"none", "posted", "waiting", "ended"}],
           \A l \in Listeners : /\ acceptLoop'[l] = "none" <=> acceptLoop[l] = "none"
                                /\ acceptLoop'[l] = "waiting" =>
                                       server_[l] # L!NoServer \/ conn_signal_'[l] # << >>,
           conn_signal_' \in [Listeners -> Seq(BOOLEAN)],
           arrived' \in [Listeners -> 0..MaxArrivals] /\ cancelled' \in [Listeners -> Nat]
    PROVE  LInv'
  <1>t. /\ L!TypeOK /\ L!OpenIffStarted /\ L!WaitsAtServer
        /\ \A x \in DOMAIN listeners_ : /\ x \in Supported /\ listeners_[x] \in Listeners
                                        /\ acceptLoop[listeners_[x]] # "none"
    BY ListedFacts
  <1>o. /\ \A x \in DOMAIN listeners_ : server_[listeners_[x]] # L!NoServer <=> started
        /\ \A x, y \in DOMAIN listeners_ : listeners_[x] = listeners_[y] => x = y
        /\ \A k \in Listeners : acceptLoop[k] = "none" => server_[k] = L!NoServer
    BY <1>t DEF L!OpenIffStarted, L!WaitsAtServer, L!isClosed, LInv
  <1>1. \A x \in DOMAIN listeners_' :
           /\ x \in Supported /\ listeners_'[x] \in Listeners
           /\ acceptLoop'[listeners_'[x]] # "none"
           /\ server_'[listeners_'[x]] # L!NoServer <=> started'
    <2> SUFFICES ASSUME NEW x \in DOMAIN listeners_'
                 PROVE  /\ x \in Supported /\ listeners_[x] \in Listeners
                        /\ acceptLoop'[listeners_[x]] # "none"
                        /\ server_[listeners_[x]] # L!NoServer <=> started
      OBVIOUS
    <2>1. x \in DOMAIN listeners_
      OBVIOUS
    <2> QED BY Zenon, <1>t, <1>o, <2>1
  <1>2. \A x, y \in DOMAIN listeners_' : listeners_'[x] = listeners_'[y] => x = y
    BY <1>o
  <1>3. /\ {running', started', crashed'} \subseteq BOOLEAN
        /\ server_' \in [Listeners -> {L!NoServer} \cup L!Interfaces]
    BY <1>t DEF L!TypeOK
  <1>4. \A k \in Listeners : /\ acceptLoop'[k] = "waiting" =>
                                    server_'[k] # L!NoServer \/ conn_signal_'[k] # << >>
                             /\ acceptLoop'[k] = "none" => server_'[k] = L!NoServer
    BY <1>o
  <1> QED BY <1>t, <1>1, <1>2, <1>3, <1>4, LInvFrom

(* Every call of a user and every step of a coroutine keeps LInv.            *)
LEMMA LNext ==
    ASSUME L!ListenerAssumption, LInv, L!Next \/ UNCHANGED L!vars
    PROVE  LInv'
  <1>t. L!TypeOK /\ L!WaitsAtServer
    BY ListedFacts
  <1>o. \A k \in Listeners : acceptLoop[k] = "waiting" =>
                                 server_[k] # L!NoServer \/ conn_signal_[k] # << >>
    BY <1>t DEF L!WaitsAtServer, L!isClosed
  <1>y. /\ acceptLoop \in [Listeners -> {"none", "posted", "waiting", "ended"}]
        /\ conn_signal_ \in [Listeners -> Seq(BOOLEAN)]
        /\ arrived \in [Listeners -> 0..MaxArrivals] /\ cancelled \in [Listeners -> Nat]
        /\ {running, started, crashed} \subseteq BOOLEAN
    BY <1>t DEF L!TypeOK
  <1>1. ASSUME NEW a, L!removeListener(a), orderly' = orderly PROVE LInv'
    <2>1. /\ a \in DOMAIN listeners_ /\ listeners_' = L!Drop(listeners_, {a})
          /\ UNCHANGED <<running, started, server_, acceptLoop, conn_signal_, arrived>>
          /\ UNCHANGED <<cancelled, crashed>>
      BY <1>1 DEF L!removeListener
    <2>2. /\ DOMAIN listeners_' \subseteq DOMAIN listeners_
          /\ \A x \in DOMAIN listeners_' : listeners_'[x] = listeners_[x]
      BY Zenon, <2>1, DropValue
    <2> QED BY Zenon, <1>1, <1>o, <1>y, <2>1, <2>2, QuietKeeps
  <1>2. ASSUME NEW b, L!closeInterface(b), orderly' = orderly PROVE LInv'
    BY <1>2, <1>o, <1>y, QuietKeeps DEF L!closeInterface
  <1>3. ASSUME L!Run, orderly' = orderly PROVE LInv'
    BY <1>3, <1>o, <1>y, QuietKeeps DEF L!Run
  <1>4. ASSUME NEW l \in Listeners, L!LoopStart(l), orderly' = orderly PROVE LInv'
    <2>1. /\ acceptLoop[l] = "posted"
          /\ acceptLoop' = [acceptLoop EXCEPT ![l] = L!firstAccept(l)]
          /\ UNCHANGED <<running, started, listeners_, server_, conn_signal_, arrived>>
          /\ UNCHANGED <<cancelled, crashed>>
      BY <1>4 DEF L!LoopStart
    <2>2. /\ L!firstAccept(l) \in {"waiting", "ended"}
          /\ L!firstAccept(l) = "waiting" => server_[l] # L!NoServer
      BY DEF L!firstAccept, L!isClosed
    <2>3. /\ acceptLoop' \in [Listeners -> {"none", "posted", "waiting", "ended"}]
          /\ \A k \in Listeners : /\ acceptLoop'[k] = "none" <=> acceptLoop[k] = "none"
                                  /\ acceptLoop'[k] = "waiting" =>
                                         server_[k] # L!NoServer \/ conn_signal_'[k] # << >>
      BY <1>o, <1>y, <2>1, <2>2
    <2> QED BY <1>4, <1>y, <2>1, <2>3, QuietKeeps
  <1>5. ASSUME NEW l \in Listeners, NEW ok \in BOOLEAN, L!Handshake(l, ok), orderly' = orderly
        PROVE  LInv'
    <2>1. /\ conn_signal_' = [conn_signal_ EXCEPT ![l] = Append(@, ok)]
          /\ arrived' = [arrived EXCEPT ![l] = @ + 1] /\ arrived[l] < MaxArrivals
          /\ UNCHANGED <<running, started, listeners_, server_, acceptLoop, cancelled, crashed>>
      BY <1>5 DEF L!Handshake
    <2>2. Append(conn_signal_[l], ok) \in Seq(BOOLEAN)
      BY <1>y
    <2>3. conn_signal_' \in [Listeners -> Seq(BOOLEAN)]
      BY <1>y, <2>1, <2>2
    <2>4. arrived' \in [Listeners -> 0..MaxArrivals] /\ cancelled' \in [Listeners -> Nat]
      BY <1>y, <2>1 DEF L!ListenerAssumption
    <2>5. \A k \in Listeners :
             acceptLoop'[k] = "waiting" => server_[k] # L!NoServer \/ conn_signal_'[k] # << >>
      BY <1>5, <1>o, <1>y, <2>1 DEF L!Handshake, L!isClosed
    <2> QED BY Zenon, <1>5, <1>y, <2>1, <2>3, <2>4, <2>5, QuietKeeps
  <1>6. ASSUME NEW l \in Listeners, L!Accept(l), orderly' = orderly PROVE LInv'
    <2>1. /\ acceptLoop[l] = "waiting" /\ conn_signal_[l] # << >>
          /\ conn_signal_' = [conn_signal_ EXCEPT ![l] = Tail(@)]
          /\ \E w \in {"ended", L!firstAccept(l)} : acceptLoop' = [acceptLoop EXCEPT ![l] = w]
          /\ UNCHANGED <<running, started, listeners_, server_, arrived, cancelled, crashed>>
      BY Zenon, <1>6 DEF L!Accept
    <2>w. /\ L!firstAccept(l) \in {"waiting", "ended"}
          /\ L!firstAccept(l) = "waiting" => server_[l] # L!NoServer
      BY DEF L!firstAccept, L!isClosed
    <2>2. Tail(conn_signal_[l]) \in Seq(BOOLEAN)
      BY <1>y, <2>1
    <2>3. conn_signal_' \in [Listeners -> Seq(BOOLEAN)]
      BY <1>y, <2>1, <2>2
    <2>4. /\ acceptLoop' \in [Listeners -> {"none", "posted", "waiting", "ended"}]
          /\ \A k \in Listeners : /\ acceptLoop'[k] = "none" <=> acceptLoop[k] = "none"
                                  /\ acceptLoop'[k] = "waiting" =>
                                         server_[k] # L!NoServer \/ conn_signal_'[k] # << >>
      BY <1>o, <1>y, <2>1, <2>w
    <2> QED BY Zenon, <1>6, <1>y, <2>1, <2>3, <2>4, QuietKeeps
  <1>7. CASE UNCHANGED L!vars
    BY <1>7, <1>o, <1>y, QuietKeeps DEF L!vars
  <1>9. ASSUME NEW l \in Listeners, L!Throw(l), orderly' = orderly PROVE LInv'
    <2>1. /\ cancelled[l] > 0 /\ running' = FALSE /\ cancelled' = [cancelled EXCEPT ![l] = @ - 1]
          /\ UNCHANGED <<started, listeners_, server_, acceptLoop, conn_signal_, arrived, crashed>>
      BY <1>9 DEF L!Throw
    <2>2. cancelled' \in [Listeners -> Nat]
      BY <1>y, <2>1
    <2> QED BY Zenon, <1>9, <1>o, <1>y, <2>1, <2>2, QuietKeeps
  <1>8. CASE L!Next
    BY <1>8, <1>1, <1>2, <1>3, <1>4, <1>5, <1>6, <1>9, ListenKeeps, StartKeeps, StopKeeps,
       CloseKeeps DEF L!Next
  <1> QED BY <1>7, <1>8

(* ListenerManager and QuicListener: for any listeners and addresses, over   *)
(* any calls of listen, start, stop, closeListener and removeListener,       *)
(* before and after io_context::run, a listed listener is open exactly while *)
(* the manager is started, and an accept coroutine waits only at an engine   *)
(* that is there, or was given a connection by one that was.                 *)
THEOREM ListenersAlwaysSound ==
    ASSUME L!ListenerAssumption
    PROVE  L!Spec => []ListenersSound
  <1>1. L!Init => LInv
    BY LInit
  <1>2. LInv /\ [L!Next]_(L!vars) => LInv'
    BY LNext
  <1>3. LInv => ListenersSound
    BY DEF LInv, ListenersSound
  <1> QED BY <1>1, <1>2, <1>3, PTL DEF L!Spec
=============================================================================
