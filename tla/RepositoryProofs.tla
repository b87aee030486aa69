-------------------------- MODULE RepositoryProofs --------------------------
(* Proofs about what is known of the peers: AddressRepository and            *)
(* PeerRepository under their own operations, for any peers, addresses,      *)
(* times to live and clock, and Identify, which fills them, for any          *)
(* connections and messages.                                                 *)
EXTENDS Identify, WellFoundedInduction, TLAPS

(* Every set of numbers has a least one, which is induction by a least       *)
(* counterexample.                                                           *)
LEMMA LeastNat ==
    ASSUME NEW T \in SUBSET Nat, T # {} PROVE \E n \in T : \A m \in T : n <= m
  <1>0. PICK Less : Less = OpToRel(<, Nat)
    BY Zenon
  <1>1. PICK n \in T : \A m \in T : ~(<<m, n>> \in Less)
    BY <1>0, NatLessThanWellFounded, WFMin, Zenon
  <1>2. \A m \in T : <<m, n>> \in Less <=> m < n
    BY <1>0, SMT DEF OpToRel
  <1>3. \A m \in T : ~(m < n)
    BY <1>1, <1>2, Zenon
  <1> QED BY <1>3

(* Wrap leaves a number in the range of the clock as it is,                  *)
LEMMA ModSmall ==
    ASSUME NEW a \in Nat, NEW N \in Nat \ {0}, a < N PROVE a % N = a
  OBVIOUS

(* and takes one outside of it back by whole turns.                          *)
LEMMA ModShift ==
    ASSUME NEW a \in Nat, NEW N \in Nat \ {0}, NEW k \in Int, a < N PROVE (a + k * N) % N = a
  OBVIOUS

(* The equation of the recursive function of eraseOrder.                     *)
KeptOf(s, A, n, F) ==
    F = [j \in 0..n |-> IF j = 0 THEN << >>
                        ELSE IF s[j] \in A THEN F[j - 1] ELSE Append(F[j - 1], s[j])]

(* The recursion of eraseOrder defines a function.                           *)
LEMMA KeptExists ==
    ASSUME NEW s, NEW A, NEW n \in Nat PROVE \E F : KeptOf(s, A, n, F)
  <1> DEFINE Bad == {k \in Nat : ~\E F : KeptOf(s, A, k, F)}
  <1>1. ASSUME Bad # {} PROVE FALSE
    <2>1. PICK k \in Bad : \A m \in Bad : k <= m
      BY Zenon, <1>1, LeastNat
    <2>2. k \in Nat /\ ~\E F : KeptOf(s, A, k, F)
      BY <2>1
    <2>3. CASE k = 0
      <3>1. KeptOf(s, A, 0, [j \in 0..0 |-> << >>])
        BY DEF KeptOf
      <3> QED BY <2>2, <2>3, <3>1
    <2>4. CASE k # 0
      <3>1. k - 1 \in Nat /\ k - 1 \notin Bad
        BY <2>1, <2>2, <2>4
      <3>2. PICK F : KeptOf(s, A, k - 1, F)
        BY <3>1
      <3> DEFINE last == IF s[k] \in A THEN F[k - 1] ELSE Append(F[k - 1], s[k])
                 G == [j \in 0..k |-> IF j = k THEN last ELSE F[j]]
      <3>3. DOMAIN F = 0..(k - 1) /\ F[0] = << >>
            /\ \A j \in 1..(k - 1) : F[j] = IF s[j] \in A THEN F[j - 1] ELSE Append(F[j - 1], s[j])
        <4>1. DOMAIN F = 0..(k - 1)
          BY <3>2, Zenon DEF KeptOf
        <4>2. \A j \in 0..(k - 1) : F[j] = IF j = 0 THEN << >> ELSE
                    IF s[j] \in A THEN F[j - 1] ELSE Append(F[j - 1], s[j])
          BY <3>2, Zenon DEF KeptOf
        <4>3. 0 \in 0..(k - 1) /\ \A j \in 1..(k - 1) : j \in 0..(k - 1) /\ j # 0
          BY <3>1
        <4>4. F[0] = << >>
          BY <4>2, <4>3, Zenon
        <4> QED BY <4>1, <4>2, <4>3, <4>4, Zenon
      <3>4. /\ DOMAIN G = 0..k /\ G[k] = last /\ \A j \in 0..(k - 1) : G[j] = F[j]
        BY <2>2, <2>4
      <3> HIDE DEF last, G
      <3>5. \A j \in 1..k : G[j] = IF s[j] \in A THEN G[j - 1] ELSE Append(G[j - 1], s[j])
        <4> TAKE j \in 1..k
        <4>1. CASE j = k
          <5>1. G[k - 1] = F[k - 1]
            BY <3>1, <3>4
          <5> QED BY <3>4, <4>1, <5>1 DEF last
        <4>2. CASE j # k
          <5>1. j \in 1..(k - 1) /\ j \in 0..(k - 1) /\ j - 1 \in 0..(k - 1)
            BY <2>2, <4>2
          <5> QED BY Zenon, <3>3, <3>4, <5>1
        <4> QED BY <4>1, <4>2
      <3>6. G[0] = << >>
        BY <2>2, <2>4, <3>3, <3>4
      <3>7. KeptOf(s, A, k, G)
        <4>1. \A j \in 0..k : G[j] = IF j = 0 THEN << >> ELSE
                    IF s[j] \in A THEN G[j - 1] ELSE Append(G[j - 1], s[j])
          BY <2>2, <3>5, <3>6
        <4>2. G = [j \in 0..k |-> G[j]]
          BY Zenon DEF G
        <4> QED BY <4>1, <4>2, Zenon DEF KeptOf
      <3> QED BY <2>2, <3>7
    <2> QED BY <2>3, <2>4
  <1> QED BY <1>1

(* r is what is left of the first n elements of s.                           *)
Erased(X, s, A, n, r) ==
    /\ r \in Seq(X)
    /\ \A k \in 1..Len(r) : r[k] \notin A /\ \E j \in 1..n : s[j] = r[k]
    /\ \A j \in 1..n : s[j] \notin A => \E k \in 1..Len(r) : r[k] = s[j]
    /\ \A k, l \in 1..Len(r) : k < l =>
        \E m, o \in 1..n : m < o /\ s[m] = r[k] /\ s[o] = r[l]

(* The next element is dropped or goes to the back.                          *)
LEMMA EraseStep ==
    ASSUME NEW X, NEW s \in Seq(X), NEW A, NEW n \in Nat, n + 1 <= Len(s),
           NEW r, Erased(X, s, A, n, r)
    PROVE  Erased(X, s, A, n + 1, IF s[n + 1] \in A THEN r ELSE Append(r, s[n + 1]))
  <1>1. /\ r \in Seq(X) /\ s[n + 1] \in X /\ n + 1 \in 1..(n + 1)
        /\ \A k \in 1..(n + 1) : k # n + 1 => k \in 1..n
        /\ \A k \in 1..n : k \in 1..(n + 1) /\ k < n + 1
    BY DEF Erased
  <1>2. CASE s[n + 1] \in A
    BY <1>1, <1>2 DEF Erased
  <1>3. CASE s[n + 1] \notin A
    <2> DEFINE t == Append(r, s[n + 1])
    <2>1. /\ t \in Seq(X) /\ Len(t) = Len(r) + 1 /\ Len(r) \in Nat /\ t[Len(t)] = s[n + 1]
          /\ \A k \in 1..Len(r) : t[k] = r[k]
      BY <1>1
    <2> HIDE DEF t
    <2>2. Len(t) \in 1..Len(t) /\ \A k \in 1..Len(t) : k = Len(t) \/ k \in 1..Len(r)
      BY <2>1
    <2>3. ASSUME NEW k \in 1..Len(t)
          PROVE  t[k] \notin A /\ \E j \in 1..(n + 1) : s[j] = t[k]
      <3>1. CASE k = Len(t)
        BY <1>1, <1>3, <2>1, <3>1
      <3>2. CASE k \in 1..Len(r)
        <4>1. t[k] = r[k] /\ r[k] \notin A /\ \E j \in 1..n : s[j] = r[k]
          BY <2>1, <3>2 DEF Erased
        <4> QED BY <1>1, <4>1
      <3> QED BY <2>2, <3>1, <3>2
    <2>4. \A j \in 1..(n + 1) : s[j] \notin A => \E k \in 1..Len(t) : t[k] = s[j]
      BY <1>1, <2>1, <2>2 DEF Erased
    <2>5. ASSUME NEW k \in 1..Len(t), NEW l \in 1..Len(t), k < l
          PROVE  \E m, o \in 1..(n + 1) : m < o /\ s[m] = t[k] /\ s[o] = t[l]
      <3>1. k \in 1..Len(r)
        BY <2>1, <2>5
      <3>2. CASE l = Len(t)
        <4>1. PICK m \in 1..n : s[m] = r[k]
          BY <3>1 DEF Erased
        <4> QED BY <1>1, <2>1, <3>1, <3>2, <4>1
      <3>3. CASE l \in 1..Len(r)
        <4>1. PICK m \in 1..n, o \in 1..n : m < o /\ s[m] = r[k] /\ s[o] = r[l]
          BY Zenon, <2>5, <3>1, <3>3 DEF Erased
        <4> QED BY <1>1, <2>1, <3>1, <3>3, <4>1
      <3> QED BY Zenon, <2>2, <3>2, <3>3
    <2>6. Erased(X, s, A, n + 1, t)
      BY <2>1, <2>3, <2>4, <2>5 DEF Erased
    <2> QED BY <1>3, <2>6 DEF t
  <1> QED BY <1>2, <1>3

(* What eraseOrder leaves of any list: the elements outside A, in their      *)
(* order.                                                                    *)
LEMMA EraseOrder ==
    ASSUME NEW X, NEW s \in Seq(X), NEW A
    PROVE  Erased(X, s, A, Len(s), eraseOrder(s, A))
  <1>1. PICK F : KeptOf(s, A, Len(s), F) /\ eraseOrder(s, A) = F[Len(s)]
    <2> DEFINE F == CHOOSE F : KeptOf(s, A, Len(s), F)
    <2>1. KeptOf(s, A, Len(s), F)
      BY KeptExists
    <2>2. eraseOrder(s, A) = F[Len(s)]
      BY DEF eraseOrder, KeptOf
    <2> QED BY Zenon, <2>1, <2>2
  <1>2. Len(s) \in Nat
    OBVIOUS
  <1>3. F[0] = << >> /\ \A k \in 0..Len(s) : k # 0 =>
              F[k] = IF s[k] \in A THEN F[k - 1] ELSE Append(F[k - 1], s[k])
    <2>1. \A k \in 0..Len(s) : F[k] = IF k = 0 THEN << >> ELSE
                    IF s[k] \in A THEN F[k - 1] ELSE Append(F[k - 1], s[k])
      BY <1>1, Zenon DEF KeptOf
    <2>2. 0 \in 0..Len(s)
      BY <1>2
    <2> QED BY <2>1, <2>2, Zenon
  <1> DEFINE Bad == {k \in Nat : k <= Len(s) /\ ~Erased(X, s, A, k, F[k])}
  <1>4. ASSUME Bad # {} PROVE FALSE
    <2>1. PICK k \in Bad : \A m \in Bad : k <= m
      BY Zenon, <1>4, LeastNat
    <2>2. k \in Nat /\ k <= Len(s) /\ ~Erased(X, s, A, k, F[k])
      BY <2>1
    <2>3. CASE k = 0
      <3>1. Erased(X, s, A, 0, << >>)
        BY DEF Erased
      <3> QED BY <1>3, <2>2, <2>3, <3>1, Zenon
    <2>4. CASE k # 0
      <3>1. k - 1 \in Nat /\ k - 1 \notin Bad /\ (k - 1) + 1 = k /\ k - 1 <= Len(s) /\ k \in 0..Len(s)
        BY <1>2, <2>1, <2>2, <2>4
      <3>2. Erased(X, s, A, k - 1, F[k - 1])
        BY <3>1, Zenon
      <3>3. Erased(X, s, A, (k - 1) + 1, IF s[(k - 1) + 1] \in A THEN F[k - 1]
                                         ELSE Append(F[k - 1], s[(k - 1) + 1]))
        BY <2>2, <3>1, <3>2, EraseStep
      <3>4. F[k] = IF s[k] \in A THEN F[k - 1] ELSE Append(F[k - 1], s[k])
        BY <1>3, <2>4, <3>1, Zenon
      <3> QED BY <2>2, <3>1, <3>3, <3>4, Zenon
    <2> QED BY <2>3, <2>4
  <1> QED BY <1>1, <1>2, <1>4

(* calculateExpirationTime never cuts a time to live short, whatever its     *)
(* products and sums overflow to: it ends at its time or with the clock.     *)
LEMMA Expiration ==
    ASSUME RepositoryAssumption, NEW t \in 0..LastTime, NEW ttl \in Ttls
    PROVE  LET end == calculateExpirationTime(t, ttl) IN
           end \in Nat /\ (end >= t + ttl * Ratio \/ end = MaxTime)
  <1> DEFINE N == 2 * (MaxTime + 1)
  <1>1. /\ MaxTime \in Nat \ {0} /\ Ratio \in 1..MaxTime /\ Ratio % 2 = 0 /\ ttl \in 1..MaxTime
        /\ ttl * Ratio <= MaxTime \/ ttl = MaxTime
        /\ LastTime \in 0..(MaxTime - 1) /\ N \in Nat \ {0}
    BY DEF RepositoryAssumption
  <1>2. ASSUME NEW n \in Int, -(MaxTime + 1) <= n, n <= MaxTime
        PROVE  Wrap(n) = n
    <2>1. n + MaxTime + 1 \in Nat /\ n + MaxTime + 1 < N
      BY <1>1, <1>2
    <2>2. (n + MaxTime + 1) % N = n + MaxTime + 1
      BY <1>1, <2>1, ModSmall
    <2> QED BY <1>1, <2>2 DEF Wrap
  <1>3. CASE ttl * Ratio <= MaxTime
    <2>1. PICK d \in Nat : d = ttl * Ratio
      BY <1>1
    <2>2. Wrap(d) = d /\ Wrap(MaxTime - d) = MaxTime - d
      BY <1>1, <1>2, <1>3, <2>1
    <2>3. CASE t >= MaxTime - d
      BY <1>1, <2>1, <2>2, <2>3 DEF calculateExpirationTime
    <2>4. CASE ~(t >= MaxTime - d)
      <3>1. Wrap(t + d) = t + d
        BY <1>1, <1>2, <2>1, <2>4
      <3> QED BY <1>1, <2>1, <2>2, <2>4, <3>1 DEF calculateExpirationTime
    <2> QED BY <2>3, <2>4
  <1>4. CASE ttl = MaxTime
    <2>1. PICK h \in Nat : Ratio = 2 * h
      BY <1>1
    <2>2. MaxTime * Ratio + MaxTime + 1 = (MaxTime + 1 - Ratio) + h * N
      BY <1>1, <2>1
    <2>3. (MaxTime * Ratio + MaxTime + 1) % N = MaxTime + 1 - Ratio
      BY <1>1, <2>1, <2>2, ModShift
    <2>4. Wrap(ttl * Ratio) = -Ratio
      BY <1>1, <1>4, <2>3 DEF Wrap
    <2>5. MaxTime + Ratio + MaxTime + 1 = (Ratio - 1) + 1 * N
      BY <1>1
    <2>6. (MaxTime + Ratio + MaxTime + 1) % N = Ratio - 1
      BY <1>1, <2>5, ModShift
    <2>7. Wrap(MaxTime + Ratio) = Ratio - 1 - (MaxTime + 1)
      BY <1>1, <2>6 DEF Wrap
    <2>8. MaxTime - (-Ratio) = MaxTime + Ratio /\ t >= Ratio - 1 - (MaxTime + 1)
      BY <1>1
    <2>9. calculateExpirationTime(t, ttl) = MaxTime
      BY <2>4, <2>7, <2>8 DEF calculateExpirationTime
    <2> QED BY <1>1, <2>9
  <1> QED BY <1>1, <1>3, <1>4

(* The entry of a peer: the list and the table hold the same addresses.      *)
ExpiryTables == UNION {[A -> Nat] : A \in SUBSET Addresses}
AddressEntries == [order : Seq(Addresses), expires : ExpiryTables]

EntryOK(e) ==
    /\ e \in AddressEntries
    /\ IsInjective(e.order) /\ Range(e.order) = known(e)

(* The elements of a list.                                                   *)
LEMMA ElementsOf ==
    ASSUME NEW X, NEW s \in Seq(X)
    PROVE  \A x : x \in Range(s) <=> \E k \in 1..Len(s) : s[k] = x
  BY DEF Range

(* What eraseOrder makes of a list without repetitions.                      *)
LEMMA ErasedList ==
    ASSUME NEW s \in Seq(Addresses), IsInjective(s), NEW A
    PROVE  LET r == eraseOrder(s, A) IN
           /\ r \in Seq(Addresses) /\ IsInjective(r) /\ Range(r) = Range(s) \ A
           /\ \A k, l \in 1..Len(r) : k < l =>
                \E m, n \in 1..Len(s) : m < n /\ s[m] = r[k] /\ s[n] = r[l]
  <1>1. PICK r : r = eraseOrder(s, A)
    OBVIOUS
  <1>2. Erased(Addresses, s, A, Len(s), r)
    BY <1>1, EraseOrder
  <1>3. r \in Seq(Addresses) /\ Len(r) \in Nat /\ Len(s) \in Nat
        /\ DOMAIN r = 1..Len(r) /\ DOMAIN s = 1..Len(s)
    BY <1>2 DEF Erased
  <1>4. Range(r) = Range(s) \ A
    <2>1. /\ \A x : x \in Range(r) <=> \E k \in 1..Len(r) : r[k] = x
          /\ \A x : x \in Range(s) <=> \E k \in 1..Len(s) : s[k] = x
      BY <1>3, ElementsOf
    <2>2. \A x : x \in Range(r) <=> x \in Range(s) /\ x \notin A
      BY <1>2, <2>1, ZenonT(30) DEF Erased
    <2> QED BY <2>2, Zenon
  <1>5. IsInjective(r)
    <2> SUFFICES ASSUME NEW k \in 1..Len(r), NEW l \in 1..Len(r), k < l PROVE r[k] # r[l]
      BY <1>3 DEF IsInjective
    <2>1. PICK m \in 1..Len(s), n \in 1..Len(s) : m < n /\ s[m] = r[k] /\ s[n] = r[l]
      BY <1>2 DEF Erased
    <2> QED BY <1>3, <2>1 DEF IsInjective
  <1> QED BY <1>1, <1>2, <1>3, <1>4, <1>5 DEF Erased

(* Two lists without repetitions or a common element, one after the other.   *)
LEMMA JoinedList ==
    ASSUME NEW s \in Seq(Addresses), NEW u \in Seq(Addresses), IsInjective(s), IsInjective(u),
           Range(s) \cap Range(u) = {}
    PROVE  /\ s \o u \in Seq(Addresses) /\ IsInjective(s \o u)
           /\ Range(s \o u) = Range(s) \cup Range(u)
           /\ Len(s) <= Len(s \o u) /\ \A k \in 1..Len(s) : (s \o u)[k] = s[k]
  <1> DEFINE v == s \o u
  <1>1. /\ v \in Seq(Addresses) /\ Len(v) = Len(s) + Len(u) /\ Len(s) \in Nat /\ Len(u) \in Nat
        /\ DOMAIN v = 1..Len(v) /\ DOMAIN s = 1..Len(s) /\ DOMAIN u = 1..Len(u)
        /\ \A k \in 1..Len(s) : v[k] = s[k]
        /\ \A k \in 1..Len(u) : v[Len(s) + k] = u[k]
    OBVIOUS
  <1> HIDE DEF v
  <1>2. \A k \in 1..Len(v) : k \in 1..Len(s) \/ (k - Len(s) \in 1..Len(u) /\ v[k] = u[k - Len(s)])
    <2> TAKE k \in 1..Len(v)
    <2>1. CASE k <= Len(s)
      BY <1>1, <2>1
    <2>2. CASE k > Len(s)
      <3>1. k - Len(s) \in 1..Len(u) /\ Len(s) + (k - Len(s)) = k
        BY <1>1, <2>2
      <3> QED BY <1>1, <3>1
    <2> QED BY <1>1, <2>1, <2>2
  <1>e. /\ \A x : x \in Range(v) <=> \E k \in 1..Len(v) : v[k] = x
        /\ \A x : x \in Range(s) <=> \E k \in 1..Len(s) : s[k] = x
        /\ \A x : x \in Range(u) <=> \E k \in 1..Len(u) : u[k] = x
    BY <1>1, ElementsOf
  <1>3. \A k \in 1..Len(s) : k \in 1..Len(v) /\ s[k] \in Range(s)
    BY <1>1, <1>e
  <1>4. \A k \in 1..Len(u) : Len(s) + k \in 1..Len(v) /\ u[k] \in Range(u)
    <2>1. \A k \in 1..Len(u) : Len(s) + k \in 1..Len(v)
      BY <1>1
    <2> QED BY <2>1, <1>e, Zenon
  <1>5. Range(v) = Range(s) \cup Range(u)
    <2>1. ASSUME NEW x \in Range(v) PROVE x \in Range(s) \cup Range(u)
      <3>1. PICK k \in 1..Len(v) : v[k] = x
        BY <1>e
      <3>2. CASE k \in 1..Len(s)
        BY <1>1, <1>3, <3>1, <3>2
      <3>3. CASE k - Len(s) \in 1..Len(u) /\ v[k] = u[k - Len(s)]
        BY <1>4, <3>1, <3>3
      <3> QED BY <1>2, <3>2, <3>3
    <2>2. ASSUME NEW x \in Range(s) PROVE x \in Range(v)
      BY <1>1, <1>3, <1>e
    <2>3. ASSUME NEW x \in Range(u) PROVE x \in Range(v)
      <3>1. PICK k \in 1..Len(u) : u[k] = x
        BY <1>e
      <3> QED BY <1>1, <1>4, <1>e, <3>1
    <2> QED BY <2>1, <2>2, <2>3
  <1>6. IsInjective(v)
    <2> SUFFICES ASSUME NEW k \in 1..Len(v), NEW l \in 1..Len(v), v[k] = v[l] PROVE k = l
      BY <1>1 DEF IsInjective
    <2>1. CASE k \in 1..Len(s) /\ l \in 1..Len(s)
      BY <1>1, <2>1 DEF IsInjective
    <2>2. CASE k \notin 1..Len(s) /\ l \notin 1..Len(s)
      <3>1. k - Len(s) \in 1..Len(u) /\ l - Len(s) \in 1..Len(u) /\ u[k - Len(s)] = u[l - Len(s)]
        BY <1>2, <2>2
      <3>2. k - Len(s) = l - Len(s)
        BY Zenon, <1>1, <3>1 DEF IsInjective
      <3> QED BY <1>1, <3>2
    <2>3. CASE ~(k \in 1..Len(s) <=> l \in 1..Len(s))
      BY <1>1, <1>2, <1>3, <1>4, <2>3
    <2> QED BY <2>1, <2>2, <2>3
  <1> QED BY <1>1, <1>5, <1>6 DEF v

(* What a caller passes is a list.                                           *)
LEMMA ListsFacts ==
    ASSUME NEW new \in Lists PROVE new \in Seq(Addresses)
  <1>1. PICK n \in 0..Cardinality(Addresses) : new \in [1..n -> Addresses]
    BY DEF Lists
  <1>2. n \in Nat
    BY <1>1
  <1> QED BY <1>1, <1>2

(* What is new in a list, each address once.                                 *)
LEMMA EmplacedList ==
    ASSUME NEW new \in Seq(Addresses), NEW K
    PROVE  LET u == emplaced(new, K) IN
           u \in Seq(Addresses) /\ IsInjective(u) /\ Range(u) = Range(new) \ K
  <1> DEFINE again == {i \in DOMAIN new : new[i] \in K \/ \E j \in 1..(i - 1) : new[j] = new[i]}
             all == [i \in DOMAIN new |-> i]
             first == eraseOrder(all, again)
             u == [k \in DOMAIN first |-> new[first[k]]]
  <1>1. DOMAIN new = 1..Len(new) /\ Len(new) \in Nat /\ \A i \in DOMAIN new : new[i] \in Addresses
    OBVIOUS
  <1>2. all \in Seq(Nat) /\ Len(all) = Len(new) /\ \A i \in 1..Len(new) : all[i] = i
    BY <1>1
  <1> HIDE DEF all
  <1>3. Erased(Nat, all, again, Len(all), first)
    BY <1>2, EraseOrder
  <1> HIDE DEF first, again
  <1>4. first \in Seq(Nat) /\ Len(first) \in Nat /\ DOMAIN first = 1..Len(first)
    BY <1>3 DEF Erased
  <1>e. Erased(Nat, all, again, Len(new), first)
    BY <1>2, <1>3, Zenon
  <1>5. \A k \in 1..Len(first) : first[k] \in 1..Len(new) /\ first[k] \notin again
    <2>1. \A k \in 1..Len(first) : first[k] \notin again /\ \E j \in 1..Len(new) : all[j] = first[k]
      BY <1>e, Zenon DEF Erased
    <2> QED BY <1>2, <2>1, Zenon
  <1>6. \A i \in 1..Len(new) : i \notin again => \E k \in 1..Len(first) : first[k] = i
    <2>1. \A i \in 1..Len(new) : all[i] \notin again => \E k \in 1..Len(first) : first[k] = all[i]
      BY <1>e, Zenon DEF Erased
    <2> QED BY <1>2, <2>1, Zenon
  <1>7. \A k, l \in 1..Len(first) : k < l => first[k] < first[l]
    <2>1. \A k, l \in 1..Len(first) : k < l =>
            \E m, o \in 1..Len(new) : m < o /\ all[m] = first[k] /\ all[o] = first[l]
      BY <1>e, Zenon DEF Erased
    <2> TAKE k, l \in 1..Len(first)
    <2> HAVE k < l
    <2>2. PICK m, o \in 1..Len(new) : m < o /\ all[m] = first[k] /\ all[o] = first[l]
      BY <2>1
    <2>3. all[m] = m /\ all[o] = o
      BY <1>2, Zenon
    <2> QED BY <2>2, <2>3
  <1>8. /\ u \in Seq(Addresses) /\ Len(u) = Len(first) /\ DOMAIN u = 1..Len(first)
        /\ \A k \in 1..Len(first) : u[k] = new[first[k]]
    BY <1>1, <1>4, <1>5
  <1> HIDE DEF u
  <1>9. ASSUME NEW k \in 1..Len(first), NEW l \in 1..Len(first), k < l PROVE u[k] # u[l]
    <2>1. /\ first[k] \in 1..Len(new) /\ first[l] \in 1..Len(new) /\ first[k] < first[l]
          /\ first[l] \notin again
      BY <1>5, <1>7, <1>9
    <2>2. first[k] \in 1..(first[l] - 1)
      BY <1>1, <2>1
    <2> QED BY <1>1, <1>8, <2>1, <2>2, Zenon DEF again
  <1>10. IsInjective(u)
    BY <1>4, <1>8, <1>9 DEF IsInjective
  <1>11. ASSUME NEW x \in Range(new) \ K PROVE x \in Range(u)
    <2> DEFINE T == {i \in 1..Len(new) : new[i] = x}
    <2>1. T \in SUBSET Nat /\ T # {}
      BY <1>1, <1>11 DEF Range
    <2>2. PICK i \in T : \A m \in T : i <= m
      BY <2>1, LeastNat, Zenon
    <2>3. i \in 1..Len(new) /\ new[i] = x /\ \A j \in 1..(i - 1) : new[j] # x
      BY <1>1, <2>2
    <2>4. i \notin again
      BY <1>11, <2>3, Zenon DEF again
    <2>5. PICK k \in 1..Len(first) : first[k] = i
      BY <1>6, <2>3, <2>4
    <2> QED BY <1>8, <2>3, <2>5 DEF Range
  <1>12. ASSUME NEW x \in Range(u) PROVE x \in Range(new) \ K
    <2>1. PICK k \in 1..Len(first) : u[k] = x
      BY <1>8, <1>12 DEF Range
    <2>2. first[k] \in 1..Len(new) /\ new[first[k]] = x /\ first[k] \notin again
      BY <1>5, <1>8, <2>1
    <2> QED BY <1>1, <2>2, Zenon DEF again, Range
  <1>13. u = emplaced(new, K)
    BY Zenon DEF emplaced, u, first, all, again
  <1> QED BY <1>8, <1>10, <1>11, <1>12, <1>13

(* The parts of an entry have their types,                                   *)
LEMMA Tables ==
    ASSUME NEW e \in AddressEntries
    PROVE  /\ e.order \in Seq(Addresses) /\ known(e) \in SUBSET Addresses
           /\ \A a \in known(e) : e.expires[a] \in Nat
  BY DEF AddressEntries, ExpiryTables, known

(* and make an entry together.                                               *)
LEMMA MakeEntry ==
    ASSUME NEW s \in Seq(Addresses), NEW f, DOMAIN f \in SUBSET Addresses,
           f = [a \in DOMAIN f |-> f[a]], \A a \in DOMAIN f : f[a] \in Nat
    PROVE  [order |-> s, expires |-> f] \in AddressEntries
  <1>1. f \in [DOMAIN f -> Nat]
    BY Zenon
  <1>2. f \in ExpiryTables
    BY <1>1 DEF ExpiryTables
  <1> QED BY <1>2 DEF AddressEntries

(* addAddresses keeps the list and the times of an entry, and adds to both.  *)
LEMMA AddedEntry ==
    ASSUME NEW e, EntryOK(e), NEW new \in Lists, NEW end \in Nat
    PROVE  LET x == added(e, new, end) IN
           /\ EntryOK(x) /\ known(x) = known(e) \cup Range(new)
           /\ \A a \in known(x) : x.expires[a] = IF a \in known(e) THEN e.expires[a] ELSE end
           /\ \A k \in 1..Len(e.order) : k \in 1..Len(x.order) /\ x.order[k] = e.order[k]
  <1> DEFINE K == known(e) \cup Range(new)
             f == [a \in K |-> IF a \in known(e) THEN e.expires[a] ELSE end]
             u == emplaced(new, known(e))
             s == e.order \o u
  <1>1. added(e, new, end) = [order |-> s, expires |-> f]
    BY DEF added
  <1>2. /\ e.order \in Seq(Addresses) /\ known(e) \in SUBSET Addresses
        /\ \A a \in known(e) : e.expires[a] \in Nat
        /\ IsInjective(e.order) /\ Range(e.order) = known(e)
    BY Tables DEF EntryOK
  <1>3. new \in Seq(Addresses) /\ Range(new) \in SUBSET Addresses
    <2>1. new \in Seq(Addresses)
      BY ListsFacts
    <2> QED BY <2>1 DEF Range
  <1>4. u \in Seq(Addresses) /\ IsInjective(u) /\ Range(u) = Range(new) \ known(e)
    BY <1>3, EmplacedList
  <1> HIDE DEF u
  <1>5. /\ s \in Seq(Addresses) /\ IsInjective(s) /\ Range(s) = Range(e.order) \cup Range(u)
        /\ Len(e.order) <= Len(s) /\ \A k \in 1..Len(e.order) : s[k] = e.order[k]
    BY <1>2, <1>4, JoinedList
  <1>6. Range(s) = K
    BY <1>2, <1>4, <1>5
  <1>7. /\ DOMAIN f = K /\ f = [a \in DOMAIN f |-> f[a]] /\ K \in SUBSET Addresses
        /\ \A a \in K : f[a] \in Nat /\ f[a] = IF a \in known(e) THEN e.expires[a] ELSE end
    BY <1>2, <1>3
  <1>8. Len(e.order) \in Nat /\ Len(s) \in Nat
    BY <1>2, <1>5
  <1> HIDE DEF K, f, s
  <1>9. [order |-> s, expires |-> f] \in AddressEntries
    BY <1>5, <1>7, MakeEntry
  <1>10. known([order |-> s, expires |-> f]) = K
    BY <1>7 DEF known
  <1>11. PICK x : x = [order |-> s, expires |-> f]
    BY Zenon
  <1>12. x.order = s /\ x.expires = f /\ x \in AddressEntries /\ known(x) = K
    BY <1>9, <1>10, <1>11
  <1>13. EntryOK(x)
    BY <1>5, <1>6, <1>12 DEF EntryOK
  <1>14. \A k \in 1..Len(e.order) : k \in 1..Len(x.order) /\ x.order[k] = e.order[k]
    BY <1>5, <1>8, <1>12
  <1>15. \A a \in known(x) : x.expires[a] = IF a \in known(e) THEN e.expires[a] ELSE end
    BY <1>7, <1>12
  <1>16. known(x) = known(e) \cup Range(new) /\ x = added(e, new, end)
    BY <1>1, <1>11, <1>12 DEF K
  <1> QED BY <1>13, <1>14, <1>15, <1>16, Zenon

(* upsertAddresses keeps the list, and gives the addresses their new time.   *)
LEMMA UpsertedEntry ==
    ASSUME NEW e, EntryOK(e), NEW new \in Lists, NEW end \in Nat
    PROVE  LET x == upserted(e, new, end) IN
           /\ EntryOK(x) /\ known(x) = known(e) \cup Range(new)
           /\ \A a \in known(x) :
                x.expires[a] = IF a \in Range(new) THEN end ELSE e.expires[a]
           /\ \A k \in 1..Len(e.order) : k \in 1..Len(x.order) /\ x.order[k] = e.order[k]
  <1> DEFINE y == added(e, new, end)
             f == [a \in DOMAIN y.expires |-> IF a \in Range(new) THEN end ELSE y.expires[a]]
  <1>1. upserted(e, new, end) = [y EXCEPT !.expires = f]
    BY DEF upserted
  <1>2. /\ EntryOK(y) /\ known(y) = known(e) \cup Range(new)
        /\ \A a \in known(y) : y.expires[a] = IF a \in known(e) THEN e.expires[a] ELSE end
        /\ \A k \in 1..Len(e.order) : k \in 1..Len(y.order) /\ y.order[k] = e.order[k]
    BY AddedEntry
  <1> HIDE DEF y
  <1>3. /\ y \in AddressEntries /\ y.order \in Seq(Addresses) /\ known(y) \in SUBSET Addresses
        /\ \A a \in known(y) : y.expires[a] \in Nat
    BY <1>2, Tables DEF EntryOK
  <1>4. upserted(e, new, end) = [order |-> y.order, expires |-> f]
    BY <1>1, <1>3 DEF AddressEntries
  <1>5. /\ DOMAIN f = known(y) /\ f = [a \in DOMAIN f |-> f[a]]
        /\ \A a \in known(y) : f[a] \in Nat /\ f[a] = IF a \in Range(new) THEN end ELSE y.expires[a]
    BY <1>3 DEF known
  <1> HIDE DEF f
  <1>6. [order |-> y.order, expires |-> f] \in AddressEntries
    BY <1>3, <1>5, MakeEntry
  <1>7. known([order |-> y.order, expires |-> f]) = known(y)
    BY <1>5 DEF known
  <1>8. PICK x : x = [order |-> y.order, expires |-> f]
    BY Zenon
  <1>9. x.order = y.order /\ x.expires = f /\ x \in AddressEntries /\ known(x) = known(y)
    BY <1>6, <1>7, <1>8
  <1>10. EntryOK(x)
    BY <1>2, <1>9 DEF EntryOK
  <1>11. \A k \in 1..Len(e.order) : k \in 1..Len(x.order) /\ x.order[k] = e.order[k]
    BY <1>2, <1>9
  <1>12. \A a \in known(x) : x.expires[a] = IF a \in Range(new) THEN end ELSE e.expires[a]
    BY <1>2, <1>5, <1>9
  <1>13. known(x) = known(e) \cup Range(new) /\ x = upserted(e, new, end)
    BY <1>2, <1>4, <1>8, <1>9
  <1> QED BY <1>10, <1>11, <1>12, <1>13, Zenon

(* What updateAddresses makes of an entry.                                   *)
Updated(e, end) == [e EXCEPT !.expires = [a \in DOMAIN @ |-> end]]

(* updateAddresses gives all addresses the new time.                         *)
LEMMA UpdatedEntry ==
    ASSUME NEW e, EntryOK(e), NEW end \in Nat
    PROVE  LET x == Updated(e, end) IN
           /\ EntryOK(x) /\ known(x) = known(e) /\ x.order = e.order
           /\ \A a \in known(x) : x.expires[a] = end
  <1> DEFINE f == [a \in DOMAIN e.expires |-> end]
  <1>1. /\ e \in AddressEntries /\ e.order \in Seq(Addresses) /\ known(e) \in SUBSET Addresses
    BY Tables DEF EntryOK
  <1>2. DOMAIN f = known(e) /\ f = [a \in DOMAIN f |-> f[a]] /\ \A a \in DOMAIN f : f[a] = end
    BY DEF known
  <1>3. Updated(e, end) = [order |-> e.order, expires |-> f]
    BY <1>1 DEF Updated, AddressEntries
  <1> HIDE DEF f
  <1>4. PICK x : x = [order |-> e.order, expires |-> f]
    BY Zenon
  <1>5. x \in AddressEntries
    BY <1>1, <1>2, <1>4, MakeEntry
  <1>6. x.order = e.order /\ x.expires = f /\ known(x) = known(e)
    BY <1>2, <1>4 DEF known
  <1>7. EntryOK(x)
    BY <1>5, <1>6 DEF EntryOK
  <1>8. \A a \in known(x) : x.expires[a] = end
    BY <1>2, <1>6
  <1> QED BY <1>3, <1>4, <1>6, <1>7, <1>8, Zenon

(* dialFailed moves nothing behind another address but the one that failed.  *)
LEMMA FailedEntry ==
    ASSUME NEW e, EntryOK(e), NEW c \in known(e)
    PROVE  LET x == failed(e, c) IN
           /\ EntryOK(x) /\ known(x) = known(e) /\ x.expires = e.expires
           /\ \A a, b : Before(x, a, b) => b = c \/ Before(e, a, b)
  <1> DEFINE u == eraseOrder(e.order, {c})
             s == Append(u, c)
  <1>1. /\ e \in AddressEntries /\ e.order \in Seq(Addresses) /\ known(e) \in SUBSET Addresses
        /\ IsInjective(e.order) /\ Range(e.order) = known(e)
    BY Tables DEF EntryOK
  <1>2. /\ u \in Seq(Addresses) /\ IsInjective(u) /\ Range(u) = known(e) \ {c}
        /\ \A k, l \in 1..Len(u) : k < l =>
                \E m, n \in 1..Len(e.order) : m < n /\ e.order[m] = u[k] /\ e.order[n] = u[l]
    BY Zenon, <1>1, ErasedList
  <1>3. failed(e, c) = [e EXCEPT !.order = s]
    BY DEF failed
  <1> HIDE DEF u
  <1>4. PICK w \in Seq(Addresses) : w = <<c>>
    <2>1. c \in Addresses
      BY <1>1
    <2>2. <<c>> \in Seq(Addresses)
      BY <2>1
    <2> QED BY Zenon, <2>2
  <1>5. IsInjective(w) /\ Range(w) = {c} /\ u \o w = s /\ Len(u) \in Nat
        /\ Len(s) = Len(u) + 1 /\ s[Len(s)] = c
    BY <1>1, <1>2, <1>4 DEF IsInjective, Range
  <1>6. /\ s \in Seq(Addresses) /\ IsInjective(s) /\ Range(s) = Range(u) \cup {c}
        /\ \A k \in 1..Len(u) : s[k] = u[k]
    <2>1. Range(u) \cap Range(w) = {}
      BY <1>2, <1>5
    <2>2. /\ u \o w \in Seq(Addresses) /\ IsInjective(u \o w)
          /\ Range(u \o w) = Range(u) \cup Range(w)
          /\ \A k \in 1..Len(u) : (u \o w)[k] = u[k]
      BY Zenon, <1>2, <1>4, <1>5, <2>1, JoinedList
    <2> QED BY <1>5, <2>2
  <1> HIDE DEF s
  <1>7. PICK x : x = failed(e, c)
    OBVIOUS
  <1>8. /\ x.order = s /\ x.expires = e.expires /\ x \in AddressEntries /\ known(x) = known(e)
    BY <1>1, <1>3, <1>6, <1>7 DEF AddressEntries, known
  <1>9. EntryOK(x)
    BY Zenon, <1>1, <1>2, <1>6, <1>8 DEF EntryOK
  <1>10. ASSUME NEW a, NEW b, Before(x, a, b), b # c PROVE Before(e, a, b)
    <2>1. PICK k \in 1..Len(s), l \in 1..Len(s) : k < l /\ s[k] = a /\ s[l] = b
      BY <1>6, <1>8, <1>10 DEF Before
    <2>2. k \in 1..Len(u) /\ l \in 1..Len(u)
      BY <1>5, <1>10, <2>1
    <2>3. PICK m \in 1..Len(e.order), n \in 1..Len(e.order) :
                m < n /\ e.order[m] = a /\ e.order[n] = b
      BY SMTT(30), <1>2, <1>6, <2>1, <2>2
    <2> QED BY <1>1, <2>3 DEF Before
  <1> QED BY <1>7, <1>8, <1>9, <1>10, Zenon

(* collectGarbage leaves what has not expired, in its order.                 *)
LEMMA UnexpiredEntry ==
    ASSUME NEW e, EntryOK(e), NEW t
    PROVE  LET x == unexpired(e, t) IN
           /\ EntryOK(x) /\ known(x) = {a \in known(e) : ~(t >= e.expires[a])}
           /\ \A a \in known(x) : x.expires[a] = e.expires[a]
           /\ \A a, b : Before(x, a, b) => Before(e, a, b)
  <1> DEFINE gone == {a \in known(e) : t >= e.expires[a]}
             K == known(e) \ gone
             f == [a \in K |-> e.expires[a]]
             s == eraseOrder(e.order, gone)
  <1>1. /\ e \in AddressEntries /\ e.order \in Seq(Addresses) /\ known(e) \in SUBSET Addresses
        /\ \A a \in known(e) : e.expires[a] \in Nat
        /\ IsInjective(e.order) /\ Range(e.order) = known(e)
    BY Tables DEF EntryOK
  <1>2. unexpired(e, t) = [order |-> s, expires |-> f]
    BY DEF unexpired
  <1>3. /\ s \in Seq(Addresses) /\ IsInjective(s) /\ Range(s) = K
        /\ \A k, l \in 1..Len(s) : k < l =>
                \E m, n \in 1..Len(e.order) : m < n /\ e.order[m] = s[k] /\ e.order[n] = s[l]
    BY Zenon, <1>1, ErasedList
  <1>4. K = {a \in known(e) : ~(t >= e.expires[a])}
    OBVIOUS
  <1>5. /\ DOMAIN f = K /\ f = [a \in DOMAIN f |-> f[a]] /\ K \in SUBSET Addresses
        /\ \A a \in K : f[a] \in Nat /\ f[a] = e.expires[a]
    BY <1>1
  <1> HIDE DEF s, f, K
  <1>6. PICK x : x = [order |-> s, expires |-> f]
    BY Zenon
  <1>7. x \in AddressEntries
    BY <1>3, <1>5, <1>6, MakeEntry
  <1>8. x.order = s /\ x.expires = f /\ known(x) = K
    BY <1>5, <1>6 DEF known
  <1>9. EntryOK(x)
    BY <1>3, <1>7, <1>8 DEF EntryOK
  <1>10. ASSUME NEW a, NEW b, Before(x, a, b) PROVE Before(e, a, b)
    <2>1. PICK k \in 1..Len(s), l \in 1..Len(s) : k < l /\ s[k] = a /\ s[l] = b
      BY <1>3, <1>8, <1>10 DEF Before
    <2>2. PICK m \in 1..Len(e.order), n \in 1..Len(e.order) :
                m < n /\ e.order[m] = a /\ e.order[n] = b
      BY ZenonT(30), <1>3, <2>1
    <2> QED BY <1>1, <2>2 DEF Before
  <1>11. \A a \in known(x) : x.expires[a] = e.expires[a]
    BY <1>5, <1>8
  <1> QED BY <1>2, <1>4, <1>6, <1>8, <1>9, <1>10, <1>11, Zenon

(* Of two addresses only one is before the other.                            *)
LEMMA BeforeOnce ==
    ASSUME NEW e, EntryOK(e), NEW a, NEW b, Before(e, a, b), Before(e, b, a) PROVE FALSE
  <1>1. e.order \in Seq(Addresses) /\ IsInjective(e.order)
    BY Tables DEF EntryOK
  <1>2. PICK k \in DOMAIN e.order, l \in DOMAIN e.order : k < l /\ e.order[k] = a /\ e.order[l] = b
    BY DEF Before
  <1>3. PICK m \in DOMAIN e.order, n \in DOMAIN e.order : m < n /\ e.order[m] = b /\ e.order[n] = a
    BY DEF Before
  <1>4. k = n /\ l = m
    BY <1>1, <1>2, <1>3 DEF IsInjective
  <1>5. k \in Nat /\ l \in Nat
    BY <1>1
  <1> QED BY <1>2, <1>3, <1>4, <1>5

(* The pairs of one peer.                                                    *)
LEMMA PairIn ==
    ASSUME NEW p, NEW A PROVE \A q, a : <<q, a>> \in Pairs(p, A) <=> q = p /\ a \in A
  BY DEF Pairs

(* An entry of unordered_map starts empty.                                   *)
LEMMA NoEntry == EntryOK(NoAddresses) /\ known(NoAddresses) = {}
                 /\ NoAddresses.order = << >>
  <1> DEFINE e == [order |-> << >>, expires |-> << >>]
  <1>1. << >> = [a \in {} |-> a] /\ DOMAIN << >> = {} /\ << >> \in Seq(Addresses)
    OBVIOUS
  <1>2. << >> \in [{} -> Nat]
    BY <1>1
  <1>3. e.order = << >> /\ known(e) = {} /\ e \in AddressEntries
    BY <1>1, <1>2 DEF known, AddressEntries, ExpiryTables
  <1>4. IsInjective(<< >>) /\ Range(<< >>) = {}
    BY DEF IsInjective, Range
  <1> QED BY <1>3, <1>4 DEF NoAddresses, EntryOK

(* A listener of both signals knows the stored addresses.                    *)
SeenIn(d, z) ==
    /\ z \in SUBSET (Peers \X Addresses)
    /\ \A p \in Peers, a \in Addresses : <<p, a>> \in z <=> p \in DOMAIN d /\ a \in known(d[p])

(* What was promised is stored until then, or until the clock ends.          *)
KeptIn(d, t, u) ==
    /\ DOMAIN u \in SUBSET (Peers \X Addresses) /\ \A x \in DOMAIN u : u[x] \in Nat
    /\ \A p \in Peers, a \in Addresses : <<p, a>> \in DOMAIN u /\ t < u[<<p, a>>] =>
        /\ p \in DOMAIN d /\ a \in known(d[p])
        /\ d[p].expires[a] >= u[<<p, a>>] \/ d[p].expires[a] = MaxTime

(* The inductive invariant of the address repository.                        *)
AddrOK(d, t, z, u) ==
    /\ t \in 0..LastTime
    /\ DOMAIN d \in SUBSET Peers /\ \A p \in DOMAIN d : EntryOK(d[p])
    /\ SeenIn(d, z) /\ KeptIn(d, t, u)

AInv == AddrOK(db_, now, seen, until)

(* db_[p], whether the peer is known or not.                                 *)
LEMMA EntryIs ==
    ASSUME NEW d, \A p \in DOMAIN d : EntryOK(d[p]), NEW p
    PROVE  /\ EntryOK(entry(d, p)) /\ known(entry(d, p)) \in SUBSET Addresses
           /\ \A a : a \in known(entry(d, p)) <=> p \in DOMAIN d /\ a \in known(d[p])
           /\ p \in DOMAIN d => entry(d, p) = d[p]
  <1>1. EntryOK(entry(d, p))
    BY NoEntry DEF entry
  <1>2. known(entry(d, p)) \in SUBSET Addresses
    BY <1>1, Tables DEF EntryOK
  <1> QED BY <1>1, <1>2, NoEntry DEF entry

(* One peer's addresses become those of x: none is lost, and those of A are  *)
(* promised until n.                                                         *)
Promised(d, z, u, p, x, A, n, e, y, v) ==
    /\ EntryOK(x) /\ known(entry(d, p)) \subseteq known(x)
    /\ A \in SUBSET known(x) /\ n \in Nat
    /\ \A a \in A : x.expires[a] >= n \/ x.expires[a] = MaxTime
    /\ \A a \in known(entry(d, p)) \ A : x.expires[a] = entry(d, p).expires[a]
    /\ DOMAIN e = DOMAIN d \cup {p} /\ e[p] = x /\ \A q \in DOMAIN d \ {p} : e[q] = d[q]
    /\ y = z \cup Pairs(p, known(x) \ known(entry(d, p)))
    /\ DOMAIN v = DOMAIN u \cup Pairs(p, A)
    /\ \A w \in DOMAIN v : v[w] = IF w \in Pairs(p, A) THEN n ELSE u[w]

(* A change of that form keeps the invariant.                                *)
LEMMA EntryChanges ==
    ASSUME NEW d, NEW t, NEW z, NEW u, AddrOK(d, t, z, u),
           NEW p \in Peers, NEW x, NEW A, NEW n, NEW e, NEW y, NEW v,
           Promised(d, z, u, p, x, A, n, e, y, v)
    PROVE  AddrOK(e, t, y, v)
  <1> USE DEF Promised
  <1>1. /\ t \in 0..LastTime /\ DOMAIN d \in SUBSET Peers /\ \A q \in DOMAIN d : EntryOK(d[q])
        /\ SeenIn(d, z) /\ KeptIn(d, t, u)
    BY SMTT(30) DEF AddrOK
  <1>2. /\ known(x) \in SUBSET Addresses
        /\ \A a : a \in known(entry(d, p)) <=> p \in DOMAIN d /\ a \in known(d[p])
        /\ p \in DOMAIN d => entry(d, p) = d[p]
    BY SMTT(30), <1>1, EntryIs, Tables DEF EntryOK
  <1>3. DOMAIN e \in SUBSET Peers /\ \A q \in DOMAIN e : EntryOK(e[q])
    BY <1>1
  <1>4. SeenIn(e, y)
    <2>1. \A q, a : <<q, a>> \in y <=> <<q, a>> \in z \/ (q = p /\ a \in known(x) \ known(entry(d, p)))
      <3> TAKE q, a
      <3> DEFINE B == known(x) \ known(entry(d, p))
      <3>1. <<q, a>> \in Pairs(p, B) <=> q = p /\ a \in B
        BY PairIn
      <3> QED BY <3>1
    <2>2. y \in SUBSET (Peers \X Addresses)
      BY <1>1, <1>2 DEF SeenIn, Pairs
    <2>3. ASSUME NEW q \in Peers, NEW a \in Addresses
          PROVE  <<q, a>> \in y <=> q \in DOMAIN e /\ a \in known(e[q])
      <3>1. <<q, a>> \in z <=> q \in DOMAIN d /\ a \in known(d[q])
        BY <1>1 DEF SeenIn
      <3>2. CASE q = p
        BY <1>2, <2>1, <3>1, <3>2, Zenon
      <3>3. CASE q # p
        BY <2>1, <3>1, <3>3, Zenon
      <3> QED BY <3>2, <3>3
    <2> QED BY Zenon, <2>2, <2>3 DEF SeenIn
  <1>5. KeptIn(e, t, v)
    <2>1. DOMAIN v \in SUBSET (Peers \X Addresses)
      BY <1>1, <1>2 DEF KeptIn, Pairs
    <2>2. \A w \in DOMAIN v : v[w] \in Nat
      BY SMTT(30), <1>1 DEF KeptIn
    <2>3. ASSUME NEW q \in Peers, NEW a \in Addresses, <<q, a>> \in DOMAIN v, t < v[<<q, a>>]
          PROVE  /\ q \in DOMAIN e /\ a \in known(e[q])
                 /\ e[q].expires[a] >= v[<<q, a>>] \/ e[q].expires[a] = MaxTime
      <3>1. <<q, a>> \in Pairs(p, A) <=> q = p /\ a \in A
        BY PairIn
      <3>2. CASE q = p /\ a \in A
        BY SMTT(30), <2>3, <3>1, <3>2
      <3>3. CASE ~(q = p /\ a \in A)
        <4>1. <<q, a>> \in DOMAIN u /\ v[<<q, a>>] = u[<<q, a>>]
          BY <2>3, <3>1, <3>3, Zenon
        <4>2. /\ q \in DOMAIN d /\ a \in known(d[q])
              /\ d[q].expires[a] >= u[<<q, a>>] \/ d[q].expires[a] = MaxTime
          BY SMTT(30), <1>1, <2>3, <4>1 DEF KeptIn
        <4>3. CASE q = p
          BY SMTT(30), <1>2, <3>3, <4>1, <4>2, <4>3
        <4>4. CASE q # p
          BY SMTT(30), <4>1, <4>2, <4>4
        <4> QED BY <4>3, <4>4
      <3> QED BY <3>2, <3>3
    <2> QED BY SMTT(30), <2>1, <2>2, <2>3 DEF KeptIn
  <1> QED BY <1>1, <1>3, <1>4, <1>5 DEF AddrOK

(* Addresses that are appended change no order.                              *)
LEMMA PrefixBefore ==
    ASSUME NEW e, EntryOK(e), NEW x, EntryOK(x),
           \A k \in 1..Len(e.order) : k \in 1..Len(x.order) /\ x.order[k] = e.order[k],
           NEW a, NEW b, Before(e, a, b)
    PROVE  ~Before(x, b, a)
  <1>1. e.order \in Seq(Addresses) /\ x.order \in Seq(Addresses)
    BY Tables DEF EntryOK
  <1>2. PICK k \in 1..Len(e.order), l \in 1..Len(e.order) :
            k < l /\ e.order[k] = a /\ e.order[l] = b
    BY <1>1 DEF Before
  <1>3. Before(x, a, b)
    BY <1>1, <1>2 DEF Before
  <1> QED BY <1>3, BeforeOnce

(* The time promised to a caller is a number.                                *)
LEMMA Promise ==
    ASSUME RepositoryAssumption, NEW t \in 0..LastTime, NEW ttl \in Ttls
    PROVE  t + ttl * Ratio \in Nat
  <1>1. ttl \in Nat /\ Ratio \in Nat /\ t \in Nat
    BY DEF RepositoryAssumption
  <1>2. ttl * Ratio \in Nat
    BY <1>1
  <1> QED BY <1>1, <1>2

(* Where no list but that of p changes, nothing else moves.                  *)
LEMMA OneMoves ==
    ASSUME AInv, NEW p, NEW D, D = DOMAIN db_ \cap DOMAIN db_',
           \A q \in DOMAIN db_ \ {p} : db_'[q] = db_[q],
           \A a, b : p \in D /\ Before(db_[p], a, b) /\ Before(db_'[p], b, a)
                        => dialFailed(p, a)
    PROVE  MovesBack
  <1> SUFFICES ASSUME NEW q \in D, NEW a, NEW b, Before(db_[q], a, b), Before(db_'[q], b, a)
               PROVE  dialFailed(q, a)
    BY DEF MovesBack
  <1>1. CASE q = p
    BY <1>1
  <1>2. CASE q # p
    <2>1. db_'[q] = db_[q] /\ EntryOK(db_[q])
      BY <1>2 DEF AInv, AddrOK
    <2> QED BY <2>1, BeforeOnce
  <1> QED BY <1>1, <1>2

(* addAddresses.                                                             *)
LEMMA AddInv ==
    ASSUME RepositoryAssumption, AInv, NEW p \in Peers, NEW new \in Lists, NEW ttl \in Ttls,
           addAddresses(p, new, ttl)
    PROVE  AInv' /\ MovesBack
  <1> DEFINE e == entry(db_, p)
             end == calculateExpirationTime(now, ttl)
             x == added(e, new, end)
             A == Range(new) \ known(e)
             n == now + ttl * Ratio
  <1>1. /\ AddrOK(db_, now, seen, until) /\ now \in 0..LastTime /\ EntryOK(e)
        /\ p \in DOMAIN db_ => e = db_[p]
    BY EntryIs DEF AInv, AddrOK
  <1>2. /\ db_' = put(db_, p, x) /\ seen' = seen \cup Pairs(p, A) /\ now' = now
        /\ until' = [w \in DOMAIN until \cup Pairs(p, A) |-> IF w \in Pairs(p, A) THEN n ELSE until[w]]
    BY DEF addAddresses, promised
  <1>3. end \in Nat /\ (end >= n \/ end = MaxTime)
    BY <1>1, Expiration
  <1>4. n \in Nat
    BY <1>1, Promise
  <1> HIDE DEF e, end, n
  <1>5. /\ EntryOK(x) /\ known(x) = known(e) \cup Range(new)
        /\ \A a \in known(x) : x.expires[a] = IF a \in known(e) THEN e.expires[a] ELSE end
        /\ \A k \in 1..Len(e.order) : k \in 1..Len(x.order) /\ x.order[k] = e.order[k]
    <2>1. EntryOK(x) /\ known(x) = known(e) \cup Range(new)
      BY SMTT(30), <1>1, <1>3, AddedEntry
    <2>2. \A a \in known(x) : x.expires[a] = IF a \in known(e) THEN e.expires[a] ELSE end
      BY SMTT(30), <1>1, <1>3, AddedEntry
    <2>3. \A k \in 1..Len(e.order) : k \in 1..Len(x.order) /\ x.order[k] = e.order[k]
      BY SMTT(30), <1>1, <1>3, AddedEntry
    <2> QED BY <2>1, <2>2, <2>3
  <1> HIDE DEF x
  <1>6. /\ A = known(x) \ known(e) /\ A \in SUBSET known(x)
        /\ known(e) \subseteq known(x)
        /\ \A a \in A : x.expires[a] >= n \/ x.expires[a] = MaxTime
        /\ \A a \in known(e) \ A : x.expires[a] = e.expires[a]
    BY <1>3, <1>5
  <1> HIDE DEF A
  <1>7. /\ DOMAIN db_' = DOMAIN db_ \cup {p} /\ db_'[p] = x
        /\ \A q \in DOMAIN db_ \ {p} : db_'[q] = db_[q]
    BY <1>2 DEF put
  <1>8. /\ DOMAIN until' = DOMAIN until \cup Pairs(p, A)
        /\ \A w \in DOMAIN until' : until'[w] = IF w \in Pairs(p, A) THEN n ELSE until[w]
    BY SMTT(30), <1>2
  <1>9. Promised(db_, seen, until, p, x, A, n, db_', seen', until')
    BY Zenon, <1>2, <1>4, <1>5, <1>6, <1>7, <1>8 DEF Promised, e
  <1>10. AddrOK(db_', now, seen', until')
    BY SMTT(30), <1>1, <1>9, EntryChanges
  <1>11. ASSUME NEW a, NEW b, p \in DOMAIN db_, Before(db_[p], a, b) PROVE ~Before(db_'[p], b, a)
    <2>1. Before(e, a, b)
      BY SMTT(30), <1>1, <1>11
    <2>2. ~Before(x, b, a)
      BY SMTT(30), <1>1, <1>5, <2>1, PrefixBefore
    <2> QED BY <1>7, <2>2
  <1>12. MovesBack
    BY SMTT(30), <1>7, <1>11, OneMoves
  <1> QED BY <1>2, <1>10, <1>12 DEF AInv

(* upsertAddresses.                                                          *)
LEMMA UpsertInv ==
    ASSUME RepositoryAssumption, AInv, NEW p \in Peers, NEW new \in Lists, NEW ttl \in Ttls,
           upsertAddresses(p, new, ttl)
    PROVE  AInv' /\ MovesBack
  <1> DEFINE e == entry(db_, p)
             end == calculateExpirationTime(now, ttl)
             x == upserted(e, new, end)
             A == Range(new)
             n == now + ttl * Ratio
  <1>1. /\ AddrOK(db_, now, seen, until) /\ now \in 0..LastTime /\ EntryOK(e)
        /\ p \in DOMAIN db_ => e = db_[p]
    BY EntryIs DEF AInv, AddrOK
  <1>2. /\ db_' = put(db_, p, x) /\ seen' = seen \cup Pairs(p, A \ known(e)) /\ now' = now
        /\ until' = [w \in DOMAIN until \cup Pairs(p, A) |-> IF w \in Pairs(p, A) THEN n ELSE until[w]]
    BY SMTT(30) DEF upsertAddresses, promised
  <1>3. end \in Nat /\ (end >= n \/ end = MaxTime)
    BY <1>1, Expiration
  <1>4. n \in Nat
    BY <1>1, Promise
  <1> HIDE DEF e, end, n
  <1>5. /\ EntryOK(x) /\ known(x) = known(e) \cup Range(new)
        /\ \A a \in known(x) : x.expires[a] = IF a \in Range(new) THEN end ELSE e.expires[a]
        /\ \A k \in 1..Len(e.order) : k \in 1..Len(x.order) /\ x.order[k] = e.order[k]
    <2>1. EntryOK(x) /\ known(x) = known(e) \cup Range(new)
      BY SMTT(30), <1>1, <1>3, UpsertedEntry
    <2>2. \A a \in known(x) : x.expires[a] = IF a \in Range(new) THEN end ELSE e.expires[a]
      BY SMTT(30), <1>1, <1>3, UpsertedEntry
    <2>3. \A k \in 1..Len(e.order) : k \in 1..Len(x.order) /\ x.order[k] = e.order[k]
      BY <1>1, <1>3, UpsertedEntry
    <2> QED BY SMTT(30), <2>1, <2>2, <2>3
  <1> HIDE DEF x
  <1>6. /\ A \ known(e) = known(x) \ known(e) /\ A \in SUBSET known(x)
        /\ known(e) \subseteq known(x)
        /\ \A a \in A : x.expires[a] >= n \/ x.expires[a] = MaxTime
        /\ \A a \in known(e) \ A : x.expires[a] = e.expires[a]
    BY <1>3, <1>5
  <1> HIDE DEF A
  <1>7. /\ DOMAIN db_' = DOMAIN db_ \cup {p} /\ db_'[p] = x
        /\ \A q \in DOMAIN db_ \ {p} : db_'[q] = db_[q]
    BY <1>2 DEF put
  <1>8. /\ DOMAIN until' = DOMAIN until \cup Pairs(p, A)
        /\ \A w \in DOMAIN until' : until'[w] = IF w \in Pairs(p, A) THEN n ELSE until[w]
    BY SMTT(30), <1>2
  <1>9. Promised(db_, seen, until, p, x, A, n, db_', seen', until')
    BY Zenon, <1>2, <1>4, <1>5, <1>6, <1>7, <1>8 DEF Promised, e
  <1>10. AddrOK(db_', now, seen', until')
    BY <1>1, <1>9, EntryChanges
  <1>11. ASSUME NEW a, NEW b, p \in DOMAIN db_, Before(db_[p], a, b) PROVE ~Before(db_'[p], b, a)
    <2>1. Before(e, a, b)
      BY <1>1, <1>11
    <2>2. ~Before(x, b, a)
      BY <1>1, <1>5, <2>1, PrefixBefore
    <2> QED BY <1>7, <2>2
  <1>12. MovesBack
    BY <1>7, <1>11, OneMoves
  <1> QED BY <1>2, <1>10, <1>12 DEF AInv

(* updateAddresses.                                                          *)
LEMMA UpdateInv ==
    ASSUME RepositoryAssumption, AInv, NEW p \in Peers, NEW ttl \in Ttls,
           updateAddresses(p, ttl)
    PROVE  AInv' /\ MovesBack
  <1> DEFINE e == db_[p]
             end == calculateExpirationTime(now, ttl)
             x == Updated(e, end)
             A == known(e)
             n == now + ttl * Ratio
  <1>1. /\ AddrOK(db_, now, seen, until) /\ now \in 0..LastTime /\ EntryOK(e)
        /\ entry(db_, p) = e /\ p \in DOMAIN db_
    BY EntryIs DEF AInv, AddrOK, updateAddresses
  <1>2. /\ seen' = seen /\ now' = now
        /\ until' = [w \in DOMAIN until \cup Pairs(p, A) |-> IF w \in Pairs(p, A) THEN n ELSE until[w]]
    BY DEF updateAddresses, promised
  <1>3. db_' = [db_ EXCEPT ![p] = x]
    BY <1>1 DEF updateAddresses, Updated
  <1>4. end \in Nat /\ (end >= n \/ end = MaxTime)
    BY <1>1, Expiration
  <1>5. n \in Nat
    BY <1>1, Promise
  <1> HIDE DEF e, end, n
  <1>6. /\ EntryOK(x) /\ known(x) = A /\ x.order = e.order
        /\ \A a \in known(x) : x.expires[a] = end
    BY <1>1, <1>4, UpdatedEntry, ZenonT(30)
  <1> HIDE DEF x
  <1>7. /\ DOMAIN db_' = DOMAIN db_ \cup {p} /\ db_'[p] = x
        /\ \A q \in DOMAIN db_ \ {p} : db_'[q] = db_[q]
    BY <1>1, <1>3
  <1>8. /\ DOMAIN until' = DOMAIN until \cup Pairs(p, A)
        /\ \A w \in DOMAIN until' : until'[w] = IF w \in Pairs(p, A) THEN n ELSE until[w]
    BY <1>2
  <1>9. seen' = seen \cup Pairs(p, known(x) \ known(entry(db_, p)))
    BY SMTT(30), <1>1, <1>2, <1>6 DEF Pairs
  <1>10. Promised(db_, seen, until, p, x, A, n, db_', seen', until')
    BY <1>1, <1>4, <1>5, <1>6, <1>7, <1>8, <1>9 DEF Promised
  <1> HIDE DEF A
  <1>11. AddrOK(db_', now, seen', until')
    BY SMTT(30), <1>1, <1>10, EntryChanges
  <1>12. ASSUME NEW a, NEW b, Before(db_[p], a, b) PROVE ~Before(db_'[p], b, a)
    <2>1. Before(e, a, b)
      BY <1>12 DEF e
    <2>2. ~Before(e, b, a)
      BY <1>1, <2>1, BeforeOnce
    <2> QED BY <1>6, <1>7, <2>2 DEF Before
  <1>13. MovesBack
    BY <1>7, <1>12, OneMoves
  <1> QED BY <1>2, <1>11, <1>13 DEF AInv

(* dialFailed.                                                               *)
LEMMA DialFailedInv ==
    ASSUME AInv, NEW p \in Peers, NEW c \in Addresses, dialFailed(p, c)
    PROVE  AInv' /\ MovesBack
  <1> DEFINE e == db_[p]
             x == failed(e, c)
  <1>1. /\ AddrOK(db_, now, seen, until) /\ EntryOK(e) /\ entry(db_, p) = e /\ p \in DOMAIN db_
        /\ c \in known(e)
    BY EntryIs DEF AInv, AddrOK, dialFailed
  <1>2. db_' = [db_ EXCEPT ![p] = x] /\ now' = now /\ seen' = seen /\ until' = until
    BY DEF dialFailed
  <1>3. EntryOK(x) /\ known(x) = known(e) /\ x.expires = e.expires
    BY <1>1, FailedEntry
  <1>4. \A a, b : Before(x, a, b) => b = c \/ Before(e, a, b)
    BY <1>1, FailedEntry
  <1> HIDE DEF e, x
  <1>5. /\ DOMAIN db_' = DOMAIN db_ \cup {p} /\ db_'[p] = x
        /\ \A q \in DOMAIN db_ \ {p} : db_'[q] = db_[q]
    BY <1>1, <1>2
  <1>6. Pairs(p, {}) = {} /\ known(x) \ known(e) = {}
    BY <1>3 DEF Pairs
  <1>7. Promised(db_, seen, until, p, x, {}, 0, db_', seen', until')
    BY <1>1, <1>2, <1>3, <1>5, <1>6 DEF Promised
  <1>8. AddrOK(db_', now, seen', until')
    BY <1>1, <1>7, EntryChanges
  <1>9. ASSUME NEW a, NEW b, Before(db_[p], a, b), Before(db_'[p], b, a)
        PROVE  dialFailed(p, a)
    <2>1. Before(e, a, b)
      BY <1>9 DEF e
    <2>2. a = c \/ Before(e, b, a)
      BY <1>4, <1>5, <1>9
    <2>3. ~Before(e, b, a)
      BY <1>1, <2>1, BeforeOnce
    <2> QED BY <2>2, <2>3
  <1>10. MovesBack
    BY <1>5, <1>9, OneMoves
  <1> QED BY <1>2, <1>8, <1>10 DEF AInv

(* clear.                                                                    *)
LEMMA ClearInv ==
    ASSUME AInv, NEW p \in Peers, clear(p) PROVE AInv' /\ MovesBack
  <1>1. /\ now \in 0..LastTime /\ DOMAIN db_ \in SUBSET Peers /\ \A q \in DOMAIN db_ : EntryOK(db_[q])
        /\ SeenIn(db_, seen) /\ KeptIn(db_, now, until) /\ p \in DOMAIN db_
    BY DEF AInv, AddrOK, clear
  <1>2. /\ now' = now /\ seen' = seen \ Pairs(p, known(entry(db_, p)))
        /\ until' = [w \in DOMAIN until \ Pairs(p, Addresses) |-> until[w]]
    BY DEF clear, cleared
  <1>3. /\ DOMAIN db_' = DOMAIN db_ /\ db_'[p] = NoAddresses
        /\ \A q \in DOMAIN db_ \ {p} : db_'[q] = db_[q]
    BY <1>1 DEF clear
  <1>4. \A q \in DOMAIN db_' : EntryOK(db_'[q])
    BY <1>1, <1>3, NoEntry
  <1>5. SeenIn(db_', seen')
    <2>1. seen' \in SUBSET (Peers \X Addresses)
      BY <1>1, <1>2 DEF SeenIn
    <2>2. ASSUME NEW q \in Peers, NEW a \in Addresses
          PROVE  <<q, a>> \in seen' <=> q \in DOMAIN db_' /\ a \in known(db_'[q])
      <3>1. <<q, a>> \in seen <=> q \in DOMAIN db_ /\ a \in known(db_[q])
        BY SMTT(30), <1>1 DEF SeenIn
      <3>2. <<q, a>> \in Pairs(p, known(entry(db_, p))) <=> q = p /\ a \in known(db_[p])
        BY <1>1, PairIn, EntryIs
      <3>3. CASE q = p
        BY SMTT(30), <1>2, <1>3, <3>1, <3>2, <3>3, NoEntry
      <3>4. CASE q # p
        BY SMTT(30), <1>2, <1>3, <3>1, <3>2, <3>4
      <3> QED BY <3>3, <3>4
    <2> QED BY <2>1, <2>2 DEF SeenIn
  <1>6. KeptIn(db_', now, until')
    <2>1. DOMAIN until' = DOMAIN until \ Pairs(p, Addresses)
          /\ \A w \in DOMAIN until' : until'[w] = until[w]
      BY <1>2
    <2>2. ASSUME NEW q \in Peers, NEW a \in Addresses, <<q, a>> \in DOMAIN until'
          PROVE  q # p /\ <<q, a>> \in DOMAIN until /\ until'[<<q, a>>] = until[<<q, a>>]
      <3>1. <<q, a>> \in Pairs(p, Addresses) <=> q = p
        BY PairIn
      <3> QED BY <2>1, <2>2, <3>1
    <2>3. DOMAIN until' \in SUBSET (Peers \X Addresses) /\ \A w \in DOMAIN until' : until'[w] \in Nat
      BY SMTT(30), <1>1, <2>1 DEF KeptIn
    <2> QED BY <1>1, <1>3, <2>2, <2>3 DEF KeptIn
  <1>7. AddrOK(db_', now', seen', until')
    BY <1>1, <1>2, <1>3, <1>4, <1>5, <1>6 DEF AddrOK
  <1>8. \A a, b : ~Before(db_'[p], a, b)
    BY <1>3, NoEntry DEF Before
  <1>9. MovesBack
    BY <1>3, <1>8, OneMoves
  <1> QED BY <1>7, <1>9 DEF AInv

(* collectGarbage, which leaves no peer without an address that lives on.    *)
LEMMA CollectInv ==
    ASSUME RepositoryAssumption, AInv, collectGarbage
    PROVE  /\ AInv' /\ MovesBack
           /\ \A p \in DOMAIN db_' :
                known(db_'[p]) # {} /\ \A a \in known(db_'[p]) : now < db_'[p].expires[a]
  <1> DEFINE swept == [p \in DOMAIN db_ |-> unexpired(db_[p], now)]
  <1>1. /\ now \in 0..LastTime /\ DOMAIN db_ \in SUBSET Peers /\ \A q \in DOMAIN db_ : EntryOK(db_[q])
        /\ SeenIn(db_, seen) /\ KeptIn(db_, now, until)
    BY DEF AInv, AddrOK
  <1>2. /\ now' = now /\ db_' = [p \in nonEmpty(swept) |-> swept[p]]
        /\ seen' = seen \ UNION {Pairs(p, known(db_[p]) \ known(swept[p])) : p \in DOMAIN db_}
        /\ until' = [w \in {w \in DOMAIN until : until[w] > now} |-> until[w]]
    BY SMTT(30) DEF collectGarbage
  <1>3. /\ DOMAIN swept = DOMAIN db_
        /\ \A p \in DOMAIN db_ : /\ EntryOK(swept[p])
              /\ known(swept[p]) = {a \in known(db_[p]) : ~(now >= db_[p].expires[a])}
    BY SMTT(30), <1>1, UnexpiredEntry
  <1>4. \A p \in DOMAIN db_ : \A a \in known(swept[p]) : swept[p].expires[a] = db_[p].expires[a]
    BY SMTT(30), <1>1, UnexpiredEntry
  <1>5. \A p \in DOMAIN db_ : \A a, b : Before(swept[p], a, b) => Before(db_[p], a, b)
    BY SMTT(30), <1>1, UnexpiredEntry
  <1> HIDE DEF swept
  <1>6. /\ DOMAIN db_' \in SUBSET DOMAIN db_
        /\ \A p \in DOMAIN db_ : p \in DOMAIN db_' <=> known(swept[p]) # {}
        /\ \A p \in DOMAIN db_' : db_'[p] = swept[p]
    BY SMTT(30), <1>2, <1>3 DEF nonEmpty
  <1>7. \A p \in DOMAIN db_ : \A a \in known(db_[p]) : a \in Addresses /\ db_[p].expires[a] \in Nat
    BY <1>1, Tables DEF EntryOK
  <1>8. SeenIn(db_', seen')
    <2>1. seen' \in SUBSET (Peers \X Addresses)
      BY <1>1, <1>2 DEF SeenIn
    <2>2. ASSUME NEW q \in Peers, NEW a \in Addresses
          PROVE  <<q, a>> \in seen' <=> q \in DOMAIN db_' /\ a \in known(db_'[q])
      <3>1. <<q, a>> \in seen <=> q \in DOMAIN db_ /\ a \in known(db_[q])
        BY <1>1 DEF SeenIn
      <3>2. <<q, a>> \in UNION {Pairs(p, known(db_[p]) \ known(swept[p])) : p \in DOMAIN db_}
              <=> \E p \in DOMAIN db_ : <<q, a>> \in Pairs(p, known(db_[p]) \ known(swept[p]))
        OBVIOUS
      <3>3. \A p \in DOMAIN db_ : <<q, a>> \in Pairs(p, known(db_[p]) \ known(swept[p]))
              <=> q = p /\ a \in known(db_[p]) \ known(swept[p])
        BY PairIn
      <3>4. <<q, a>> \in seen' <=> q \in DOMAIN db_ /\ a \in known(swept[q])
        BY Zenon, <1>2, <1>3, <3>1, <3>2, <3>3
      <3> QED BY <1>6, <3>4
    <2> QED BY <2>1, <2>2 DEF SeenIn
  <1>9. KeptIn(db_', now, until')
    <2>1. /\ DOMAIN until' \in SUBSET DOMAIN until
          /\ \A w \in DOMAIN until' : until'[w] = until[w]
      BY <1>2
    <2>2. DOMAIN until' \in SUBSET (Peers \X Addresses) /\ \A w \in DOMAIN until' : until'[w] \in Nat
      BY <1>1, <2>1 DEF KeptIn
    <2>3. ASSUME NEW q \in Peers, NEW a \in Addresses, <<q, a>> \in DOMAIN until', now < until'[<<q, a>>]
          PROVE  /\ q \in DOMAIN db_' /\ a \in known(db_'[q])
                 /\ db_'[q].expires[a] >= until'[<<q, a>>] \/ db_'[q].expires[a] = MaxTime
      <3>1. until'[<<q, a>>] = until[<<q, a>>] /\ until[<<q, a>>] \in Nat
            /\ <<q, a>> \in DOMAIN until
        BY SMTT(30), <2>1, <2>2, <2>3
      <3>2. /\ q \in DOMAIN db_ /\ a \in known(db_[q])
            /\ db_[q].expires[a] >= until[<<q, a>>] \/ db_[q].expires[a] = MaxTime
        BY <1>1, <2>3, <3>1 DEF KeptIn
      <3>3. db_[q].expires[a] \in Nat /\ LastTime < MaxTime /\ LastTime \in Nat /\ MaxTime \in Nat
        BY SMTT(30), <1>7, <3>2 DEF RepositoryAssumption
      <3>4. ~(now >= db_[q].expires[a])
        BY <1>1, <2>3, <3>1, <3>2, <3>3
      <3>5. a \in known(swept[q])
        BY SMTT(30), <1>3, <3>2, <3>4
      <3> QED BY <1>4, <1>6, <3>1, <3>2, <3>5
    <2> QED BY <2>2, <2>3 DEF KeptIn
  <1>10. AddrOK(db_', now', seen', until')
    BY SMTT(30), <1>1, <1>2, <1>3, <1>6, <1>8, <1>9 DEF AddrOK
  <1>11. MovesBack
    <2> SUFFICES ASSUME NEW q \in DOMAIN db_ \cap DOMAIN db_', NEW a, NEW b,
                        Before(db_[q], a, b), Before(db_'[q], b, a)
                 PROVE  FALSE
      BY DEF MovesBack
    <2>1. Before(db_[q], b, a)
      BY SMTT(30), <1>5, <1>6
    <2> QED BY <1>1, <2>1, BeforeOnce
  <1>12. ASSUME NEW p \in DOMAIN db_'
         PROVE  known(db_'[p]) # {} /\ \A a \in known(db_'[p]) : now < db_'[p].expires[a]
    BY <1>1, <1>3, <1>4, <1>6, <1>7
  <1> QED BY <1>10, <1>11, <1>12 DEF AInv

(* Time passes.                                                              *)
LEMMA TickInv == ASSUME RepositoryAssumption, AInv, Tick PROVE AInv' /\ MovesBack
  <1>1. /\ now \in 0..LastTime /\ DOMAIN db_ \in SUBSET Peers /\ \A q \in DOMAIN db_ : EntryOK(db_[q])
        /\ SeenIn(db_, seen) /\ KeptIn(db_, now, until)
    BY DEF AInv, AddrOK
  <1>2. /\ db_' = db_ /\ seen' = seen /\ until' = until
        /\ now' \in 0..LastTime /\ now <= now' /\ now \in Nat /\ now' \in Nat
    BY SMTT(30), <1>1 DEF Tick, RepositoryAssumption
  <1>3. KeptIn(db_, now', until)
    <2>1. \A w \in DOMAIN until : now' < until[w] => now < until[w]
      BY <1>1, <1>2 DEF KeptIn
    <2> QED BY SMTT(30), <1>1, <2>1 DEF KeptIn
  <1>4. MovesBack
    BY SMTT(30), <1>1, <1>2, BeforeOnce DEF MovesBack
  <1> QED BY <1>1, <1>2, <1>3, <1>4 DEF AInv, AddrOK

(* The repository starts empty.                                              *)
LEMMA AInit == RepositoryAssumption /\ StoreInit => AInv
  <1> SUFFICES ASSUME RepositoryAssumption, StoreInit PROVE AInv OBVIOUS
  <1>1. db_ = << >> /\ now = 0 /\ seen = {} /\ until = << >> /\ LastTime \in Nat
    BY DEF StoreInit, AddrInit, RepositoryAssumption
  <1>2. DOMAIN db_ = {} /\ DOMAIN until = {}
    BY <1>1
  <1> QED BY <1>1, <1>2 DEF AInv, AddrOK, SeenIn, KeptIn

(* Every operation on addresses, one by one.                                 *)
LEMMA AddressesStep == ASSUME RepositoryAssumption, AInv, AddrNext PROVE AInv' /\ MovesBack
  <1>1. ASSUME NEW p \in Peers, NEW new \in Lists, NEW ttl \in Ttls, addAddresses(p, new, ttl)
        PROVE  AInv' /\ MovesBack
    BY <1>1, AddInv
  <1>2. ASSUME NEW p \in Peers, NEW new \in Lists, NEW ttl \in Ttls, upsertAddresses(p, new, ttl)
        PROVE  AInv' /\ MovesBack
    BY <1>2, UpsertInv
  <1>3. ASSUME NEW p \in Peers, NEW ttl \in Ttls, updateAddresses(p, ttl)
        PROVE  AInv' /\ MovesBack
    BY <1>3, UpdateInv
  <1>4. ASSUME NEW p \in Peers, NEW a \in Addresses, dialFailed(p, a)
        PROVE  AInv' /\ MovesBack
    BY <1>4, DialFailedInv
  <1>5. ASSUME NEW p \in Peers, clear(p) PROVE AInv' /\ MovesBack
    BY <1>5, ClearInv
  <1>6. CASE collectGarbage
    BY <1>6, CollectInv
  <1>7. CASE Tick
    BY <1>7, TickInv
  <1> QED BY <1>1, <1>2, <1>3, <1>4, <1>5, <1>6, <1>7 DEF AddrNext

(* The other repositories leave the addresses alone.                         *)
LEMMA ANext ==
    ASSUME RepositoryAssumption, AInv, [StoreNext]_storeVars
    PROVE  AInv' /\ [MovesBack /\ SweepsClean]_addrVars
  <1>1. CASE UNCHANGED addrVars
    BY <1>1 DEF AInv, addrVars
  <1>2. CASE AddrNext
    <2>1. AInv' /\ MovesBack
      BY <1>2, AddressesStep
    <2>2. SweepsClean
      BY CollectInv DEF SweepsClean
    <2> QED BY <2>1, <2>2
  <1>3. UNCHANGED addrVars \/ AddrNext
    <2>1. CASE StoreNext
      BY Zenon, <2>1 DEF StoreNext, addPublicKey, addKeyPair, clearKeys, clearProtocols,
                  addProtocols, removeProtocols, updateUserAgent, updateTtl,
                  collectProtocols, collectAgents, ofAddresses
    <2>2. CASE UNCHANGED storeVars
      BY <2>2 DEF storeVars
    <2> QED BY <2>1, <2>2
  <1> QED BY <1>1, <1>2, <1>3

(* What AddressesKept says of a state.                                       *)
LEMMA AInvKept == ASSUME AInv PROVE OrderMatches /\ SignalsMatch /\ KeptUntil
  <1>1. /\ DOMAIN db_ \in SUBSET Peers /\ \A q \in DOMAIN db_ : EntryOK(db_[q])
        /\ SeenIn(db_, seen) /\ KeptIn(db_, now, until)
        /\ \A q \in DOMAIN db_ : known(db_[q]) \in SUBSET Addresses
    <2>1. /\ DOMAIN db_ \in SUBSET Peers /\ \A q \in DOMAIN db_ : EntryOK(db_[q])
          /\ SeenIn(db_, seen) /\ KeptIn(db_, now, until)
      BY DEF AInv, AddrOK
    <2> QED BY <2>1, Tables DEF EntryOK
  <1>2. \A p \in Peers, a \in Addresses :
            <<p, a>> \in stored <=> p \in DOMAIN db_ /\ a \in known(db_[p])
    <2> TAKE p \in Peers, a \in Addresses
    <2>1. <<p, a>> \in stored <=> \E q \in DOMAIN db_ : <<p, a>> \in Pairs(q, known(db_[q]))
      BY DEF stored
    <2>2. \A q \in DOMAIN db_ : <<p, a>> \in Pairs(q, known(db_[q])) <=> p = q /\ a \in known(db_[q])
      BY PairIn
    <2> QED BY <2>1, <2>2
  <1>3. stored \in SUBSET (Peers \X Addresses)
    BY <1>1 DEF stored, Pairs
  <1>4. SignalsMatch
    BY <1>1, <1>2, <1>3 DEF SeenIn, SignalsMatch
  <1>5. KeptUntil
    BY <1>1, <1>2 DEF KeptIn, KeptUntil
  <1>6. OrderMatches
    BY <1>1 DEF EntryOK, OrderMatches
  <1> QED BY <1>4, <1>5, <1>6

(* The list and the table of InmemAddressRepository agree, its two signals   *)
(* report every change, a collection drops exactly what has expired, and no  *)
(* operation but dialFailed moves an address behind another, for any peers,  *)
(* addresses, times to live and clock: through every sequence of operations, *)
(* with kPermanent and its overflow.                                         *)
THEOREM AddressesAlwaysKept ==
    ASSUME RepositoryAssumption PROVE StoreSpec => AddressesKept
  <1>1. StoreInit => AInv
    BY AInit
  <1>2. AInv /\ [StoreNext]_storeVars => AInv'
    BY ANext
  <1>3. AInv' => OrderMatches' /\ SignalsMatch' /\ KeptUntil'
    BY AInvKept, PTL
  <1>4. AInv /\ AInv' /\ [StoreNext]_storeVars
            => [/\ OrderMatches' /\ SignalsMatch' /\ KeptUntil'
                /\ MovesBack /\ SweepsClean]_addrVars
    BY <1>3, ANext
  <1> QED BY <1>1, <1>2, <1>4, PTL DEF StoreSpec, AddressesKept

(* The protocols of a peer are those it was told to have.                    *)
ProtocolsIn(ps, to) ==
    /\ DOMAIN ps \in SUBSET Peers
    /\ to \in [Peers -> SUBSET Protocols]
    /\ \A p \in Peers : to[p] = IF p \in DOMAIN ps THEN ps[p] ELSE {}

(* An agent is kept for the time to live it was given, or as long as the     *)
(* clock runs.                                                               *)
AgentsIn(as, un, t) ==
    /\ \A p \in DOMAIN as : "expires" \in DOMAIN as[p] /\ as[p].expires \in Nat
    /\ \A p \in DOMAIN un :
        /\ un[p] \in Nat
        /\ t < un[p] => p \in DOMAIN as /\ (as[p].expires >= un[p] \/ as[p].expires = MaxTime)

(* The inductive invariant of the other repositories.                        *)
OInv == now \in 0..LastTime /\ ProtocolsIn(protocols, told) /\ AgentsIn(agents, agentUntil, now)

(* The protocols of one peer are replaced.                                   *)
LEMMA ProtocolsChange ==
    ASSUME NEW ps, NEW to, ProtocolsIn(ps, to), NEW p \in Peers, NEW names \in SUBSET Protocols,
           NEW qs, DOMAIN qs = DOMAIN ps \cup {p}, qs[p] = names, \A q \in DOMAIN ps \ {p} : qs[q] = ps[q]
    PROVE  ProtocolsIn(qs, [to EXCEPT ![p] = names])
  BY DEF ProtocolsIn

(* The agent of one peer is replaced, and promised until n.                  *)
LEMMA AgentChanges ==
    ASSUME NEW as, NEW un, NEW t, AgentsIn(as, un, t), NEW p, NEW n \in Nat,
           NEW bs, DOMAIN bs = DOMAIN as \cup {p},
           "expires" \in DOMAIN bs[p], bs[p].expires \in Nat, bs[p].expires >= n \/ bs[p].expires = MaxTime,
           \A q \in DOMAIN as \ {p} : bs[q] = as[q],
           NEW vn, DOMAIN vn = DOMAIN un \cup {p}, vn[p] = n, \A q \in DOMAIN un \ {p} : vn[q] = un[q]
    PROVE  AgentsIn(bs, vn, t)
  BY Zenon DEF AgentsIn

(* The repositories start empty.                                             *)
LEMMA OInit == RepositoryAssumption /\ StoreInit => OInv
  <1> SUFFICES ASSUME RepositoryAssumption, StoreInit PROVE OInv OBVIOUS
  <1>1. /\ protocols = << >> /\ told = [p \in Peers |-> {}]
        /\ agents = << >> /\ agentUntil = << >> /\ now = 0 /\ LastTime \in Nat
    BY DEF StoreInit, AddrInit, RepositoryAssumption
  <1>2. DOMAIN protocols = {} /\ DOMAIN agentUntil = {} /\ DOMAIN agents = {}
    BY <1>1
  <1> QED BY <1>1, <1>2 DEF OInv, ProtocolsIn, AgentsIn

(* addProtocols.                                                             *)
LEMMA AddProtocolsInv ==
    ASSUME OInv, NEW p \in Peers, NEW names \in SUBSET Protocols, addProtocols(p, names) PROVE OInv'
  <1> DEFINE Q == setOf(protocols, p) \cup names
  <1>1. /\ ProtocolsIn(protocols, told) /\ told[p] = setOf(protocols, p) /\ Q \in SUBSET Protocols
    BY DEF OInv, ProtocolsIn, setOf
  <1>2. protocols' = put(protocols, p, Q) /\ told' = [told EXCEPT ![p] = Q]
        /\ UNCHANGED <<agents, agentUntil, now>>
    BY <1>1 DEF addProtocols, withProtocols, addrVars, agentVars
  <1> HIDE DEF Q
  <1>3. /\ DOMAIN protocols' = DOMAIN protocols \cup {p} /\ protocols'[p] = Q
        /\ \A q \in DOMAIN protocols \ {p} : protocols'[q] = protocols[q]
    BY SMTT(30), <1>2 DEF put
  <1>4. ProtocolsIn(protocols', told')
    BY Zenon, <1>1, <1>2, <1>3, ProtocolsChange
  <1> QED BY <1>2, <1>4 DEF OInv

(* removeProtocols and clear.                                                *)
LEMMA RemoveProtocolsInv ==
    ASSUME OInv, NEW p \in Peers, NEW names \in SUBSET Protocols,
           removeProtocols(p, names) \/ clearProtocols(p)
    PROVE  OInv'
  <1>1. ProtocolsIn(protocols, told) /\ p \in DOMAIN protocols
        /\ told[p] = protocols[p] /\ protocols[p] \in SUBSET Protocols
    BY DEF OInv, ProtocolsIn, removeProtocols, clearProtocols
  <1>2. PICK Q \in SUBSET Protocols :
            protocols' = [protocols EXCEPT ![p] = Q] /\ told' = [told EXCEPT ![p] = Q]
    BY <1>1 DEF removeProtocols, clearProtocols
  <1>3. UNCHANGED <<agents, agentUntil, now>>
    BY DEF removeProtocols, clearProtocols, addrVars, agentVars
  <1>4. /\ DOMAIN protocols' = DOMAIN protocols \cup {p} /\ protocols'[p] = Q
        /\ \A q \in DOMAIN protocols \ {p} : protocols'[q] = protocols[q]
    BY <1>1, <1>2
  <1>5. ProtocolsIn(protocols', told')
    BY ZenonT(30), <1>1, <1>2, <1>4, ProtocolsChange
  <1> QED BY <1>3, <1>5 DEF OInv

(* collectGarbage drops peers without a protocol.                            *)
LEMMA CollectProtocolsInv == ASSUME OInv, collectProtocols PROVE OInv'
  <1>1. /\ DOMAIN protocols' = withAny
        /\ \A p \in withAny : protocols'[p] = protocols[p]
        /\ UNCHANGED <<told, agents, agentUntil, now>>
    BY DEF collectProtocols, addrVars, agentVars
  <1>2. ProtocolsIn(protocols', told')
    BY <1>1 DEF OInv, ProtocolsIn, withAny
  <1> QED BY <1>1, <1>2 DEF OInv

(* updateUserAgent.                                                          *)
LEMMA AgentInv ==
    ASSUME RepositoryAssumption, OInv, NEW p \in Peers, NEW ua \in Agents, NEW ttl \in Ttls,
           updateUserAgent(p, ua, ttl)
    PROVE  OInv'
  <1> DEFINE end == calculateExpirationTime(now, ttl)
             n == now + ttl * Ratio
  <1>1. AgentsIn(agents, agentUntil, now) /\ now \in 0..LastTime
    BY DEF OInv
  <1>2. end \in Nat /\ (end >= n \/ end = MaxTime) /\ n \in Nat
    BY <1>1, Expiration, Promise
  <1>3. /\ agents' = put(agents, p, [ua |-> ua, expires |-> end])
        /\ agentUntil' = put(agentUntil, p, n) /\ UNCHANGED <<protocols, told, now>>
    BY SMTT(30) DEF updateUserAgent, withAgent, addrVars, protocolVars
  <1> HIDE DEF end, n
  <1>4. /\ DOMAIN agents' = DOMAIN agents \cup {p}
        /\ agents'[p].expires = end /\ "expires" \in DOMAIN agents'[p]
        /\ \A q \in DOMAIN agents \ {p} : agents'[q] = agents[q]
    BY SMTT(30), <1>3 DEF put
  <1>5. /\ DOMAIN agentUntil' = DOMAIN agentUntil \cup {p} /\ agentUntil'[p] = n
        /\ \A q \in DOMAIN agentUntil \ {p} : agentUntil'[q] = agentUntil[q]
    BY SMTT(30), <1>3 DEF put
  <1>6. AgentsIn(agents', agentUntil', now)
    BY <1>1, <1>2, <1>4, <1>5, AgentChanges
  <1> QED BY <1>3, <1>6 DEF OInv

(* updateTtl, which erases an agent given no time.                           *)
LEMMA UpdateTtlInv ==
    ASSUME RepositoryAssumption, OInv, NEW p \in Peers, NEW ttl \in Ttls \cup {0},
           updateTtl(p, ttl)
    PROVE  OInv'
  <1>1. AgentsIn(agents, agentUntil, now) /\ now \in 0..LastTime /\ p \in DOMAIN agents
        /\ "expires" \in DOMAIN agents[p] /\ UNCHANGED <<protocols, told, now>>
    BY SMTT(30) DEF OInv, AgentsIn, updateTtl, addrVars, protocolVars
  <1>2. CASE ttl > 0
    <2> DEFINE end == calculateExpirationTime(now, ttl)
               n == now + ttl * Ratio
    <2>1. ttl \in Ttls
      BY SMTT(30), <1>2
    <2>2. end \in Nat /\ (end >= n \/ end = MaxTime) /\ n \in Nat
      BY <1>1, <2>1, Expiration, Promise
    <2>3. agents' = [agents EXCEPT ![p].expires = end] /\ agentUntil' = put(agentUntil, p, n)
      BY <1>2 DEF updateTtl, bumped
    <2> HIDE DEF end, n
    <2>4. /\ DOMAIN agents' = DOMAIN agents \cup {p}
          /\ agents'[p].expires = end /\ "expires" \in DOMAIN agents'[p]
          /\ \A q \in DOMAIN agents \ {p} : agents'[q] = agents[q]
      BY <1>1, <2>3
    <2>5. /\ DOMAIN agentUntil' = DOMAIN agentUntil \cup {p} /\ agentUntil'[p] = n
          /\ \A q \in DOMAIN agentUntil \ {p} : agentUntil'[q] = agentUntil[q]
      BY <2>3 DEF put
    <2>6. agents'[p].expires \in Nat /\ (agents'[p].expires >= n \/ agents'[p].expires = MaxTime)
      BY SMTT(30), <2>2, <2>4
    <2>7. AgentsIn(agents', agentUntil', now)
      BY <1>1, <2>2, <2>4, <2>5, <2>6 DEF AgentsIn
    <2> QED BY <1>1, <2>7 DEF OInv
  <1>3. CASE ~(ttl > 0)
    <2>1. /\ DOMAIN agents' = DOMAIN agents \ {p} /\ \A q \in DOMAIN agents' : agents'[q] = agents[q]
          /\ DOMAIN agentUntil' = DOMAIN agentUntil \ {p}
          /\ \A q \in DOMAIN agentUntil' : agentUntil'[q] = agentUntil[q]
      BY SMTT(30), <1>3 DEF updateTtl, without
    <2>2. AgentsIn(agents', agentUntil', now)
      BY SMTT(30), <1>1, <2>1 DEF AgentsIn
    <2> QED BY <1>1, <2>2 DEF OInv
  <1> QED BY <1>2, <1>3

(* A collection drops no agent that is promised.                             *)
LEMMA AgentsCollected ==
    ASSUME RepositoryAssumption, NEW as, NEW un, NEW t \in 0..LastTime, AgentsIn(as, un, t),
           NEW bs, NEW vn,
           DOMAIN bs = {p \in DOMAIN as : ~(t >= as[p].expires)}, \A p \in DOMAIN bs : bs[p] = as[p],
           DOMAIN vn \in SUBSET DOMAIN un, \A p \in DOMAIN vn : vn[p] = un[p]
    PROVE  AgentsIn(bs, vn, t)
  <1>1. LastTime \in Nat /\ MaxTime \in Nat /\ LastTime < MaxTime /\ t \in Nat /\ t < MaxTime
    BY DEF RepositoryAssumption
  <1>2. ASSUME NEW p \in DOMAIN vn, t < vn[p] PROVE p \in DOMAIN bs
    <2>1. /\ un[p] \in Nat /\ t < un[p] /\ p \in DOMAIN as /\ as[p].expires \in Nat
          /\ as[p].expires >= un[p] \/ as[p].expires = MaxTime
      BY Zenon, <1>2 DEF AgentsIn
    <2>2. ~(t >= as[p].expires)
      <3>1. PICK e \in Nat : e = as[p].expires
        BY Zenon, <2>1
      <3>2. PICK u \in Nat : u = un[p]
        BY <2>1
      <3>3. t < u /\ (e >= u \/ e = MaxTime)
        BY Zenon, <2>1, <3>1, <3>2
      <3>4. ~(t >= e)
        BY <1>1, <3>3
      <3> QED BY Zenon, <3>1, <3>4
    <2> QED BY Zenon, <2>1, <2>2
  <1> QED BY Zenon, <1>2 DEF AgentsIn

(* collectGarbage of the user agents.                                        *)
LEMMA CollectAgentsInv == ASSUME RepositoryAssumption, OInv, collectAgents PROVE OInv'
  <1>1. AgentsIn(agents, agentUntil, now) /\ now \in 0..LastTime
        /\ UNCHANGED <<protocols, told, now>>
    BY DEF OInv, collectAgents, addrVars, protocolVars
  <1>2. /\ DOMAIN agents' = {p \in DOMAIN agents : ~(now >= agents[p].expires)}
        /\ \A q \in DOMAIN agents' : agents'[q] = agents[q]
        /\ DOMAIN agentUntil' \in SUBSET DOMAIN agentUntil
        /\ \A q \in DOMAIN agentUntil' : agentUntil'[q] = agentUntil[q]
    BY SMTT(30) DEF collectAgents, without
  <1>3. AgentsIn(agents', agentUntil', now)
    BY SMTT(30), <1>1, <1>2, AgentsCollected
  <1> QED BY <1>1, <1>3 DEF OInv

(* What was promised for later is promised now.                              *)
LEMMA LaterAgents ==
    ASSUME NEW as, NEW un, NEW t \in Nat, AgentsIn(as, un, t), NEW s \in Nat, t <= s
    PROVE  AgentsIn(as, un, s)
  <1>1. ASSUME NEW p \in DOMAIN un, s < un[p] PROVE t < un[p]
    <2>1. un[p] \in Nat
      BY Zenon DEF AgentsIn
    <2> QED BY <1>1, <2>1
  <1> QED BY Zenon, <1>1 DEF AgentsIn

(* Of the operations on addresses only time concerns the agents.             *)
LEMMA OfAddressesInv == ASSUME RepositoryAssumption, OInv, ofAddresses PROVE OInv'
  <1>1. /\ now \in 0..LastTime /\ UNCHANGED <<protocols, told, agents, agentUntil>>
        /\ AgentsIn(agents, agentUntil, now)
    BY DEF OInv, ofAddresses, protocolVars, agentVars
  <1>2. now' \in 0..LastTime /\ now \in Nat /\ now' \in Nat /\ now <= now'
    <2>1. CASE now' = now
      BY <1>1, <2>1
    <2>2. CASE Tick
      BY <1>1, <2>2 DEF Tick, RepositoryAssumption
    <2>3. now' = now \/ Tick
      BY Zenon DEF ofAddresses, AddrNext, addAddresses, upsertAddresses, updateAddresses,
             dialFailed, clear, collectGarbage
    <2> QED BY <2>1, <2>2, <2>3
  <1>3. AgentsIn(agents, agentUntil, now')
    BY <1>1, <1>2, LaterAgents
  <1> QED BY <1>1, <1>2, <1>3 DEF OInv

(* Every operation of the repositories, one by one.                          *)
LEMMA ONext == ASSUME RepositoryAssumption, OInv, [StoreNext]_storeVars PROVE OInv'
  <1>1. ASSUME NEW p \in Peers, NEW names \in SUBSET Protocols, addProtocols(p, names) PROVE OInv'
    BY <1>1, AddProtocolsInv
  <1>2. ASSUME NEW p \in Peers, NEW names \in SUBSET Protocols, removeProtocols(p, names) PROVE OInv'
    BY <1>2, RemoveProtocolsInv
  <1>3. ASSUME NEW p \in Peers, clearProtocols(p) PROVE OInv'
    BY <1>3, RemoveProtocolsInv
  <1>4. ASSUME NEW p \in Peers, NEW ua \in Agents, NEW ttl \in Ttls, updateUserAgent(p, ua, ttl)
        PROVE  OInv'
    BY <1>4, AgentInv
  <1>5. ASSUME NEW p \in Peers, NEW ttl \in Ttls \cup {0}, updateTtl(p, ttl) PROVE OInv'
    BY <1>5, UpdateTtlInv
  <1>6. CASE collectProtocols
    BY <1>6, CollectProtocolsInv
  <1>7. CASE collectAgents
    BY <1>7, CollectAgentsInv
  <1>8. CASE ofAddresses
    BY SMTT(30), <1>8, OfAddressesInv
  <1>9. ASSUME NEW p \in Peers, NEW k, addPublicKey(p, k) \/ addKeyPair(k) \/ clearKeys(p)
        PROVE  OInv'
    BY <1>9 DEF OInv, addPublicKey, addKeyPair, clearKeys, addrVars, protocolVars, agentVars
  <1>10. ASSUME NEW k, addKeyPair(k) PROVE OInv'
    BY <1>10 DEF OInv, addKeyPair, addrVars, protocolVars, agentVars
  <1>11. CASE UNCHANGED storeVars
    BY SMTT(30), <1>11 DEF OInv, storeVars, addrVars, protocolVars, agentVars
  <1> QED BY <1>1, <1>2, <1>3, <1>4, <1>5, <1>6, <1>7, <1>8, <1>9, <1>10, <1>11 DEF StoreNext

(* What StoredWhole says of the repositories.                                *)
LEMMA OInvKept == ASSUME OInv PROVE ProtocolsKept /\ AgentKept
  BY ZenonT(30) DEF OInv, ProtocolsIn, AgentsIn, ProtocolsKept, AgentKept, setOf,
                    supportsProtocols

(* Where recv_identify and its stream are, and what was published.           *)
Answers == Messages \cup {NoMessage}

Exchange(o, r, s, a, D) ==
    /\ o \in [Peers -> Messages]
    /\ r \in [Conns -> {"none", "yielded", "reading", "answered", "done"}]
    /\ s \in [Conns -> {"none", "open", "reset"}]
    /\ a \in [Conns -> Answers]
    /\ D \in SUBSET Conns
    /\ \A c \in Conns :
        /\ r[c] \in {"none", "yielded"} => s[c] = "none"
        /\ r[c] = "answered" => a[c] \in Messages
        /\ r[c] = "done" => s[c] # "open"
        /\ c \in D => r[c] = "done" /\ a[c] \in Messages

(* How long recv_identify asks the repositories to keep a message.           *)
Span == RecentlyConnected * Ratio

(* The protocols of a peer are those of its published messages,              *)
Whole(ps, D, a) ==
    \A p \in Peers : \A x :
        x \in setOf(ps, p) <=> \E c \in D : PeerOf[c] = p /\ x \in a[c].protocols

(* its addresses come from them,                                             *)
Come(d, D, a) ==
    \A p \in Peers : \A x :
        x \in known(entry(d, p)) => \E c \in D : PeerOf[c] = p /\ x \in Range(a[c].listen)

(* and its agent from the last.                                              *)
Last(as, pub, a) ==
    \A p \in DOMAIN as \cap Peers : \E c \in DOMAIN pub :
        /\ PeerOf[c] = p /\ as[p].ua = a[c].agent
        /\ \A d \in DOMAIN pub : PeerOf[d] = p => pub[d] <= pub[c]

(* The repositories have promised to keep a message for Span.                *)
Due(pub, u, un, a, t) ==
    \A c \in DOMAIN pub :
        /\ pub[c] \in Nat /\ pub[c] <= t
        /\ t < pub[c] + Span =>
            /\ PeerOf[c] \in DOMAIN un /\ un[PeerOf[c]] >= pub[c] + Span
            /\ \A x \in Range(a[c].listen) :
                /\ <<PeerOf[c], x>> \in DOMAIN u
                /\ u[<<PeerOf[c], x>>] >= pub[c] + Span

(* The inductive invariant of the exchanges: the repositories are sound, and *)
(* hold what was published.                                                  *)
Held == AInv /\ ProtocolsIn(protocols, told) /\ AgentsIn(agents, agentUntil, now)

Heard ==
    /\ Whole(protocols, DOMAIN published, answer) /\ Come(db_, DOMAIN published, answer)
    /\ Last(agents, published, answer) /\ Due(published, until, agentUntil, answer, now)

IdInv == Held /\ Heard /\ Exchange(offers, recv, stream, answer, DOMAIN published)

(* The repositories as an exchange uses them.                                *)
IdStore == <<db_, now, seen, until, protocols, told, agents, agentUntil>>

(* Span is a number.                                                         *)
LEMMA SpanNat == ASSUME RepositoryAssumption, IdentifyAssumption PROVE Span \in Nat
  <1>1. RecentlyConnected \in Nat /\ Ratio \in Nat
    BY DEF RepositoryAssumption, IdentifyAssumption
  <1> QED BY <1>1 DEF Span

(* IdInv is what Identify promises.                                          *)
LEMMA HeardMeans ==
    ASSUME RepositoryAssumption, IdentifyAssumption, IdInv PROVE StoredWhole
  <1> SUFFICES ASSUME NEW p \in Peers
               PROVE  /\ setOf(protocols, p) = UNION {answer[c].protocols : c \in heard(p)}
                      /\ known(entry(db_, p)) \subseteq UNION {Range(answer[c].listen) : c \in heard(p)}
                      /\ p \in DOMAIN agents =>
                          \E c \in heard(p) : /\ agents[p].ua = answer[c].agent
                                              /\ \A d \in heard(p) : published[d] <= published[c]
                      /\ \A c \in heard(p) : now < published[c] + RecentlyConnected * Ratio =>
                          /\ p \in DOMAIN agents
                          /\ Range(answer[c].listen) \subseteq known(entry(db_, p))
    BY Zenon DEF StoredWhole
  <1>0. \A c : c \in heard(p) <=> c \in DOMAIN published /\ PeerOf[c] = p
    BY Zenon DEF heard
  <1>1. \A x : x \in setOf(protocols, p) <=> \E c \in heard(p) : x \in answer[c].protocols
    BY Zenon, <1>0 DEF IdInv, Heard, Whole
  <1>2. setOf(protocols, p) = UNION {answer[c].protocols : c \in heard(p)}
    BY Zenon, <1>1
  <1>3. \A x \in known(entry(db_, p)) : \E c \in heard(p) : x \in Range(answer[c].listen)
    BY Zenon, <1>0 DEF IdInv, Heard, Come
  <1>4. known(entry(db_, p)) \subseteq UNION {Range(answer[c].listen) : c \in heard(p)}
    BY Zenon, <1>3
  <1>5. p \in DOMAIN agents =>
          \E c \in heard(p) : /\ agents[p].ua = answer[c].agent
                              /\ \A d \in heard(p) : published[d] <= published[c]
    BY Zenon, <1>0 DEF IdInv, Heard, Last
  <1>6. ASSUME NEW c \in heard(p), now < published[c] + RecentlyConnected * Ratio
        PROVE  p \in DOMAIN agents /\ Range(answer[c].listen) \subseteq known(entry(db_, p))
    <2>1. c \in DOMAIN published /\ PeerOf[c] = p /\ now < published[c] + Span
      BY Zenon, <1>0, <1>6 DEF Span
    <2>2. /\ published[c] \in Nat /\ p \in DOMAIN agentUntil /\ agentUntil[p] >= published[c] + Span
          /\ \A x \in Range(answer[c].listen) :
              <<p, x>> \in DOMAIN until /\ until[<<p, x>>] >= published[c] + Span
      BY Zenon, <2>1 DEF IdInv, Heard, Due
    <2>3. Span \in Nat /\ now \in Nat
      <3>1. now \in 0..LastTime /\ Span \in Nat
        BY SpanNat, Zenon DEF IdInv, Held, AInv, AddrOK
      <3> QED BY <3>1 DEF RepositoryAssumption
    <2>4. agentUntil[p] \in Nat
      BY Zenon, <2>2 DEF IdInv, Held, AgentsIn
    <2>5. now < agentUntil[p]
      BY <2>1, <2>2, <2>3, <2>4
    <2>6. p \in DOMAIN agents
      BY Zenon, <2>2, <2>5 DEF IdInv, Held, AgentsIn
    <2>7. ASSUME NEW x \in Range(answer[c].listen) PROVE x \in known(entry(db_, p))
      <3>1. KeptIn(db_, now, until) /\ \A q \in DOMAIN db_ : EntryOK(db_[q])
        BY Zenon DEF IdInv, Held, AInv, AddrOK
      <3>2. <<p, x>> \in DOMAIN until /\ until[<<p, x>>] >= published[c] + Span
            /\ until[<<p, x>>] \in Nat /\ DOMAIN until \in SUBSET (Peers \X Addresses)
        BY Zenon, <2>2, <3>1 DEF KeptIn
      <3>3. now < until[<<p, x>>] /\ x \in Addresses
        <4>1. <<p, x>> \in Peers \X Addresses
          BY Zenon, <3>2
        <4>2. \A u, n \in Nat : now < n + Span /\ u >= n + Span => now < u
          BY <2>3
        <4> QED BY Zenon, <2>1, <2>2, <3>2, <4>1, <4>2
      <3>4. p \in DOMAIN db_ /\ x \in known(db_[p])
        BY Zenon, <3>1, <3>2, <3>3 DEF KeptIn
      <3> QED BY Zenon, <3>1, <3>4, EntryIs
    <2> QED BY Zenon, <2>6, <2>7
  <1> QED BY Zenon, <1>2, <1>4, <1>5, <1>6

(* What StoredWhole says of an exchange.                                     *)
LEMMA IdInvKept ==
    ASSUME RepositoryAssumption, IdentifyAssumption, IdInv
    PROVE  StoredWhole /\ StreamsReleased /\ ProtocolsKept /\ AgentKept
  <1>1. StoredWhole
    BY HeardMeans
  <1>2. StreamsReleased
    BY SMTT(30) DEF IdInv, Exchange, StreamsReleased
  <1>3. ProtocolsKept /\ AgentKept
    BY ZenonT(30) DEF IdInv, Held, ProtocolsIn, AgentsIn, ProtocolsKept, AgentKept, setOf,
                      supportsProtocols
  <1> QED BY <1>1, <1>2, <1>3

(* No exchange has begun.                                                    *)
LEMMA IdInit == RepositoryAssumption /\ Init => IdInv
  <1> SUFFICES ASSUME RepositoryAssumption, Init PROVE IdInv OBVIOUS
  <1>1. AInv
    BY AInit DEF Init
  <1>2. /\ protocols = << >> /\ told = [p \in Peers |-> {}]
        /\ agents = << >> /\ agentUntil = << >> /\ db_ = << >> /\ published = << >>
    BY DEF Init, StoreInit, AddrInit
  <1>3. DOMAIN protocols = {} /\ DOMAIN agentUntil = {} /\ DOMAIN agents = {}
        /\ DOMAIN db_ = {} /\ DOMAIN published = {}
    BY <1>2
  <1>4. Held
    BY SMTT(30), <1>1, <1>2, <1>3 DEF Held, ProtocolsIn, AgentsIn
  <1>5. \A p : known(entry(db_, p)) = {} /\ setOf(protocols, p) = {}
    BY <1>3, NoEntry DEF entry, setOf
  <1>6. Heard
    BY SMTT(30), <1>3, <1>5 DEF Heard, Whole, Come, Last, Due
  <1>7. Exchange(offers, recv, stream, answer, DOMAIN published)
    BY <1>3 DEF Init, Exchange, Answers
  <1> QED BY <1>4, <1>6, <1>7 DEF IdInv

(* A step that stores and publishes nothing, and leaves the messages that    *)
(* were published.                                                           *)
LEMMA SameHeard ==
    ASSUME Held, Heard, UNCHANGED IdStore, published' = published,
           \A c \in DOMAIN published : answer'[c] = answer[c]
    PROVE  Held' /\ Heard'
  <1>1. /\ UNCHANGED db_ /\ UNCHANGED now /\ UNCHANGED seen /\ UNCHANGED until
        /\ UNCHANGED protocols /\ UNCHANGED told /\ UNCHANGED agents /\ UNCHANGED agentUntil
    BY DEF IdStore
  <1>2. Held'
    BY Zenon, <1>1 DEF Held, AInv
  <1>3. Whole(protocols, DOMAIN published, answer')
    BY ZenonT(30) DEF Heard, Whole
  <1>4. Come(db_, DOMAIN published, answer')
    BY ZenonT(30) DEF Heard, Come
  <1>5. Last(agents, published, answer')
    BY ZenonT(30) DEF Heard, Last
  <1>6. Due(published, until, agentUntil, answer', now)
    BY ZenonT(30) DEF Heard, Due
  <1>7. Heard'
    BY Zenon, <1>1, <1>3, <1>4, <1>5, <1>6 DEF Heard
  <1> QED BY <1>2, <1>7

(* The remote changes what it would answer.                                  *)
LEMMA RemoteChangesInv ==
    ASSUME IdInv, NEW p \in Peers, NEW m \in Messages, RemoteChanges(p, m) PROVE IdInv'
  <1>1. /\ UNCHANGED IdStore /\ UNCHANGED <<recv, stream, answer, published>>
        /\ offers' \in [Peers -> Messages]
    BY DEF IdInv, Exchange, RemoteChanges, storeVars, addrVars, protocolVars, agentVars, IdStore
  <1>2. Exchange(offers', recv', stream', answer', DOMAIN published')
    BY SMTT(30), <1>1 DEF IdInv, Exchange
  <1> QED BY <1>1, <1>2, SameHeard DEF IdInv

(* A connection starts recv_identify.                                        *)
LEMMA OnConnectedInv == ASSUME IdInv, NEW c \in Conns, onConnected(c) PROVE IdInv'
  <1>1. /\ UNCHANGED IdStore /\ UNCHANGED <<offers, stream, answer, published>>
        /\ recv[c] = "none" /\ recv' = [recv EXCEPT ![c] = "yielded"]
    BY SMTT(30) DEF onConnected, storeVars, addrVars, protocolVars, agentVars, IdStore
  <1>2. Exchange(offers', recv', stream', answer', DOMAIN published')
    BY SMTT(30), <1>1 DEF IdInv, Exchange
  <1> QED BY <1>1, <1>2, SameHeard DEF IdInv

(* newStream.                                                                *)
LEMMA NewStreamInv ==
    ASSUME IdInv, NEW c \in Conns, NEW ok \in BOOLEAN, newStream(c, ok) PROVE IdInv'
  <1>1. /\ UNCHANGED IdStore /\ UNCHANGED <<offers, answer, published>>
        /\ recv[c] = "yielded" /\ recv' = [recv EXCEPT ![c] = IF ok THEN "reading" ELSE "done"]
        /\ stream' = [stream EXCEPT ![c] = IF ok THEN "open" ELSE @]
    BY SMTT(30) DEF newStream, storeVars, addrVars, protocolVars, agentVars, IdStore
  <1>2. Exchange(offers', recv', stream', answer', DOMAIN published')
    BY SMTT(30), <1>1 DEF IdInv, Exchange
  <1> QED BY <1>1, <1>2, SameHeard DEF IdInv

(* The read fails.                                                           *)
LEMMA ReadFailsInv == ASSUME IdInv, NEW c \in Conns, readFails(c) PROVE IdInv'
  <1>1. /\ UNCHANGED IdStore /\ UNCHANGED <<offers, answer, published>>
        /\ recv' = [recv EXCEPT ![c] = "done"] /\ stream' = [stream EXCEPT ![c] = "reset"]
    BY SMTT(30) DEF readFails, released, storeVars, addrVars, protocolVars, agentVars, IdStore
  <1>2. Exchange(offers', recv', stream', answer', DOMAIN published')
    BY SMTT(30), <1>1 DEF IdInv, Exchange
  <1> QED BY <1>1, <1>2, SameHeard DEF IdInv

(* The remote answers; the message of a published exchange stays.            *)
LEMMA HandleInv ==
    ASSUME IdentifyAssumption, IdInv, NEW c \in Conns, handle(c) PROVE IdInv'
  <1>1. /\ UNCHANGED IdStore /\ UNCHANGED <<offers, stream, published>>
        /\ recv[c] = "reading" /\ recv' = [recv EXCEPT ![c] = "answered"]
        /\ answer' = [answer EXCEPT ![c] = offers[PeerOf[c]]]
    BY DEF handle, storeVars, addrVars, protocolVars, agentVars, IdStore
  <1>2. offers[PeerOf[c]] \in Messages /\ c \notin DOMAIN published
    BY SMTT(30), <1>1 DEF IdInv, Exchange, IdentifyAssumption
  <1>3. Exchange(offers', recv', stream', answer', DOMAIN published')
    BY SMTT(30), <1>1, <1>2 DEF IdInv, Exchange, Answers
  <1>4. \A d \in DOMAIN published : answer'[d] = answer[d]
    BY SMTT(30), <1>1, <1>2 DEF IdInv, Exchange
  <1> QED BY <1>1, <1>3, <1>4, SameHeard DEF IdInv

(* One more message is published: its protocols are added to the peer's.     *)
LEMMA PublishedWhole ==
    ASSUME NEW ps, NEW D, NEW a, Whole(ps, D, a), NEW c \in Conns, PeerOf[c] \in Peers,
           NEW qs, setOf(qs, PeerOf[c]) = setOf(ps, PeerOf[c]) \cup a[c].protocols,
           \A q \in Peers \ {PeerOf[c]} : setOf(qs, q) = setOf(ps, q)
    PROVE  Whole(qs, D \cup {c}, a)
  <1> SUFFICES ASSUME NEW p \in Peers, NEW x
               PROVE  x \in setOf(qs, p) <=>
                        \E k \in D \cup {c} : PeerOf[k] = p /\ x \in a[k].protocols
    BY Zenon DEF Whole
  <1>1. x \in setOf(ps, p) <=> \E k \in D : PeerOf[k] = p /\ x \in a[k].protocols
    BY Zenon DEF Whole
  <1>2. CASE p = PeerOf[c]
    BY <1>1, <1>2, ZenonT(30)
  <1>3. CASE p # PeerOf[c]
    BY <1>1, <1>3, ZenonT(30)
  <1> QED BY <1>2, <1>3

(* Its addresses join those of the peer.                                     *)
LEMMA PublishedCome ==
    ASSUME NEW d, NEW D, NEW a, Come(d, D, a), NEW c, NEW e,
           known(entry(e, PeerOf[c])) = known(entry(d, PeerOf[c])) \cup Range(a[c].listen),
           \A q \in Peers \ {PeerOf[c]} : entry(e, q) = entry(d, q)
    PROVE  Come(e, D \cup {c}, a)
  <1> SUFFICES ASSUME NEW p \in Peers, NEW x \in known(entry(e, p))
               PROVE  \E k \in D \cup {c} : PeerOf[k] = p /\ x \in Range(a[k].listen)
    BY Zenon DEF Come
  <1>1. x \in known(entry(d, p)) => \E k \in D : PeerOf[k] = p /\ x \in Range(a[k].listen)
    BY Zenon DEF Come
  <1>2. CASE p = PeerOf[c]
    BY <1>1, <1>2, ZenonT(30)
  <1>3. CASE p # PeerOf[c]
    BY <1>1, <1>3, ZenonT(30)
  <1> QED BY <1>2, <1>3

(* pub with one more exchange, published at t.                               *)
OneMore(pub, c, t, more) ==
    /\ DOMAIN more = DOMAIN pub \cup {c} /\ more[c] = t /\ c \notin DOMAIN pub
    /\ \A k \in DOMAIN pub : more[k] = pub[k]

(* Its agent is the last.                                                    *)
LEMMA PublishedLast ==
    ASSUME NEW as, NEW pub, NEW a, Last(as, pub, a), NEW c, NEW t \in Nat, NEW more,
           OneMore(pub, c, t, more), \A k \in DOMAIN pub : pub[k] <= t,
           NEW bs, DOMAIN bs = DOMAIN as \cup {PeerOf[c]}, bs[PeerOf[c]].ua = a[c].agent,
           \A q \in DOMAIN as \ {PeerOf[c]} : bs[q] = as[q]
    PROVE  Last(bs, more, a)
  <1> SUFFICES ASSUME NEW p \in DOMAIN bs \cap Peers
               PROVE  \E k \in DOMAIN more :
                        /\ PeerOf[k] = p /\ bs[p].ua = a[k].agent
                        /\ \A d \in DOMAIN more : PeerOf[d] = p => more[d] <= more[k]
    BY Zenon DEF Last
  <1>1. CASE p = PeerOf[c]
    <2>1. \A d \in DOMAIN more : more[d] <= more[c]
      <3>1. t <= t
        OBVIOUS
      <3> QED BY <3>1, Zenon DEF OneMore
    <2> QED BY <1>1, <2>1, Zenon DEF OneMore
  <1>2. CASE p # PeerOf[c]
    <2>1. p \in DOMAIN as \cap Peers /\ bs[p] = as[p]
      BY <1>2, Zenon
    <2>2. PICK k \in DOMAIN pub :
            /\ PeerOf[k] = p /\ as[p].ua = a[k].agent
            /\ \A d \in DOMAIN pub : PeerOf[d] = p => pub[d] <= pub[k]
      BY <2>1, Zenon DEF Last
    <2>3. \A d \in DOMAIN more : PeerOf[d] = p => more[d] <= more[k]
      BY <1>2, <2>2, Zenon DEF OneMore
    <2> QED BY <2>1, <2>2, <2>3, Zenon DEF OneMore
  <1> QED BY <1>1, <1>2, Zenon

(* And it is promised for Span,                                              *)
ForSpan(u, un, p, A, n, v, vn) ==
    /\ DOMAIN v = DOMAIN u \cup Pairs(p, A)
    /\ \A w \in DOMAIN v : v[w] = IF w \in Pairs(p, A) THEN n ELSE u[w]
    /\ DOMAIN vn = DOMAIN un \cup {p} /\ vn[p] = n
    /\ \A q \in DOMAIN un \ {p} : vn[q] = un[q]

(* which ends no earlier than for those before.                              *)
LEMMA PublishedDue ==
    ASSUME NEW pub, NEW u, NEW un, NEW a, NEW t \in Nat, Due(pub, u, un, a, t), Span \in Nat,
           NEW c, NEW more, OneMore(pub, c, t, more), NEW v, NEW vn,
           ForSpan(u, un, PeerOf[c], Range(a[c].listen), t + Span, v, vn)
    PROVE  Due(more, v, vn, a, t)
  <1> DEFINE A == Pairs(PeerOf[c], Range(a[c].listen))
  <1>0. /\ DOMAIN v = DOMAIN u \cup A
        /\ \A w \in DOMAIN v : v[w] = IF w \in A THEN t + Span ELSE u[w]
        /\ DOMAIN vn = DOMAIN un \cup {PeerOf[c]} /\ vn[PeerOf[c]] = t + Span
        /\ \A q \in DOMAIN un \ {PeerOf[c]} : vn[q] = un[q]
    BY Zenon DEF ForSpan
  <1>1. /\ t \in Nat /\ t <= t /\ t + Span >= t + Span
        /\ \A n \in Nat : n <= t => t + Span >= n + Span
    OBVIOUS
  <1>2. ASSUME NEW k \in DOMAIN more
        PROVE  /\ more[k] \in Nat /\ more[k] <= t
               /\ t < more[k] + Span =>
                   /\ PeerOf[k] \in DOMAIN vn /\ vn[PeerOf[k]] >= more[k] + Span
                   /\ \A x \in Range(a[k].listen) :
                       /\ <<PeerOf[k], x>> \in DOMAIN v
                       /\ v[<<PeerOf[k], x>>] >= more[k] + Span
    <2>1. CASE k = c
      <3>1. \A x \in Range(a[c].listen) : <<PeerOf[c], x>> \in A
        BY PairIn, Zenon
      <3> HIDE DEF A
      <3> QED BY <1>0, <1>1, <2>1, <3>1, Zenon DEF OneMore
    <2>2. CASE k # c
      <3>1. /\ k \in DOMAIN pub /\ more[k] = pub[k] /\ pub[k] \in Nat /\ pub[k] <= t
            /\ t + Span >= pub[k] + Span
        BY <1>1, <2>2, Zenon DEF OneMore, Due
      <3>2. ASSUME t < more[k] + Span
            PROVE  /\ PeerOf[k] \in DOMAIN vn /\ vn[PeerOf[k]] >= more[k] + Span
                   /\ \A x \in Range(a[k].listen) :
                       /\ <<PeerOf[k], x>> \in DOMAIN v
                       /\ v[<<PeerOf[k], x>>] >= more[k] + Span
        <4>1. /\ PeerOf[k] \in DOMAIN un /\ un[PeerOf[k]] >= pub[k] + Span
              /\ \A x \in Range(a[k].listen) :
                  <<PeerOf[k], x>> \in DOMAIN u /\ u[<<PeerOf[k], x>>] >= pub[k] + Span
          BY <3>1, <3>2, Zenon DEF Due
        <4> HIDE DEF A
        <4>2. PeerOf[k] \in DOMAIN vn /\ vn[PeerOf[k]] >= more[k] + Span
          BY <1>0, <3>1, <4>1, Zenon
        <4>3. ASSUME NEW x \in Range(a[k].listen)
              PROVE  <<PeerOf[k], x>> \in DOMAIN v /\ v[<<PeerOf[k], x>>] >= more[k] + Span
          BY <1>0, <3>1, <4>1, Zenon
        <4> QED BY <4>2, <4>3
      <3> QED BY <3>1, <3>2, Zenon
    <2> QED BY <2>1, <2>2
  <1> QED BY <1>2, Zenon DEF Due

(* recv_identify stores all parts of the message, or none.                   *)
LEMMA StoreInv ==
    ASSUME RepositoryAssumption, IdentifyAssumption, IdInv, NEW c \in Conns, recv_identify(c)
    PROVE  IdInv'
  <1>1. /\ PeerOf[c] \in Peers /\ recv[c] = "answered" /\ recv' = [recv EXCEPT ![c] = "done"]
        /\ stream' = [stream EXCEPT ![c] = "reset"] /\ UNCHANGED <<offers, answer>>
        /\ answer[c] \in Messages /\ RecentlyConnected \in Ttls /\ c \notin DOMAIN published
    <2>1. recv[c] = "answered" /\ c \notin DOMAIN published
      <3>1. recv[c] = "answered"
        BY Zenon DEF recv_identify
      <3>2. c \in DOMAIN published => recv[c] = "done"
        BY Zenon DEF IdInv, Exchange
      <3> QED BY <3>1, <3>2
    <2> QED BY Zenon, <2>1 DEF recv_identify, released, IdentifyAssumption, IdInv, Exchange
  <1>2. CASE answer[c].badAddress
    <2>1. UNCHANGED IdStore /\ UNCHANGED published
      BY Zenon, <1>2 DEF recv_identify, storeBad, addrVars, agentVars, IdStore
    <2>2. Exchange(offers', recv', stream', answer', DOMAIN published')
      BY SMTT(30), <1>1, <2>1 DEF IdInv, Exchange
    <2> QED BY <1>1, <2>1, <2>2, SameHeard DEF IdInv
  <1>3. CASE ~answer[c].badAddress
    <2> DEFINE p == PeerOf[c]
               names == answer[c].protocols
               listen == answer[c].listen
               Q == setOf(protocols, p) \cup names
               end == calculateExpirationTime(now, RecentlyConnected)
               n == now + RecentlyConnected * Ratio
    <2>1. /\ protocols' = put(protocols, p, Q)
          /\ told' = [told EXCEPT ![p] = @ \cup names] /\ published' = put(published, c, now)
          /\ agents' = put(agents, p, [ua |-> answer[c].agent, expires |-> end])
          /\ agentUntil' = put(agentUntil, p, n)
          /\ upsertAddresses(p, listen, RecentlyConnected)
      BY ZenonT(30), <1>3 DEF recv_identify, withProtocols, withAgent
    <2>2. AInv' /\ now' = now
      <3>1. listen \in Lists
        BY <1>1 DEF Messages
      <3>2. AInv
        BY DEF IdInv, Held
      <3> QED BY <1>1, <2>1, <3>1, <3>2, UpsertInv, Zenon DEF upsertAddresses
    <2>3. ProtocolsIn(protocols, told) /\ told[p] = setOf(protocols, p)
          /\ Q \in SUBSET Protocols /\ p \in Peers
      BY ZenonT(30), <1>1 DEF IdInv, Held, ProtocolsIn, setOf, Messages
    <2>4. /\ AgentsIn(agents, agentUntil, now) /\ now \in 0..LastTime
          /\ end \in Nat /\ (end >= n \/ end = MaxTime) /\ n \in Nat
      BY ZenonT(30), <1>1, Expiration, Promise DEF IdInv, Held, AInv, AddrOK
    <2>5. told' = [told EXCEPT ![p] = Q]
      BY ZenonT(30), <2>1, <2>3
    <2>6. /\ DOMAIN protocols' = DOMAIN protocols \cup {p} /\ protocols'[p] = Q
          /\ \A q \in DOMAIN protocols \ {p} : protocols'[q] = protocols[q]
      BY Zenon, <2>1 DEF put
    <2>7. OneMore(published, c, now, published')
      BY Zenon, <1>1, <2>1 DEF put, OneMore
    <2>8. Exchange(offers', recv', stream', answer', DOMAIN published')
      BY SMTT(30), <1>1, <2>7 DEF IdInv, Exchange, OneMore
    <2>9. Whole(protocols', DOMAIN published', answer)
      <3>1. /\ setOf(protocols', PeerOf[c]) = setOf(protocols, PeerOf[c]) \cup answer[c].protocols
            /\ \A q \in Peers \ {PeerOf[c]} : setOf(protocols', q) = setOf(protocols, q)
        <4>1. setOf(protocols', p) = Q
          BY Zenon, <2>6 DEF setOf
        <4>2. \A q \in Peers \ {p} : setOf(protocols', q) = setOf(protocols, q)
          BY Zenon, <2>6 DEF setOf
        <4> QED BY Zenon, <4>1, <4>2
      <3>2. Whole(protocols, DOMAIN published, answer)
        BY DEF IdInv, Heard
      <3>3. Whole(protocols', DOMAIN published \cup {c}, answer)
        BY <1>1, <3>1, <3>2, PublishedWhole
      <3> QED BY Zenon, <2>7, <3>3 DEF OneMore
    <2>10. Come(db_', DOMAIN published', answer)
      <3> DEFINE x == upserted(entry(db_, p), listen, end)
      <3>1. listen \in Lists /\ EntryOK(entry(db_, p))
        BY <1>1, EntryIs DEF Messages, IdInv, Held, AInv, AddrOK
      <3>3. db_' = put(db_, p, x) /\ end \in Nat
        BY Zenon, <2>1, <2>4 DEF upsertAddresses
      <3> HIDE DEF p, listen, end
      <3>2. known(x) = known(entry(db_, p)) \cup Range(listen)
        BY SMTT(30), <3>1, <3>3, UpsertedEntry
      <3> HIDE DEF x
      <3>4. entry(db_', p) = x /\ \A q \in Peers \ {p} : entry(db_', q) = entry(db_, q)
        BY Zenon, <3>3 DEF entry, put
      <3>5. /\ known(entry(db_', PeerOf[c])) = known(entry(db_, PeerOf[c])) \cup Range(answer[c].listen)
            /\ \A q \in Peers \ {PeerOf[c]} : entry(db_', q) = entry(db_, q)
        BY Zenon, <3>2, <3>4 DEF p, listen
      <3>6. Come(db_, DOMAIN published, answer)
        BY DEF IdInv, Heard
      <3>7. Come(db_', DOMAIN published \cup {c}, answer)
        BY Zenon, <3>5, <3>6, PublishedCome
      <3> QED BY Zenon, <2>7, <3>7 DEF OneMore
    <2>11. /\ DOMAIN agents' = DOMAIN agents \cup {p} /\ agents'[p].ua = answer[c].agent
           /\ agents'[p].expires = end /\ "expires" \in DOMAIN agents'[p]
           /\ \A q \in DOMAIN agents \ {p} : agents'[q] = agents[q]
      BY <2>1 DEF put
    <2>12. /\ DOMAIN agentUntil' = DOMAIN agentUntil \cup {p} /\ agentUntil'[p] = n
           /\ \A q \in DOMAIN agentUntil \ {p} : agentUntil'[q] = agentUntil[q]
      BY Zenon, <2>1 DEF put
    <2>13. Last(agents', published', answer)
      <3>0. now \in Nat
        BY <2>4 DEF RepositoryAssumption
      <3>1. now \in Nat /\ \A k \in DOMAIN published : published[k] <= now
        BY Zenon, <3>0 DEF IdInv, Heard, Due
      <3>2. Last(agents, published, answer)
        BY DEF IdInv, Heard
      <3> QED BY <2>7, <2>11, <3>1, <3>2, PublishedLast, Zenon
    <2>14. Due(published', until', agentUntil', answer, now)
      <3> DEFINE A == Pairs(PeerOf[c], Range(answer[c].listen))
      <3>0. now \in Nat
        BY <2>4 DEF RepositoryAssumption
      <3>1. Due(published, until, agentUntil, answer, now) /\ Span \in Nat /\ now \in Nat
            /\ n = now + Span
        BY Zenon, <3>0, SpanNat DEF IdInv, Heard, Span
      <3>2. until' = [w \in DOMAIN until \cup A |-> IF w \in A THEN n ELSE until[w]]
        BY Zenon, <2>1 DEF upsertAddresses, promised
      <3> HIDE DEF n, A
      <3>3. /\ DOMAIN until' = DOMAIN until \cup A
            /\ \A w \in DOMAIN until' : until'[w] = IF w \in A THEN n ELSE until[w]
        BY Zenon, <3>2
      <3>4. ForSpan(until, agentUntil, PeerOf[c], Range(answer[c].listen), n, until', agentUntil')
        BY Zenon, <2>12, <3>3 DEF ForSpan, A
      <3>5. ForSpan(until, agentUntil, PeerOf[c], Range(answer[c].listen), now + Span,
                    until', agentUntil')
        BY Zenon, <3>1, <3>4
      <3> HIDE DEF p
      <3> QED BY Zenon, <2>7, <3>1, <3>5, PublishedDue
    <2> HIDE DEF Q, end, n, p
    <2>15. ProtocolsIn(protocols', told')
      BY ZenonT(30), <2>3, <2>5, <2>6, ProtocolsChange
    <2>16. AgentsIn(agents', agentUntil', now)
      BY <2>4, <2>11, <2>12, SMTT(30) DEF AgentsIn
    <2>17. Held' /\ Heard'
      BY Zenon, <1>1, <2>2, <2>9, <2>10, <2>13, <2>14, <2>15, <2>16 DEF Held, Heard
    <2> QED BY Zenon, <2>8, <2>17 DEF IdInv
  <1> QED BY <1>2, <1>3

(* A message stays promised when only what has ended is dropped.             *)
LEMMA LaterDue ==
    ASSUME NEW pub, NEW u, NEW un, NEW a, NEW t \in Nat, Due(pub, u, un, a, t), Span \in Nat,
           \A x \in DOMAIN u : u[x] \in Nat, \A x \in DOMAIN un : un[x] \in Nat,
           NEW s \in Nat, t <= s,
           NEW v, \A x \in DOMAIN u : u[x] > s => x \in DOMAIN v /\ v[x] = u[x],
           NEW vn, \A x \in DOMAIN un : un[x] > s => x \in DOMAIN vn /\ vn[x] = un[x]
    PROVE  Due(pub, v, vn, a, s)
  <1>1. /\ \A n \in Nat : n <= t => n <= s
        /\ \A n \in Nat : s < n + Span => t < n + Span
        /\ \A n, k \in Nat : s < n + Span /\ k >= n + Span => k > s
    OBVIOUS
  <1> SUFFICES ASSUME NEW c \in DOMAIN pub
               PROVE  /\ pub[c] \in Nat /\ pub[c] <= s
                      /\ s < pub[c] + Span =>
                          /\ PeerOf[c] \in DOMAIN vn /\ vn[PeerOf[c]] >= pub[c] + Span
                          /\ \A x \in Range(a[c].listen) :
                              /\ <<PeerOf[c], x>> \in DOMAIN v
                              /\ v[<<PeerOf[c], x>>] >= pub[c] + Span
    BY Zenon DEF Due
  <1>2. pub[c] \in Nat /\ pub[c] <= s
    BY Zenon, <1>1 DEF Due
  <1>3. ASSUME s < pub[c] + Span
        PROVE  /\ PeerOf[c] \in DOMAIN vn /\ vn[PeerOf[c]] >= pub[c] + Span
               /\ \A x \in Range(a[c].listen) :
                   <<PeerOf[c], x>> \in DOMAIN v /\ v[<<PeerOf[c], x>>] >= pub[c] + Span
    <2>1. /\ PeerOf[c] \in DOMAIN un /\ un[PeerOf[c]] >= pub[c] + Span
          /\ \A x \in Range(a[c].listen) :
              <<PeerOf[c], x>> \in DOMAIN u /\ u[<<PeerOf[c], x>>] >= pub[c] + Span
      BY Zenon, <1>1, <1>2, <1>3 DEF Due
    <2>2. PeerOf[c] \in DOMAIN vn /\ vn[PeerOf[c]] >= pub[c] + Span
      BY Zenon, <1>1, <1>2, <1>3, <2>1
    <2>3. ASSUME NEW x \in Range(a[c].listen)
          PROVE  <<PeerOf[c], x>> \in DOMAIN v /\ v[<<PeerOf[c], x>>] >= pub[c] + Span
      BY Zenon, <1>1, <1>2, <1>3, <2>1
    <2> QED BY <2>2, <2>3
  <1> QED BY <1>2, <1>3, Zenon

(* Collections and time.                                                     *)
LEMMA ExpireInv ==
    ASSUME RepositoryAssumption, IdentifyAssumption, IdInv, Expire PROVE IdInv'
  <1>1. /\ UNCHANGED <<offers, recv, stream, answer, published>>
        /\ AgentsIn(agents, agentUntil, now) /\ now \in 0..LastTime /\ AInv
        /\ ProtocolsIn(protocols, told) /\ Whole(protocols, DOMAIN published, answer)
        /\ Come(db_, DOMAIN published, answer) /\ Last(agents, published, answer)
        /\ Due(published, until, agentUntil, answer, now)
    BY Zenon DEF IdInv, Held, Heard, AInv, AddrOK, Expire, exchangeVars
  <1>2. /\ now \in Nat /\ Span \in Nat /\ \A x \in DOMAIN until : until[x] \in Nat
        /\ \A x \in DOMAIN agentUntil : agentUntil[x] \in Nat
    <2>1. now \in Nat /\ Span \in Nat
      <3>1. now \in 0..LastTime /\ Span \in Nat
        BY Zenon, <1>1, SpanNat
      <3> QED BY <3>1 DEF RepositoryAssumption
    <2> QED BY Zenon, <1>1, <2>1 DEF AgentsIn, AInv, AddrOK, KeptIn
  <1>3. Exchange(offers', recv', stream', answer', DOMAIN published')
    BY Zenon, <1>1 DEF IdInv
  <1>4. CASE collectGarbage /\ UNCHANGED <<keyVars, protocolVars, agentVars>>
    <2>1. UNCHANGED <<now, protocols, told, agents, agentUntil>>
      BY <1>4 DEF collectGarbage, protocolVars, agentVars
    <2>2. AInv'
      BY <1>1, <1>4, CollectInv
    <2>3. Come(db_', DOMAIN published, answer)
      <3>1. \A p \in DOMAIN db_' : p \in DOMAIN db_ /\ known(db_'[p]) \subseteq known(db_[p])
        BY <1>4, Zenon DEF collectGarbage, nonEmpty, unexpired, known
      <3>2. \A p : known(entry(db_', p)) \subseteq known(entry(db_, p))
        BY <3>1, NoEntry, Zenon DEF entry
      <3> QED BY <1>1, <3>2, Zenon DEF Come
    <2>4. Due(published, until', agentUntil, answer, now)
      <3>1. \A x \in DOMAIN until : until[x] > now => x \in DOMAIN until' /\ until'[x] = until[x]
        BY <1>4, Zenon DEF collectGarbage
      <3>2. now <= now
        BY <1>2
      <3> QED BY <1>1, <1>2, <3>1, <3>2, LaterDue
    <2> QED BY Zenon, <1>1, <1>3, <2>1, <2>2, <2>3, <2>4 DEF IdInv, Held, Heard
  <1>5. CASE collectProtocols
    <2>1. UNCHANGED <<db_, now, seen, until, told, agents, agentUntil>>
      BY <1>5 DEF collectProtocols, addrVars, agentVars
    <2>2. /\ DOMAIN protocols' \in SUBSET DOMAIN protocols
          /\ \A q \in DOMAIN protocols' : protocols'[q] = protocols[q]
          /\ \A q \in DOMAIN protocols : q \in DOMAIN protocols' \/ protocols[q] = {}
      BY <1>5, Zenon DEF collectProtocols, withAny
    <2>3. \A p : setOf(protocols', p) = setOf(protocols, p)
      BY <2>2, Zenon DEF setOf
    <2>4. Whole(protocols', DOMAIN published, answer)
      BY <1>1, <2>3, Zenon DEF Whole
    <2>5. ProtocolsIn(protocols', told)
      BY <1>1, <2>2, ZenonT(30) DEF ProtocolsIn
    <2> QED BY Zenon, <1>1, <1>3, <2>1, <2>4, <2>5 DEF IdInv, Held, Heard, AInv
  <1>6. CASE collectAgents
    <2>1. /\ DOMAIN agents' = {p \in DOMAIN agents : ~(now >= agents[p].expires)}
          /\ \A q \in DOMAIN agents' : agents'[q] = agents[q]
          /\ DOMAIN agentUntil' = {p \in DOMAIN agentUntil : ~(now >= agentUntil[p])}
          /\ \A q \in DOMAIN agentUntil' : agentUntil'[q] = agentUntil[q]
          /\ UNCHANGED <<db_, now, seen, until, protocols, told>>
      BY <1>6 DEF collectAgents, without, addrVars, protocolVars
    <2>2. AgentsIn(agents', agentUntil', now)
      <3>1. /\ AgentsIn(agents, agentUntil, now) /\ now \in 0..LastTime
            /\ DOMAIN agentUntil' \in SUBSET DOMAIN agentUntil
        BY Zenon, <1>1, <2>1
      <3> QED BY SMTT(30), <2>1, <3>1, AgentsCollected
    <2>3. Last(agents', published, answer)
      BY <1>1, <2>1, Zenon DEF Last
    <2>4. Due(published, until, agentUntil', answer, now)
      <3>1. \A x \in DOMAIN agentUntil :
              agentUntil[x] > now => x \in DOMAIN agentUntil' /\ agentUntil'[x] = agentUntil[x]
        BY <1>2, <2>1
      <3>2. now <= now
        BY <1>2
      <3> QED BY <1>1, <1>2, <3>1, <3>2, LaterDue
    <2> QED BY Zenon, <1>1, <1>3, <2>1, <2>2, <2>3, <2>4 DEF IdInv, Held, Heard, AInv
  <1>7. CASE Clock
    <2>1. /\ now' \in 0..LastTime /\ now' \in Nat /\ now <= now'
          /\ UNCHANGED <<db_, until, protocols, told, agents, agentUntil>> /\ Tick
      BY <1>1, <1>7 DEF Clock, Tick, protocolVars, agentVars, RepositoryAssumption
    <2>2. AInv'
      BY <1>1, <2>1, TickInv
    <2>3. AgentsIn(agents, agentUntil, now')
      BY SMTT(30), <1>1, <1>2, <2>1, LaterAgents
    <2>4. Due(published, until, agentUntil, answer, now')
      BY <1>1, <1>2, <2>1, LaterDue
    <2> QED BY Zenon, <1>1, <1>3, <2>1, <2>2, <2>3, <2>4 DEF IdInv, Held, Heard
  <1> QED BY Zenon, <1>4, <1>5, <1>6, <1>7 DEF Expire

(* Every step of an exchange, one by one.                                    *)
LEMMA IdNext ==
    ASSUME RepositoryAssumption, IdentifyAssumption, IdInv, [Next]_vars PROVE IdInv'
  <1>1. ASSUME NEW p \in Peers, NEW m \in Messages, RemoteChanges(p, m) PROVE IdInv'
    BY <1>1, RemoteChangesInv
  <1>2. ASSUME NEW c \in Conns, onConnected(c) PROVE IdInv'
    BY <1>2, OnConnectedInv
  <1>3. ASSUME NEW c \in Conns, handle(c) PROVE IdInv'
    BY <1>3, HandleInv
  <1>4. ASSUME NEW c \in Conns, recv_identify(c) PROVE IdInv'
    BY <1>4, StoreInv
  <1>5. ASSUME NEW c \in Conns, readFails(c) PROVE IdInv'
    BY <1>5, ReadFailsInv
  <1>6. ASSUME NEW c \in Conns, NEW ok \in BOOLEAN, newStream(c, ok) PROVE IdInv'
    BY <1>6, NewStreamInv
  <1>7. CASE Expire
    BY SMTT(30), <1>7, ExpireInv
  <1>8. CASE UNCHANGED vars
    <2>1. UNCHANGED IdStore /\ UNCHANGED <<offers, recv, stream, answer, published>>
      BY <1>8 DEF vars, storeVars, addrVars, protocolVars, agentVars, exchangeVars, IdStore
    <2> QED BY <2>1, SameHeard DEF IdInv
  <1> QED BY SMTT(30), <1>1, <1>2, <1>3, <1>4, <1>5, <1>6, <1>7, <1>8 DEF Next

(* No protocol and no user agent is lost or made up by the repositories,     *)
(* whatever order their operations, collections and ticks of the clock come  *)
(* in.                                                                       *)
THEOREM StoreAlwaysKept ==
    ASSUME RepositoryAssumption PROVE StoreSpec => [](ProtocolsKept /\ AgentKept)
  <1>1. StoreInit => OInv
    BY OInit
  <1>2. OInv /\ [StoreNext]_storeVars => OInv'
    BY ONext
  <1>3. OInv => ProtocolsKept /\ AgentKept
    BY OInvKept
  <1> QED BY <1>1, <1>2, <1>3, PTL DEF StoreSpec

(* recv_identify stores a message as a whole or not at all and resets its    *)
(* stream, for any connections and messages, whatever changes or fails in    *)
(* between, and the repositories keep what it stores.                        *)
THEOREM IdentifyAlwaysWhole ==
    ASSUME RepositoryAssumption, IdentifyAssumption
    PROVE  Spec => [](StoredWhole /\ StreamsReleased /\ ProtocolsKept /\ AgentKept)
  <1>1. Init => IdInv
    BY IdInit
  <1>2. IdInv /\ [Next]_vars => IdInv'
    BY IdNext
  <1>3. IdInv => StoredWhole /\ StreamsReleased /\ ProtocolsKept /\ AgentKept
    BY IdInvKept
  <1> QED BY <1>1, <1>2, <1>3, PTL DEF Spec
=============================================================================
