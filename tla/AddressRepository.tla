-------------------------- MODULE AddressRepository --------------------------
(* The addresses known of the peers, with their time to live.  A clock value *)
(* is a signed integer whose largest value is MaxTime, as the 64 bits of     *)
(* std::chrono, and a millisecond is Ratio of its ticks.                     *)
EXTENDS Integers, FiniteSets, Sequences, Functions

CONSTANTS
    Peers, Addresses,
    MaxTime, Ratio,
    Ttls,              \* milliseconds
    Jump, LastTime     \* the clock advances by Jump, up to LastTime

(* A time to live fits in the clock, or is kPermanent, the largest number of *)
(* milliseconds; the number of ticks in one is even.                         *)
RepositoryAssumption ==
    /\ \E w \in 1..63 : MaxTime = 2^w - 1
    /\ MaxTime \in Nat \ {0} /\ Ratio \in 1..MaxTime /\ Ratio % 2 = 0
    /\ Ttls \subseteq {ttl \in 1..MaxTime : ttl * Ratio <= MaxTime \/ ttl = MaxTime}
    /\ Jump \in Nat \ {0} /\ LastTime \in 0..(MaxTime - 1)

VARIABLES
    db_,               \* peer -> its addresses in order, and when they expire
    now,               \* Clock::now()
    seen,              \* the addresses a listener of both signals believes in
    until              \* <<peer, address>> -> when its time to live ends

addrVars == <<db_, now, seen, until>>

-----------------------------------------------------------------------------
(* Conversion of the result of 64 bit arithmetic                             *)
Wrap(n) == ((n + MaxTime + 1) % (2 * (MaxTime + 1))) - (MaxTime + 1)

Faulty_plainSum(t, ttl) == Wrap(t + Wrap(ttl * Ratio))

(* calculateExpirationTime; kPermanent overflows the conversion to ticks     *)
calculateExpirationTime(t, ttl) ==
    LET ticks == Wrap(ttl * Ratio) IN
    IF t >= Wrap(MaxTime - ticks) THEN MaxTime ELSE Wrap(t + ticks)

NoAddresses == [order |-> << >>, expires |-> << >>]

(* db_[p] of an unordered_map                                                *)
entry(d, p) == IF p \in DOMAIN d THEN d[p] ELSE NoAddresses
put(d, p, e) == [q \in DOMAIN d \cup {p} |-> IF q = p THEN e ELSE d[q]]

known(e) == DOMAIN e.expires

(* Peer::eraseOrder: the addresses outside A, in their order                 *)
eraseOrder(order, A) ==
    LET kept[i \in 0..Len(order)] ==
            IF i = 0 THEN << >>
            ELSE IF order[i] \in A THEN kept[i - 1] ELSE Append(kept[i - 1], order[i])
    IN  kept[Len(order)]

(* What expires.emplace takes of a list: the addresses outside K, each once  *)
emplaced(new, K) ==
    LET again == {i \in DOMAIN new : new[i] \in K \/ \E j \in 1..(i - 1) : new[j] = new[i]}
        first == eraseOrder([i \in DOMAIN new |-> i], again)
    IN  [k \in DOMAIN first |-> new[first[k]]]

(* addAddresses keeps the time of an address it knows, upsertAddresses       *)
(* replaces it; both append the new ones.                                    *)
added(e, new, at) ==
    [order |-> e.order \o emplaced(new, known(e)),
     expires |-> [a \in known(e) \cup Range(new) |-> IF a \in known(e) THEN e.expires[a] ELSE at]]

upserted(e, new, at) ==
    [added(e, new, at) EXCEPT !.expires =
        [a \in DOMAIN @ |-> IF a \in Range(new) THEN at ELSE @[a]]]

(* dialFailed moves the address to the back                                  *)
failed(e, a) == [e EXCEPT !.order = Append(eraseOrder(@, {a}), a)]

(* What collectGarbage leaves of a peer                                      *)
unexpired(e, t) ==
    LET gone == {a \in known(e) : t >= e.expires[a]} IN
    [order |-> eraseOrder(e.order, gone),
     expires |-> [a \in known(e) \ gone |-> e.expires[a]]]

(* The peers collectGarbage leaves                                           *)
nonEmpty(d) == {p \in DOMAIN d : known(d[p]) # {}}

Pairs(p, A) == {<<p, a>> : a \in A}
stored == UNION {Pairs(p, known(db_[p])) : p \in DOMAIN db_}

(* The addresses clear reports as removed                                    *)
cleared(p) == Pairs(p, known(entry(db_, p)))

-----------------------------------------------------------------------------
AddrInit == db_ = << >> /\ now = 0 /\ seen = {} /\ until = << >>

(* The time to live the caller asked for, without the limits of the clock    *)
promised(p, A, ttl) ==
    until' = [x \in DOMAIN until \cup Pairs(p, A) |->
                 IF x \in Pairs(p, A) THEN now + ttl * Ratio ELSE until[x]]

addAddresses(p, new, ttl) ==
    LET e == entry(db_, p)
        fresh == Range(new) \ known(e)
    IN  /\ db_' = put(db_, p, added(e, new, calculateExpirationTime(now, ttl)))
        /\ seen' = seen \cup Pairs(p, fresh)
        /\ promised(p, fresh, ttl)
        /\ UNCHANGED now

upsertAddresses(p, new, ttl) ==
    LET e == entry(db_, p) IN
    /\ db_' = put(db_, p, upserted(e, new, calculateExpirationTime(now, ttl)))
    /\ seen' = seen \cup Pairs(p, Range(new) \ known(e))
    /\ promised(p, Range(new), ttl)
    /\ UNCHANGED now

updateAddresses(p, ttl) ==
    /\ p \in DOMAIN db_
    /\ db_' = [db_ EXCEPT ![p].expires =
                  [a \in DOMAIN @ |-> calculateExpirationTime(now, ttl)]]
    /\ promised(p, known(db_[p]), ttl)
    /\ UNCHANGED <<now, seen>>

dialFailed(p, a) ==
    /\ p \in DOMAIN db_ /\ a \in known(db_[p]) /\ a \in Range(db_[p].order)
    /\ db_' = [db_ EXCEPT ![p] = failed(@, a)]
    /\ UNCHANGED <<now, seen, until>>

clear(p) ==
    /\ p \in DOMAIN db_
    /\ seen' = seen \ cleared(p)
    /\ until' = [x \in DOMAIN until \ Pairs(p, Addresses) |-> until[x]]
    /\ db_' = [db_ EXCEPT ![p] = NoAddresses]
    /\ UNCHANGED now

(* collectGarbage; what a caller was promised ends by itself                 *)
collectGarbage ==
    LET swept == [p \in DOMAIN db_ |-> unexpired(db_[p], now)] IN
    /\ db_' = [p \in nonEmpty(swept) |-> swept[p]]
    /\ seen' = seen \ UNION {Pairs(p, known(db_[p]) \ known(swept[p])) : p \in DOMAIN db_}
    /\ until' = [x \in {x \in DOMAIN until : until[x] > now} |-> until[x]]
    /\ UNCHANGED now

Tick == now + Jump <= LastTime /\ now' = now + Jump /\ UNCHANGED <<db_, seen, until>>

(* Lists of addresses a caller passes: empty and with repetitions too, up to *)
(* a length                                                                  *)
Lists == UNION {[1..n -> Addresses] : n \in 0..Cardinality(Addresses)}

AddrNext ==
    \/ \E p \in Peers, new \in Lists, ttl \in Ttls :
        addAddresses(p, new, ttl) \/ upsertAddresses(p, new, ttl)
    \/ \E p \in Peers, ttl \in Ttls : updateAddresses(p, ttl)
    \/ \E p \in Peers, a \in Addresses : dialFailed(p, a)
    \/ \E p \in Peers : clear(p)
    \/ collectGarbage \/ Tick

AddrSpec == AddrInit /\ [][AddrNext]_addrVars

-----------------------------------------------------------------------------
(* The order list of a peer holds the addresses it has an expiry time for,   *)
(* each once: six operations keep the two containers together.               *)
OrderMatches ==
    \A p \in DOMAIN db_ :
        /\ IsInjective(db_[p].order)
        /\ Range(db_[p].order) = known(db_[p])

(* A listener of signal_added_ and signal_removed_ knows the stored          *)
(* addresses exactly.                                                        *)
SignalsMatch == seen = stored

(* No address is dropped before the time to live it was given last, however  *)
(* close to the end of the clock and however large that is: kPermanent       *)
(* addresses stay.                                                           *)
KeptUntil == \A x \in DOMAIN until : now < until[x] => x \in stored

(* "Move failed address to back.  That way dialer will try other addresses   *)
(* first": an address moves behind another only by failing or by being       *)
(* stored anew.                                                              *)
Before(e, a, b) ==
    \E i, j \in DOMAIN e.order : i < j /\ e.order[i] = a /\ e.order[j] = b
MovesBack ==
    \A p \in DOMAIN db_ \cap DOMAIN db_', a, b \in Addresses :
       Before(db_[p], a, b) /\ Before(db_'[p], b, a) => dialFailed(p, a)

(* After a collection every known peer has addresses, none of them expired.  *)
SweepsClean ==
    collectGarbage => \A p \in DOMAIN db_' :
       known(db_'[p]) # {} /\ \A a \in known(db_'[p]) : now < db_'[p].expires[a]

(* All of this in every step: what a step leaves, and what it may move.      *)
AddressesKept ==
    [][OrderMatches' /\ SignalsMatch' /\ KeptUntil' /\ MovesBack /\ SweepsClean]_addrVars
=============================================================================
