--------------------------- MODULE PeerRepository ---------------------------
(* What is known of the peers besides their addresses: public keys,          *)
(* protocols and user agents, and the repository that joins all four.        *)
EXTENDS AddressRepository

CONSTANTS
    Keys, Protocols, Agents

VARIABLES
    pub_,              \* peer -> public keys
    kp_,               \* key pairs of this peer
    protocols,         \* peer -> protocols
    agents,            \* peer -> user agent, and when it expires
    told,              \* peer -> the protocols added and not removed
    agentUntil         \* peer -> when the time to live of its agent ends

keyVars == <<pub_, kp_>>
protocolVars == <<protocols, told>>
agentVars == <<agents, agentUntil>>
storeVars == <<addrVars, keyVars, protocolVars, agentVars>>

-----------------------------------------------------------------------------
without(f, S) == [x \in DOMAIN f \ S |-> f[x]]
setOf(f, p) == IF p \in DOMAIN f THEN f[p] ELSE {}

StoreInit ==
    /\ AddrInit
    /\ pub_ = << >> /\ kp_ = {}
    /\ protocols = << >> /\ told = [p \in Peers |-> {}]
    /\ agents = << >> /\ agentUntil = << >>

addPublicKey(p, k) ==
    /\ pub_' = put(pub_, p, setOf(pub_, p) \cup {k})
    /\ UNCHANGED <<addrVars, kp_, protocolVars, agentVars>>

addKeyPair(k) ==
    /\ kp_' = kp_ \cup {k}
    /\ UNCHANGED <<addrVars, pub_, protocolVars, agentVars>>

(* InmemKeyRepository::clear                                                 *)
clearKeys(p) ==
    /\ pub_' = IF p \in DOMAIN pub_ THEN [pub_ EXCEPT ![p] = {}] ELSE pub_
    /\ kp_' = {}
    /\ UNCHANGED <<addrVars, protocolVars, agentVars>>

withProtocols(p, P) == put(protocols, p, setOf(protocols, p) \cup P)

addProtocols(p, P) ==
    /\ protocols' = withProtocols(p, P)
    /\ told' = [told EXCEPT ![p] = @ \cup P]
    /\ UNCHANGED <<addrVars, keyVars, agentVars>>

removeProtocols(p, P) ==
    /\ p \in DOMAIN protocols
    /\ protocols' = [protocols EXCEPT ![p] = @ \ P]
    /\ told' = [told EXCEPT ![p] = @ \ P]
    /\ UNCHANGED <<addrVars, keyVars, agentVars>>

clearProtocols(p) ==
    /\ p \in DOMAIN protocols
    /\ protocols' = [protocols EXCEPT ![p] = {}]
    /\ told' = [told EXCEPT ![p] = {}]
    /\ UNCHANGED <<addrVars, keyVars, agentVars>>

(* The peers InmemProtocolRepository::collectGarbage leaves                  *)
withAny == {p \in DOMAIN protocols : protocols[p] # {}}

collectProtocols ==
    /\ protocols' = [p \in withAny |-> protocols[p]]
    /\ UNCHANGED <<addrVars, keyVars, told, agentVars>>

(* supportsProtocols, for a peer that is known                               *)
supportsProtocols(p, P) == P \cap protocols[p]

withAgent(p, ua, ttl) ==
    put(agents, p, [ua |-> ua, expires |-> calculateExpirationTime(now, ttl)])

updateUserAgent(p, ua, ttl) ==
    /\ agents' = withAgent(p, ua, ttl)
    /\ agentUntil' = put(agentUntil, p, now + ttl * Ratio)
    /\ UNCHANGED <<addrVars, keyVars, protocolVars>>

(* The new time of an agent                                                  *)
bumped(p, ttl) == calculateExpirationTime(now, ttl)

(* updateTtl erases the agent with a time to live of zero                    *)
updateTtl(p, ttl) ==
    /\ p \in DOMAIN agents
    /\ IF ttl > 0
       THEN /\ agents' = [agents EXCEPT ![p].expires = bumped(p, ttl)]
            /\ agentUntil' = put(agentUntil, p, now + ttl * Ratio)
       ELSE /\ agents' = without(agents, {p})
            /\ agentUntil' = without(agentUntil, {p})
    /\ UNCHANGED <<addrVars, keyVars, protocolVars>>

collectAgents ==
    /\ agents' = without(agents, {p \in DOMAIN agents : now >= agents[p].expires})
    /\ agentUntil' = without(agentUntil, {p \in DOMAIN agentUntil : now >= agentUntil[p]})
    /\ UNCHANGED <<addrVars, keyVars, protocolVars>>

Clock == Tick /\ UNCHANGED <<keyVars, protocolVars, agentVars>>

ofAddresses == AddrNext /\ UNCHANGED <<keyVars, protocolVars, agentVars>>

StoreNext ==
    \/ \E p \in Peers, k \in Keys : addPublicKey(p, k)
    \/ \E k \in Keys : addKeyPair(k)
    \/ \E p \in Peers : clearKeys(p) \/ clearProtocols(p)
    \/ \E p \in Peers, P \in SUBSET Protocols : addProtocols(p, P) \/ removeProtocols(p, P)
    \/ \E p \in Peers, ua \in Agents, ttl \in Ttls : updateUserAgent(p, ua, ttl)
    \/ \E p \in Peers, ttl \in Ttls \cup {0} : updateTtl(p, ttl)
    \/ collectProtocols \/ collectAgents \/ ofAddresses

StoreSpec == StoreInit /\ [][StoreNext]_storeVars

-----------------------------------------------------------------------------
(* The protocols of a peer are those that were added and not removed, across *)
(* clear and collectGarbage; a peer that is not found has none.              *)
ProtocolsKept ==
    \A p \in Peers :
        /\ setOf(protocols, p) = told[p]
        /\ p \in DOMAIN protocols => supportsProtocols(p, Protocols) = told[p]

(* A user agent is kept until the time to live it was given last.            *)
AgentKept == \A p \in DOMAIN agentUntil : now < agentUntil[p] => p \in DOMAIN agents
=============================================================================
