----------------------------- MODULE MCStreams -----------------------------
(* What runs on streams, side by side: `part` says which moves.              *)
(*  - negotiation: every list of up to three proposals, with repetitions,    *)
(*    against every set of served protocols; steady: on a stream that works; *)
(*  - registry: three handlers with names that are prefixes of each other,   *)
(*    and two inbound streams;                                               *)
(*  - ping: the loop and one caller on a connection;                         *)
(*  - addresses and store: the repositories with all their operations, the   *)
(*    addresses apart from the rest, which they share only the clock with;   *)
(*    identify: two connections of one peer fill repositories of their own.  *)
EXTENDS StreamProofs, TLC

CONSTANT Parts

VARIABLE part

Steady == INSTANCE Multiselect WITH Flaky <- FALSE

slashA == <<"/", "a">>
slashAB == <<"/", "a", "b">>
slashAC == <<"/", "a", "c">>
slashB == <<"/", "b">>
MCNames == {slashA, slashAB, slashAC, slashB}
MCIds == ("p1" :> {slashA, slashB}) @@ ("p2" :> {slashAB}) @@ ("p3" :> {slashA, slashAC})
MCPeerOf == [c \in {"c", "d"} |-> "p"]

(* One address given twice, a message without any, and one that is bad       *)
Offer(names, listen, agent, bad) ==
    [protocols |-> names, listen |-> listen, agent |-> agent, badAddress |-> bad]
MCOffers ==
    {Offer({"x", "y"}, <<"a">>, "ua", FALSE), Offer({"y"}, <<"b", "b">>, "ub", FALSE),
     Offer({}, << >>, "ub", FALSE), Offer({"x"}, <<"a">>, "ua", TRUE)}

ASSUME MCLinesDistinct == LinesDistinct
ASSUME MCRegistryAssumption == R!RegistryAssumption
ASSUME MCRepositoryAssumption == I!RepositoryAssumption /\ I!IdentifyAssumption

-----------------------------------------------------------------------------
regVars == <<protocols_, order, inbound>>
pingVars == <<faithful, connected, pc, stream, wire, timer, queued>>
otherVars == <<pub_, kp_, peerProtocols, agents, told, agentUntil>>
storeVars == <<db_, now, seen, until, otherVars>>
idVars ==
    <<idDb, idNow, idSeen, idUntil, idPub, idKp, idProtocols, idAgents, idTold, idAgentUntil,
      offers, recv, idStream, answer, published>>
mcVars == <<part, vars, regVars, pingVars, storeVars, idVars>>

Negotiating == part \in {"negotiation", "steady"}

MCInit ==
    /\ part \in Parts
    /\ Init /\ R!Init /\ P!Init /\ S!StoreInit /\ I!Init
    /\ ~Negotiating => protocols = <<>> /\ supported = {"a"}
    /\ part # "ping" => faithful
    /\ offers \in [Peers -> MCOffers]

(* Addresses without and with the rest of the store, which needs less time,  *)
(* and four messages for identify                                            *)
Within ==
    /\ part = "addresses" => pub_ = << >> /\ kp_ = {} /\ peerProtocols = << >> /\ agents = << >>
    /\ part = "store" => now <= 9 /\ db_ = << >>
    /\ idNow <= 6 /\ offers \in [Peers -> MCOffers]

MCNext ==
    /\ UNCHANGED part
    /\ \/ /\ \/ part = "negotiation" /\ Next
             \/ part = "steady" /\ Steady!Next
          /\ UNCHANGED <<regVars, pingVars, storeVars, idVars>>
       \/ part = "registry" /\ R!Next /\ UNCHANGED <<vars, pingVars, storeVars, idVars>>
       \/ part = "ping" /\ P!Next /\ UNCHANGED <<vars, regVars, storeVars, idVars>>
       \/ /\ part \in {"addresses", "store"} /\ S!StoreNext
          /\ UNCHANGED <<vars, regVars, pingVars, idVars>>
       \/ part = "identify" /\ I!Next /\ UNCHANGED <<vars, regVars, pingVars, storeVars>>
    /\ Within'

(* The fairness of Multiselect and of Ping.                                  *)
MCSpec ==
    /\ MCInit /\ [][MCNext]_mcVars
    /\ WF_vars(Negotiating /\ InitiatorGoes)
    /\ WF_vars(Negotiating /\ ResponderGoes)
    /\ \A e \in Ends : WF_vars(Negotiating /\ (CheckId(e) \/ StreamError(e)))
    /\ \A k \in P!Pingers :
        /\ WF_pingVars(part = "ping" /\ P!Goes(k) /\ UNCHANGED faithful)
        /\ WF_pingVars(part = "ping" /\ P!onTimer(k) /\ UNCHANGED faithful)
        /\ WF_pingVars(part = "ping" /\ P!Expire(k) /\ UNCHANGED faithful)

-----------------------------------------------------------------------------
(* Both ends return, the responder if the stream reached it.                 *)
EndsReturn == Negotiating => BothReturn

(* A ping that has its stream ends, however silent the remote is, and one    *)
(* that has none ends with the negotiation or the connection; the loop goes  *)
(* on after any ping that failed, and lets go of a connection that closed.   *)
PingGoes ==
    /\ part = "ping" => P!PingEnds
    /\ part = "ping" => P!PingsGoOn
    /\ part = "ping" => P!LoopEnds
=============================================================================
