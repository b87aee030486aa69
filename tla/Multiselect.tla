---------------------------- MODULE Multiselect ----------------------------
(* selectOneOf on both ends of a stream: Dialer::newStream runs it as the    *)
(* initiator, the stream loop of ListenerManager as the responder, both with *)
(* the multistream handshake.  Each direction of the stream is a queue of    *)
(* lines; the stream may break at any time, and an end that returns an error *)
(* drops it.  An end may wait before each line it writes or reads, and runs  *)
(* on at once after it.                                                      *)
EXTENDS Integers, Sequences

CONSTANTS
    Protocols,         \* protocol names
    kProtocolId, kNA,  \* "/multistream/1.0.0" and "na"
    MaxProposals,      \* bound on the length of the initiator's list
    Flaky              \* the stream can break on its own

Errors == {"NEGOTIATION_FAILED", "PROTOCOL_VIOLATION", "STREAM_CLOSED"}

(* A protocol name, a line of multistream and an error are told apart.       *)
LinesDistinct ==
    /\ {kProtocolId, kNA} \cap Protocols = {} /\ kNA # kProtocolId
    /\ (Errors \cup {"none"}) \cap Protocols = {}
    /\ MaxProposals \in Nat

VARIABLES
    protocols,  \* the list of the initiator
    supported,  \* the protocols of the responder, which has at least one
    i,          \* position in protocols of the current proposal
    at,         \* for each end, the line it waits to write or read, or "done"
    reply,      \* the line the responder is about to write
    result,     \* for each end, what selectOneOf returned
    sent,       \* sent[e]: the lines e wrote that are not read yet
    broken      \* the stream is closed or reset

vars == <<protocols, supported, i, at, reply, result, sent, broken>>
lists == <<protocols, supported>>

Ends == {"initiator", "responder"}
Other(e) == IF e = "initiator" THEN "responder" ELSE "initiator"

Messages == Protocols \cup {kProtocolId, kNA}

Init ==
    /\ \E n \in 0..MaxProposals : protocols \in [1..n -> Protocols]
    /\ supported \in SUBSET Protocols \ {{}}
    /\ i = 1
    /\ at = [e \in Ends |-> "write_id"]
    /\ reply = kNA
    /\ result = [e \in Ends |-> "none"]
    /\ sent = [e \in Ends |-> <<>>]
    /\ broken = FALSE

-----------------------------------------------------------------------------
Goto(e, where) ==
    /\ at' = [at EXCEPT ![e] = where]
    /\ UNCHANGED <<result, broken>>

Faulty_KeepStream(e, value) ==
    /\ at' = [at EXCEPT ![e] = "done"]
    /\ result' = [result EXCEPT ![e] = value]
    /\ UNCHANGED broken

(* co_return of a protocol, or of an error after which the stream is reset   *)
Return(e, value) ==
    /\ at' = [at EXCEPT ![e] = "done"]
    /\ result' = [result EXCEPT ![e] = value]
    /\ broken' = (broken \/ value \in Errors)

(* write1 succeeds; on a broken stream the line is lost.                     *)
write1(e, line) ==
    sent' = IF broken THEN sent ELSE [sent EXCEPT ![e] = Append(@, line)]

(* read1 returns the next line.                                              *)
read1(e, line) ==
    /\ sent[Other(e)] # <<>>
    /\ line = Head(sent[Other(e)])
    /\ sent' = [sent EXCEPT ![Other(e)] = Tail(@)]

(* The stream fails.                                                         *)
StreamBreaks ==
    /\ Flaky /\ ~broken
    /\ broken' = TRUE
    /\ UNCHANGED <<lists, i, at, reply, result, sent>>

(* A read or a write returns the error of the stream.                        *)
StreamError(e) ==
    /\ broken
    /\ at[e] # "done"
    /\ Return(e, "STREAM_CLOSED")
    /\ UNCHANGED <<lists, i, reply, sent>>

-----------------------------------------------------------------------------
(* The initiator.                                                            *)

NothingToPropose ==
    /\ at["initiator"] = "write_id"
    /\ protocols = <<>>
    /\ Return("initiator", "NEGOTIATION_FAILED")
    /\ UNCHANGED <<lists, i, reply, sent>>

Hello ==
    /\ at["initiator"] = "write_id"
    /\ protocols # <<>>
    /\ write1("initiator", kProtocolId)
    /\ Goto("initiator", "write")
    /\ UNCHANGED <<lists, i, reply>>

Faulty_ProposeAll ==
    /\ at["initiator"] = "write"
    /\ sent' = [sent EXCEPT !["initiator"] = @ \o protocols]
    /\ Goto("initiator", "read_id")
    /\ UNCHANGED <<lists, i, reply>>

Propose ==
    /\ at["initiator"] = "write"
    /\ write1("initiator", protocols[i])
    /\ Goto("initiator", "read_id")
    /\ UNCHANGED <<lists, i, reply>>

(* The multistream id of the other end; the responder's comes with the       *)
(* stream.                                                                   *)
CheckId(e) ==
    /\ at[e] = "read_id"
    /\ \E line \in Messages :
        /\ read1(e, line)
        /\ IF line = kProtocolId
           THEN Goto(e, "read")
           ELSE Return(e, "PROTOCOL_VIOLATION")
    /\ UNCHANGED <<lists, i, reply>>

(* The decision of the responder.  A refused proposal is followed by the     *)
(* next one, if there is one.                                                *)
Decision ==
    /\ at["initiator"] = "read"
    /\ \E line \in Messages :
        /\ read1("initiator", line)
        /\ \/ /\ line = kNA
              /\ i' = i + 1
              /\ IF i < Len(protocols)
                 THEN Goto("initiator", "write_next")
                 ELSE Return("initiator", "NEGOTIATION_FAILED")
           \/ /\ line # kNA
              /\ Return("initiator", IF line = protocols[i]
                                     THEN line ELSE "PROTOCOL_VIOLATION")
              /\ UNCHANGED i
    /\ UNCHANGED <<lists, reply>>

(* Once the next proposal is written, the "na" read before is compared with  *)
(* it, which is never equal.                                                 *)
ProposeNext ==
    /\ at["initiator"] = "write_next"
    /\ write1("initiator", protocols[i])
    /\ Return("initiator", "PROTOCOL_VIOLATION")
    /\ UNCHANGED <<lists, i, reply>>

-----------------------------------------------------------------------------
(* The responder; its stream appears with the first line of the initiator.   *)

Welcome ==
    /\ at["responder"] = "write_id"
    /\ at["initiator"] # "write_id"
    /\ write1("responder", kProtocolId)
    /\ Goto("responder", "read_id")
    /\ UNCHANGED <<lists, i, reply>>

Proposal ==
    /\ at["responder"] = "read"
    /\ \E line \in Messages :
        /\ read1("responder", line)
        /\ reply' = IF line \in supported THEN line ELSE kNA
    /\ Goto("responder", "write")
    /\ UNCHANGED <<lists, i>>

Reply ==
    /\ at["responder"] = "write"
    /\ write1("responder", reply)
    /\ IF reply = kNA THEN Goto("responder", "read") ELSE Return("responder", reply)
    /\ UNCHANGED <<lists, i, reply>>

InitiatorGoes == NothingToPropose \/ Hello \/ Propose \/ Decision \/ ProposeNext
ResponderGoes == Welcome \/ Proposal \/ Reply

Next ==
    \/ InitiatorGoes \/ ResponderGoes
    \/ \E e \in Ends : CheckId(e) \/ StreamError(e)
    \/ StreamBreaks

(* Both ends run, and a broken stream fails the waits on it.                 *)
Fairness ==
    /\ WF_vars(InitiatorGoes) /\ WF_vars(ResponderGoes)
    /\ \A e \in Ends : WF_vars(CheckId(e) \/ StreamError(e))

Spec == Init /\ [][Next]_vars /\ Fairness

-----------------------------------------------------------------------------
Agreed(e) == result[e] \in Protocols

(* The protocols of the initiator's list that the responder serves, by their *)
(* positions.                                                                *)
Common == {k \in DOMAIN protocols : protocols[k] \in supported}

(* The locals of the two coroutines and the stream have their types.         *)
TypeOK ==
    /\ protocols \in Seq(Protocols)
    /\ supported \in SUBSET Protocols
    /\ i \in 1..Len(protocols) + 1
    /\ at \in [Ends -> {"write_id", "write", "read_id", "read", "write_next", "done"}]
    /\ reply \in Protocols \cup {kNA}
    /\ result \in [Ends -> Protocols \cup Errors \cup {"none"}]
    /\ sent \in [Ends -> Seq(Messages)]
    /\ broken \in BOOLEAN

(* If the initiator returns a protocol, the responder has returned the same  *)
(* one, and hands the stream to that protocol's handler.                     *)
SameProtocol ==
    Agreed("initiator") => result["responder"] = result["initiator"]

(* Whichever end agrees to a protocol, it is the first of the initiator's    *)
(* list that the responder serves.                                           *)
FirstCommon ==
    \A e \in Ends : Agreed(e) =>
        \E k \in Common : protocols[k] = result[e] /\ \A l \in Common : k <= l

(* The handlers start on a clean stream: no line of the negotiation is left  *)
(* in it for them to read.                                                   *)
CleanHandover ==
    \A e \in Ends : Agreed(e) => sent[Other(e)] = <<>>

(* Both ends agree or neither's handler starts, on the first protocol in     *)
(* common and on a clean stream.                                             *)
NegotiationSound == TypeOK /\ SameProtocol /\ FirstCommon /\ CleanHandover

(* The ends do not wait for each other: both return, the responder if the    *)
(* stream reached it.                                                        *)
BothReturn ==
    /\ <>(at["initiator"] = "done")
    /\ at["responder"] # "write_id" ~> at["responder"] = "done"

(* "Initiator: proposes protocols in order until accepted or list is         *)
(* exhausted": on a stream that works it agrees if there is a protocol in    *)
(* common.                                                                   *)
AgreesIfCommon ==
    Common # {} => result["initiator"] \notin Errors
=============================================================================
