---------------------------- MODULE StreamProofs ----------------------------
(* Proofs about what runs on a stream: Multiselect for any protocols and     *)
(* lists of proposals, Ping (P) for any number of callers, and               *)
(* ProtocolRegistry (R) for any handlers, names and inbound streams; and     *)
(* about what identify learns there: the repositories (S) and the exchange   *)
(* that fills them (I).                                                      *)
EXTENDS Multiselect, TLAPS

(* The first proposal is not served.                                         *)
Refused == Len(protocols) >= 1 /\ protocols[1] \notin supported

(* The first of the proposals the responder serves.                          *)
Served(x) ==
    /\ x \in supported /\ Len(protocols) >= 1
    /\ x = protocols[1] \/ (Refused /\ Len(protocols) >= 2 /\ x = protocols[2])

(* Where each end is decides what it has returned and which proposal is on   *)
(* its way.                                                                  *)
ReturnInv ==
    /\ \A e \in Ends : /\ at[e] = "done" <=> result[e] # "none"
                       /\ at[e] = "done" => Agreed(e) \/ broken
    /\ Agreed("initiator") =>
          result["responder"] = result["initiator"] /\ sent["responder"] = << >>

InitiatorInv ==
    /\ at["initiator"] \in {"write_id", "write", "read_id", "read"} => i = 1
    /\ at["initiator"] \in {"write", "read_id", "read"} => Len(protocols) >= 1
    /\ at["initiator"] = "write_id" =>
          /\ at["responder"] \in {"write_id", "done"} /\ ~Agreed("responder")
          /\ sent["initiator"] = << >> /\ sent["responder"] = << >>
    /\ at["initiator"] = "write" =>
          /\ at["responder"] \in {"write_id", "read_id", "read", "done"}
          /\ ~Agreed("responder")
          /\ ~broken => IF at["responder"] = "read" THEN sent["initiator"] = << >>
                        ELSE sent["initiator"] = <<kProtocolId>>
    /\ at["initiator"] = "write_next" =>
          /\ i = 2 /\ Len(protocols) >= 2 /\ Refused
          /\ at["responder"] \in {"read", "done"} /\ ~Agreed("responder")
          /\ sent["initiator"] = << >>

ResponderInv ==
    /\ at["responder"] # "write_next"
    /\ at["responder"] \in {"write_id", "read_id"} =>
          \/ sent["initiator"] \in {<< >>, <<kProtocolId>>}
          \/ /\ sent["initiator"] = <<kProtocolId, protocols[1]>> /\ Len(protocols) >= 1
             /\ at["initiator"] \in {"read_id", "read", "done"}
    /\ at["responder"] = "read" =>
          \/ sent["initiator"] = << >>
          \/ /\ sent["initiator"] = <<protocols[1]>> /\ Len(protocols) >= 1
             /\ at["initiator"] \in {"read_id", "read", "done"}
          \/ /\ sent["initiator"] = <<protocols[2]>> /\ Len(protocols) >= 2
             /\ Refused /\ at["initiator"] = "done"
    /\ at["responder"] = "write" =>
          /\ sent["initiator"] = << >> /\ at["initiator"] \in {"read_id", "read", "done"}
          /\ IF reply = kNA THEN Refused ELSE Served(reply)
    /\ Agreed("responder") =>
          /\ sent["initiator"] = << >> /\ at["initiator"] \in {"read_id", "read", "done"}
          /\ Served(result["responder"])

(* What the responder wrote: a protocol is the last line, and the one it     *)
(* returned; so is a refusal as long as the initiator has not returned.      *)
LinesInv ==
    \A k \in DOMAIN sent["responder"] :
        /\ sent["responder"][k] \in Protocols =>
              k = Len(sent["responder"]) /\ result["responder"] = sent["responder"][k]
        /\ sent["responder"][k] = kNA /\ at["initiator"] # "done" =>
              /\ k = Len(sent["responder"]) /\ at["initiator"] \in {"read_id", "read"}
              /\ at["responder"] \in {"read", "done"} /\ ~Agreed("responder")
              /\ sent["initiator"] = << >> /\ Refused

IInv == TypeOK /\ ReturnInv /\ InitiatorInv /\ ResponderInv /\ LinesInv

(* The sequences of lines that occur.                                        *)
LEMMA FewLines ==
    ASSUME NEW S, NEW x \in S, NEW y \in S
    PROVE  /\ << >> \in Seq(S) /\ <<x>> \in Seq(S) /\ <<x, y>> \in Seq(S)
           /\ <<x>> # << >> /\ <<x, y>> # << >>
           /\ Append(<< >>, x) = <<x>> /\ Append(<<x>>, y) = <<x, y>>
           /\ Head(<<x>>) = x /\ Tail(<<x>>) = << >>
           /\ Head(<<x, y>>) = x /\ Tail(<<x, y>>) = <<y>>
  <1>1. /\ << >> \in Seq(S) /\ <<x>> \in Seq(S) /\ <<x, y>> \in Seq(S)
        /\ Head(<<x>>) = x /\ Head(<<x, y>>) = x
    OBVIOUS
  <1>2. <<x>> # << >> /\ <<x, y>> # << >>
    OBVIOUS
  <1>3. Append(<< >>, x) = <<x>>
    OBVIOUS
  <1>4. Append(<<x>>, y) = <<x, y>>
    <2>1. /\ Append(<<x>>, y) \in Seq(S) /\ Len(Append(<<x>>, y)) = 2
          /\ Append(<<x>>, y)[1] = x /\ Append(<<x>>, y)[2] = y
      BY <1>1
    <2>2. \A s \in Seq(S) : Len(s) = 2 => s = <<s[1], s[2]>>
      OBVIOUS
    <2> QED BY Zenon, <2>1, <2>2
  <1>5. Tail(<<x>>) = << >>
    OBVIOUS
  <1>6. Tail(<<x, y>>) = <<y>>
    OBVIOUS
  <1> QED BY <1>1, <1>2, <1>3, <1>4, <1>5, <1>6

(* Both ends start with nothing written.                                     *)
LEMMA InitInv ==
    ASSUME LinesDistinct
    PROVE  Init => IInv
  <1> SUFFICES ASSUME Init PROVE IInv
    OBVIOUS
  <1>1. protocols \in Seq(Protocols)
    <2>1. PICK n \in 0..MaxProposals : protocols \in [1..n -> Protocols]
      BY DEF Init
    <2> QED BY <2>1 DEF LinesDistinct
  <1>2. /\ at["initiator"] = "write_id" /\ at["responder"] = "write_id"
        /\ result["initiator"] = "none" /\ result["responder"] = "none"
        /\ sent["initiator"] = << >> /\ sent["responder"] = << >>
    BY DEF Init, Ends
  <1>3. TypeOK
    <2>1. sent \in [Ends -> Seq(Messages)]
      BY DEF Init
    <2>2. i \in 1..Len(protocols) + 1
      BY <1>1 DEF Init
    <2> QED BY Zenon, <1>1, <2>1, <2>2 DEF Init, TypeOK
  <1>4. ReturnInv
    BY <1>2 DEF ReturnInv, Ends, Agreed, LinesDistinct
  <1>5. InitiatorInv
    BY <1>2 DEF InitiatorInv, Init, Agreed, LinesDistinct
  <1>6. ResponderInv
    BY <1>2 DEF ResponderInv, Agreed, LinesDistinct
  <1>7. LinesInv
    BY <1>2 DEF LinesInv
  <1> QED BY <1>3, <1>4, <1>5, <1>6, <1>7 DEF IInv

(* What an end has not returned is no protocol, and neither is an error.     *)
LEMMA NotAgreed ==
    ASSUME LinesDistinct, IInv
    PROVE  /\ "none" \notin Protocols
           /\ \A x \in Errors : x \notin Protocols /\ x # "none"
           /\ \A x \in Protocols : x # "none" /\ x \notin Errors /\ x # kNA /\ x # kProtocolId
           /\ \A e \in Ends : at[e] # "done" => result[e] = "none" /\ ~Agreed(e)
  <1>1. "none" \notin Errors
    BY DEF Errors
  <1>2. \A e \in Ends : at[e] # "done" => result[e] = "none"
    BY DEF IInv, ReturnInv, Agreed
  <1> QED BY <1>1, <1>2 DEF LinesDistinct, Agreed

(* The stream fails, and a wait on it returns an error.                      *)
LEMMA BreaksInv ==
    ASSUME LinesDistinct, IInv, StreamBreaks
    PROVE  IInv'
  <1>u. /\ broken' = TRUE /\ UNCHANGED <<protocols, supported, i, at, reply, result, sent>>
    BY DEF StreamBreaks, lists
  <1>1. TypeOK'
    BY <1>u DEF IInv, TypeOK
  <1>2. ReturnInv'
    BY <1>u DEF IInv, ReturnInv, Agreed
  <1>3. InitiatorInv'
    BY <1>u DEF IInv, InitiatorInv, Agreed, Refused
  <1>4. ResponderInv'
    BY <1>u DEF IInv, ResponderInv, Agreed, Refused, Served
  <1>5. LinesInv'
    BY <1>u DEF IInv, LinesInv, Agreed, Refused
  <1> QED BY <1>1, <1>2, <1>3, <1>4, <1>5 DEF IInv

(* What an end that returns an error leaves to be shown: nothing but that it *)
(* was not done.                                                             *)
LEMMA FailsInv ==
    ASSUME LinesDistinct, IInv, NEW e \in Ends, at[e] # "done", NEW err \in Errors,
           Return(e, err), UNCHANGED <<protocols, supported, i, reply, sent>>
    PROVE  IInv'
  <1>n. /\ \A x \in Errors : x \notin Protocols /\ x # "none"
        /\ result[e] = "none" /\ "none" \notin Protocols
    BY NotAgreed
  <1>t. TypeOK
    BY DEF IInv
  <1>u. /\ at' = [at EXCEPT ![e] = "done"] /\ result' = [result EXCEPT ![e] = err]
        /\ broken' = TRUE
    BY Zenon DEF Return
  <1>a. /\ at'[e] = "done" /\ result'[e] = err
        /\ \A d \in Ends : d # e => at'[d] = at[d] /\ result'[d] = result[d]
    BY <1>t, <1>u DEF TypeOK
  <1>d. "initiator" \in Ends /\ "responder" \in Ends /\ e \in {"initiator", "responder"}
    BY DEF Ends
  <1>1. TypeOK'
    BY <1>t, <1>u DEF TypeOK
  <1>g. \A d \in Ends : Agreed(d)' => Agreed(d) /\ d # e /\ result'[d] = result[d]
    BY <1>a, <1>n DEF Agreed
  <1>2. ReturnInv'
    <2>1. \A d \in Ends : /\ at'[d] = "done" <=> result'[d] # "none"
                          /\ at'[d] = "done" => Agreed(d)' \/ broken'
      BY <1>a, <1>n, <1>u DEF IInv, ReturnInv, Agreed
    <2>2. Agreed("initiator")' =>
             result'["responder"] = result'["initiator"] /\ sent["responder"] = << >>
      <3> SUFFICES ASSUME Agreed("initiator")'
                   PROVE  result'["responder"] = result'["initiator"] /\ sent["responder"] = << >>
        OBVIOUS
      <3>1. Agreed("initiator") /\ e = "responder"
        BY <1>d, <1>g
      <3>2. result["responder"] = result["initiator"]
        BY <3>1 DEF IInv, ReturnInv
      <3> QED BY <1>n, <3>1, <3>2 DEF Agreed
    <2> QED BY <2>1, <2>2 DEF ReturnInv
  <1>3. InitiatorInv'
    BY <1>a, <1>d, <1>g, <1>u DEF IInv, InitiatorInv, Refused
  <1>4. ResponderInv'
    BY <1>a, <1>d, <1>g DEF IInv, ResponderInv, Refused, Served
  <1>5. LinesInv'
    <2> SUFFICES ASSUME NEW k \in DOMAIN sent["responder"]
                 PROVE  /\ sent["responder"][k] \in Protocols =>
                              /\ k = Len(sent["responder"])
                              /\ result'["responder"] = sent["responder"][k]
                        /\ sent["responder"][k] = kNA /\ at'["initiator"] # "done" =>
                              /\ k = Len(sent["responder"])
                              /\ at'["initiator"] \in {"read_id", "read"}
                              /\ at'["responder"] \in {"read", "done"}
                              /\ ~Agreed("responder")'
                              /\ sent["initiator"] = << >> /\ Refused
      BY DEF LinesInv, Refused
    <2>1. /\ sent["responder"][k] \in Protocols =>
                k = Len(sent["responder"]) /\ result["responder"] = sent["responder"][k]
          /\ sent["responder"][k] = kNA /\ at["initiator"] # "done" =>
                /\ k = Len(sent["responder"]) /\ at["initiator"] \in {"read_id", "read"}
                /\ at["responder"] \in {"read", "done"} /\ ~Agreed("responder")
                /\ sent["initiator"] = << >> /\ Refused
      BY DEF IInv, LinesInv
    <2>2. sent["responder"][k] \in Protocols => result'["responder"] = result["responder"]
      BY <1>a, <1>d, <1>n, <2>1
    <2> QED BY <1>a, <1>d, <1>g, <2>1, <2>2
  <1> QED BY <1>1, <1>2, <1>3, <1>4, <1>5 DEF IInv

(* What Goto, Return, write1 and read1 do to the two ends.                   *)
LEMMA EndValues ==
    ASSUME TypeOK, NEW e \in Ends, NEW d \in Ends, d # e
    PROVE  /\ \A w : Goto(e, w) => /\ at'[e] = w /\ at'[d] = at[d]
                                   /\ UNCHANGED <<result, broken>>
           /\ \A v : Return(e, v) => /\ at'[e] = "done" /\ at'[d] = at[d]
                                     /\ result'[e] = v /\ result'[d] = result[d]
                                     /\ broken' = (broken \/ v \in Errors)
           /\ \A l : write1(e, l) => /\ sent'[d] = sent[d]
                                     /\ sent'[e] = IF broken THEN sent[e] ELSE Append(sent[e], l)
           /\ \A l : read1(e, l) => /\ sent[d] # << >> /\ l = Head(sent[d])
                                    /\ sent'[e] = sent[e] /\ sent'[d] = Tail(sent[d])
  <1>1. Other(e) = d
    BY DEF Ends, Other
  <1>2. \A w : Goto(e, w) => /\ at'[e] = w /\ at'[d] = at[d]
                             /\ UNCHANGED <<result, broken>>
    BY DEF TypeOK, Goto
  <1>3. \A v : Return(e, v) => /\ at'[e] = "done" /\ at'[d] = at[d]
                               /\ result'[e] = v /\ result'[d] = result[d]
                               /\ broken' = (broken \/ v \in Errors)
    BY DEF TypeOK, Return
  <1>4. \A l : write1(e, l) => /\ sent'[d] = sent[d]
                               /\ sent'[e] = IF broken THEN sent[e] ELSE Append(sent[e], l)
    BY DEF TypeOK, write1
  <1>5. \A l : read1(e, l) => /\ sent[d] # << >> /\ l = Head(sent[d])
                              /\ sent'[e] = sent[e] /\ sent'[d] = Tail(sent[d])
    BY <1>1 DEF TypeOK, read1
  <1> QED BY <1>2, <1>3, <1>4, <1>5

(* The types of what they leave.                                             *)
LEMMA EndTypes ==
    ASSUME TypeOK, NEW e \in Ends
    PROVE  /\ \A w \in {"write_id", "write", "read_id", "read", "write_next", "done"} :
                 Goto(e, w) => /\ broken' \in BOOLEAN
                               /\ at' \in [Ends -> {"write_id", "write", "read_id", "read",
                                                      "write_next", "done"}]
                               /\ result' \in [Ends -> Protocols \cup Errors \cup {"none"}]
           /\ \A v \in Protocols \cup Errors :
                 Return(e, v) => /\ broken' \in BOOLEAN
                                 /\ at' \in [Ends -> {"write_id", "write", "read_id", "read",
                                                        "write_next", "done"}]
                                 /\ result' \in [Ends -> Protocols \cup Errors \cup {"none"}]
           /\ \A l \in Messages : write1(e, l) => sent' \in [Ends -> Seq(Messages)]
           /\ \A l : read1(e, l) => sent' \in [Ends -> Seq(Messages)]
  <1>1. \A w \in {"write_id", "write", "read_id", "read", "write_next", "done"} :
           Goto(e, w) => /\ broken' \in BOOLEAN
                         /\ at' \in [Ends -> {"write_id", "write", "read_id", "read",
                                                "write_next", "done"}]
                         /\ result' \in [Ends -> Protocols \cup Errors \cup {"none"}]
    BY DEF TypeOK, Goto
  <1>2. \A v \in Protocols \cup Errors :
           Return(e, v) => /\ broken' \in BOOLEAN
                           /\ at' \in [Ends -> {"write_id", "write", "read_id", "read",
                                                  "write_next", "done"}]
                           /\ result' \in [Ends -> Protocols \cup Errors \cup {"none"}]
    BY DEF TypeOK, Return
  <1>3. \A l \in Messages : write1(e, l) => sent' \in [Ends -> Seq(Messages)]
    <2>1. \A l \in Messages : Append(sent[e], l) \in Seq(Messages)
      BY DEF TypeOK
    <2> QED BY <2>1 DEF TypeOK, write1
  <1>4. \A l : read1(e, l) => sent' \in [Ends -> Seq(Messages)]
    <2>1. /\ Other(e) \in Ends
          /\ sent[Other(e)] # << >> => Tail(sent[Other(e)]) \in Seq(Messages)
      BY DEF TypeOK, Ends, Other
    <2> QED BY <2>1 DEF TypeOK, read1
  <1> QED BY <1>1, <1>2, <1>3, <1>4

(* The initiator writes the multistream id, which no one can answer yet.     *)
LEMMA HelloInv ==
    ASSUME LinesDistinct, IInv, Hello
    PROVE  IInv'
  <1>t. TypeOK /\ ReturnInv /\ InitiatorInv /\ ResponderInv /\ LinesInv
    BY DEF IInv
  <1>e. "initiator" \in Ends /\ "responder" \in Ends /\ "initiator" # "responder"
    BY DEF Ends
  <1>w. /\ Goto("initiator", "write") /\ write1("initiator", kProtocolId)
        /\ at["initiator"] = "write_id" /\ protocols # << >>
        /\ UNCHANGED <<protocols, supported, i, reply>>
    BY DEF Hello, lists
  <1>u. /\ at'["initiator"] = "write" /\ at'["responder"] = at["responder"]
        /\ UNCHANGED <<result, broken>> /\ sent'["responder"] = sent["responder"]
        /\ sent'["initiator"] =
              IF broken THEN sent["initiator"] ELSE Append(sent["initiator"], kProtocolId)
    BY <1>t, <1>e, <1>w, EndValues
  <1>b. /\ at["responder"] \in {"write_id", "done"} /\ ~Agreed("responder")
        /\ sent["initiator"] = << >> /\ sent["responder"] = << >> /\ i = 1
        /\ Len(protocols) >= 1
    BY <1>t, <1>w DEF InitiatorInv, TypeOK
  <1>s. sent'["initiator"] = IF broken THEN << >> ELSE <<kProtocolId>>
    BY <1>u, <1>b
  <1>1. TypeOK'
    <2>1. sent' \in [Ends -> Seq(Messages)]
      BY <1>t, <1>e, <1>w, EndTypes DEF Messages
    <2>2. /\ at' \in [Ends -> {"write_id", "write", "read_id", "read", "write_next", "done"}]
      BY Zenon, <1>t, <1>w DEF Goto, TypeOK
    <2> QED BY <1>t, <1>u, <1>w, <2>1, <2>2 DEF TypeOK
  <1>2. ReturnInv'
    BY <1>t, <1>u, <1>w, <1>b, NotAgreed DEF ReturnInv, Ends, Agreed
  <1>3. InitiatorInv'
    BY <1>t, <1>u, <1>w, <1>b, <1>s DEF InitiatorInv, ReturnInv, Ends, Agreed
  <1>4. ResponderInv'
    BY <1>u, <1>b, <1>s DEF ResponderInv, Agreed
  <1>5. LinesInv'
    BY <1>u, <1>b DEF LinesInv
  <1> QED BY <1>1, <1>2, <1>3, <1>4, <1>5 DEF IInv

(* The initiator proposes its first protocol.                                *)
LEMMA ProposeInv ==
    ASSUME LinesDistinct, IInv, Propose
    PROVE  IInv'
  <1>t. TypeOK /\ ReturnInv /\ InitiatorInv /\ ResponderInv /\ LinesInv
    BY DEF IInv
  <1>e. "initiator" \in Ends /\ "responder" \in Ends /\ "initiator" # "responder"
    BY DEF Ends
  <1>w. /\ Goto("initiator", "read_id") /\ write1("initiator", protocols[i])
        /\ at["initiator"] = "write" /\ UNCHANGED <<protocols, supported, i, reply>>
    BY DEF Propose, lists
  <1>i. i = 1 /\ Len(protocols) >= 1 /\ protocols[1] \in Protocols
    BY <1>t, <1>w DEF InitiatorInv, TypeOK
  <1>u. /\ at'["initiator"] = "read_id" /\ at'["responder"] = at["responder"]
        /\ UNCHANGED <<result, broken>> /\ sent'["responder"] = sent["responder"]
        /\ sent'["initiator"] =
              IF broken THEN sent["initiator"] ELSE Append(sent["initiator"], protocols[1])
    BY <1>t, <1>e, <1>w, <1>i, EndValues
  <1>b. /\ at["responder"] \in {"write_id", "read_id", "read", "done"}
        /\ ~Agreed("responder") /\ ~Agreed("initiator")
        /\ ~broken => /\ at["responder"] # "done"
                      /\ IF at["responder"] = "read" THEN sent["initiator"] = << >>
                         ELSE sent["initiator"] = <<kProtocolId>>
    BY <1>t, <1>e, <1>w, NotAgreed DEF InitiatorInv, ReturnInv
  <1>s. ~broken => IF at["responder"] = "read" THEN sent'["initiator"] = <<protocols[1]>>
                   ELSE sent'["initiator"] = <<kProtocolId, protocols[1]>>
    <2>1. kProtocolId \in Messages /\ protocols[1] \in Messages
      BY <1>i DEF Messages
    <2>2. /\ Append(<< >>, protocols[1]) = <<protocols[1]>>
          /\ Append(<<kProtocolId>>, protocols[1]) = <<kProtocolId, protocols[1]>>
      BY Zenon, <2>1, FewLines
    <2> QED BY Zenon, <1>u, <1>b, <2>2
  <1>1. TypeOK'
    <2>1. sent' \in [Ends -> Seq(Messages)]
      BY <1>t, <1>e, <1>w, <1>i, EndTypes DEF Messages
    <2>2. at' \in [Ends -> {"write_id", "write", "read_id", "read", "write_next", "done"}]
      BY Zenon, <1>t, <1>w DEF Goto, TypeOK
    <2> QED BY <1>t, <1>u, <1>w, <2>1, <2>2 DEF TypeOK
  <1>2. ReturnInv'
    BY <1>t, <1>u, <1>w, <1>b DEF ReturnInv, Ends, Agreed
  <1>3. InitiatorInv'
    BY <1>u, <1>w, <1>i DEF InitiatorInv
  <1>4. ResponderInv'
    <2>1. at["responder"] # "write" /\ ~Agreed("responder")' /\ at["responder"] # "write_next"
      BY <1>u, <1>b DEF Agreed
    <2>2. at["responder"] \in {"write_id", "read_id"} =>
             \/ sent'["initiator"] \in {<< >>, <<kProtocolId>>}
             \/ sent'["initiator"] = <<kProtocolId, protocols[1]>>
      BY <1>t, <1>u, <1>s DEF ResponderInv
    <2>3. at["responder"] = "read" =>
             \/ sent'["initiator"] = << >>
             \/ sent'["initiator"] = <<protocols[1]>>
      BY <1>t, <1>u, <1>s, <1>w DEF ResponderInv
    <2> QED BY <1>u, <1>w, <1>i, <2>1, <2>2, <2>3 DEF ResponderInv
  <1>5. LinesInv'
    <2>1. \A k \in DOMAIN sent["responder"] :
             sent["responder"][k] \notin Protocols /\ sent["responder"][k] # kNA
      BY <1>t, <1>w, <1>b DEF LinesInv, Agreed
    <2> QED BY <1>u, <2>1 DEF LinesInv
  <1> QED BY <1>1, <1>2, <1>3, <1>4, <1>5 DEF IInv

(* The lines left when the initiator has read one.                           *)
LEMMA TailLines ==
    ASSUME NEW s \in Seq(Messages), s # << >>
    PROVE  /\ Tail(s) \in Seq(Messages) /\ Len(Tail(s)) = Len(s) - 1
           /\ \A k \in DOMAIN Tail(s) : k + 1 \in DOMAIN s /\ Tail(s)[k] = s[k + 1]
           /\ 1 \in DOMAIN s /\ Head(s) = s[1] /\ (Len(s) = 1 => Tail(s) = << >>)
  OBVIOUS

(* The initiator reads a line and returns an error: it resets the stream.    *)
LEMMA DropsInv ==
    ASSUME LinesDistinct, IInv, at["initiator"] \in {"read_id", "read"},
           NEW line, read1("initiator", line), NEW err \in Errors,
           Return("initiator", err), i' \in 1..Len(protocols) + 1,
           UNCHANGED <<protocols, supported, reply>>
    PROVE  IInv'
  <1>t. TypeOK /\ ReturnInv /\ InitiatorInv /\ ResponderInv /\ LinesInv
    BY DEF IInv
  <1>e. "initiator" \in Ends /\ "responder" \in Ends /\ "initiator" # "responder"
    BY DEF Ends
  <1>u. /\ at'["initiator"] = "done" /\ at'["responder"] = at["responder"]
        /\ result'["initiator"] = err /\ result'["responder"] = result["responder"]
        /\ broken' = TRUE
        /\ sent["responder"] # << >> /\ sent'["initiator"] = sent["initiator"]
        /\ sent'["responder"] = Tail(sent["responder"])
    <2>1. broken' = TRUE
      BY Zenon DEF Return
    <2>2. /\ at'["initiator"] = "done" /\ at'["responder"] = at["responder"]
          /\ result'["initiator"] = err /\ result'["responder"] = result["responder"]
      BY <1>t, <1>e, EndValues
    <2>3. /\ sent["responder"] # << >> /\ sent'["initiator"] = sent["initiator"]
          /\ sent'["responder"] = Tail(sent["responder"])
      BY <1>t, <1>e, EndValues
    <2> QED BY <2>1, <2>2, <2>3
  <1>n. err \notin Protocols /\ err # "none"
    BY NotAgreed
  <1>s. sent["responder"] \in Seq(Messages)
    BY <1>t, <1>e DEF TypeOK
  <1>1. TypeOK'
    <2>1. sent' \in [Ends -> Seq(Messages)]
      BY <1>t, <1>e, EndTypes
    <2>2. /\ at' \in [Ends -> {"write_id", "write", "read_id", "read", "write_next", "done"}]
          /\ result' \in [Ends -> Protocols \cup Errors \cup {"none"}]
      BY Zenon, <1>t DEF Return, TypeOK
    <2> QED BY <1>t, <1>u, <2>1, <2>2 DEF TypeOK
  <1>2. ReturnInv'
    BY <1>t, <1>u, <1>n DEF ReturnInv, Ends, Agreed
  <1>3. InitiatorInv'
    BY <1>u DEF InitiatorInv
  <1>4. ResponderInv'
    BY <1>t, <1>u DEF ResponderInv, Agreed, Served, Refused
  <1>5. LinesInv'
    <2> SUFFICES ASSUME NEW k \in DOMAIN Tail(sent["responder"]),
                        Tail(sent["responder"])[k] \in Protocols
                 PROVE  /\ k = Len(Tail(sent["responder"]))
                        /\ result["responder"] = Tail(sent["responder"])[k]
      BY <1>u DEF LinesInv
    <2>1. /\ k + 1 \in DOMAIN sent["responder"]
          /\ Tail(sent["responder"])[k] = sent["responder"][k + 1]
          /\ Len(Tail(sent["responder"])) = Len(sent["responder"]) - 1
      BY <1>s, <1>u, TailLines
    <2>2. /\ k + 1 = Len(sent["responder"])
          /\ result["responder"] = sent["responder"][k + 1]
      BY <1>t, <2>1 DEF LinesInv
    <2>3. k \in Int
      BY <1>s, <1>u
    <2> QED BY <2>1, <2>2, <2>3
  <1> QED BY <1>1, <1>2, <1>3, <1>4, <1>5 DEF IInv

(* The initiator reads the multistream id of the responder.                  *)
LEMMA InitiatorIdInv ==
    ASSUME LinesDistinct, IInv, CheckId("initiator")
    PROVE  IInv'
  <1>t. TypeOK /\ ReturnInv /\ InitiatorInv /\ ResponderInv /\ LinesInv
    BY DEF IInv
  <1>e. "initiator" \in Ends /\ "responder" \in Ends /\ "initiator" # "responder"
    BY DEF Ends
  <1>w. /\ at["initiator"] = "read_id" /\ UNCHANGED <<protocols, supported, i, reply>>
        /\ i \in 1..Len(protocols) + 1
    BY <1>t DEF CheckId, lists, TypeOK
  <1>p. PICK line : /\ read1("initiator", line)
                    /\ IF line = kProtocolId THEN Goto("initiator", "read")
                       ELSE Return("initiator", "PROTOCOL_VIOLATION")
    BY DEF CheckId
  <1>f. CASE line # kProtocolId
    <2>1. "PROTOCOL_VIOLATION" \in Errors
      BY DEF Errors
    <2> QED BY <1>f, <1>p, <1>w, <2>1, DropsInv
  <1>g. CASE line = kProtocolId
    <2>g. Goto("initiator", "read")
      BY <1>g, <1>p
    <2>u. /\ at'["initiator"] = "read" /\ at'["responder"] = at["responder"]
          /\ UNCHANGED <<result, broken>>
          /\ sent["responder"] # << >> /\ sent'["initiator"] = sent["initiator"]
          /\ sent'["responder"] = Tail(sent["responder"])
      BY <1>t, <1>e, <1>p, <2>g, EndValues
    <2>s. sent["responder"] \in Seq(Messages)
      BY <1>t, <1>e DEF TypeOK
    <2>1. TypeOK'
      <3>1. sent' \in [Ends -> Seq(Messages)]
        BY <1>t, <1>e, <1>p, EndTypes
      <3>2. at' \in [Ends -> {"write_id", "write", "read_id", "read", "write_next", "done"}]
        BY Zenon, <1>t, <2>g DEF Goto, TypeOK
      <3> QED BY <1>t, <1>w, <2>u, <3>1, <3>2 DEF TypeOK
    <2>2. ReturnInv'
      <3>1. ~Agreed("initiator")
        BY <1>e, <1>w, NotAgreed
      <3> QED BY <1>t, <1>w, <2>u, <3>1 DEF ReturnInv, Ends, Agreed
    <2>3. InitiatorInv'
      BY <1>t, <1>w, <2>u DEF InitiatorInv
    <2>4. ResponderInv'
      BY <1>t, <1>w, <2>u DEF ResponderInv, Agreed, Served, Refused
    <2>5. LinesInv'
      <3> DEFINE old == sent["responder"]
                 new == Tail(sent["responder"])
      <3> SUFFICES ASSUME NEW k \in DOMAIN new
                   PROVE  /\ new[k] \in Protocols => k = Len(new) /\ result["responder"] = new[k]
                          /\ new[k] = kNA =>
                                /\ k = Len(new) /\ at["responder"] \in {"read", "done"}
                                /\ ~Agreed("responder") /\ sent["initiator"] = << >> /\ Refused
        BY <1>w, <2>u DEF LinesInv, Agreed, Refused
      <3>1. k + 1 \in DOMAIN old /\ new[k] = old[k + 1] /\ Len(new) = Len(old) - 1
        BY <2>s, <2>u, TailLines
      <3>2. /\ old[k + 1] \in Protocols => k + 1 = Len(old) /\ result["responder"] = old[k + 1]
            /\ old[k + 1] = kNA =>
                  /\ k + 1 = Len(old) /\ at["responder"] \in {"read", "done"}
                  /\ ~Agreed("responder") /\ sent["initiator"] = << >> /\ Refused
        BY <1>t, <1>w, <3>1 DEF LinesInv
      <3>3. k \in Int
        BY <2>s, <2>u
      <3>4. k + 1 = Len(old) => k = Len(new)
        BY <2>s, <3>1, <3>3
      <3> QED BY <3>1, <3>2, <3>4
    <2> QED BY <2>1, <2>2, <2>3, <2>4, <2>5 DEF IInv
  <1> QED BY <1>f, <1>g

(* The initiator reads the decision: a refusal, the protocol it proposed, or *)
(* something else.                                                           *)
LEMMA DecisionInv ==
    ASSUME LinesDistinct, IInv, Decision
    PROVE  IInv'
  <1>t. TypeOK /\ ReturnInv /\ InitiatorInv /\ ResponderInv /\ LinesInv
    BY DEF IInv
  <1>e. "initiator" \in Ends /\ "responder" \in Ends /\ "initiator" # "responder"
    BY DEF Ends
  <1>w. /\ at["initiator"] = "read" /\ UNCHANGED <<protocols, supported, reply>>
        /\ i = 1 /\ Len(protocols) \in Nat /\ Len(protocols) >= 1
    BY <1>t DEF Decision, lists, TypeOK, InitiatorInv
  <1>p. PICK line \in Messages :
           /\ read1("initiator", line)
           /\ \/ /\ line = kNA /\ i' = i + 1
                 /\ IF i < Len(protocols) THEN Goto("initiator", "write_next")
                    ELSE Return("initiator", "NEGOTIATION_FAILED")
              \/ /\ line # kNA /\ UNCHANGED i
                 /\ Return("initiator", IF line = protocols[i]
                                        THEN line ELSE "PROTOCOL_VIOLATION")
    BY DEF Decision
  <1>r. "PROTOCOL_VIOLATION" \in Errors /\ "NEGOTIATION_FAILED" \in Errors
    BY DEF Errors
  <1>v. /\ sent["responder"] # << >> /\ line = Head(sent["responder"])
        /\ sent'["initiator"] = sent["initiator"]
        /\ sent'["responder"] = Tail(sent["responder"])
    BY <1>t, <1>e, <1>p, EndValues
  <1>s. /\ sent["responder"] \in Seq(Messages) /\ 1 \in DOMAIN sent["responder"]
        /\ line = sent["responder"][1]
    BY <1>t, <1>e, <1>v DEF TypeOK
  <1>y. sent' \in [Ends -> Seq(Messages)]
    BY <1>t, <1>e, <1>p, EndTypes
  <1>a. ~Agreed("initiator") /\ result["initiator"] = "none"
    BY <1>e, <1>w, NotAgreed
  <1>f. CASE Return("initiator", "PROTOCOL_VIOLATION") /\ UNCHANGED i
    BY <1>f, <1>p, <1>r, <1>w, DropsInv
  <1>n. CASE line = kNA /\ ~(1 < Len(protocols))
    <2>1. Return("initiator", "NEGOTIATION_FAILED") /\ i' = 2
      BY <1>n, <1>p, <1>w
    <2> QED BY <1>p, <1>r, <1>w, <2>1, DropsInv
  <1>g. CASE line = kNA /\ 1 < Len(protocols)
    <2>g. Goto("initiator", "write_next") /\ i' = 2
      BY <1>g, <1>p, <1>w
    <2>k. /\ 1 = Len(sent["responder"]) /\ at["responder"] \in {"read", "done"}
          /\ ~Agreed("responder") /\ sent["initiator"] = << >> /\ Refused
      BY Zenon, <1>t, <1>g, <1>s, <1>w DEF LinesInv
    <2>u. /\ at'["initiator"] = "write_next" /\ at'["responder"] = at["responder"]
          /\ UNCHANGED <<result, broken>>
      BY <1>t, <1>e, <2>g, EndValues
    <2>d. sent'["responder"] = << >>
      BY <1>s, <1>v, <2>k, TailLines
    <2>1. TypeOK'
      <3>1. at' \in [Ends -> {"write_id", "write", "read_id", "read", "write_next", "done"}]
        BY Zenon, <1>t, <2>g DEF Goto, TypeOK
      <3>2. i' \in 1..Len(protocols) + 1
        BY <1>g, <1>w, <2>g
      <3> QED BY <1>t, <1>w, <1>y, <2>u, <3>1, <3>2 DEF TypeOK
    <2>2. ReturnInv'
      BY <1>t, <1>a, <1>w, <2>u DEF ReturnInv, Ends, Agreed
    <2>3. InitiatorInv'
      BY <1>g, <1>w, <1>v, <2>g, <2>k, <2>u DEF InitiatorInv, Refused, Agreed
    <2>4. ResponderInv'
      BY <1>v, <2>k, <2>u DEF ResponderInv, Agreed
    <2>5. LinesInv'
      BY <2>d DEF LinesInv
    <2> QED BY <2>1, <2>2, <2>3, <2>4, <2>5 DEF IInv
  <1>c. CASE line # kNA /\ line = protocols[1]
    <2>g. Return("initiator", line) /\ UNCHANGED i
      BY <1>c, <1>p, <1>w
    <2>c. line \in Protocols
      BY <1>t, <1>c, <1>w DEF TypeOK
    <2>k. 1 = Len(sent["responder"]) /\ result["responder"] = line
      BY Zenon, <1>t, <1>s, <2>c DEF LinesInv
    <2>n. line \notin Errors /\ line # "none"
      BY <2>c, NotAgreed
    <2>b. broken' = broken
      BY <1>t, <2>g, <2>n DEF Return, TypeOK
    <2>u. /\ at'["initiator"] = "done" /\ at'["responder"] = at["responder"]
          /\ result'["initiator"] = line /\ result'["responder"] = result["responder"]
      BY <1>t, <1>e, <2>g, EndValues
    <2>d. sent'["responder"] = << >>
      BY <1>s, <1>v, <2>k, TailLines
    <2>1. TypeOK'
      <3>1. /\ at' \in [Ends -> {"write_id", "write", "read_id", "read", "write_next", "done"}]
            /\ result' \in [Ends -> Protocols \cup Errors \cup {"none"}]
        BY Zenon, <1>t, <2>c, <2>g DEF Return, TypeOK
      <3> QED BY <1>t, <1>w, <1>y, <2>b, <2>g, <3>1 DEF TypeOK
    <2>2. ReturnInv'
      BY <1>t, <2>b, <2>c, <2>d, <2>k, <2>n, <2>u DEF ReturnInv, Ends, Agreed
    <2>3. InitiatorInv'
      BY <2>u DEF InitiatorInv
    <2>4. ResponderInv'
      BY <1>t, <1>v, <1>w, <2>u DEF ResponderInv, Agreed, Served, Refused
    <2>5. LinesInv'
      BY <2>d DEF LinesInv
    <2> QED BY <2>1, <2>2, <2>3, <2>4, <2>5 DEF IInv
  <1> QED
    <2>1. line # kNA /\ line # protocols[1] =>
             Return("initiator", "PROTOCOL_VIOLATION") /\ UNCHANGED i
      BY <1>p, <1>w
    <2> QED BY <1>c, <1>f, <1>g, <1>n, <2>1

(* The initiator writes its second proposal and gives up.                    *)
LEMMA ProposeNextInv ==
    ASSUME LinesDistinct, IInv, ProposeNext
    PROVE  IInv'
  <1>t. TypeOK /\ ReturnInv /\ InitiatorInv /\ ResponderInv /\ LinesInv
    BY DEF IInv
  <1>e. "initiator" \in Ends /\ "responder" \in Ends /\ "initiator" # "responder"
    BY DEF Ends
  <1>r. "PROTOCOL_VIOLATION" \in Errors
    BY DEF Errors
  <1>w. /\ Return("initiator", "PROTOCOL_VIOLATION") /\ write1("initiator", protocols[i])
        /\ at["initiator"] = "write_next" /\ UNCHANGED <<protocols, supported, i, reply>>
    BY DEF ProposeNext, lists
  <1>i. /\ i = 2 /\ Len(protocols) >= 2 /\ protocols[2] \in Protocols /\ Refused
        /\ at["responder"] \in {"read", "done"} /\ ~Agreed("responder")
        /\ sent["initiator"] = << >>
    BY <1>t, <1>w DEF InitiatorInv, TypeOK
  <1>b. broken' = TRUE
    BY Zenon, <1>r, <1>w DEF Return
  <1>u. /\ at'["initiator"] = "done" /\ at'["responder"] = at["responder"]
        /\ result'["initiator"] = "PROTOCOL_VIOLATION"
        /\ result'["responder"] = result["responder"]
    BY <1>t, <1>e, <1>w, EndValues
  <1>v. /\ sent'["responder"] = sent["responder"]
        /\ sent'["initiator"] \in {<< >>, <<protocols[2]>>}
    <2>1. /\ sent'["responder"] = sent["responder"]
          /\ sent'["initiator"] =
                IF broken THEN sent["initiator"] ELSE Append(sent["initiator"], protocols[2])
      <3>1. write1("initiator", protocols[2])
        BY <1>i, <1>w
      <3> QED BY <1>t, <1>e, <3>1, EndValues
    <2>2. Append(<< >>, protocols[2]) = <<protocols[2]>>
      BY <1>i, FewLines
    <2> QED BY <1>i, <2>1, <2>2
  <1>n. "PROTOCOL_VIOLATION" \notin Protocols
    BY <1>r, NotAgreed
  <1>1. TypeOK'
    <2>1. sent' \in [Ends -> Seq(Messages)]
      BY <1>t, <1>e, <1>w, <1>i, EndTypes DEF Messages
    <2>2. /\ at' \in [Ends -> {"write_id", "write", "read_id", "read", "write_next", "done"}]
          /\ result' \in [Ends -> Protocols \cup Errors \cup {"none"}]
      BY Zenon, <1>t, <1>w, <1>r DEF Return, TypeOK
    <2> QED BY <1>t, <1>b, <1>w, <2>1, <2>2 DEF TypeOK
  <1>2. ReturnInv'
    BY <1>t, <1>b, <1>u, <1>n DEF ReturnInv, Ends, Agreed
  <1>3. InitiatorInv'
    BY <1>u DEF InitiatorInv
  <1>4. ResponderInv'
    BY <1>u, <1>v, <1>w, <1>i DEF ResponderInv, Agreed, Refused
  <1>5. LinesInv'
    BY <1>t, <1>u, <1>v DEF LinesInv
  <1> QED BY <1>1, <1>2, <1>3, <1>4, <1>5 DEF IInv

(* The responder writes its multistream id.                                  *)
LEMMA WelcomeInv ==
    ASSUME LinesDistinct, IInv, Welcome
    PROVE  IInv'
  <1>t. TypeOK /\ ReturnInv /\ InitiatorInv /\ ResponderInv /\ LinesInv
    BY DEF IInv
  <1>e. "initiator" \in Ends /\ "responder" \in Ends /\ "initiator" # "responder"
    BY DEF Ends
  <1>w. /\ Goto("responder", "read_id") /\ write1("responder", kProtocolId)
        /\ at["responder"] = "write_id" /\ at["initiator"] # "write_id"
        /\ UNCHANGED <<protocols, supported, i, reply>>
    BY DEF Welcome, lists
  <1>u. /\ at'["responder"] = "read_id" /\ at'["initiator"] = at["initiator"]
        /\ UNCHANGED <<result, broken>> /\ sent'["initiator"] = sent["initiator"]
        /\ sent'["responder"] =
              IF broken THEN sent["responder"] ELSE Append(sent["responder"], kProtocolId)
    BY <1>t, <1>e, <1>w, EndValues
  <1>a. ~Agreed("responder") /\ result["responder"] = "none" /\ ~Agreed("initiator")
    <2>1. ~Agreed("responder") /\ result["responder"] = "none"
      BY <1>e, <1>w, NotAgreed
    <2> QED BY <1>t, <2>1 DEF ReturnInv, Agreed
  <1>1. TypeOK'
    <2>1. sent' \in [Ends -> Seq(Messages)]
      BY <1>t, <1>e, <1>w, EndTypes DEF Messages
    <2>2. at' \in [Ends -> {"write_id", "write", "read_id", "read", "write_next", "done"}]
      BY Zenon, <1>t, <1>w DEF Goto, TypeOK
    <2> QED BY <1>t, <1>u, <1>w, <2>1, <2>2 DEF TypeOK
  <1>2. ReturnInv'
    BY <1>t, <1>a, <1>u, <1>w DEF ReturnInv, Ends, Agreed
  <1>3. InitiatorInv'
    BY <1>t, <1>a, <1>u, <1>w DEF InitiatorInv, Agreed
  <1>4. ResponderInv'
    BY <1>t, <1>a, <1>u, <1>w DEF ResponderInv, Agreed
  <1>5. LinesInv'
    <2>1. \A k \in DOMAIN sent["responder"] :
             /\ sent["responder"][k] \notin Protocols
             /\ at["initiator"] # "done" => sent["responder"][k] # kNA
      BY <1>t, <1>a, <1>w DEF LinesInv, Agreed
    <2>2. kProtocolId \notin Protocols /\ kProtocolId # kNA /\ kProtocolId \in Messages
      BY DEF LinesDistinct, Messages
    <2>3. sent["responder"] \in Seq(Messages)
      BY <1>t, <1>e DEF TypeOK
    <2>4. \A k \in DOMAIN Append(sent["responder"], kProtocolId) :
             \/ k \in DOMAIN sent["responder"]
                /\ Append(sent["responder"], kProtocolId)[k] = sent["responder"][k]
             \/ Append(sent["responder"], kProtocolId)[k] = kProtocolId
      BY <2>2, <2>3
    <2>5. \A k \in DOMAIN sent'["responder"] :
             /\ sent'["responder"][k] \notin Protocols
             /\ at["initiator"] # "done" => sent'["responder"][k] # kNA
      BY <1>u, <2>1, <2>2, <2>4
    <2> QED BY <1>u, <2>5 DEF LinesInv
  <1> QED BY <1>1, <1>2, <1>3, <1>4, <1>5 DEF IInv

(* The responder reads the multistream id of the initiator, which is always  *)
(* the first line of the stream.                                             *)
LEMMA ResponderIdInv ==
    ASSUME LinesDistinct, IInv, CheckId("responder")
    PROVE  IInv'
  <1>t. TypeOK /\ ReturnInv /\ InitiatorInv /\ ResponderInv /\ LinesInv
    BY DEF IInv
  <1>e. "initiator" \in Ends /\ "responder" \in Ends /\ "initiator" # "responder"
    BY DEF Ends
  <1>w. at["responder"] = "read_id" /\ UNCHANGED <<protocols, supported, i, reply>>
    BY DEF CheckId, lists
  <1>p. PICK line : /\ read1("responder", line)
                    /\ IF line = kProtocolId THEN Goto("responder", "read")
                       ELSE Return("responder", "PROTOCOL_VIOLATION")
    BY DEF CheckId
  <1>v. /\ sent["initiator"] # << >> /\ line = Head(sent["initiator"])
        /\ sent'["responder"] = sent["responder"]
        /\ sent'["initiator"] = Tail(sent["initiator"])
    BY <1>t, <1>e, <1>p, EndValues
  <1>c. \/ sent["initiator"] = <<kProtocolId>>
        \/ /\ sent["initiator"] = <<kProtocolId, protocols[1]>> /\ Len(protocols) >= 1
           /\ at["initiator"] \in {"read_id", "read", "done"}
    BY <1>t, <1>v, <1>w DEF ResponderInv
  <1>m. kProtocolId \in Messages /\ (Len(protocols) >= 1 => protocols[1] \in Messages)
    BY <1>t DEF TypeOK, Messages
  <1>s. /\ line = kProtocolId
        /\ \/ sent["initiator"] = <<kProtocolId>> /\ sent'["initiator"] = << >>
           \/ /\ sent'["initiator"] = <<protocols[1]>> /\ Len(protocols) >= 1
              /\ at["initiator"] \in {"read_id", "read", "done"}
    <2>1. CASE sent["initiator"] = <<kProtocolId>>
      BY <1>v, <1>m, <2>1, FewLines
    <2>2. CASE /\ sent["initiator"] = <<kProtocolId, protocols[1]>> /\ Len(protocols) >= 1
               /\ at["initiator"] \in {"read_id", "read", "done"}
      BY <1>v, <1>m, <2>2, FewLines
    <2> QED BY <1>c, <2>1, <2>2
  <1>g. Goto("responder", "read")
    BY <1>p, <1>s
  <1>u. /\ at'["responder"] = "read" /\ at'["initiator"] = at["initiator"]
        /\ UNCHANGED <<result, broken>>
    BY <1>t, <1>e, <1>g, EndValues
  <1>a. ~Agreed("responder") /\ result["responder"] = "none" /\ ~Agreed("initiator")
    <2>1. ~Agreed("responder") /\ result["responder"] = "none"
      BY <1>e, <1>w, NotAgreed
    <2> QED BY <1>t, <2>1 DEF ReturnInv, Agreed
  <1>1. TypeOK'
    <2>1. sent' \in [Ends -> Seq(Messages)]
      BY <1>t, <1>e, <1>p, EndTypes
    <2>2. at' \in [Ends -> {"write_id", "write", "read_id", "read", "write_next", "done"}]
      BY Zenon, <1>t, <1>g DEF Goto, TypeOK
    <2> QED BY <1>t, <1>u, <1>w, <2>1, <2>2 DEF TypeOK
  <1>2. ReturnInv'
    BY <1>t, <1>a, <1>u, <1>w DEF ReturnInv, Ends, Agreed
  <1>3. InitiatorInv'
    <2>1. at["initiator"] # "write_id" /\ at["initiator"] # "write_next"
      BY <1>t, <1>v, <1>w DEF InitiatorInv
    <2>2. at["initiator"] = "write" => sent'["initiator"] = << >>
      BY <1>s
    <2> QED BY <1>t, <1>a, <1>u, <1>w, <2>1, <2>2 DEF InitiatorInv, Agreed
  <1>4. ResponderInv'
    BY <1>a, <1>s, <1>u, <1>w DEF ResponderInv, Agreed
  <1>5. LinesInv'
    <2>1. \A k \in DOMAIN sent["responder"] :
             /\ sent["responder"][k] \notin Protocols
             /\ at["initiator"] # "done" => sent["responder"][k] # kNA
      BY <1>t, <1>a, <1>w DEF LinesInv, Agreed
    <2> QED BY <1>u, <1>v, <2>1 DEF LinesInv
  <1> QED BY <1>1, <1>2, <1>3, <1>4, <1>5 DEF IInv

(* The responder reads a proposal and decides on it.                         *)
LEMMA ProposalInv ==
    ASSUME LinesDistinct, IInv, Proposal
    PROVE  IInv'
  <1>t. TypeOK /\ ReturnInv /\ InitiatorInv /\ ResponderInv /\ LinesInv
    BY DEF IInv
  <1>e. "initiator" \in Ends /\ "responder" \in Ends /\ "initiator" # "responder"
    BY DEF Ends
  <1>w. /\ at["responder"] = "read" /\ Goto("responder", "write")
        /\ UNCHANGED <<protocols, supported, i>>
    BY DEF Proposal, lists
  <1>p. PICK line \in Messages : /\ read1("responder", line)
                                 /\ reply' = IF line \in supported THEN line ELSE kNA
    BY DEF Proposal
  <1>v. /\ sent["initiator"] # << >> /\ line = Head(sent["initiator"])
        /\ sent'["responder"] = sent["responder"]
        /\ sent'["initiator"] = Tail(sent["initiator"])
    BY <1>t, <1>e, <1>p, EndValues
  <1>c. \/ /\ sent["initiator"] = <<protocols[1]>> /\ Len(protocols) >= 1
           /\ at["initiator"] \in {"read_id", "read", "done"}
        \/ /\ sent["initiator"] = <<protocols[2]>> /\ Len(protocols) >= 2
           /\ Refused /\ at["initiator"] = "done"
    BY <1>t, <1>v, <1>w DEF ResponderInv
  <1>s. /\ at["initiator"] \in {"read_id", "read", "done"} /\ sent'["initiator"] = << >>
        /\ Len(protocols) >= 1
        /\ line = protocols[1] \/ (Len(protocols) >= 2 /\ Refused /\ line = protocols[2])
    <2>1. \A x : Head(<<x>>) = x /\ Tail(<<x>>) = << >>
      <3> TAKE x
      <3> QED BY x \in {x}, FewLines
    <2>2. CASE sent["initiator"] = <<protocols[1]>>
      <3>1. line = protocols[1] /\ sent'["initiator"] = << >>
        BY <1>v, <2>1, <2>2
      <3>2. /\ at["initiator"] \in {"read_id", "read", "done"} /\ Len(protocols) >= 1
        BY <1>t, <1>c DEF TypeOK
      <3> QED BY <3>1, <3>2
    <2>3. CASE /\ sent["initiator"] = <<protocols[2]>> /\ Len(protocols) >= 2
               /\ Refused /\ at["initiator"] = "done"
      <3>1. line = protocols[2] /\ sent'["initiator"] = << >>
        BY <1>v, <2>1, <2>3
      <3>2. Len(protocols) >= 1
        BY <2>3 DEF Refused
      <3> QED BY <2>3, <3>1, <3>2
    <2> QED BY <1>c, <2>2, <2>3
  <1>k. kNA \notin supported /\ supported \subseteq Protocols
    BY <1>t DEF TypeOK, LinesDistinct
  <1>r. reply' \in Protocols \cup {kNA} /\ IF reply' = kNA THEN Refused ELSE Served(reply')
    BY <1>k, <1>p, <1>s DEF Refused, Served
  <1>u. /\ at'["responder"] = "write" /\ at'["initiator"] = at["initiator"]
        /\ UNCHANGED <<result, broken>>
    BY <1>t, <1>e, <1>w, EndValues
  <1>a. ~Agreed("responder") /\ result["responder"] = "none" /\ ~Agreed("initiator")
    <2>1. ~Agreed("responder") /\ result["responder"] = "none"
      BY <1>e, <1>w, NotAgreed
    <2> QED BY <1>t, <2>1 DEF ReturnInv, Agreed
  <1>1. TypeOK'
    <2>1. sent' \in [Ends -> Seq(Messages)]
      BY <1>t, <1>e, <1>p, EndTypes
    <2>2. at' \in [Ends -> {"write_id", "write", "read_id", "read", "write_next", "done"}]
      BY Zenon, <1>t, <1>w DEF Goto, TypeOK
    <2> QED BY <1>t, <1>r, <1>u, <1>w, <2>1, <2>2 DEF TypeOK
  <1>2. ReturnInv'
    BY <1>t, <1>a, <1>u, <1>w DEF ReturnInv, Ends, Agreed
  <1>3. InitiatorInv'
    BY <1>t, <1>s, <1>u, <1>w DEF InitiatorInv
  <1>4. ResponderInv'
    BY <1>a, <1>r, <1>s, <1>u, <1>w DEF ResponderInv, Agreed, Served, Refused
  <1>5. LinesInv'
    <2>1. \A k \in DOMAIN sent["responder"] :
             /\ sent["responder"][k] \notin Protocols
             /\ at["initiator"] # "done" => sent["responder"][k] # kNA
      BY <1>t, <1>a, <1>v DEF LinesInv, Agreed
    <2> QED BY <1>u, <1>v, <2>1 DEF LinesInv
  <1> QED BY <1>1, <1>2, <1>3, <1>4, <1>5 DEF IInv

(* The responder writes its decision, and returns the protocol it accepts.   *)
LEMMA ReplyInv ==
    ASSUME LinesDistinct, IInv, Reply
    PROVE  IInv'
  <1>t. TypeOK /\ ReturnInv /\ InitiatorInv /\ ResponderInv /\ LinesInv
    BY DEF IInv
  <1>e. "initiator" \in Ends /\ "responder" \in Ends /\ "initiator" # "responder"
    BY DEF Ends
  <1>w. /\ at["responder"] = "write" /\ write1("responder", reply)
        /\ IF reply = kNA THEN Goto("responder", "read") ELSE Return("responder", reply)
        /\ UNCHANGED <<protocols, supported, i, reply>>
    BY DEF Reply, lists
  <1>b. /\ sent["initiator"] = << >> /\ at["initiator"] \in {"read_id", "read", "done"}
        /\ IF reply = kNA THEN Refused ELSE Served(reply)
    BY <1>t, <1>w DEF ResponderInv
  <1>v. /\ sent'["initiator"] = << >>
        /\ sent'["responder"] =
              IF broken THEN sent["responder"] ELSE Append(sent["responder"], reply)
    BY <1>t, <1>b, <1>e, <1>w, EndValues
  <1>a. ~Agreed("responder") /\ result["responder"] = "none" /\ ~Agreed("initiator")
    <2>1. ~Agreed("responder") /\ result["responder"] = "none"
      BY <1>e, <1>w, NotAgreed
    <2> QED BY <1>t, <2>1 DEF ReturnInv, Agreed
  <1>y. reply \in Messages /\ sent' \in [Ends -> Seq(Messages)]
    <2>1. reply \in Messages
      BY <1>t DEF TypeOK, Messages
    <2> QED BY <1>t, <1>e, <1>w, <2>1, EndTypes
  <1>l. /\ sent'["responder"] \in Seq(Messages)
        /\ \A k \in DOMAIN sent'["responder"] :
             \/ /\ sent'["responder"][k] \notin Protocols
                /\ at["initiator"] # "done" => sent'["responder"][k] # kNA
             \/ k = Len(sent'["responder"]) /\ sent'["responder"][k] = reply
    <2>1. \A k \in DOMAIN sent["responder"] :
             /\ sent["responder"][k] \notin Protocols
             /\ at["initiator"] # "done" => sent["responder"][k] # kNA
      BY <1>t, <1>a, <1>w DEF LinesInv, Agreed
    <2>2. sent["responder"] \in Seq(Messages)
      BY <1>t, <1>e DEF TypeOK
    <2>3. \A k \in DOMAIN Append(sent["responder"], reply) :
             \/ k \in DOMAIN sent["responder"]
                /\ Append(sent["responder"], reply)[k] = sent["responder"][k]
             \/ /\ k = Len(Append(sent["responder"], reply))
                /\ Append(sent["responder"], reply)[k] = reply
      BY <1>y, <2>2
    <2> QED BY Zenon, <1>e, <1>v, <1>y, <2>1, <2>3
  <1>n. CASE reply = kNA
    <2>g. Goto("responder", "read")
      BY <1>n, <1>w
    <2>u. /\ at'["responder"] = "read" /\ at'["initiator"] = at["initiator"]
          /\ UNCHANGED <<result, broken>>
      BY <1>t, <1>e, <2>g, EndValues
    <2>1. TypeOK'
      <3>1. at' \in [Ends -> {"write_id", "write", "read_id", "read", "write_next", "done"}]
        BY Zenon, <1>t, <2>g DEF Goto, TypeOK
      <3> QED BY <1>t, <1>w, <1>y, <2>u, <3>1 DEF TypeOK
    <2>2. ReturnInv'
      BY <1>t, <1>a, <1>w, <2>u DEF ReturnInv, Ends, Agreed
    <2>3. InitiatorInv'
      BY <1>t, <1>b, <1>w, <2>u DEF InitiatorInv
    <2>4. ResponderInv'
      BY <1>a, <1>v, <2>u DEF ResponderInv, Agreed
    <2>5. LinesInv'
      <3>1. kNA \notin Protocols
        BY DEF LinesDistinct
      <3> QED BY <1>a, <1>b, <1>l, <1>n, <1>v, <1>w, <2>u, <3>1 DEF LinesInv, Agreed, Refused
    <2> QED BY <2>1, <2>2, <2>3, <2>4, <2>5 DEF IInv
  <1>c. CASE reply # kNA
    <2>g. Return("responder", reply) /\ reply \in Protocols
      BY <1>t, <1>c, <1>w DEF TypeOK
    <2>n. reply \notin Errors /\ reply # "none"
      BY <2>g, NotAgreed
    <2>b. broken' = broken
      BY <1>t, <2>g, <2>n DEF Return, TypeOK
    <2>u. /\ at'["responder"] = "done" /\ at'["initiator"] = at["initiator"]
          /\ result'["responder"] = reply /\ result'["initiator"] = result["initiator"]
      BY <1>t, <1>e, <2>g, EndValues
    <2>1. TypeOK'
      <3>1. /\ at' \in [Ends -> {"write_id", "write", "read_id", "read", "write_next", "done"}]
            /\ result' \in [Ends -> Protocols \cup Errors \cup {"none"}]
        BY Zenon, <1>t, <2>g DEF Return, TypeOK
      <3> QED BY <1>t, <1>w, <1>y, <2>b, <3>1 DEF TypeOK
    <2>2. ReturnInv'
      BY <1>t, <1>a, <2>b, <2>g, <2>n, <2>u DEF ReturnInv, Ends, Agreed
    <2>3. InitiatorInv'
      BY <1>t, <1>b, <1>w, <2>u DEF InitiatorInv
    <2>4. ResponderInv'
      BY <1>b, <1>c, <1>v, <1>w, <2>u DEF ResponderInv, Served, Refused
    <2>5. LinesInv'
      <3>1. \A k \in DOMAIN sent'["responder"] :
               /\ sent'["responder"][k] \in Protocols =>
                     k = Len(sent'["responder"]) /\ reply = sent'["responder"][k]
               /\ at["initiator"] # "done" => sent'["responder"][k] # kNA
        BY <1>c, <1>l
      <3> QED BY <2>u, <3>1 DEF LinesInv
    <2> QED BY <2>1, <2>2, <2>3, <2>4, <2>5 DEF IInv
  <1> QED BY <1>n, <1>c

(* Every step of either end and every failure of the stream keeps IInv.      *)
LEMMA NextInv ==
    ASSUME LinesDistinct, IInv, Next \/ UNCHANGED vars
    PROVE  IInv'
  <1>1. ASSUME NothingToPropose PROVE IInv'
    <2>1. /\ at["initiator"] # "done" /\ Return("initiator", "NEGOTIATION_FAILED")
          /\ UNCHANGED <<protocols, supported, i, reply, sent>>
      BY <1>1 DEF NothingToPropose, lists
    <2>2. "initiator" \in Ends /\ "NEGOTIATION_FAILED" \in Errors
      BY DEF Ends, Errors
    <2> QED BY <2>1, <2>2, FailsInv
  <1>2. ASSUME NEW e \in Ends, StreamError(e) PROVE IInv'
    <2>1. /\ at[e] # "done" /\ Return(e, "STREAM_CLOSED")
          /\ UNCHANGED <<protocols, supported, i, reply, sent>>
      BY <1>2 DEF StreamError, lists
    <2>2. "STREAM_CLOSED" \in Errors
      BY DEF Errors
    <2> QED BY <2>1, <2>2, FailsInv
  <1>3. ASSUME NEW e \in Ends, CheckId(e) PROVE IInv'
    <2>1. e = "initiator" \/ e = "responder"
      BY DEF Ends
    <2> QED BY <1>3, <2>1, InitiatorIdInv, ResponderIdInv
  <1>4. CASE UNCHANGED vars
    <2>1. UNCHANGED <<protocols, supported, i, at, reply, result, sent, broken>>
      BY <1>4 DEF vars
    <2>2. TypeOK' /\ ReturnInv'
      BY SMTT(30), <2>1 DEF IInv, TypeOK, ReturnInv, Agreed
    <2>3. InitiatorInv' /\ ResponderInv'
      BY SMTT(30), <2>1 DEF IInv, InitiatorInv, ResponderInv, Agreed, Refused, Served
    <2>4. LinesInv'
      BY <2>1 DEF IInv, LinesInv, Agreed, Refused
    <2> QED BY <2>2, <2>3, <2>4 DEF IInv
  <1> QED
    BY <1>1, <1>2, <1>3, <1>4, HelloInv, ProposeInv, DecisionInv, ProposeNextInv, WelcomeInv,
       ProposalInv, ReplyInv, BreaksInv DEF Next, InitiatorGoes, ResponderGoes

(* What the invariant says of the ends that agreed.                          *)
LEMMA InvSound ==
    ASSUME LinesDistinct, IInv
    PROVE  NegotiationSound
  <1>t. TypeOK /\ ReturnInv /\ InitiatorInv /\ ResponderInv /\ LinesInv
    BY DEF IInv
  <1>e. "initiator" \in Ends /\ "responder" \in Ends /\ "initiator" # "responder"
    BY DEF Ends
  <1>1. SameProtocol
    BY <1>t DEF ReturnInv, SameProtocol
  <1>2. Agreed("initiator") => Agreed("responder")
    BY <1>1 DEF SameProtocol, Agreed
  <1>3. \A e \in Ends : Agreed(e) => Served(result[e])
    BY <1>t, <1>1, <1>2 DEF ResponderInv, SameProtocol, Ends
  <1>4. FirstCommon
    <2> SUFFICES ASSUME NEW e \in Ends, Agreed(e)
                 PROVE  \E k \in Common : /\ protocols[k] = result[e]
                                          /\ \A l \in Common : k <= l
      BY DEF FirstCommon
    <2>1. Served(result[e])
      BY <1>3
    <2>2. /\ DOMAIN protocols = 1..Len(protocols) /\ Len(protocols) \in Nat
          /\ Len(protocols) >= 1
      BY <1>t, <2>1 DEF TypeOK, Served
    <2>3. CASE result[e] = protocols[1]
      <3>1. 1 \in Common /\ \A l \in Common : 1 <= l
        BY <2>1, <2>2, <2>3 DEF Served, Common
      <3> QED BY <2>3, <3>1
    <2>4. CASE Refused /\ Len(protocols) >= 2 /\ result[e] = protocols[2]
      <3>1. 2 \in Common /\ \A l \in Common : 2 <= l
        BY <2>1, <2>2, <2>4 DEF Served, Refused, Common
      <3> QED BY <2>4, <3>1
    <2> QED BY <2>1, <2>3, <2>4 DEF Served
  <1>5. CleanHandover
    BY <1>t DEF ReturnInv, ResponderInv, CleanHandover, Ends, Other
  <1> QED BY <1>t, <1>1, <1>4, <1>5 DEF NegotiationSound

(* selectOneOf: for all lists and all protocols served, whatever the order   *)
(* of the steps of the two ends and wherever the stream breaks, an initiator *)
(* that returns a protocol has a responder that returned the same, the       *)
(* first of the list that it serves, and no line of the negotiation is left  *)
(* for a handler to read.                                                    *)
THEOREM AlwaysSound ==
    ASSUME LinesDistinct
    PROVE  Spec => []NegotiationSound
  <1>1. Init => IInv
    BY InitInv
  <1>2. IInv /\ [Next]_vars => IInv'
    BY NextInv
  <1>3. IInv => NegotiationSound
    BY InvSound
  <1> QED BY <1>1, <1>2, <1>3, PTL DEF Spec

-----------------------------------------------------------------------------
(* Ping.                                                                     *)

CONSTANTS Loop, Callers
VARIABLES faithful, connected, pc, stream, wire, timer, queued
P == INSTANCE Ping

(* No timer stays armed after its ping, and the loop and every single ping   *)
(* give their streams back.                                                  *)
PingSound == P!PingSound

(* A timer that is armed belongs to a ping that is being read, and an end    *)
(* leaves no stream: inductive with the types of the three, and that a       *)
(* stream is only negotiated where there is none.                            *)
PInv ==
    /\ pc \in [P!Pingers -> {"yielded", "awake", "opening", "reading", "sleeping", "ended"}]
    /\ timer \in [P!Pingers -> {"off", "armed", "expired"}]
    /\ stream \in [P!Pingers -> {"none", "open", "reset"}]
    /\ P!TimerWithinPing /\ P!StreamsReturned
    /\ \A k \in P!Pingers : pc[k] = "opening" => stream[k] = "none"

(* The coroutines start without a stream and with the timer off.             *)
LEMMA PInit == P!Init => PInv
  BY DEF P!Init, PInv, P!TimerWithinPing, P!StreamsReturned

(* Every step of a pinger, of its timer and of the remote keeps PInv.        *)
LEMMA PNext == PInv /\ [P!Next]_P!vars => PInv'
  <1> SUFFICES ASSUME PInv, [P!Next]_P!vars PROVE PInv' OBVIOUS
  <1> USE DEF PInv, P!TimerWithinPing, P!StreamsReturned
  <1>1. CASE UNCHANGED P!vars BY <1>1 DEF P!vars
  <1>2. CASE P!Close BY <1>2 DEF P!Close
  <1>3. ASSUME NEW k \in P!Pingers, P!again(k) PROVE PInv'
    BY <1>3 DEF P!again, P!begin
  <1>4. ASSUME NEW k \in P!Pingers, P!answered(k) PROVE PInv'
    BY <1>4 DEF P!answered, P!afterPing, P!streamAfter, P!cancelled
  <1>5. ASSUME NEW k \in P!Pingers, P!wake(k) PROVE PInv'
    BY <1>5 DEF P!wake
  <1>6. ASSUME NEW k \in P!Pingers, NEW ok \in BOOLEAN, P!opened(k, ok) PROVE PInv'
    <2>1. CASE ok BY <1>6, <2>1 DEF P!opened, P!begin
    <2>2. CASE ~ok BY <1>6, <2>2 DEF P!opened, P!withoutStream
    <2> QED BY <2>1, <2>2
  <1>7. ASSUME NEW k \in P!Pingers, P!Expire(k) PROVE PInv'
    BY <1>7 DEF P!Expire
  <1>8. ASSUME NEW k \in P!Pingers, P!onTimer(k) PROVE PInv'
    BY <1>8 DEF P!onTimer, P!resetBy
  <1>9. ASSUME NEW k \in P!Pingers, NEW x, P!handle(k, x) PROVE PInv'
    BY <1>9 DEF P!handle
  <1>10. ASSUME NEW k \in P!Pingers, P!newStream(k) PROVE PInv'
    BY <1>10 DEF P!newStream
  <1> QED BY <1>1, <1>2, <1>3, <1>4, <1>5, <1>6, <1>7, <1>8, <1>9, <1>10 DEF P!Next, P!Step

(* Ping: for any number of callers beside the loop, and any order of         *)
(* answers, timers, wrong messages and the close of the connection, no timer *)
(* stays armed after its ping and no coroutine ends with a stream in hand.   *)
THEOREM PingAlwaysSound == P!Spec => []PingSound
  <1>1. PInv => PingSound
    BY DEF PInv, PingSound, P!PingSound
  <1> QED BY <1>1, PInit, PNext, PTL DEF P!Spec
-----------------------------------------------------------------------------
(* The handlers of inbound streams.                                          *)

CONSTANTS Letters, Names, Handlers, Ids, Streams
VARIABLES protocols_, order, inbound
R == INSTANCE ProtocolRegistry WITH Protocols <- Handlers, stream <- inbound

(* A stream goes to the handler that was the first to register its name, and *)
(* none is reset after the remote was told its protocol is accepted.         *)
HandlersServe == R!HandlersServe

(* A name is in the table exactly if a registered handler serves it, and its *)
(* handler is the first of these.                                            *)
TableInv ==
    /\ order \in Seq(Handlers)
    /\ \A m \in 1..Len(order) : Ids[order[m]] \subseteq DOMAIN protocols_
    /\ \A n \in DOMAIN protocols_ :
        n \in Names /\ \E m \in 1..Len(order) : R!First(m, n) /\ protocols_[n] = order[m]

(* What was offered to a stream is still served, since no handler is ever    *)
(* removed.                                                                  *)
StreamInv ==
    /\ inbound \in [Streams -> [pc : {"new", "negotiating", "reset", "handled"},
                               offered : SUBSET Names, name : Names \cup {<< >>},
                               handler : SUBSET Handlers]]
    /\ \A s \in Streams : /\ inbound[s].offered \subseteq DOMAIN protocols_
                          /\ inbound[s].pc # "handled" => inbound[s].name = << >>

RInv == TableInv /\ StreamInv /\ R!FirstServes

(* A name in the table is found by getProtocol, under that very name.        *)
LEMMA HandlerFound ==
    ASSUME NEW t, NEW n \in DOMAIN t, R!RegistryAssumption, n \in Names
    PROVE  R!getProtocol(t, n) = {t[n]}
  <1>1. n \in Seq(Letters)
    BY DEF R!RegistryAssumption
  <1>2. R!IsPrefix(n, n)
    BY <1>1 DEF R!IsPrefix
  <1>3. R!matches(t, n) = {n}
    BY <1>2 DEF R!matches
  <1> QED BY <1>3 DEF R!getProtocol

(* No handler is registered and no stream accepted.                          *)
LEMMA RInit == R!Init => RInv
  <1> SUFFICES ASSUME R!Init PROVE RInv OBVIOUS
  <1>1. TableInv
    BY DEF R!Init, TableInv, R!EmptyTable
  <1>2. StreamInv
    BY DEF R!Init, StreamInv, R!New
  <1>3. R!FirstServes
    BY DEF R!Init, R!FirstServes, R!New
  <1> QED BY SMTT(30), <1>1, <1>2, <1>3 DEF RInv

(* A new handler takes the names nobody has; whoever is first for a name     *)
(* stays so.                                                                 *)
LEMMA RegisterInv ==
    ASSUME R!RegistryAssumption, RInv, NEW p \in Handlers, R!listenProtocol(p)
    PROVE  RInv'
  <1>t. TableInv /\ StreamInv /\ R!FirstServes
    BY DEF RInv
  <1>u. protocols_' = R!emplace(protocols_, Ids[p], p) /\ order' = Append(order, p)
        /\ inbound' = inbound
    BY DEF R!listenProtocol
  <1>i. Ids[p] \subseteq Names
    BY DEF R!RegistryAssumption
  <1>o. /\ order' \in Seq(Handlers) /\ Len(order') = Len(order) + 1 /\ Len(order) \in Nat
        /\ order'[Len(order) + 1] = p /\ \A m \in 1..Len(order) : order'[m] = order[m]
    BY SMTT(30), <1>t, <1>u DEF TableInv
  <1>d. /\ DOMAIN protocols_' = DOMAIN protocols_ \cup Ids[p]
        /\ \A n \in DOMAIN protocols_ : protocols_'[n] = protocols_[n]
        /\ \A n \in Ids[p] \ DOMAIN protocols_ : protocols_'[n] = p
    BY <1>u DEF R!emplace
  <1>f. \A n : \A m \in 1..Len(order) : R!First(m, n) => R!First(m, n)'
    BY SMTT(30), <1>o DEF R!First
  <1>1. \A m \in 1..Len(order') : Ids[order'[m]] \subseteq DOMAIN protocols_'
    BY SMTT(30), <1>t, <1>o, <1>d DEF TableInv
  <1>2. ASSUME NEW n \in DOMAIN protocols_'
        PROVE  n \in Names /\ \E m \in 1..Len(order') : R!First(m, n)' /\ protocols_'[n] = order'[m]
    <2>1. CASE n \in DOMAIN protocols_
      <3>1. PICK m \in 1..Len(order) : R!First(m, n) /\ protocols_[n] = order[m]
        BY SMTT(30), <1>t, <2>1 DEF TableInv
      <3>2. m \in 1..Len(order') /\ R!First(m, n)' /\ protocols_'[n] = order'[m]
        BY SMTT(30), <1>o, <1>d, <1>f, <2>1, <3>1
      <3>3. n \in Names
        BY SMTT(30), <1>t, <2>1 DEF TableInv
      <3> QED BY SMTT(30), <3>2, <3>3
    <2>2. CASE n \notin DOMAIN protocols_
      <3>1. n \in Ids[p] /\ protocols_'[n] = p
        BY SMTT(30), <1>d, <2>2
      <3>2. \A j \in 1..Len(order) : n \notin Ids[order[j]]
        BY SMTT(30), <1>t, <2>2 DEF TableInv
      <3> PICK k \in Nat : k = Len(order) + 1
        BY <1>o
      <3>3. k \in 1..Len(order') /\ order'[k] = p /\ \A j \in 1..(k - 1) : order'[j] = order[j]
        BY <1>o
      <3>4. R!First(k, n)'
        BY SMTT(30), <1>o, <3>1, <3>2, <3>3 DEF R!First
      <3> QED BY SMTT(30), <1>i, <3>1, <3>3, <3>4
    <2> QED BY SMTT(30), <2>1, <2>2
  <1>3. TableInv'
    BY SMTT(30), <1>o, <1>1, <1>2 DEF TableInv
  <1>4. StreamInv'
    BY SMTT(30), <1>t, <1>u, <1>d DEF StreamInv
  <1>5. R!FirstServes'
    <2> SUFFICES ASSUME NEW s \in Streams, inbound[s].pc = "handled"
                 PROVE  \E m \in DOMAIN order' :
                            R!First(m, inbound[s].name)' /\ inbound[s].handler = {order'[m]}
      BY SMTT(30), <1>u DEF R!FirstServes
    <2>1. PICK m \in DOMAIN order : R!First(m, inbound[s].name) /\ inbound[s].handler = {order[m]}
      BY <1>t DEF R!FirstServes
    <2>2. m \in 1..Len(order) /\ DOMAIN order' = 1..Len(order')
      BY SMTT(30), <1>t, <1>o DEF TableInv
    <2>3. R!First(m, inbound[s].name)'
      BY SMTT(30), <1>u, <1>o, <2>1, <2>2 DEF R!First
    <2> QED BY SMTT(30), <1>o, <2>1, <2>2, <2>3
  <1> QED BY SMTT(30), <1>3, <1>4, <1>5 DEF RInv

(* The other steps change one stream, and leave the table alone: it is       *)
(* enough to look at that stream.                                            *)
LEMMA OneStream ==
    ASSUME RInv, NEW s \in Streams, NEW x, UNCHANGED <<protocols_, order>>,
           inbound' = [inbound EXCEPT ![s] = x],
           x \in [pc : {"new", "negotiating", "reset", "handled"}, offered : SUBSET Names,
                  name : Names \cup {<< >>}, handler : SUBSET Handlers],
           x.offered \subseteq DOMAIN protocols_,
           x.pc # "handled" => x.name = << >>,
           x.pc = "handled" => \E m \in DOMAIN order : R!First(m, x.name) /\ x.handler = {order[m]}
    PROVE  RInv'
  <1>1. TableInv'
    BY DEF RInv, TableInv, R!First
  <1>2. /\ DOMAIN inbound = Streams /\ inbound'[s] = x
        /\ \A r \in Streams \ {s} : inbound'[r] = inbound[r]
    BY DEF RInv, StreamInv
  <1>3. StreamInv'
    BY SMTT(30), <1>2 DEF RInv, StreamInv
  <1>4. R!FirstServes'
    BY <1>2 DEF RInv, R!FirstServes, R!First
  <1> QED BY SMTT(30), <1>1, <1>3, <1>4 DEF RInv

(* acceptStream offers what is served now.                                   *)
LEMMA AcceptInv == ASSUME RInv, NEW s \in Streams, R!acceptStream(s) PROVE RInv'
  <1>1. /\ inbound[s] \in [pc : {"new", "negotiating", "reset", "handled"}, offered : SUBSET Names,
                          name : Names \cup {<< >>}, handler : SUBSET Handlers]
        /\ inbound[s].offered \subseteq DOMAIN protocols_ /\ inbound[s].pc = "new"
        /\ inbound[s].name = << >> /\ DOMAIN protocols_ \subseteq Names
    BY DEF RInv, StreamInv, TableInv, R!acceptStream
  <1>2. /\ inbound' = [inbound EXCEPT ![s] = R!offers(s)] /\ UNCHANGED <<protocols_, order>>
    BY DEF R!acceptStream
  <1>3. \/ R!offers(s) = [inbound[s] EXCEPT !.pc = "reset"]
        \/ R!offers(s) = [inbound[s] EXCEPT !.pc = "negotiating", !.offered = DOMAIN protocols_]
    BY DEF R!offers, R!getSupportedProtocols
  <1>4. /\ R!offers(s) \in [pc : {"new", "negotiating", "reset", "handled"}, offered : SUBSET Names,
                          name : Names \cup {<< >>}, handler : SUBSET Handlers]
        /\ R!offers(s).offered \subseteq DOMAIN protocols_
        /\ R!offers(s).pc # "handled" /\ R!offers(s).name = << >>
    BY Zenon, <1>1, <1>3
  <1> QED BY Zenon, <1>2, <1>4, OneStream

(* The name was offered, so it is in the table, and its handler is the first *)
(* one that registered it.                                                   *)
LEMMA SelectedInv ==
    ASSUME R!RegistryAssumption, RInv, NEW s \in Streams, NEW n \in Names, R!selected(s, n)
    PROVE  RInv'
  <1> DEFINE h == R!getProtocol(protocols_, n)
             x == [inbound[s] EXCEPT !.name = n, !.handler = h,
                                    !.pc = IF h = {} THEN "reset" ELSE "handled"]
  <1>1. /\ inbound[s] \in [pc : {"new", "negotiating", "reset", "handled"}, offered : SUBSET Names,
                          name : Names \cup {<< >>}, handler : SUBSET Handlers]
        /\ inbound[s].offered \subseteq DOMAIN protocols_ /\ n \in inbound[s].offered
    BY DEF RInv, StreamInv, R!selected
  <1>2. inbound' = [inbound EXCEPT ![s] = x] /\ UNCHANGED <<protocols_, order>>
    BY DEF R!selected
  <1>3. h = {protocols_[n]}
    BY SMTT(30), <1>1, HandlerFound
  <1>4. PICK m \in 1..Len(order) : R!First(m, n) /\ protocols_[n] = order[m]
    BY SMTT(30), <1>1 DEF RInv, TableInv
  <1>5. m \in DOMAIN order /\ order[m] \in Handlers
    BY DEF RInv, TableInv
  <1>6. x = [inbound[s] EXCEPT !.name = n, !.handler = {order[m]}, !.pc = "handled"]
    BY Zenon, <1>3, <1>4
  <1>7. /\ x \in [pc : {"new", "negotiating", "reset", "handled"}, offered : SUBSET Names,
                  name : Names \cup {<< >>}, handler : SUBSET Handlers]
        /\ x.offered = inbound[s].offered /\ x.pc = "handled" /\ x.name = n
        /\ x.handler = {order[m]}
    <2> DEFINE g == {order[m]}
    <2>1. g \subseteq Handlers /\ n \in Names \cup {<< >>}
      BY <1>5
    <2>2. x = [inbound[s] EXCEPT !.name = n, !.handler = g, !.pc = "handled"]
      BY <1>6
    <2> HIDE DEF g, x
    <2>3. /\ x \in [pc : {"new", "negotiating", "reset", "handled"}, offered : SUBSET Names,
                    name : Names \cup {<< >>}, handler : SUBSET Handlers]
          /\ x.offered = inbound[s].offered /\ x.pc = "handled" /\ x.name = n /\ x.handler = g
      BY Zenon, <1>1, <2>1, <2>2
    <2> QED BY <2>3 DEF g
  <1> HIDE DEF x
  <1> QED BY Zenon, <1>1, <1>2, <1>4, <1>5, <1>7, OneStream

(* A negotiation that failed resets a stream that has no name.               *)
LEMMA NotSelectedInv == ASSUME RInv, NEW s \in Streams, R!notSelected(s) PROVE RInv'
  <1> DEFINE x == [inbound[s] EXCEPT !.pc = "reset"]
  <1>1. /\ inbound[s] \in [pc : {"new", "negotiating", "reset", "handled"}, offered : SUBSET Names,
                          name : Names \cup {<< >>}, handler : SUBSET Handlers]
        /\ inbound[s].offered \subseteq DOMAIN protocols_ /\ inbound[s].name = << >>
    BY DEF RInv, StreamInv, R!notSelected
  <1>2. inbound' = [inbound EXCEPT ![s] = x] /\ UNCHANGED <<protocols_, order>>
    BY DEF R!notSelected
  <1>3. /\ x \in [pc : {"new", "negotiating", "reset", "handled"}, offered : SUBSET Names,
                  name : Names \cup {<< >>}, handler : SUBSET Handlers]
        /\ x.offered \subseteq DOMAIN protocols_ /\ x.name = << >> /\ x.pc = "reset"
    BY <1>1
  <1> HIDE DEF x
  <1> QED BY Zenon, <1>2, <1>3, OneStream

(* Every step of the registry keeps the invariant.                           *)
LEMMA RNext == ASSUME R!RegistryAssumption PROVE RInv /\ [R!Next]_R!vars => RInv'
  <1> SUFFICES ASSUME RInv, [R!Next]_R!vars PROVE RInv' BY SMTT(30)
  <1>1. ASSUME UNCHANGED R!vars PROVE RInv'
    BY <1>1 DEF R!vars, RInv, TableInv, StreamInv, R!FirstServes, R!First
  <1>2. ASSUME NEW p \in Handlers, R!listenProtocol(p) PROVE RInv'
    BY <1>2, RegisterInv
  <1>3. ASSUME NEW s \in Streams, R!acceptStream(s) PROVE RInv'
    BY <1>3, AcceptInv
  <1>4. ASSUME NEW s \in Streams, R!notSelected(s) PROVE RInv'
    BY <1>4, NotSelectedInv
  <1>5. ASSUME NEW s \in Streams, NEW n \in Names, R!selected(s, n) PROVE RInv'
    BY <1>5, SelectedInv
  <1> QED BY SMTT(30), <1>1, <1>2, <1>3, <1>4, <1>5 DEF R!Next

(* A stream goes to the first handler that registered the name it            *)
(* negotiated, and no name is accepted that nobody serves, for any handlers, *)
(* names and streams: getSupportedProtocols, selectOneOf and getProtocol of  *)
(* a stream may be as far apart as they like.                                *)
THEOREM HandlersAlwaysServe == ASSUME R!RegistryAssumption PROVE R!Spec => []HandlersServe
  <1>1. RInv => HandlersServe
    BY DEF RInv, StreamInv, HandlersServe, R!HandlersServe, R!NoEmptyPromise
  <1>2. R!Init => RInv
    BY RInit
  <1>3. RInv /\ [R!Next]_R!vars => RInv'
    BY SMTT(30), RNext
  <1> QED BY <1>1, <1>2, <1>3, PTL DEF R!Spec

-----------------------------------------------------------------------------
(* The repositories: S under their own operations, I as identify fills them. *)

CONSTANTS
    Peers, Addresses, MaxTime, Ratio, Ttls, Jump, LastTime, Keys, PeerProtocols, Agents,
    Conns, PeerOf, RecentlyConnected
VARIABLES
    db_, now, seen, until, pub_, kp_, peerProtocols, agents, told, agentUntil,
    idDb, idNow, idSeen, idUntil, idPub, idKp, idProtocols, idAgents, idTold, idAgentUntil,
    offers, recv, idStream, answer, published

S == INSTANCE RepositoryProofs WITH
    Protocols <- PeerProtocols, protocols <- peerProtocols, stream <- idStream
I == INSTANCE RepositoryProofs WITH
    Protocols <- PeerProtocols, protocols <- idProtocols, db_ <- idDb, now <- idNow,
    seen <- idSeen, until <- idUntil, pub_ <- idPub, kp_ <- idKp, agents <- idAgents,
    told <- idTold, agentUntil <- idAgentUntil, stream <- idStream

(* The order list and the expiry times of a peer hold the same addresses, a  *)
(* listener of both signals knows exactly these, none is dropped before the  *)
(* time to live it was given last, or moves behind another but by failing or *)
(* being stored anew, and none is left that expired before a collection.     *)
AddressesKept == S!AddressesKept

(* A message of identify is stored as a whole or not at all, and what is     *)
(* stored of a peer comes from its published messages and outlives           *)
(* collections until their time to live ends; its stream is given back.  The *)
(* protocols of a peer are those that were added and not removed, and a user *)
(* agent is kept until the time to live it was given, here and under the     *)
(* repositories' own operations.                                             *)
StoredWhole ==
    /\ I!StoredWhole /\ I!StreamsReleased /\ I!ProtocolsKept /\ I!AgentKept
    /\ S!ProtocolsKept /\ S!AgentKept

(* The list and the table of InmemAddressRepository agree, its two signals   *)
(* report every change, a collection drops exactly what has expired, and no  *)
(* operation but dialFailed moves an address behind another, for any peers,  *)
(* addresses, times to live and clock, kPermanent and its overflow included. *)
THEOREM AddressesAlwaysKept ==
    ASSUME S!RepositoryAssumption PROVE S!StoreSpec => AddressesKept
  BY SMTT(30), S!AddressesAlwaysKept DEF AddressesKept

(* recv_identify stores a message as a whole or not at all and resets its    *)
(* stream, for any connections and messages, whatever changes, fails or is   *)
(* collected in between; no protocol, address or user agent of a message is  *)
(* lost before its time or made up by the repositories, and no protocol or   *)
(* agent where they are used directly.                                       *)
THEOREM StoredAlwaysWhole ==
    ASSUME S!RepositoryAssumption, I!RepositoryAssumption, I!IdentifyAssumption
    PROVE  S!StoreSpec /\ I!Spec => []StoredWhole
  <1>1. S!StoreSpec => [](S!ProtocolsKept /\ S!AgentKept)
    BY SMTT(30), S!StoreAlwaysKept
  <1>2. I!Spec => [](I!StoredWhole /\ I!StreamsReleased /\ I!ProtocolsKept /\ I!AgentKept)
    BY SMTT(30), I!IdentifyAlwaysWhole
  <1> QED BY <1>1, <1>2, PTL DEF StoredWhole
=============================================================================
