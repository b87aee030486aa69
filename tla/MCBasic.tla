------------------------------ MODULE MCBasic ------------------------------
(* The two ends of the stack, side by side: the buffers, varints and framing *)
(* under the protocols, and the event bus and the C interface an application *)
(* meets.  `part` says which moves.                                          *)
(*  - buffer: fragments of a few bytes, at every offset;                     *)
(*  - collector: sizes around the threshold at which memory is given back;   *)
(*  - varint: bytes of 2 bits and a flag, numbers of 5 bits;                 *)
(*  - framing: two messages over a connection that may break, echoed three   *)
(*    times; forever: over one that does not, with a server that goes on;    *)
(*  - address: addresses created of texts of one protocol, well formed or    *)
(*    not, joined twice: every order of a name, its prefixes and its values; *)
(*  - formats: bytes and texts of a few characters, and content identifiers  *)
(*    around the limits of their parts;                                      *)
(*  - bus: three handles, three subscriptions, two events;                   *)
(*  - calls: two hosts without a seed, of which one listens, a stream and    *)
(*    two operations of the C interface, an event loop without fairness;     *)
(*    stop: one host, and a loop that goes on while it is not stopped.       *)
(* The bus and the C interface, their constants, variables and properties    *)
(* are those of InterfaceProofs.                                             *)
EXTENDS InterfaceProofs, Integers, TLC

CONSTANT Parts

VARIABLES
    part,
    fragments_, total_size_, first_byte_offset_, capacity_remains_, out, last,
    expected_size_, buffer_, capacity, data, end, asked, start, ret,
    reader, state, fed,
    sent, writing, up, down, echo, reading, received, result, alive,
    self, foreign, cut, changes, others,
    bytes, text, cid

Buf == INSTANCE ReadBuffer WITH
    Bytes <- {0, 1, 2, 3}, MaxAdd <- 3, MaxOut <- 3, alloc_granularity_ <- 2,
    MaxSize <- 6, MaxFragment <- 9
Col == INSTANCE FixedBufferCollector WITH
    Sizes <- {0, 1, 3, 6}, Values <- 5, MaxPiece <- 4, memory_threshold_ <- 2
Var == INSTANCE VarintReader WITH Bits <- 2, Width <- 5, MaxLen <- 4, MaxPiece <- 3
Frm == INSTANCE Framing WITH
    Bits <- 1, Width <- 3, Sizes <- {0, 2, 3}, MaxMessages <- 2, max_size <- 2,
    max_recv_size <- 2, max_server_repeats <- 3, MayFail <- TRUE
Forever == INSTANCE Framing WITH
    Bits <- 1, Width <- 3, Sizes <- {0, 2, 3}, MaxMessages <- 2, max_size <- 2,
    max_recv_size <- 2, max_server_repeats <- 0, MayFail <- FALSE

Texts ==
    {<<"/", "ip4", "/", "1.2.3.4">>, <<"/", "ip4", "/", "0.0.0.0">>,
     <<"/", "ip6", "/", "0::0", "/">>, <<"/", "ip4", "/", "::">>,
     <<"/", "udp", "/", "8", "0">>, <<"/", "udp", "/", "0", "8">>,
     <<"/", "udp", "/", "6", "5", "5", "3", "6">>, <<"/", "tcp", "/", "a">>,
     <<"/", "dns", "/", "a", "ws">>, <<"/", "dns", "4", "/", "8">>, <<"/", "dns", "/", "ws">>,
     <<"/", "dns", "/", "ipfs", "8">>,
     <<"/", "dns", "/", "a", "_">>, <<"/", "unix", "/", "a">>,
     <<"/", "p2p", "/", "Qm1">>, <<"/", "ipfs", "/", "Qm2">>, <<"/", "p2p", "/", "a">>,
     <<"/", "quic", "-v1">>, <<"/", "ws">>, <<"/", "ws", "s">>,
     <<"/", "x-parity-ws", "/", "%", "2", "5", "2", "F">>,
     <<"/", "onion3", "/", "a">>, <<"/", "dccp", "/", "8">>,
     << >>, <<"/">>, <<"tcp">>, <<"/", "/">>, <<"/", "tcp">>, <<"/", "tcp", "/", "/">>,
     <<"/", "a">>}
(* Codes and lengths in too many bytes, empty values, and bytes that are no  *)
(* address                                                                   *)
Received ==
    {<<132, 0, 1, 2, 3, 4>>, <<53, 129, 0, 56>>, <<53, 0>>, <<165, 3, 0>>, <<162, 37, 0>>,
     <<4, 1, 2>>, <<53, 2, 56>>, <<5>>, <<6, 0, 80, 128>>, <<53, 1, 95>>}
Zeros == [i \in 1..16 |-> 0]
Adr == INSTANCE Multiaddress WITH
    Ip <- ("1.2.3.4" :> <<1, 2, 3, 4>> @@ "0.0.0.0" :> <<0, 0, 0, 0>>
           @@ "::" :> Zeros @@ "0::0" :> Zeros @@ "::1" :> [Zeros EXCEPT ![16] = 1]),
    Canonical <- {"1.2.3.4", "0.0.0.0", "::", "::1"},
    Hash <- ("Qm1" :> <<18, 1>> @@ "Qm2" :> <<18, 2>>), PeerIds <- {"Qm1"},
    Ord <- ("0" :> 48 @@ "2" :> 50 @@ "5" :> 53 @@ "8" :> 56 @@ "F" :> 70 @@ "a" :> 97
            @@ "%" :> 37 @@ "/" :> 47 @@ "_" :> 95 @@ "ws" :> 119
            @@ "ipfs" :> 105),
    MaxChanges <- 2

Seqs(S, n) == UNION {[1..k -> S] : k \in 0..n}
Fmt == INSTANCE Formats WITH
    kMaxHashLength <- 6, kMaxInlineKeyLength <- 5, DigestSize <- 3, QmSize <- 7, Qm <- <<51, 50>>,
    Raw <- Seqs({0, 1, 2, 18, 128, 255}, 3) \cup Seqs({0, 255}, 7),
    Texts <- Seqs({32, 49, 50, 61, 65, 122}, 4),
    Types <- {0, 18, 45600}, Codes <- {112, 85, 61697},
    Hashes <- {[i \in 1..n |-> b] : n \in 0..7, b \in {0, 200}}

MCIndex == "e1" :> 7

ASSUME MCBasicAssumption ==
    /\ Buf!BufferAssumption /\ Col!CollectorAssumption
    /\ Var!VarintAssumption /\ Frm!VarintAssumption
    /\ Frm!FramingAssumption /\ Forever!FramingAssumption
    /\ Fmt!FormatsAssumption /\ C!CAssumption

bufVars == <<fragments_, total_size_, first_byte_offset_, capacity_remains_, out, last>>
colVars == <<expected_size_, buffer_, capacity, data, end, asked, start, ret>>
varVars == <<reader, state, fed>>
frmVars == <<sent, writing, up, down, echo, reading, received, result, alive>>
adrVars == <<self, foreign, cut, changes, others>>
fmtVars == <<bytes, text, cid>>
cVars == <<ctx, run, host, stream, ops, spawned, called, addr, early, stops>>
mcVars == <<part, bufVars, colVars, varVars, frmVars, adrVars, fmtVars, vars, cVars>>

MCInit ==
    /\ part \in Parts
    /\ Buf!Init /\ Col!Init /\ Var!Init /\ Adr!Init /\ Fmt!Init /\ Init
    /\ IF part = "forever" THEN Forever!Init ELSE Frm!Init
    /\ C!Init

(* The two parts of the C interface                                          *)
Within ==
    /\ part = "calls" =>
        /\ \A h \in Hosts : host[h].id = 0
        /\ addr = NULL /\ ~host["h2"].listening /\ host["h2"].table = C!EmptyTable
    /\ part = "stop" => host["h2"] = C!NoHost

MCNext ==
    /\ UNCHANGED part
    /\ \/ part = "buffer" /\ Buf!Next /\ UNCHANGED <<colVars, varVars, frmVars, adrVars, fmtVars, vars, cVars>>
       \/ part = "collector" /\ Col!Next /\ UNCHANGED <<bufVars, varVars, frmVars, adrVars, fmtVars, vars, cVars>>
       \/ part = "varint" /\ Var!Next /\ UNCHANGED <<bufVars, colVars, frmVars, adrVars, fmtVars, vars, cVars>>
       \/ /\ \/ part = "framing" /\ Frm!Next
             \/ part = "forever" /\ Forever!Next
          /\ UNCHANGED <<bufVars, colVars, varVars, adrVars, fmtVars, vars, cVars>>
       \/ part = "address" /\ Adr!Next /\ UNCHANGED <<bufVars, colVars, varVars, frmVars, fmtVars, vars, cVars>>
       \/ part = "formats" /\ Fmt!Next /\ UNCHANGED <<bufVars, colVars, varVars, frmVars, adrVars, vars, cVars>>
       \/ part = "bus" /\ Next /\ UNCHANGED <<bufVars, colVars, varVars, frmVars, adrVars, fmtVars, cVars>>
       \/ part \in {"calls", "stop"} /\ C!Next /\ UNCHANGED <<bufVars, colVars, varVars, frmVars, adrVars, fmtVars, vars>>
    /\ Within'

MCSpec ==
    /\ MCInit /\ [][MCNext]_mcVars
    /\ WF_frmVars(part = "forever" /\ Forever!Steps)
    /\ WF_cVars(part = "stop" /\ C!loop_starts)
    /\ WF_cVars(part = "stop" /\ C!loop_ends)

-----------------------------------------------------------------------------
(* Properties of the buffers, the varints and framing.                       *)

(* A ReadBuffer is a queue of bytes.                                         *)
QueueSpec == Buf!QueueSpec

(* add returns the very stretch of the stream that was asked for, once, what *)
(* the collector holds is a stretch of it, and a large buffer is given back  *)
(* when a much smaller message is expected.                                  *)
ReturnsStretch == [][Col!ReturnsStretch /\ Col!GivesBack /\ Col!Consecutive']_colVars

(* However the bytes are cut, a reader has the very number they stand for;   *)
(* the two decoders agree on what is a varint and on its number; and what is *)
(* encoded is read back, and nothing shorter is.                             *)
VarintsAgree == Var!ReadsExactly /\ Var!DecodersAgree /\ Var!EncodesBack

(* What is received are the messages that were sent, whole and in order, and *)
(* the echo server answers everything it has read before it stops; neither a *)
(* message too long nor an emptied ReadBuffer holds memory without bound,    *)
(* and the counters of a ReadBuffer agree with its fragments.                *)
BytesKept ==
    /\ part = "framing" => Frm!FramesKept /\ Frm!EchoComplete
    /\ Frm!AllocationBounded /\ Buf!MemoryBounded /\ Buf!Consistent

-----------------------------------------------------------------------------
(* Properties of Multiaddress.                                               *)

(* The text and the bytes of an address are the same address, for every      *)
(* reader, also if a remote sent the bytes, but for empty values and numbers *)
(* in too many bytes; what encapsulate adds is what decapsulate takes back,  *)
(* the parts of splitFirst are the address, and the endpoint and the peer of *)
(* an address are read back from it.                                         *)
AddressesAgree ==
    part = "address" =>
        /\ Adr!SameAddress /\ Adr!DecapsulateUndoes /\ Adr!SplitRejoins
        /\ Adr!ReadersAgree /\ Adr!EndpointKept /\ Adr!PeerAddressKept

-----------------------------------------------------------------------------
(* Properties of Formats.                                                    *)

(* What is written in a base, a multihash, the id of a peer and a content    *)
(* identifier are read back as they were, by every reader, up to the limits; *)
(* what is read from a text is the number it stands for; and of two content  *)
(* identifiers one is less than the other.                                   *)
FormatsAgree ==
    part = "formats" =>
        /\ Fmt!DecodesBack /\ Fmt!DigitsAgree /\ Fmt!HashKept
        /\ Fmt!IdKept /\ Fmt!CidKept /\ Fmt!Ordered

-----------------------------------------------------------------------------
(* Properties of framing and CInterface.                                     *)

(* Whoever waits is let go: on a connection that does not break every        *)
(* message comes back, or is the first one that is too long, and a stop that *)
(* comes once run has set its flag makes libp2p_context_run return.          *)
AllReturn ==
    /\ part = "forever" => Forever!AllReturn
    /\ part = "stop" => C!StopReturns

(* "Signals the context's event loop to stop, causing libp2p_context_run()   *)
(* to return", whenever it is called.                                        *)
StopAlwaysReturns == part = "stop" => C!StopAlwaysReturns
=============================================================================
