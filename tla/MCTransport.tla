---------------------------- MODULE MCTransport ----------------------------
(* Dialling, the QUIC engine and the keys and certificates it trusts, side   *)
(* by side: `part` says which moves.                                         *)
(*  - dialer: three calls with up to two addresses each, one of them of a    *)
(*    family no transport supports;                                          *)
(*  - engine: two streams where the remote lets us open one, for safety;     *)
(*  - fairEngine: one of the streams, for what has to happen;                *)
(*  - keys: a pair of any type, and another key, cut, lengthened or said to  *)
(*    be of another type;                                                    *)
(*  - digests: contexts of a hash, an Hmac and a cipher, any call of which   *)
(*    may fail;                                                              *)
(*  - tls: hosts with keys of three types, and certificates with up to two   *)
(*    extensions, those of others among them.                                *)
EXTENDS TransportProofs, TLC

CONSTANT Parts

VARIABLES part, pair, key, sha, hmac, aes, fed, used, ret, certs, failed, seen

Kys == INSTANCE Keys WITH
    RawSize <- 2, Secrets <- {<<0, 0>>, <<0, 1>>, <<2, 0>>}, Messages <- {<<1>>, <<2>>},
    Numbers <- {2, 3, 5}
Dig == INSTANCE Digests WITH
    Data <- {"d", "e"}, HashTypes <- {"SHA1", "SHA256", "other"}, MaxWritten <- 2
HostKey(t, r) == [type |-> t, random |-> r]
Tls == INSTANCE Tls WITH
    RawSize <- 2, Hosts <- {"e", "s", "r"},
    Identity <- ("e" :> HostKey("Ed25519", <<1, 2>>) @@ "s" :> HostKey("Secp256k1", <<3, 4>>)
                 @@ "r" :> HostKey("RSA", <<5, 6>>)),
    CertKey <- ("e" :> <<0, 10>> @@ "s" :> <<0, 20>> @@ "r" :> <<0, 30>>),
    NoCert <- [pubkey |-> << >>, exts |-> << >>]

ASSUME MCTransportAssumption == Kys!KeysAssumption /\ Tls!TlsAssumption

engineVars == <<conn, connecting, answers, ls_stream, held, reading, writing, data,
                buffered, flag, want_flush_, want_process_, inConns, resumed, crashed>>
keyVars == <<pair, key>>
digVars == <<sha, hmac, aes, fed, used, ret>>
tlsVars == <<certs, failed, seen>>
trustVars == <<keyVars, digVars, tlsVars>>
mcVars == <<part, vars, engineVars, trustVars>>

MCInit ==
    /\ part \in Parts /\ Init /\ E!Init
    /\ IF part = "digests" THEN Dig!Init ELSE Dig!First
    /\ Kys!Init /\ Tls!Init

MCNext ==
    /\ UNCHANGED part
    /\ \/ part = "dialer" /\ Next /\ UNCHANGED <<engineVars, trustVars>>
       \/ /\ part \in {"engine", "fairEngine"} /\ E!Next
          /\ part = "fairEngine" => ls_stream'["t"] = "none"
          /\ UNCHANGED <<vars, trustVars>>
       \/ part = "keys" /\ Kys!Next /\ UNCHANGED <<vars, engineVars, digVars, tlsVars>>
       \/ part = "digests" /\ Dig!Next /\ UNCHANGED <<vars, engineVars, keyVars, tlsVars>>
       \/ part = "tls" /\ Tls!Next /\ UNCHANGED <<vars, engineVars, keyVars, digVars>>

(* The fairness of Dialer and, for fairEngine, of QuicEngine.                *)
MCSpec ==
    /\ MCInit /\ [][MCNext]_mcVars
    /\ WF_vars(part = "dialer" /\ (AttemptFails \/ AttemptSucceeds))
    /\ WF_engineVars(part = "fairEngine" /\ E!process)
    /\ WF_engineVars(part = "fairEngine" /\ E!EndConns)
    /\ SF_engineVars(part = "fairEngine" /\ E!on_conn_closed)
    /\ SF_engineVars(part = "fairEngine" /\ E!on_read("s"))
    /\ SF_engineVars(part = "fairEngine" /\ E!on_write("s"))
    /\ SF_engineVars(part = "fairEngine" /\ E!on_close("s"))

-----------------------------------------------------------------------------
(* What has to return, and Engine::process.                                  *)

(* Whoever waits is answered: the call that dials a peer, the dial of the    *)
(* engine, and a coroutine in a stream that is being closed.                 *)
CallsReturn ==
    /\ DialReturns
    /\ part = "fairEngine" => E!ConnectReturns
    /\ part = "fairEngine" => E!ClosedResumes

(* Engine::process skips a stream whose lsquic stream is gone, as its check  *)
(* of ls_stream is there to do: it does not dereference a null pointer.      *)
ProcessSkipsClosed == E!ProcessSkipsClosed

-----------------------------------------------------------------------------
(* Properties of Keys, Digests and Tls.                                      *)

(* The keys of a pair belong together, and no others do: not one that is cut *)
(* or of another type; a key that was read is used within its bytes; the two *)
(* sides of an exchange have the same secret, stretched into parts that do   *)
(* not overlap; and a digest is of all that was written, in the order of the *)
(* key stream of a cipher.                                                   *)
KeysSound ==
    /\ part = "keys" =>
        /\ Kys!TypeOK /\ Kys!PairBelongs /\ Kys!OthersDoNot /\ Kys!WithinBytes
        /\ Kys!CompactAgrees /\ Kys!SecretsAgree /\ Kys!StretchedApart
    /\ part = "digests" => Dig!DigestOfAll /\ Dig!StreamInOrder

(* A peer is taken for the holder of a key only if that key has signed the   *)
(* key of the very certificate it shows, and for the one that was dialled if *)
(* one was; a certificate a host makes is taken for that host; and a         *)
(* critical extension nobody knows is not accepted.                          *)
PeersProven == part = "tls" => Tls!PeersProven /\ Tls!HostsTaken /\ Tls!ExtensionsRead
=============================================================================
