------------------------------ MODULE Digests ------------------------------
(* The contexts of OpenSSL that are kept between calls: Sha256 (Sha1 and     *)
(* Sha512 are alike), HmacProviderCtrImpl and AesCtrImpl.  A context is what *)
(* it was given; any call of the library may fail, and then changes nothing. *)
EXTENDS Integers, Sequences

CONSTANTS
    Data,                  \* what is written at once
    HashTypes,             \* of an Hmac, some of them not supported
    MaxWritten             \* bound: how much is written to a context

VARIABLES
    sha, hmac,             \* initialized_ and the context
    aes,                   \* initialization_error_ and the place in the key stream
    fed,                   \* history: what each digest was given since it was reset
    used,                  \* history: the places of the key stream that were used
    ret                    \* what the last call returned, and to whom

vars == <<sha, hmac, aes, fed, used, ret>>

Supported == {"SHA1", "SHA256", "SHA512"}
EVP_MD_size(hash_type) == IF hash_type = "SHA1" THEN 20 ELSE IF hash_type = "SHA256" THEN 32 ELSE 64

returns(op, error, value) == ret' = [op |-> op, error |-> error, value |-> value]

final == <<"final">>
sinkCtx(c) == IF c.initialized_ THEN [c EXCEPT !.initialized_ = FALSE, !.ctx = final] ELSE c
HmacSinkCtx(c) == IF c.initialized_ THEN [c EXCEPT !.initialized_ = FALSE, !.ctx = final] ELSE c
fresh(c) == [c EXCEPT !.initialized_ = TRUE, !.ctx = << >>]

-----------------------------------------------------------------------------
(* Sha256                                                                    *)
Sha256(ok) == [initialized_ |-> ok, ctx |-> << >>]

write(data, ok) ==
    /\ Len(fed.sha) < MaxWritten
    /\ IF sha.initialized_ /\ ok
       THEN /\ sha' = [sha EXCEPT !.ctx = Append(@, data)]
            /\ fed' = [fed EXCEPT !.sha = Append(@, data)]
            /\ returns("write", "none", << >>)
       ELSE /\ returns("write", IF sha.initialized_ THEN "FAILED_UPDATE_DIGEST"
                                ELSE "FAILED_INITIALIZE_CONTEXT", << >>)
            /\ UNCHANGED <<sha, fed>>
    /\ UNCHANGED <<hmac, aes, used>>

(* The digest is of a copy of the context                                    *)
digestOut(size, ok) ==
    /\ returns("sha",
               CASE ~sha.initialized_ -> "FAILED_INITIALIZE_CONTEXT"
                 [] sha.initialized_ /\ size # 32 -> "WRONG_DIGEST_SIZE"
                 [] sha.initialized_ /\ size = 32 /\ ~ok -> "FAILED_FINALIZE_DIGEST"
                 [] OTHER -> "none",
               sha.ctx)
    /\ UNCHANGED <<sha, hmac, aes, fed, used>>

reset(ok) ==
    /\ sha' = IF ok THEN fresh(sinkCtx(sha)) ELSE sinkCtx(sha)
    /\ fed' = [fed EXCEPT !.sha = << >>]
    /\ returns("reset", IF ok THEN "none" ELSE "FAILED_INITIALIZE_CONTEXT", << >>)
    /\ UNCHANGED <<hmac, aes, used>>

-----------------------------------------------------------------------------
(* HmacProviderCtrImpl: not initialized with a type that is not supported,   *)
(* until it is reset                                                         *)
HmacProviderCtrImpl(hash_type, ok) ==
    [hash_type_ |-> hash_type, initialized_ |-> hash_type \in Supported /\ ok, ctx |-> << >>]

digestSize == IF hmac.initialized_ THEN EVP_MD_size(hmac.hash_type_) ELSE 0

HmacWrite(data, ok) ==
    /\ Len(fed.hmac) < MaxWritten
    /\ IF hmac.initialized_ /\ ok
       THEN /\ hmac' = [hmac EXCEPT !.ctx = Append(@, data)]
            /\ fed' = [fed EXCEPT !.hmac = Append(@, data)]
            /\ returns("write", "none", << >>)
       ELSE /\ returns("write", IF hmac.initialized_ THEN "FAILED_UPDATE_DIGEST"
                                ELSE "FAILED_INITIALIZE_CONTEXT", << >>)
            /\ UNCHANGED <<hmac, fed>>
    /\ UNCHANGED <<sha, aes, used>>

HmacDigestOut(size, copied, ok) ==
    /\ returns("hmac",
               CASE ~hmac.initialized_ -> "FAILED_INITIALIZE_CONTEXT"
                 [] hmac.initialized_ /\ size # digestSize -> "WRONG_DIGEST_SIZE"
                 [] hmac.initialized_ /\ size = digestSize /\ ~copied -> "FAILED_INITIALIZE_CONTEXT"
                 [] hmac.initialized_ /\ size = digestSize /\ copied /\ ~ok -> "FAILED_FINALIZE_DIGEST"
                 [] OTHER -> "none",
               hmac.ctx)
    /\ UNCHANGED <<sha, hmac, aes, fed, used>>

HmacReset(ok) ==
    /\ hmac' = IF ok THEN fresh(HmacSinkCtx(hmac)) ELSE HmacSinkCtx(hmac)
    /\ fed' = [fed EXCEPT !.hmac = << >>]
    /\ returns("reset", IF ok THEN "none" ELSE "FAILED_INITIALIZE_CONTEXT", << >>)
    /\ UNCHANGED <<sha, aes, used>>

-----------------------------------------------------------------------------
(* AesCtrImpl, which encrypts or decrypts; init is called by its constructor *)
init(allocated, ok) ==
    IF ~allocated THEN "FAILED_INITIALIZE_CONTEXT"
    ELSE IF ~ok THEN "FAILED_INITIALIZE_OPERATION" ELSE "none"

crypt(ok) ==
    /\ Len(used) < MaxWritten
    /\ IF aes.error = "none" /\ ok
       THEN /\ aes' = [aes EXCEPT !.position = @ + 1]
            /\ used' = Append(used, aes.position)
            /\ returns("crypt", "none", << >>)
       ELSE /\ returns("crypt", IF aes.error = "none" THEN "FAILED_UPDATE" ELSE aes.error, << >>)
            /\ UNCHANGED <<aes, used>>
    /\ UNCHANGED <<sha, hmac, fed>>

finalize(ok) ==
    /\ IF aes.error = "none"
       THEN /\ aes' = [aes EXCEPT !.error = "STREAM_FINALIZED"]
            /\ returns("finalize", IF ok THEN "none" ELSE "FAILED_FINALIZE", << >>)
       ELSE /\ returns("finalize", aes.error, << >>)
            /\ UNCHANGED aes
    /\ UNCHANGED <<sha, hmac, fed, used>>

-----------------------------------------------------------------------------
made(type, ok) ==
    /\ sha = Sha256(ok["sha"]) /\ hmac = HmacProviderCtrImpl(type, ok["hmac"])
    /\ aes = [error |-> init(ok["new"], ok["aes"]), position |-> 0]
    /\ fed = [sha |-> << >>, hmac |-> << >>] /\ used = << >>
    /\ ret = [op |-> "new", error |-> "none", value |-> << >>]

Init == \E type \in HashTypes : \E ok \in [{"sha", "hmac", "new", "aes"} -> BOOLEAN] : made(type, ok)

(* One of the initial states, for a system of which this is not the part     *)
(* that moves                                                                *)
First == made("SHA256", [c \in {"sha", "hmac", "new", "aes"} |-> TRUE])

Next ==
    \E ok \in BOOLEAN :
        \/ \E data \in Data : write(data, ok) \/ HmacWrite(data, ok)
        \/ \E size \in {0, 20, 32} :
                digestOut(size, ok) \/ \E copied \in BOOLEAN : HmacDigestOut(size, copied, ok)
        \/ reset(ok) \/ HmacReset(ok) \/ crypt(ok) \/ finalize(ok)

Spec == Init /\ [][Next]_vars

-----------------------------------------------------------------------------
(* Properties.                                                               *)

(* A digest is of everything that was written since the last reset, however  *)
(* often one was taken in between, and whatever calls have failed.           *)
DigestOfAll ==
    /\ ret.op = "sha" /\ ret.error = "none" => ret.value = fed.sha
    /\ ret.op = "hmac" /\ ret.error = "none" => ret.value = fed.hmac

(* A cipher uses no part of its key stream twice and leaves none out, and    *)
(* nothing is encrypted once it was finalized.                               *)
StreamInOrder ==
    /\ used = [i \in 1..Len(used) |-> i - 1]
    /\ ret.op = "crypt" /\ ret.error = "none" => aes.error = "none"
=============================================================================
