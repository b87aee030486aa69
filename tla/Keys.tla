-------------------------------- MODULE Keys --------------------------------
(* A host generates its keys, and is given another, which may be cut, have   *)
(* bytes after it, or be said to be of a type it is not.                     *)
EXTENDS Crypto

CONSTANTS
    Secrets,               \* what random bytes there are, each of RawSize
    Messages,              \* what is signed
    Numbers                \* private keys of a curve, for Diffie-Hellman

KeysAssumption ==
    /\ CryptoAssumption /\ Secrets \subseteq [1..RawSize -> 0..255]
    /\ Numbers \subseteq 1..15
    /\ \A m, n \in Messages : sha256(m) = sha256(n) => m = n

VARIABLES pair, key

vars == <<pair, key>>

none == Key("UNSPECIFIED", << >>)
Randoms(type) ==
    IF type = "Secp256k1" THEN {s \in Secrets : seckey_verify(s)} ELSE Secrets \cup {<< >>}
Bitness == {"RSA1024", "RSA2048", "RSA4096"}

Init == pair = KeyPair(none, none) /\ key = none

generate ==
    \E type \in Types, rsa_bitness \in Bitness : \E random \in Randoms(type) :
        \E r \in {generateKeys(type, rsa_bitness, random)} :
            /\ r.error = "none"
            /\ pair' = r.value
            /\ UNCHANGED key

Datas ==
    {<<tag, bits(b), s[RawSize]>> : tag \in {tagRsaPrivate, tagRsaPublic}, b \in Bitness, s \in Secrets}
    \cup Secrets \cup {edPublic(s) : s \in Secrets} \cup {secpPublic(s) : s \in Secrets}
    \cup {ecStructure(tag, n) : tag \in {tagEcPrivate, tagEcPublic},
                                n \in {0} \cup {s[RawSize] + 1 : s \in Secrets}}
Altered(d) == {d, Append(d, 0), Front(d)}

receive ==
    /\ key' \in {Key(t, d) : t \in Types \cup {"UNSPECIFIED"}, d \in UNION {Altered(e) : e \in Datas}}
    /\ UNCHANGED pair

Next == generate \/ (key = none /\ receive)

Spec == Init /\ [][Next]_vars

-----------------------------------------------------------------------------
(* Properties.                                                               *)

TypeOK == key.type \in Types \cup {"UNSPECIFIED"} /\ pair.publicKey.type = pair.privateKey.type

proves(m, signature, k) ==
    LET r == verify(m, signature, k) IN r.error = "none" /\ r.value

(* The keys of a pair that was generated belong together: one is derived of  *)
(* the other, it verifies what the other has signed and nothing else, and    *)
(* both come back from their bytes, but for RSA keys of 1024 bits, which are *)
(* generated and not valid.                                                  *)
weak(k) == k.type = "RSA" /\ k.data[2] < kMinimumRSABits
PairBelongs ==
    pair.publicKey.type \in Types =>
        /\ derivePublicKey(pair.privateKey) = Ok(pair.publicKey)
        /\ (validatePair(pair) = valid) = ~weak(pair.publicKey)
        /\ \A m, n \in Messages : \A s \in {sign(m, pair.privateKey)} :
                s.error = "none" /\ proves(n, s.value, pair.publicKey) = (m = n)
        /\ ~weak(pair.publicKey) =>
                /\ unmarshalPublicKey(marshal(pair.publicKey).value) = Ok(pair.publicKey)
                /\ unmarshalPrivateKey(marshal(pair.privateKey).value) = Ok(pair.privateKey)

(* No other key verifies what a key has signed, or is derived of it, but for *)
(* one with bytes after those that are read; and of two keys that belong to  *)
(* different pairs no pair is made.                                          *)
begins(data, d) == Len(data) >= Len(d) /\ SubSeq(data, 1, Len(d)) = d
OthersDoNot ==
    pair.publicKey.type \in Types =>
        /\ \A m \in Messages :
                proves(m, sign(m, pair.privateKey).value, key) =>
                    key.type = pair.publicKey.type /\ begins(key.data, pair.publicKey.data)
        /\ validatePair(KeyPair(pair.publicKey, key)) = valid =>
                key.type = pair.privateKey.type /\ begins(key.data, pair.privateKey.data)
        /\ validatePair(KeyPair(key, pair.privateKey)) = valid => key = pair.publicKey

(* A key that was unmarshalled is used within its bytes, unless it is one of *)
(* ECDSA, which is not validated.                                            *)
WithinBytes ==
    key.type \in Types \ {"ECDSA"} =>
        /\ unmarshalPrivateKey(marshal(key).value).error = "none" =>
                /\ derivePublicKey(key).error # "undefined"
                /\ \A m \in Messages : sign(m, key).error # "undefined"
        /\ unmarshalPublicKey(marshal(key).value).error = "none" =>
                \A m \in Messages : verify(m, edSignature(zero(RawSize), m), key).error # "undefined"

(* A compact signature of Secp256k1 is verified as the other is.             *)
CompactAgrees ==
    pair.publicKey.type = "Secp256k1" =>
        \A m, n \in Messages :
            verifyCompact(sha256(n), signCompact(sha256(m), pair.privateKey.data).value,
                          pair.publicKey.data).value = (m = n)

(* Whatever two sides on a curve are given, they have the same secret, which *)
(* no other pair of them has; and none with a key of another curve.          *)
secret(curve, n, other, m) ==
    shared_secret_generator(curve, generateEphemeralKeyPair(curve, n).value.own,
                            generateEphemeralKeyPair(other, m).value.ephemeral_public_key)
SecretsAgree ==
    key = none =>
    /\ \A c \in Curves : \A n, m \in Numbers :
            /\ secret(c, n, c, m) = secret(c, m, c, n)
            /\ \A k \in Numbers : secret(c, n, c, m) = secret(c, n, c, k) => m = k
    /\ \A c, d \in Curves : \A n, m \in Numbers :
            (secret(c, n, d, m).error = "none") = (c = d)

(* The two stretched keys have parts of the sizes the ciphers need, and no   *)
(* byte of the expansion is in two of them.                                  *)
parts(k) == <<k.iv, k.cipher_key, k.mac_key>>
StretchedApart ==
    \A cipher \in {"AES128", "AES256"}, hash \in {"SHA1", "SHA256", "SHA512"} :
        \A k \in {stretchKey(cipher, hash).value} :
            \A all \in {FlattenSeq(parts(k[1]) \o parts(k[2]))} :
                /\ Len(all) = 2 * half_size(cipher)
                /\ \A n \in 1..2 : Len(k[n].cipher_key) = cipher_key_size(cipher)
                                   /\ Len(k[n].iv) = 16 /\ Len(k[n].mac_key) = 20
                /\ \A i, j \in DOMAIN all : all[i] = all[j] => i = j
=============================================================================
