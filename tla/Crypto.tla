------------------------------- MODULE Crypto -------------------------------
(* The keys of hosts: CryptoProviderImpl and its providers, KeyValidatorImpl *)
(* and KeyMarshaller.  Data are bytes.  The libraries are ideal: a signature *)
(* names the key and the digest it was made of.  Sizes are those of the code *)
(* with RawSize for 32; a byte stands for the number inside a DER structure. *)
EXTENDS Integers, Sequences, SequencesExt

CONSTANT RawSize           \* 32: Ed25519 keys, and private keys of Secp256k1

CryptoAssumption == RawSize \in Nat \ {0}

Ok(v) == [error |-> "none", value |-> v]
Fail(e) == [error |-> e, value |-> << >>]

(* What std::copy_n reads past the end of gives anything                     *)
Undefined == Fail("undefined")

Types == {"RSA", "Ed25519", "Secp256k1", "ECDSA"}
Key(type, data) == [type |-> type, data |-> data]
KeyPair(public, private) == [publicKey |-> public, privateKey |-> private]

copy_n(data, n) == SubSeq(data, 1, n)
zero(n) == [i \in 1..n |-> 0]

-----------------------------------------------------------------------------
(* The libraries.  A structure begins with its tag and is parsed from the    *)
(* front, whatever follows it.                                               *)
sha256(m) == <<FoldLeft(LAMBDA x, b : (31 * x + b + 1) % 251, 0, m)>>

EcSize == RawSize + 1
ecStructure(tag, n) == <<tag>> \o [i \in 1..RawSize |-> n]
tagRsaPrivate == 48
tagEcPrivate == 49
tagRsaPublic == 50
tagEcPublic == 51
tagSignature == 52

d2i_RSA(data, tag) == Len(data) >= 3 /\ data[1] = tag
i2d_RSA(tag, data) == <<tag, data[2], data[3]>>
d2i_EC(data, tag) == \E n \in 0..255 : data = ecStructure(tag, n)

edPublic(k) == [i \in 1..RawSize |-> (k[i] + 100) % 256]
edSignature(public, m) == public \o [i \in 1..RawSize |-> sha256(m)[1]]
seckey_verify(k) == k # zero(RawSize)
secpPublic(k) == <<2 + (k[RawSize] % 2)>> \o k
secpParses(public) == public[1] = 2 + (public[RawSize + 1] % 2) /\ seckey_verify(Tail(public))
derSignature(public, digest) == <<tagSignature>> \o public \o digest
parsesDer(signature) == Len(signature) = RawSize + 3 /\ signature[1] = tagSignature

-----------------------------------------------------------------------------
(* RsaProviderImpl; the keys are as long as they are                         *)
bits(rsa_bitness) ==
    CASE rsa_bitness = "RSA1024" -> 1
      [] rsa_bitness = "RSA4096" -> 4
      [] OTHER -> 2
rsaGenerate(rsa_bitness, random) ==
    IF random = << >> THEN Fail("KEY_GENERATION_FAILED")
    ELSE Ok([private |-> <<tagRsaPrivate, bits(rsa_bitness), random[RawSize]>>,
             public |-> <<tagRsaPublic, bits(rsa_bitness), random[RawSize]>>])
rsaDerive(data) ==
    IF d2i_RSA(data, tagRsaPrivate) THEN Ok(i2d_RSA(tagRsaPublic, data))
    ELSE Fail("KEY_DERIVATION_FAILED")
rsaSign(m, data) ==
    IF d2i_RSA(data, tagRsaPrivate) THEN Ok(<<data[2], data[3]>> \o sha256(m))
    ELSE Fail("INVALID_PRIVATE_KEY")
(* X509_PUBKEY holds a key of any kind                                       *)
getPublicKeyFromBytes(data) ==
    \/ d2i_RSA(data, tagRsaPublic)
    \/ Len(data) >= EcSize /\ d2i_EC(copy_n(data, EcSize), tagEcPublic)
rsaVerify(m, signature, data) ==
    IF ~getPublicKeyFromBytes(data) THEN Fail("INVALID_PUBLIC_KEY")
    ELSE IF data[1] # tagRsaPublic THEN Fail("SIGNATURE_VERIFICATION_FAILED")
    ELSE Ok(signature = <<data[2], data[3]>> \o sha256(m))

(* Ed25519ProviderImpl: any RawSize bytes are a key                          *)
edGenerate(random) ==
    IF random = << >> THEN Fail("KEY_GENERATION_FAILED")
    ELSE Ok([private |-> random, public |-> edPublic(random)])
edDerive(k) == Ok(edPublic(k))
edSign(m, k) == Ok(edSignature(edPublic(k), m))
edVerify(m, signature, public) == Ok(signature = edSignature(public, m))

(* Secp256k1ProviderImpl: random bytes are taken until they are a key        *)
secpDerive(k) == IF seckey_verify(k) THEN Ok(secpPublic(k)) ELSE Fail("KEY_DERIVATION_FAILED")
secpGenerate(random) == Ok([private |-> random, public |-> secpDerive(random).value])
signRaw(digest, k) ==
    IF seckey_verify(k) THEN Ok(secpPublic(k) \o digest) ELSE Fail("SIGNATURE_GENERATION_FAILED")
secpSign(m, k) ==
    IF signRaw(sha256(m), k).error # "none" THEN signRaw(sha256(m), k)
    ELSE Ok(<<tagSignature>> \o signRaw(sha256(m), k).value)
signCompact(digest, k) == signRaw(digest, k)
verifyRaw(digest, raw, public) ==
    IF ~secpParses(public) THEN Fail("SIGNATURE_VERIFICATION_FAILED") ELSE Ok(raw = public \o digest)
secpVerify(m, signature, public) ==
    IF ~parsesDer(signature) THEN Fail("SIGNATURE_VERIFICATION_FAILED")
    ELSE verifyRaw(sha256(m), Tail(signature), public)
verifyCompact(digest, signature, public) == verifyRaw(digest, signature, public)

(* EcdsaProviderImpl: arrays of the size of the structure                    *)
convertBytesToEcKey(array, tag) ==
    IF ~d2i_EC(array, tag) THEN Fail("DIFFERENT_KEY_TYPES")
    ELSE IF array = ecStructure(tag, 0) THEN Fail("INTERNAL_ERROR")
    ELSE Ok(array[2])
ecdsaGenerate(random) ==
    IF random = << >> THEN Fail("KEY_GENERATION_FAILED")
    ELSE Ok([private |-> ecStructure(tagEcPrivate, random[RawSize] + 1),
             public |-> ecStructure(tagEcPublic, random[RawSize] + 1)])
ecdsaDerived(r) == IF r.error # "none" THEN r ELSE Ok(ecStructure(tagEcPublic, r.value))
ecdsaDerive(array) == ecdsaDerived(convertBytesToEcKey(array, tagEcPrivate))
GenerateEcSignature(digest, n) == Ok(derSignature(ecStructure(tagEcPublic, n), digest))
VerifyEcSignature(digest, signature, n) ==
    Ok(signature = derSignature(ecStructure(tagEcPublic, n), digest))
signWith(r, digest) == IF r.error # "none" THEN r ELSE GenerateEcSignature(digest, r.value)
signPrehashed(digest, array) == signWith(convertBytesToEcKey(array, tagEcPrivate), digest)
ecdsaSign(m, array) == signPrehashed(sha256(m), array)
verifyWith(r, digest, signature) ==
    IF r.error # "none" THEN r ELSE VerifyEcSignature(digest, signature, r.value)
verifyPrehashed(digest, signature, array) ==
    verifyWith(convertBytesToEcKey(array, tagEcPublic), digest, signature)
ecdsaVerify(m, signature, array) == verifyPrehashed(sha256(m), signature, array)

-----------------------------------------------------------------------------
(* CryptoProviderImpl: the provider of the key's type, with the first bytes  *)
(* of the data in an array of its size                                       *)
keyPair(type, r) ==
    IF r.error # "none" THEN r
    ELSE Ok(KeyPair(Key(type, r.value.public), Key(type, r.value.private)))
generateKeys(type, rsa_bitness, random) ==
    CASE type = "RSA" -> keyPair(type, rsaGenerate(rsa_bitness, random))
      [] type = "Ed25519" -> keyPair(type, edGenerate(random))
      [] type = "Secp256k1" -> keyPair(type, secpGenerate(random))
      [] type = "ECDSA" -> keyPair(type, ecdsaGenerate(random))
      [] OTHER -> Fail("UNSUPPORTED_KEY_TYPE")

publicKey(type, r) == IF r.error # "none" THEN r ELSE Ok(Key(type, r.value))
deriveEd25519(data) ==
    IF Len(data) < RawSize THEN Undefined ELSE edDerive(copy_n(data, RawSize))
deriveSecp256k1(data) ==
    IF Len(data) < RawSize THEN Undefined ELSE secpDerive(copy_n(data, RawSize))
deriveEcdsa(data) ==
    IF Len(data) < EcSize THEN Undefined ELSE ecdsaDerive(copy_n(data, EcSize))
derivePublicKey(k) ==
    CASE k.type = "RSA" -> publicKey(k.type, rsaDerive(k.data))
      [] k.type = "Ed25519" -> publicKey(k.type, deriveEd25519(k.data))
      [] k.type = "Secp256k1" -> publicKey(k.type, deriveSecp256k1(k.data))
      [] k.type = "ECDSA" -> publicKey(k.type, deriveEcdsa(k.data))
      [] k.type = "UNSPECIFIED" -> Fail("WRONG_KEY_TYPE")

signEd25519(m, data) ==
    IF Len(data) < RawSize THEN Undefined ELSE edSign(m, copy_n(data, RawSize))
signSecp256k1(m, data) ==
    IF Len(data) < RawSize THEN Undefined ELSE secpSign(m, copy_n(data, RawSize))
signEcdsa(m, data) ==
    IF Len(data) < EcSize THEN Undefined ELSE ecdsaSign(m, copy_n(data, EcSize))
sign(m, k) ==
    CASE k.type = "RSA" -> rsaSign(m, k.data)
      [] k.type = "Ed25519" -> signEd25519(m, k.data)
      [] k.type = "Secp256k1" -> signSecp256k1(m, k.data)
      [] k.type = "ECDSA" -> signEcdsa(m, k.data)
      [] k.type = "UNSPECIFIED" -> Fail("WRONG_KEY_TYPE")

EdSignatureSize == 2 * RawSize
verifyEd25519(m, signature, data) ==
    IF Len(data) < RawSize \/ Len(signature) < EdSignatureSize THEN Undefined
    ELSE edVerify(m, copy_n(signature, EdSignatureSize), copy_n(data, RawSize))
verifySecp256k1(m, signature, data) ==
    IF Len(data) < RawSize + 1 THEN Undefined
    ELSE secpVerify(m, signature, copy_n(data, RawSize + 1))
verifyEcdsa(m, signature, data) ==
    IF Len(data) < EcSize THEN Undefined ELSE ecdsaVerify(m, signature, copy_n(data, EcSize))
verify(m, signature, k) ==
    CASE k.type = "RSA" -> rsaVerify(m, signature, k.data)
      [] k.type = "Ed25519" -> verifyEd25519(m, signature, k.data)
      [] k.type = "Secp256k1" -> verifySecp256k1(m, signature, k.data)
      [] k.type = "ECDSA" -> verifyEcdsa(m, signature, k.data)
      [] k.type = "UNSPECIFIED" -> Fail("WRONG_KEY_TYPE")

-----------------------------------------------------------------------------
(* KeyValidatorImpl.  A key of ECDSA or of no type is taken as it is.        *)
kMinimumRSABits == 2       \* 2048
valid == Ok(<< >>)
validateRsa(data, tag, invalid) ==
    IF d2i_RSA(data, tag) /\ data[2] >= kMinimumRSABits THEN valid ELSE Fail(invalid)
validateEd25519(data, wrong) == IF Len(data) # RawSize THEN Fail(wrong) ELSE valid
validateSecp256k1Private(data) ==
    IF Len(data) # RawSize THEN Fail("WRONG_PRIVATE_KEY_SIZE") ELSE valid
validateSecp256k1(data) ==
    IF Len(data) # RawSize + 1 THEN Fail("WRONG_PUBLIC_KEY_SIZE")
    ELSE IF data[1] \notin {2, 3} THEN Fail("INVALID_PUBLIC_KEY")
    ELSE valid
validateEcdsa == valid

validatePrivate(k) ==
    CASE k.type = "UNSPECIFIED" -> valid
      [] k.type = "RSA" -> validateRsa(k.data, tagRsaPrivate, "INVALID_PRIVATE_KEY")
      [] k.type = "Ed25519" -> validateEd25519(k.data, "WRONG_PRIVATE_KEY_SIZE")
      [] k.type = "Secp256k1" -> validateSecp256k1Private(k.data)
      [] k.type = "ECDSA" -> validateEcdsa
validatePublic(k) ==
    CASE k.type = "UNSPECIFIED" -> valid
      [] k.type = "RSA" -> validateRsa(k.data, tagRsaPublic, "INVALID_PUBLIC_KEY")
      [] k.type = "Ed25519" -> validateEd25519(k.data, "WRONG_PUBLIC_KEY_SIZE")
      [] k.type = "Secp256k1" -> validateSecp256k1(k.data)
      [] k.type = "ECDSA" -> validateEcdsa
matching(keys, r) ==
    IF r.error # "none" THEN r
    ELSE IF r.value # keys.publicKey THEN Fail("KEYS_DONT_MATCH") ELSE valid
validatePair(keys) ==
    IF keys.privateKey.type # keys.publicKey.type THEN Fail("DIFFERENT_KEY_TYPES")
    ELSE IF keys.privateKey.type = "UNSPECIFIED" THEN valid
    ELSE IF validatePrivate(keys.privateKey).error # "none" THEN validatePrivate(keys.privateKey)
    ELSE IF validatePublic(keys.publicKey).error # "none" THEN validatePublic(keys.publicKey)
    ELSE matching(keys, derivePublicKey(keys.privateKey))

-----------------------------------------------------------------------------
(* KeyMarshaller: the type and the data in a protobuf, whose writer puts the *)
(* two fields in order.  Lengths are of one byte.                            *)
kTypeTag == 8              \* field 1, a number
kDataTag == 18             \* field 2, bytes
typeNumber(type) ==
    CASE type = "RSA" -> 0 [] type = "Ed25519" -> 1 [] type = "Secp256k1" -> 2 [] type = "ECDSA" -> 3
marshal(k) ==
    IF k.type \notin Types THEN Fail("INVALID_KEY_TYPE")
    ELSE Ok(<<kTypeTag, typeNumber(k.type), kDataTag, Len(k.data)>> \o k.data)

(* Its reader takes fields in any order and skips those it does not know;    *)
(* groups are left out.  A number is in groups of seven bits, next is where  *)
(* it ends, or 0.                                                            *)
numberAt(b, i) ==
    LET last == {j \in i..Len(b) : b[j] < 128 /\ \A k \in i..(j - 1) : b[k] >= 128}
        value(j) == FoldRight(LAMBDA byte, n : (byte % 128) + 128 * n, SubSeq(b, i, j), 0)
    IN  IF last = {} THEN [value |-> 0, next |-> 0]
        ELSE CHOOSE n \in {[value |-> value(j), next |-> j + 1] : j \in last} : TRUE
endOf(b, tag, i) ==
    LET n == numberAt(b, i) IN
    CASE tag % 8 = 0 -> n.next
      [] tag % 8 = 1 -> i + 8
      [] tag % 8 = 2 -> IF n.next = 0 THEN 0 ELSE n.next + n.value
      [] tag % 8 = 5 -> i + 4
      [] OTHER -> 0

(* The last Type and the last Data there is, if any: a number that is no     *)
(* type is taken for a field that is not known                               *)
ParseFromArray(b) ==
    LET fields[i \in 1..(Len(b) + 1)] ==
            LET tag == numberAt(b, i)
                end == IF tag.next = 0 THEN 0 ELSE endOf(b, tag.value, tag.next)
                type == {n \in {numberAt(b, tag.next).value} : tag.value = kTypeTag}
                          \cap {typeNumber(t) : t \in Types}
                data == {d \in {SubSeq(b, numberAt(b, tag.next).next, end - 1)} :
                          tag.value = kDataTag}
            IN  IF i > Len(b) THEN [ok |-> TRUE, type |-> {}, data |-> {}]
                ELSE IF tag.value < 8 \/ end \notin (i + 1)..(Len(b) + 1)
                THEN [ok |-> FALSE, type |-> {}, data |-> {}]
                ELSE [fields[end] EXCEPT !.type = IF @ = {} THEN type ELSE @,
                                         !.data = IF @ = {} THEN data ELSE @]
    IN  fields[1]
IsInitialized(m) == m.ok /\ m.type # {} /\ m.data # {}

protobufKey(m) ==
    Key(CHOOSE t \in Types : typeNumber(t) \in m.type, CHOOSE d \in m.data : TRUE)
unmarshalled(k, r) == IF r.error # "none" THEN r ELSE Ok(k)

Faulty_unmarshalPublicKey(b) ==
    LET m == ParseFromArray(b) IN
    IF ~IsInitialized(m) THEN Fail("FAILED_UNMARSHAL_DATA") ELSE Ok(protobufKey(m))

unmarshalPublicKey(b) ==
    LET m == ParseFromArray(b) IN
    IF ~IsInitialized(m) THEN Fail("FAILED_UNMARSHAL_DATA")
    ELSE unmarshalled(protobufKey(m), validatePublic(protobufKey(m)))
unmarshalPrivateKey(b) ==
    LET m == ParseFromArray(b) IN
    IF ~IsInitialized(m) THEN Fail("FAILED_UNMARSHAL_DATA")
    ELSE unmarshalled(protobufKey(m), validatePrivate(protobufKey(m)))

-----------------------------------------------------------------------------
(* Ephemeral keys.  The point of a number is the number, and the product of  *)
(* a number and a point their product: what matters is that the two sides    *)
(* multiply in either order.  Numbers are of one byte, and padded.           *)
Curves == {"P256", "P384", "P521"}
private_key_length(curve) ==
    CASE curve = "P256" -> 32 [] curve = "P384" -> 48 [] curve = "P521" -> 66
BN_bn2binpad(n, length) == [i \in 1..length |-> IF i = length THEN n ELSE 0]
BN_bin2bn(b) == b[Len(b)]

ephemeralPublic(curve, n) == <<4>> \o BN_bn2binpad(n, private_key_length(curve))
generateEphemeralKeyPair(curve, n) ==
    IF curve \notin Curves THEN Fail("UNSUPPORTED_CURVE_TYPE")
    ELSE IF n = 0 THEN Fail("KEY_GENERATION_FAILED")
    ELSE Ok([ephemeral_public_key |-> ephemeralPublic(curve, n),
             own |-> BN_bn2binpad(n, private_key_length(curve))])
o2i_ECPublicKey(curve, b) == Len(b) = private_key_length(curve) + 1 /\ b[1] = 4
shared_secret_generator(curve, own, their_epubkey) ==
    IF ~o2i_ECPublicKey(curve, their_epubkey) THEN Fail("KEY_DERIVATION_FAILED")
    ELSE Ok(BN_bn2binpad(BN_bin2bn(own) * BN_bin2bn(Tail(their_epubkey)), private_key_length(curve)))

(* stretchKey: a is the HMAC of the seed, then of the last a; every b that   *)
(* is made of one fills more of the result.  A byte is its b and its place.  *)
digestSize(hash_type) ==
    CASE hash_type = "SHA1" -> 20 [] hash_type = "SHA256" -> 32 [] hash_type = "SHA512" -> 64
cipher_key_size(cipher_type) == CASE cipher_type = "AES128" -> 16 [] cipher_type = "AES256" -> 32
iv_size == 16
hmac_key_size == 20
half_size(cipher_type) == iv_size + cipher_key_size(cipher_type) + hmac_key_size

take(done, todo, a) == done \o [i \in 1..todo |-> <<a, i>>]
filled(done, size, output_size, a) ==
    take(done, IF Len(done) + size > output_size THEN output_size - Len(done) ELSE size, a)
stretched(size, output_size) ==
    LET result[a \in 0..output_size] ==
            IF a = 0 THEN << >> ELSE filled(result[a - 1], size, output_size, a)
    IN  result[(output_size + size - 1) \div size]

piece(bytes, from, size) == SubSeq(bytes, from + 1, from + size)
StretchedKey(bytes, from, size) ==
    [iv |-> piece(bytes, from, iv_size),
     cipher_key |-> piece(bytes, from + iv_size, size),
     mac_key |-> piece(bytes, from + iv_size + size, hmac_key_size)]
stretchKey(cipher_type, hash_type) ==
    IF cipher_type \notin {"AES128", "AES256"} THEN Fail("UNKNOWN_CIPHER_TYPE")
    ELSE IF hash_type \notin {"SHA1", "SHA256", "SHA512"} THEN Fail("FAILED_INITIALIZE_CONTEXT")
    ELSE Ok([n \in 1..2 |->
            StretchedKey(stretched(digestSize(hash_type), 2 * half_size(cipher_type)),
                         (n - 1) * half_size(cipher_type), cipher_key_size(cipher_type))])
=============================================================================
