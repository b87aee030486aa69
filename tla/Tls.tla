-------------------------------- MODULE Tls --------------------------------
(* Who the other side of a connection is: the certificate of SslContext, and *)
(* what Engine takes from the one it is shown.  X509 and TLS are ideal: the  *)
(* remote holds the private key of the certificate's public key.             *)
EXTENDS Crypto

CONSTANTS
    Hosts,
    Identity,              \* the type of a host's key, and the random bytes it is made of
    CertKey,               \* the random bytes of the key of its certificate
    NoCert                 \* of a host that has no SslContext

TlsAssumption ==
    /\ CryptoAssumption
    /\ \A h, g \in Hosts : CertKey[h] = CertKey[g] \/ Identity[h] = Identity[g] => h = g

VARIABLES
    certs,                 \* the certificate of a host
    failed,                \* the hosts without a certificate: they have no key to sign it
    seen                   \* a certificate that was shown, and who it was taken for

vars == <<certs, failed, seen>>

identity(h) == generateKeys(Identity[h].type, "RSA2048", Identity[h].random).value
certKeys(h) == ecdsaGenerate(CertKey[h]).value

(* cryptoProvider has no providers of RSA and ECDSA                          *)
tlsSign(m, k) == IF k.type \in {"RSA", "ECDSA"} THEN Undefined ELSE sign(m, k)
tlsVerify(m, signature, k) == IF k.type \in {"RSA", "ECDSA"} THEN Undefined ELSE verify(m, signature, k)

-----------------------------------------------------------------------------
(* The extension: two octet strings in a sequence                            *)
kSequenceTag == 48
kOctetStringTag == 4
kAsnHeaderSize == 2
sign_prefix == <<108>>     \* "libp2p-tls-handshake:"
extensionOid == "libp2p"

marshalExtensionData(pub_key_bytes, signature) ==
    <<kSequenceTag,
      (kAsnHeaderSize + Len(pub_key_bytes) + kAsnHeaderSize + Len(signature)) % 256,
      kOctetStringTag, Len(pub_key_bytes) % 256>> \o pub_key_bytes
    \o <<kOctetStringTag, Len(signature) % 256>> \o signature

(* read: what follows a tag and a length, and what is left after it          *)
reads(input, tag) ==
    Len(input) >= kAsnHeaderSize /\ input[1] = tag /\ Len(input) >= kAsnHeaderSize + input[2]
contents(input) == SubSeq(input, kAsnHeaderSize + 1, kAsnHeaderSize + input[2])
rest(input) == SubSeq(input, kAsnHeaderSize + input[2] + 1, Len(input))

incompatible == Fail("TLS_INCOMPATIBLE_CERTIFICATE_EXTENSION")
signatureIn(public_key, data) ==
    IF ~reads(data, kOctetStringTag) \/ rest(data) # << >> THEN incompatible
    ELSE Ok([pkey |-> public_key, signature |-> contents(data)])
keyIn(data) ==
    IF ~reads(data, kOctetStringTag) THEN incompatible ELSE signatureIn(contents(data), rest(data))
unmarshalExtensionData(data) ==
    IF ~reads(data, kSequenceTag) THEN incompatible ELSE keyIn(contents(data))

-----------------------------------------------------------------------------
(* makeCertificate; its extension is not critical                            *)
Extension(oid, critical, data) == [oid |-> oid, critical |-> critical, data |-> data]
Certificate(pubkey, exts) == [pubkey |-> pubkey, exts |-> exts]

makeExtensionSignature(cert_pub_key, k) == tlsSign(sign_prefix \o cert_pub_key, k)
insertExtension(pubkey, data) == Certificate(pubkey, <<Extension(extensionOid, FALSE, data)>>)
withSignature(keys, cert_pub_key, r) ==
    IF r.error # "none" THEN r
    ELSE Ok(insertExtension(cert_pub_key,
                            marshalExtensionData(marshal(keys.publicKey).value, r.value)))
makeCertificate(keys, cert_keys) ==
    withSignature(keys, cert_keys.public, makeExtensionSignature(cert_keys.public, keys.privateKey))

-----------------------------------------------------------------------------
(* What X509 reports of a certificate, and what the callback makes of it     *)
X509_supported_extension(ext) == ext.oid = "keyUsage"
unsupported(cert) ==
    {i \in DOMAIN cert.exts : cert.exts[i].critical /\ ~X509_supported_extension(cert.exts[i])}

checkCriticalExtensions(cert) ==
    \A i \in unsupported(cert) :
        cert.exts[i].oid = extensionOid /\ \A j \in unsupported(cert) : j = i

errors(cert) ==
    {"SELF_SIGNED"} \cup (IF unsupported(cert) = {} THEN {} ELSE {"UNHANDLED_CRITICAL_EXTENSION"})
verifyCallback(error, cert) ==
    \/ error = "SELF_SIGNED"
    \/ error = "UNHANDLED_CRITICAL_EXTENSION" /\ checkCriticalExtensions(cert)

-----------------------------------------------------------------------------
(* The identity of the peer; its id is the marshalled key                    *)
ofOid(cert) == {i \in DOMAIN cert.exts : cert.exts[i].oid = extensionOid}
firstOf(S) == CHOOSE i \in S : \A j \in S : i <= j
extractExtensionFields(cert) ==
    IF ofOid(cert) = {} THEN incompatible
    ELSE unmarshalExtensionData(cert.exts[firstOf(ofOid(cert))].data)

Faulty_verifyExtensionSignature(cert, k, signature) ==
    LET r == tlsVerify(sign_prefix \o cert.pubkey, signature, k)
    IN  IF r.error = "none" THEN valid ELSE Fail("TLS_PEER_VERIFY_FAILED")

verifyExtensionSignature(cert, k, signature) ==
    LET r == tlsVerify(sign_prefix \o cert.pubkey, signature, k)
    IN  CASE r.error = "undefined" -> r
          [] r.error = "none" /\ r.value -> valid
          [] OTHER -> Fail("TLS_PEER_VERIFY_FAILED")

verified(cert, pkey, k, signature) ==
    LET r == verifyExtensionSignature(cert, k, signature)
    IN  IF r.error # "none" THEN r ELSE Ok([public_key |-> k, peer_id |-> pkey])
withKey(cert, fields, r) ==
    IF r.error # "none" \/ r.value.type \notin {"Ed25519", "Secp256k1"} THEN incompatible
    ELSE verified(cert, fields.pkey, r.value, fields.signature)
withFields(cert, r) ==
    IF r.error # "none" THEN r ELSE withKey(cert, r.value, unmarshalPublicKey(r.value.pkey))
verifyPeerAndExtractIdentity(cert) == withFields(cert, extractExtensionFields(cert))

(* What on_hsk_done makes of it, where expected is the peer that is dialled  *)
(* or << >>                                                                  *)
expectedPeer(expected, r) ==
    IF r.error = "none" /\ expected # << >> /\ r.value.peer_id # expected
    THEN Fail("TLS_UNEXPECTED_PEER_ID") ELSE r
on_hsk_done(cert, expected) ==
    IF \A e \in errors(cert) : verifyCallback(e, cert)
    THEN expectedPeer(expected, verifyPeerAndExtractIdentity(cert))
    ELSE Fail("HANDSHAKE_FAILED")

-----------------------------------------------------------------------------
peerId(h) == marshal(identity(h).publicKey).value
unseen == [cert |-> Certificate(<< >>, << >>), expected |-> << >>, result |-> Fail("unseen")]

Init == certs = [h \in Hosts |-> NoCert] /\ failed = {} /\ seen = unseen

(* A host that cannot sign does not start                                    *)
SslContext(h) ==
    /\ certs[h] = NoCert /\ h \notin failed
    /\ \E r \in {makeCertificate(identity(h), certKeys(h))} :
            IF r.error = "none"
            THEN certs' = [certs EXCEPT ![h] = r.value] /\ UNCHANGED failed
            ELSE failed' = failed \cup {h} /\ UNCHANGED certs
    /\ UNCHANGED seen

(* Somebody shows a certificate for a key they hold, with any extensions:    *)
(* those of others, critical or not, and altered, or with the key in other   *)
(* bytes: its fields in the other order, the type twice or as a longer       *)
(* number, and a field nobody knows                                          *)
Altered(d) ==
    {d, Append(d, 0), Front(d), [d EXCEPT ![2] = @ + 1], [d EXCEPT ![4] = @ - 1], [d EXCEPT ![6] = 3]}
OtherBytes(k) ==
    {SubSeq(k, 3, Len(k)) \o SubSeq(k, 1, 2), <<kTypeTag, 0>> \o k, k \o <<24, 5>>,
     <<kTypeTag, 128 + k[2], 0>> \o SubSeq(k, 3, Len(k))}
AllBytes(k) == {k} \cup OtherBytes(k)
Rewritten(fields) == {marshalExtensionData(k, fields.signature) : k \in OtherBytes(fields.pkey)}
Datas ==
    UNION {Altered(certs[h].exts[1].data)
             \cup Rewritten(unmarshalExtensionData(certs[h].exts[1].data).value) :
             h \in {g \in Hosts : certs[g] # NoCert}}
Extensions ==
    {Extension(extensionOid, c, d) : c \in BOOLEAN, d \in Datas}
    \cup {Extension(o, TRUE, << >>) : o \in {"keyUsage", "other"}}

show ==
    /\ \A h \in Hosts : certs[h] # NoCert \/ h \in failed
    /\ \E h \in Hosts, expected \in {<< >>} \cup UNION {AllBytes(peerId(g)) : g \in Hosts} :
       \E n \in 0..2 : \E exts \in [1..n -> Extensions] :
            \E cert \in {Certificate(certKeys(h).public, exts)} :
                seen' = [cert |-> cert, expected |-> expected, result |-> on_hsk_done(cert, expected)]
    /\ UNCHANGED <<certs, failed>>

Next == seen = unseen /\ (show \/ \E h \in Hosts : SslContext(h))

Spec == Init /\ [][Next]_vars

-----------------------------------------------------------------------------
(* Properties.                                                               *)

(* Who a certificate is taken for has signed the very key of it, with the    *)
(* key the id is made of.  A key can be written in several ways, and has an  *)
(* id for each: but none is that of another host, and it is the one that was *)
(* dialled.                                                                  *)
PeersProven ==
    seen.result.error = "none" =>
        \E h \in Hosts : \E peer \in {seen.result.value} :
            /\ seen.cert.pubkey = certKeys(h).public
            /\ peer.public_key = identity(h).publicKey
            /\ unmarshalPublicKey(peer.peer_id) = Ok(peer.public_key)
            /\ \A g \in Hosts : peer.peer_id = peerId(g) => g = h
            /\ seen.expected \in {<< >>, peer.peer_id}

(* The certificate a host makes is taken for that host, and a host can make  *)
(* one if its key is of Ed25519 or Secp256k1.                                *)
HostsTaken ==
    /\ \A h \in Hosts : seen = unseen /\ certs[h] # NoCert =>
            on_hsk_done(certs[h], peerId(h))
                = Ok([public_key |-> identity(h).publicKey, peer_id |-> peerId(h)])
    /\ \A h \in failed : Identity[h].type \in {"RSA", "ECDSA"}

(* What is read from an extension is what would be written, whatever follows *)
(* it; and a critical extension that X509 does not know is the one of        *)
(* libp2p, alone.                                                            *)
ExtensionsRead ==
    /\ seen = unseen => \A d \in Datas : \A r \in {unmarshalExtensionData(d)} :
            r.error = "none" =>
                \A w \in {marshalExtensionData(r.value.pkey, r.value.signature)} :
                    SubSeq(d, 1, Len(w)) = w
    /\ seen.result.error = "none" =>
            \A i, j \in unsupported(seen.cert) : i = j /\ seen.cert.exts[i].oid = extensionOid
=============================================================================
