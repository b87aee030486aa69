---------------------------- MODULE Multiaddress ----------------------------
(* A network address kept twice, as text and as bytes, and what is read from *)
(* it.  A text is a sequence of pieces: "/", the names of protocols, digits, *)
(* letters, whole IP addresses and whole base58 texts; a name that begins    *)
(* with another name begins with its piece, so that a text is found inside   *)
(* another wherever its characters would be.  Bytes are bytes.               *)
EXTENDS Integers, Sequences, SequencesExt, TLC

CONSTANTS
    Ip,          \* texts of IP addresses -> their 4 or 16 bytes
    Canonical,   \* ... those that to_string produces
    Hash,        \* base58 texts -> bytes (see Formats)
    PeerIds,     \* ... those PeerId::fromBase58 accepts
    Ord,         \* letters and digits -> the byte of the character
    Texts,       \* what create is called with
    Received,    \* ... and bytes that a remote sent
    MaxChanges   \* bound on the changes of an object

VARIABLES
    self,        \* the object: [str, bytes], at first that of no bytes
    foreign,     \* bytes of it were received
    cut,         \* decapsulate has removed something from it
    changes,     \* by encapsulate and decapsulate
    others       \* the addresses made of Texts and Received, each with its first
                 \* protocol and value, to encapsulate and decapsulate

vars == <<self, foreign, cut, changes, others>>

V == INSTANCE Varint WITH Bits <- 7, Width <- 15

Ok(v) == [error |-> "none", value |-> v]
Fail(e) == [error |-> e, value |-> << >>]
good(r) == r.error = "none"

-----------------------------------------------------------------------------
(* ProtocolList: one row for every way the converters treat a protocol       *)
kVarLen == -1
row(c, s, n) == [code |-> c, size |-> s, name |-> n]
protocols_ ==
    {row(4, 32, <<"ip4">>), row(41, 128, <<"ip6">>), row(6, 16, <<"tcp">>),
     row(273, 16, <<"udp">>), row(33, 16, <<"dccp">>), row(53, kVarLen, <<"dns">>),
     row(54, kVarLen, <<"dns", "4">>), row(55, kVarLen, <<"dns", "6">>),
     row(400, kVarLen, <<"unix">>), row(421, kVarLen, <<"p2p">>),
     row(445, 296, <<"onion3">>), row(461, 0, <<"quic", "-v1">>), row(460, 0, <<"quic">>),
     row(477, 0, <<"ws">>), row(478, 0, <<"ws", "s">>),
     row(290, 0, <<"p2p", "-circuit">>), row(4770, kVarLen, <<"x-parity-ws">>)}
noProtocol == row(0, 0, << >>)

only(S) == IF S = {} THEN noProtocol ELSE CHOOSE p \in S : TRUE
get(word) ==
    LET name == IF word = <<"ipfs">> THEN <<"p2p">> ELSE word
    IN  only({p \in protocols_ : p.name = name})
getByCode(code) == only({p \in protocols_ : p.code = code})

named(p, names) == p.name \in {<<n>> : n \in names}
isIp(p) == named(p, {"ip4", "ip6"})
isPort(p) == named(p, {"tcp", "udp"})
isDns(p) == p.code \in {53, 54, 55}
isPath(p) == named(p, {"x-parity-ws"})
isPeer(p) == named(p, {"p2p"})

-----------------------------------------------------------------------------
(* Characters, numbers and percent signs                                     *)
Digits == <<"0", "1", "2", "3", "4", "5", "6", "7", "8", "9", "A", "B", "C", "D", "E", "F">>
hexValue(c) == IF c = "a" THEN {10} ELSE {n \in 0..15 : Digits[n + 1] = c}
isdigit(c) == c \in {Digits[i] : i \in 1..10}
letter(b) == CHOOSE c \in DOMAIN Ord : Ord[c] = b
bytesOf(word) == [i \in DOMAIN word |-> Ord[word[i]]]

number(word) ==
    FoldLeft(LAMBDA n, c : IF n > 65535 THEN n ELSE 10 * n + (CHOOSE d \in hexValue(c) : TRUE),
             0, word)
to_string[n \in 0..65535] ==
    IF n < 10 THEN <<Digits[n + 1]>> ELSE to_string[n \div 10] \o <<Digits[(n % 10) + 1]>>

(* The characters percentEncode does not leave as they are                   *)
escaped == (0..32) \cup {34, 35, 37, 47, 60, 62, 63, 96, 123, 125} \cup (127..255)

percentEncode(data) ==
    FlattenSeq([i \in DOMAIN data |->
        IF data[i] \in escaped
        THEN <<"%", Digits[data[i] \div 16 + 1], Digits[(data[i] % 16) + 1]>>
        ELSE <<letter(data[i])>>])

percentDecode(str) ==
    LET hex(i) == {16 * x + y : x \in hexValue(str[i + 1]), y \in hexValue(str[i + 2])}
        from[i \in 1..(Len(str) + 3)] ==
            IF i > Len(str) THEN << >>
            ELSE IF str[i] = "%" /\ i + 2 <= Len(str) /\ hex(i) # {}
            THEN <<CHOOSE b \in hex(i) : TRUE>> \o from[i + 3]
            ELSE <<Ord[str[i]]>> \o from[i + 1]
    IN  from[1]

-----------------------------------------------------------------------------
(* The converters: a value with its length in front where that varies        *)
prefixed(data) == V!encode(Len(data)) \o data

(* putUint16BE                                                               *)
portBytes(n) == <<n \div 256, n % 256>>

knownIn(f, word) == Len(word) = 1 /\ word[1] \in DOMAIN f
ipToBytes(p, word) ==
    IF knownIn(Ip, word) /\ 8 * Len(Ip[word[1]]) = p.size THEN Ok(Ip[word[1]])
    ELSE Fail("INVALID_ADDRESS")
tcpToBytes(word) ==
    IF (\A i \in DOMAIN word : isdigit(word[i])) /\ number(word) <= 65535
    THEN Ok(portBytes(number(word))) ELSE Fail("INVALID_ADDRESS")
udpToBytes(word) == tcpToBytes(word)
ipfsToBytes(word) ==
    IF knownIn(Hash, word) THEN Ok(prefixed(Hash[word[1]])) ELSE Fail("INVALID_ADDRESS")

addressToBytes(p, word) ==
    CASE isIp(p) -> ipToBytes(p, word)
      [] named(p, {"tcp"}) -> tcpToBytes(word)
      [] named(p, {"udp"}) -> udpToBytes(word)
      [] isPeer(p) -> ipfsToBytes(word)
      [] isDns(p) \/ named(p, {"unix"}) -> Ok(prefixed(bytesOf(word)))
      [] isPath(p) -> Ok(prefixed(percentDecode(word)))
      [] named(p, {"onion3"}) -> Fail("NOT_IMPLEMENTED")
      [] OTHER -> Fail("NO_SUCH_PROTOCOL")

(* boost::algorithm::split                                                   *)
split(s) ==
    FoldLeft(LAMBDA ws, c : IF c = "/" THEN Append(ws, << >>)
                            ELSE [ws EXCEPT ![Len(ws)] = Append(@, c)], << << >> >>, s)

(* One word of multiaddrToBytes, after a protocol that wants a value or not  *)
protocolWord(acc, word, p) ==
    IF word = << >> THEN [acc EXCEPT !.error = "EMPTY_PROTOCOL"]
    ELSE IF p = noProtocol THEN [acc EXCEPT !.error = "NO_SUCH_PROTOCOL"]
    ELSE [acc EXCEPT !.value = @ \o V!encode(p.code),
                     !.protx = IF p.size = 0 THEN noProtocol ELSE p]
valueWord(acc, word, r) ==
    IF word = << >> THEN [acc EXCEPT !.error = "EMPTY_ADDRESS"]
    ELSE IF ~good(r) THEN [acc EXCEPT !.error = r.error]
    ELSE [acc EXCEPT !.value = @ \o r.value, !.protx = noProtocol]

(* All words, up to the first that is wrong                                  *)
wordsRead(words) ==
    FoldLeft(LAMBDA acc, word :
        IF acc.error # "none" THEN acc
        ELSE IF acc.protx = noProtocol THEN protocolWord(acc, word, get(word))
        ELSE valueWord(acc, word, addressToBytes(acc.protx, word)),
        [error |-> "none", value |-> << >>, protx |-> noProtocol], words)
bytesRead(end) ==
    IF end.error = "none" /\ end.protx # noProtocol THEN Fail("EMPTY_ADDRESS")
    ELSE [error |-> end.error, value |-> IF end.error = "none" THEN end.value ELSE << >>]

multiaddrToBytes(str) ==
    IF str = << >> \/ str[1] # "/" THEN Fail("ADDRESS_DOES_NOT_BEGIN_WITH_SLASH")
    ELSE IF Len(str) = 1 THEN Fail("EMPTY_PROTOCOL")
    ELSE bytesRead(wordsRead(split(IF Last(str) = "/" THEN Front(Tail(str)) ELSE Tail(str))))

(* What bytesToMultiaddrString appends for a value                           *)
text(p, data) ==
    CASE isPeer(p) -> Ok(IF data = << >> THEN << >> ELSE <<CHOOSE h \in DOMAIN Hash : Hash[h] = data>>)
      [] isDns(p) ->
            IF \A i \in DOMAIN data : letter(data[i]) \notin {"_", "%", "/"}
            THEN Ok([i \in DOMAIN data |-> letter(data[i])]) ELSE Fail("INVALID_ADDRESS")
      [] isPath(p) -> Ok(percentEncode(data))
      [] isIp(p) -> Ok(<<CHOOSE t \in Canonical : Ip[t] = data>>)
      [] isPort(p) -> Ok(to_string[256 * data[1] + data[2]])

(* A varint in front of these bytes                                          *)
var(v) == [size |-> Len(v), value |-> IF v = << >> THEN 0 ELSE V!toUInt64(v)]
varOf(rest) == var(V!create(rest))

(* The value of a protocol in the bytes behind its length, and what it takes *)
layerText(p, rest, skip, size) ==
    IF skip + size > Len(rest) THEN Fail("INVALID_ADDRESS")
    ELSE text(p, SubSeq(rest, skip + 1, skip + size)) @@ [used |-> skip + size]
varLayer(p, rest, length) ==
    IF length.size = 0 THEN Fail("INVALID_ADDRESS")
    ELSE layerText(p, rest, length.size, length.value)
layer(p, rest) ==
    IF p.size = 0 THEN Ok(<< >>) @@ [used |-> 0]
    ELSE IF ~(isPeer(p) \/ isDns(p) \/ isPath(p) \/ isIp(p) \/ isPort(p))
    THEN Fail("NOT_IMPLEMENTED")
    ELSE IF p.size = kVarLen THEN varLayer(p, rest, varOf(rest))
    ELSE layerText(p, rest, 0, p.size \div 8)

(* What the bytes at i are, where `from` is what the bytes at every later    *)
(* position are: a protocol, with the protocol known, with its value known   *)
nothing(e) == [error |-> e, value |-> << >>, layers |-> << >>]
before(p, l, next) ==
    [next EXCEPT !.layers = <<<<p, l.value>>>> \o @,
                 !.value = <<"/">> \o p.name
                           \o (IF p.size = 0 THEN << >> ELSE <<"/">> \o l.value) \o @]
valueRead(from, i, p, l) ==
    IF good(l) THEN before(p, l, from[i + l.used]) ELSE nothing(l.error)
protocolRead(from, bytes, i, p) ==
    IF p = noProtocol THEN nothing("NO_SUCH_PROTOCOL")
    ELSE valueRead(from, i, p, layer(p, SubSeq(bytes, i, Len(bytes))))
codeRead(from, bytes, i, code) ==
    IF code.size = 0 THEN nothing("INVALID_ADDRESS")
    ELSE protocolRead(from, bytes, i + code.size, getByCode(code.value))
bytesToMultiaddrString(bytes) ==
    LET from[i \in 1..(Len(bytes) + 1)] ==
            IF i > Len(bytes) THEN nothing("none")
            ELSE codeRead(from, bytes, i, varOf(SubSeq(bytes, i, Len(bytes))))
    IN  from[1]

(* The protocols and values in the bytes, in order                           *)
layers(bytes) == bytesToMultiaddrString(bytes).layers

-----------------------------------------------------------------------------
(* Multiaddress::create of a text; the assertion that what was read can be   *)
(* written fails for some                                                    *)
made(t, bytes, error) == IF good(t) THEN Ok([str |-> t.value, bytes |-> bytes]) ELSE Fail(error)
asserted(b) == IF good(b) THEN made(bytesToMultiaddrString(b.value), b.value, "assertion") ELSE b
create(str) == asserted(multiaddrToBytes(str))

createBytes(bytes) == made(bytesToMultiaddrString(bytes), bytes, "INVALID_INPUT")

encapsulated(a, b) == [str |-> a.str \o b.str, bytes |-> a.bytes \o b.bytes]

positions(s, t) == {i \in 1..(Len(s) - Len(t) + 1) : SubSeq(s, i, i + Len(t) - 1) = t}
last(S) == CHOOSE i \in S : \A j \in S : j <= i
first(S) == CHOOSE i \in S : \A j \in S : i <= j

Faulty_found(S) == first(S)

(* rfind and find_end                                                        *)
found(S) == last(S)

(* decapsulateStringFromAddress; bytes that are not found leave all of them  *)
decapsulated(a, str, bytes) ==
    LET at == positions(a.str, str)
        byte == positions(a.bytes, bytes)
    IN  IF at = {} THEN a
        ELSE [str |-> SubSeq(a.str, 1, found(at) - 1),
              bytes |-> IF byte = {} THEN a.bytes ELSE SubSeq(a.bytes, 1, found(byte) - 1)]

(* decapsulate of a protocol and its value                                   *)
decapsulatedText(a, str, b) == IF good(b) THEN decapsulated(a, str, b.value) ELSE a
decapsulatedProto(a, p, value) ==
    LET str == <<"/">> \o p.name \o (IF value = << >> THEN << >> ELSE <<"/">> \o value)
    IN  decapsulatedText(a, str, multiaddrToBytes(str))

(* The slashes behind the second one                                         *)
splitAt(s) ==
    LET slashes == {i \in 2..Len(s) : s[i] = "/"} IN slashes \ {first(slashes)}

(* splitFirst: what is before the third slash, and what follows, if anything *)
splitFirst(a) ==
    LET third == splitAt(a.str)
        parts == IF third = {} THEN << >>
                 ELSE <<SubSeq(a.str, 1, first(third) - 1),
                        SubSeq(a.str, first(third), Len(a.str))>>
    IN  IF third = {} THEN <<Ok(a)>> ELSE [i \in DOMAIN parts |-> create(parts[i])]

-----------------------------------------------------------------------------
(* What is read from the text.  Positions after pos, from left to right,     *)
(* that do not overlap                                                       *)
findSubstringOccurrences(s, t) ==
    LET from[i \in 1..(Len(s) + Len(t) + 1)] ==
            LET P == {j \in positions(s, t) : j >= i}
            IN  IF P = {} THEN << >> ELSE <<first(P)>> \o from[first(P) + Len(t)]
    IN  from[1]

(* A protocol with a value, as it is looked for in the text                  *)
marked(p) == <<"/">> \o p.name \o <<"/">>

getValuesForProtocol(a, p) ==
    LET s == a.str
        found_ == findSubstringOccurrences(s, marked(p))
                  \o (IF isPeer(p) THEN findSubstringOccurrences(s, <<"/", "ipfs">>) ELSE << >>)
        slash(i) == {j \in i..Len(s) : s[j] = "/"}
        begin(pos) == IF slash(pos + 1) = {} THEN 1 ELSE first(slash(pos + 1)) + 1
        value(b) == SubSeq(s, b, IF slash(b) = {} THEN Len(s) ELSE first(slash(b)) - 1)
    IN  [i \in DOMAIN found_ |-> value(begin(found_[i]))]

(* getProtocolsWithValues: a word that names no protocol belongs to the one  *)
(* before it                                                                 *)
getProtocolsWithValues(a) ==
    LET s == Tail(a.str)
        words == split(IF Last(s) = "/" THEN Front(s) ELSE s)
        add(pvs, w) ==
            IF get(w) # noProtocol THEN Append(pvs, <<get(w), << >>>>)
            ELSE [pvs EXCEPT ![Len(pvs)][2] = IF @ = << >> THEN w ELSE @ \o <<"/">> \o w]
    IN  IF a.str = << >> THEN << >> ELSE FoldLeft(add, << >>, words)

getProtocols(a) ==
    IF a.str = << >> THEN << >>
    ELSE SelectSeq([i \in DOMAIN split(Tail(a.str)) |-> get(split(Tail(a.str))[i])],
                   LAMBDA p : p # noProtocol)

(* hasProtocol: any last character before the name will do                   *)
hasProtocol(a, p) ==
    \/ p.size = 0 /\ IsSuffix(p.name, a.str) /\ Len(p.name) + 1 <= Len(a.str)
    \/ positions(a.str, marked(p)) # {}

(* The addresses BasicHost::getPeerInfo keeps                                *)
is_good_addr(a) ==
    \A pv \in ToSet(getProtocolsWithValues(a)) :
        /\ ~(named(pv[1], {"ip4"}) /\ pv[2] = <<"0.0.0.0">>)
        /\ ~(named(pv[1], {"ip6"}) /\ pv[2] = <<"::">>)

-----------------------------------------------------------------------------
(* Endpoints: what the protocols and values begin with                       *)
readIpOrDns(pvs) ==
    LET host == pvs[1] IN
    CASE pvs = << >> -> Fail("protocol_not_supported")
      [] pvs # << >> /\ isIp(host[1]) ->
            IF knownIn(Ip, host[2]) THEN Ok(host[2]) ELSE Fail("invalid_argument")
      [] pvs # << >> /\ isDns(host[1]) -> Ok(host[2])
      [] OTHER -> Fail("protocol_not_supported")
readTcpOrUdp(pvs) ==
    LET host == readIpOrDns(pvs) port == pvs[2] IN
    IF ~good(host) THEN host
    ELSE IF Len(pvs) < 2 \/ ~isPort(port[1]) THEN Fail("protocol_not_supported")
    ELSE IF ~isdigit(port[2][1]) THEN Fail("invalid_argument")
    ELSE IF number(port[2]) > 65535 THEN Fail("result_out_of_range")
    ELSE Ok([dns |-> isDns(pvs[1][1]), host |-> host.value, port |-> number(port[2]),
             udp |-> named(port[1], {"udp"}), rest |-> SubSeq(pvs, 3, Len(pvs))])

beforePeer(rest, peers) == IF peers = {} THEN rest ELSE SubSeq(rest, 1, first(peers) - 1)
tcpOf(r) ==
    IF ~good(r) THEN r
    ELSE IF r.value.udp THEN Fail("protocol_not_supported")
    ELSE Ok([r.value EXCEPT !.rest = beforePeer(@, {i \in DOMAIN @ : isPeer(@[i][1])})])
asTcp(a) == tcpOf(readTcpOrUdp(getProtocolsWithValues(a)))

(* What asQuic wants behind the port                                         *)
quicNext(rest) == rest # << >> /\ rest[1][1].code = 461

quicOf(r) ==
    IF ~good(r) THEN r
    ELSE IF ~r.value.udp \/ ~quicNext(r.value.rest) THEN Fail("protocol_not_supported")
    ELSE r
asQuic(a) == quicOf(readTcpOrUdp(getProtocolsWithValues(a)))

(* toMultiaddr of an endpoint, and makeAddress and makeQuicAddr              *)
toMultiaddr(ip, port, transport) ==
    <<"/", IF Len(Ip[ip]) = 4 THEN "ip4" ELSE "ip6", "/", ip, "/", transport, "/">>
    \o to_string[port]
makeAddress(ip, port, rest) ==
    create(toMultiaddr(ip, port, "tcp")
           \o (IF rest # << >> /\ rest[1][1].code \in {477, 478}
               THEN <<"/">> \o rest[1][1].name ELSE << >>))
makeQuicAddr(ip, port) == create(toMultiaddr(ip, port, "udp") \o <<"/", "quic", "-v1">>)

(* The address PeerAddress::create keeps                                     *)
stripped(a, id) == decapsulatedProto(a, get(<<"p2p">>), id)

(* PeerAddress::create of a text, and its toString                           *)
withPeer(a, ids) ==
    IF ids = << >> THEN Fail("PROTOCOL_NOT_FOUND")
    ELSE IF ids[1] \notin {<<id>> : id \in PeerIds} THEN Fail("peer id")
    ELSE Ok([id |-> ids[1], address |-> stripped(a, ids[1])])
ofPeer(a) ==
    IF good(a) THEN withPeer(a.value, getValuesForProtocol(a.value, get(<<"p2p">>))) ELSE a
peerAddress(str) == ofPeer(create(str))
peerAddressToString(pa) == pa.address.str \o <<"/", "p2p", "/">> \o pa.id

-----------------------------------------------------------------------------
NoAddress == [str |-> << >>, bytes |-> << >>]

(* Good results, with whether the bytes were received                        *)
addresses(R, received) ==
    {r.value @@ [foreign |-> received, layer |-> layers(r.value.bytes)[1]] : r \in {x \in R : good(x)}}
Init ==
    /\ self = NoAddress /\ foreign = FALSE /\ cut = FALSE /\ changes = 0
    /\ others = addresses({create(t) : t \in Texts}, FALSE)
                \cup addresses({createBytes(b) : b \in Received}, TRUE)

(* A new object                                                              *)
begun(r, received) ==
    /\ self = NoAddress /\ good(r) /\ self' = r.value
    /\ foreign' = received /\ cut' = FALSE /\ changes' = 0 /\ UNCHANGED others
Create(t) == \E r \in {create(t)} : begun(r, FALSE)
CreateBytes(b, received) == \E r \in {createBytes(b)} : begun(r, received)
Encapsulate(b) ==
    /\ changes < MaxChanges
    /\ self' = encapsulated(self, b) /\ changes' = changes + 1
    /\ foreign' = (foreign \/ b.foreign) /\ UNCHANGED <<cut, others>>
removed(a) ==
    /\ changes < MaxChanges /\ a # self
    /\ self' = a /\ cut' = TRUE /\ changes' = changes + 1 /\ UNCHANGED <<foreign, others>>
Decapsulate(b) == removed(decapsulated(self, b.str, b.bytes))
DecapsulateProto(l) == removed(decapsulatedProto(self, l[1], l[2]))

Next ==
    \/ \E t \in Texts : Create(t)
    \/ \E b \in {x.bytes : x \in {y \in others : ~y.foreign}} : CreateBytes(b, FALSE)
    \/ \E b \in Received : CreateBytes(b, TRUE)
    \/ \E b \in others :
        \/ Encapsulate(b) \/ Decapsulate(b)
        \/ DecapsulateProto(b.layer)

Spec == Init /\ [][Next]_vars

-----------------------------------------------------------------------------
(* A protocol that has a value, and none in these bytes                      *)
Blank(ls) == \E i \in DOMAIN ls : ls[i][1].size # 0 /\ ls[i][2] = << >>

(* The text and the bytes of an address are the same address, over create    *)
(* and encapsulate in any order: its bytes, created again, are the same      *)
(* object; and so is its text, if no bytes were received, so no digit,       *)
(* escape or legacy name survives that the bytes do not hold.  Received      *)
(* bytes may spell a number in more bytes than it takes, and values may be   *)
(* empty: then the text is refused exactly if a value is empty, and is       *)
(* otherwise read as the same protocols and values.                          *)
SameAddress ==
    ~cut /\ self # NoAddress =>
        /\ createBytes(self.bytes) = Ok(self)
        /\ ~foreign => create(self.str) = Ok(self)
        /\ \A r \in {create(self.str)}, ls \in {layers(self.bytes)} :
            /\ good(r) <=> ~Blank(ls)
            /\ good(r) => r.value.str = self.str /\ layers(r.value.bytes) = ls

(* decapsulate takes back what encapsulate added, and nothing more, also     *)
(* when the address holds the added part before, or text that begins like it *)
DecapsulateUndoes ==
    \A b \in others : LET e == encapsulated(self, b) IN decapsulated(e, b.str, b.bytes) = self

(* An address that begins with a protocol and its value, and has no empty    *)
(* value, is split into two addresses, which together are the address; their *)
(* numbers are spelled in as few bytes as they take.                         *)
rejoin(parts, ls) ==
    /\ \A i \in DOMAIN parts : good(parts[i])
    /\ Len(parts) = 1 => Len(ls) = 1
    /\ Len(parts) = 2 =>
        \A e \in {encapsulated(parts[1].value, parts[2].value)} :
            e.str = self.str /\ (~foreign => e = self)
SplitRejoins ==
    ~cut /\ self # NoAddress =>
        \A ls \in {layers(self.bytes)} :
            ls[1][1].size # 0 /\ ~Blank(ls) => rejoin(splitFirst(self), ls)

(* Where no value is spelled like a protocol, the readers of the text agree  *)
(* with the bytes: getProtocolsWithValues, getProtocols, hasProtocol of a    *)
(* protocol with a value, getValuesForProtocol of one, and what getPeerInfo  *)
(* leaves out.  getValuesForProtocol takes a value that begins with "ipfs"   *)
(* for the legacy name of p2p, and finds the peers of an address first.      *)
legacy(with) == \E l \in with : l[2] # << >> /\ l[2][1] = "ipfs"
readAlike(p, with) ==
    /\ with # << >> => hasProtocol(self, p)
    /\ p.size # 0 =>
        /\ hasProtocol(self, p) => with # << >>
        /\ \A vs \in {getValuesForProtocol(self, p)}, ls \in {ToSet(layers(self.bytes))} :
            /\ IsPrefix([i \in DOMAIN with |-> with[i][2]], vs)
            /\ Len(vs) > Len(with) => isPeer(p) /\ legacy(ls)
ReadersAgree ==
    \A ls \in {layers(self.bytes)} :
        ~cut /\ (\A i \in DOMAIN ls : get(ls[i][2]) = noProtocol) =>
        /\ getProtocolsWithValues(self) = ls
        /\ getProtocols(self) = [i \in DOMAIN ls |-> ls[i][1]]
        /\ \A p \in protocols_ : readAlike(p, SelectSeq(ls, LAMBDA l : l[1] = p))
        /\ is_good_addr(self) <=>
            \A i \in DOMAIN ls : isIp(ls[i][1]) => \E b \in ToSet(Ip[ls[i][2][1]]) : b # 0

(* The address an engine reports for an endpoint is one that can be dialled, *)
(* and dialling it leads to that endpoint, for every port; an address that   *)
(* can be dialled over QUIC goes on with quic-v1.                            *)
endpointOf(r, ip, port) == good(r) /\ r.value.host = <<ip>> /\ r.value.port = port
EndpointKept ==
    /\ self = NoAddress => \A ip \in Canonical, port \in {0, 9, 10, 256, 65535} :
        \A q \in {makeQuicAddr(ip, port)}, t \in {makeAddress(ip, port, << >>)} :
            /\ good(q) /\ endpointOf(asQuic(q.value), ip, port)
            /\ good(t) /\ endpointOf(asTcp(t.value), ip, port)
            /\ ~good(asTcp(q.value))
    /\ good(asQuic(self)) => hasProtocol(self, getByCode(461))

(* A peer address read back from its text is the same, when the address does *)
(* not name a peer itself and has no empty value; received numbers are       *)
(* spelled in as few bytes as they take.                                     *)
PeerAddressKept ==
    ~cut /\ self # NoAddress /\ ~hasProtocol(self, get(<<"p2p">>)) =>
        \A id \in PeerIds, ls \in {layers(self.bytes)} :
            \A pa \in {[id |-> <<id>>, address |-> self]} :
                \A r \in {peerAddress(peerAddressToString(pa))} :
                    /\ good(r) <=> ~Blank(ls)
                    /\ good(r) => /\ peerAddressToString(r.value) = peerAddressToString(pa)
                                  /\ ~foreign => r.value = pa
=============================================================================
