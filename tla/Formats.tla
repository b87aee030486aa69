------------------------------ MODULE Formats ------------------------------
(* What names a peer and a piece of content: Multihash, PeerId and           *)
(* ContentIdentifier, as bytes and as text, and the bases of MultibaseCodec  *)
(* that text is written in.  The limits are constants, so that a few bytes   *)
(* reach them.                                                               *)
EXTENDS Integers, Sequences, SequencesExt

CONSTANTS
    kMaxHashLength,        \* 127
    kMaxInlineKeyLength,   \* 42
    DigestSize,            \* 32
    QmSize, Qm,            \* 46 and "Qm": what a text of version 0 is known by
    Raw, Texts,            \* bytes and texts to read
    Types, Codes, Hashes   \* hash types, content types and hashes to name

FormatsAssumption ==
    /\ {kMaxHashLength, kMaxInlineKeyLength, DigestSize} \subseteq 1..127
    /\ DigestSize <= kMaxHashLength /\ kMaxInlineKeyLength <= kMaxHashLength

VARIABLES bytes, text, cid

vars == <<bytes, text, cid>>

(* Numbers of 64 bits, of which the model has 22                             *)
V == INSTANCE Varint WITH Bits <- 7, Width <- 22

identity == 0
sha256Type == 18
DAG_PB == 112

(* The bytes of a digest; what matters is that there are DigestSize of them  *)
total(s) == FoldLeft(LAMBDA x, b : (x + b) % 256, Len(s), s)
sha256(s) == [i \in 1..DigestSize |-> (total(s) + i) % 256]

-----------------------------------------------------------------------------
(* Bytes written as text and read again.  A character is its ASCII code; Ok  *)
(* and Fail are the results of a decoder.                                    *)
Ok(v) == [error |-> "none", value |-> v]
Fail(e) == [error |-> e, value |-> << >>]

isLower(c) == c \in 97..122
isUpper(c) == c \in 65..90
isDigit(c) == c \in 48..57

(* The k-th of the pieces of n a sequence is cut into                        *)
chunk(s, n, k) == SubSeq(s, n * (k - 1) + 1, IF n * k < Len(s) THEN n * k ELSE Len(s))

(* s without what it begins with                                             *)
skip(s, S) ==
    LET from[i \in 1..(Len(s) + 1)] ==
            IF i <= Len(s) /\ s[i] \in S THEN from[i + 1] ELSE SubSeq(s, i, Len(s))
    IN  from[1]
zeros(n) == [i \in 1..n |-> 0]

valid(numbers) == \A i \in DOMAIN numbers : numbers[i] >= 0
at(c, i) == IF i <= Len(c) THEN c[i] ELSE 0

-----------------------------------------------------------------------------
(* Base 16; unhex takes letters of either case                               *)
hexChar(n, mode) == IF n < 10 THEN 48 + n ELSE IF mode = "UPPER" THEN 55 + n ELSE 87 + n
encodeBase16(b, mode) ==
    [i \in 1..(2 * Len(b)) |->
        hexChar(IF i % 2 = 1 THEN b[(i + 1) \div 2] \div 16 ELSE b[i \div 2] % 16, mode)]

hexNumber(c) ==
    IF isDigit(c) THEN c - 48
    ELSE IF c \in 65..70 THEN c - 55 ELSE IF c \in 97..102 THEN c - 87 ELSE -1
hexBytes(n) == [i \in 1..(Len(n) \div 2) |-> 16 * n[2 * i - 1] + n[2 * i]]
unhex(s) ==
    IF Len(s) % 2 = 0 /\ \A i \in DOMAIN s : hexNumber(s[i]) >= 0
    THEN Ok(hexBytes([i \in DOMAIN s |-> hexNumber(s[i])]))
    ELSE Fail("unhex")

(* True of a text without letters                                            *)
encodingCaseIsUpper(s) == \A i \in DOMAIN s : ~isLower(s[i])
decodeBase16(s, mode) ==
    IF mode = "UPPER" /\ ~encodingCaseIsUpper(s) THEN Fail("NON_UPPERCASE_INPUT")
    ELSE IF mode = "LOWER" /\ encodingCaseIsUpper(s) THEN Fail("NON_LOWERCASE_INPUT")
    ELSE unhex(s)

-----------------------------------------------------------------------------
(* Base 32: the byte a block of five bits begins in, and how far from its    *)
(* lower end; less than zero if the block ends in the next byte              *)
get_byte(block) == (block * 5) \div 8
get_bit(block) == 8 - 5 - ((block * 5) % 8)

encode_char(c, mode) ==
    IF c % 32 >= 26 THEN 24 + (c % 32)
    ELSE (IF mode = "UPPER" THEN 65 ELSE 97) + (c % 32)

shift_right(byte, offset) ==
    IF offset > 0 THEN byte \div 2^offset ELSE (byte * 2^(-offset)) % 256
shift_left(byte, offset) == shift_right(byte, -offset)

block32(plain, byte, bit) ==
    shift_right(plain[byte + 1], bit)
    + (IF bit < 0 /\ byte < Len(plain) - 1 THEN shift_right(plain[byte + 2], 8 + bit) ELSE 0)
encode_sequence(plain, block, mode) ==
    encode_char(block32(plain, get_byte(block), get_bit(block)), mode)
encodeBase32(b, mode) ==
    [i \in 1..((Len(b) * 8 + 4) \div 5) |->
        encode_sequence(chunk(b, 5, (i + 7) \div 8), (i - 1) % 8, mode)]

decode_char(c, mode) ==
    IF mode = "UPPER" /\ isUpper(c) THEN c - 65
    ELSE IF mode = "LOWER" /\ isLower(c) THEN c - 97
    ELSE IF c \in 50..55 THEN c - 50 + 26 ELSE -1

(* A block adds its bits to the byte it begins in, and sets those of the     *)
(* next; the bytes the blocks fill are kept                                  *)
fill(plain, byte, bit, c) ==
    [i \in DOMAIN plain |->
        IF i = byte + 1 THEN plain[i] + shift_left(c, bit)
        ELSE IF bit < 0 /\ i = byte + 2 THEN shift_left(c, 8 + bit) ELSE plain[i]]
decode_sequence(c) ==
    LET plain[k \in 0..8] ==
            IF k = 0 THEN zeros(5) ELSE fill(plain[k - 1], get_byte(k - 1), get_bit(k - 1), c[k])
    IN  plain[Len(c)]
bytes32(n) ==
    [i \in 1..((Len(n) \div 8) * 5 + get_byte(Len(n) % 8)) |->
        decode_sequence(chunk(n, 8, (i + 4) \div 5))[((i - 1) % 5) + 1]]
decodeBase32(s, mode) ==
    IF \E i \in DOMAIN s : decode_char(s[i], mode) < 0 THEN Fail("INVALID_BASE32_INPUT")
    ELSE Ok(bytes32([i \in DOMAIN s |-> decode_char(s[i], mode)]))

-----------------------------------------------------------------------------
(* Base 58: all alphanumeric characters except for 0, I, O and l             *)
pszBase58(n) ==
    CASE n < 9 -> 49 + n
      [] n \in 9..16 -> 56 + n
      [] n \in 17..21 -> 57 + n
      [] n \in 22..32 -> 58 + n
      [] n \in 33..43 -> 64 + n
      [] n > 43 -> 65 + n
mapBase58(c) ==
    CASE c \in 49..57 -> c - 49
      [] c \in 65..72 -> c - 56
      [] c \in 74..78 -> c - 57
      [] c \in 80..90 -> c - 58
      [] c \in 97..107 -> c - 64
      [] c \in 109..122 -> c - 65
      [] OTHER -> -1
isSpace == {32, 9, 10, 11, 12, 13}

(* b * m + carry in base, the lowest digit first, in an array of size digits *)
(* of which those beyond Len(b) are zero; a carry out of it is left over     *)
carried(a, x, base) == [b |-> Append(a.b, x % base), carry |-> x \div base]
digit(a, b, m, base, k) ==
    IF a.carry = 0 /\ k > Len(b) THEN a ELSE carried(a, a.carry + m * at(b, k), base)
nothing == [b |-> << >>, carry |-> 0]
multiply(b, m, carry, base, size) ==
    LET first[k \in 0..size] ==
            IF k = 0 THEN [b |-> << >>, carry |-> carry]
            ELSE digit(first[k - 1], b, m, base, k)
    IN  IF b = << >> /\ carry = 0 THEN nothing ELSE first[size]
digitsOf(r) == skip(Reverse(r.b), {0})

Faulty_size58(n) == (n * 138) \div 100

(* log(256) / log(58), rounded up                                            *)
size58(n) == (n * 138) \div 100 + 1

inBase58(rest, size) ==
    LET upTo[i \in 0..Len(rest)] ==
            IF i = 0 THEN nothing ELSE multiply(upTo[i - 1].b, 256, rest[i], 58, size)
    IN  digitsOf(upTo[Len(rest)])
text58(numbers) == [i \in DOMAIN numbers |-> pszBase58(numbers[i])]
withZeros(n, rest) == text58(zeros(n - Len(rest)) \o inBase58(rest, size58(Len(rest))))
encodeBase58(data) == withZeros(Len(data), skip(data, {0}))

(* The text without the spaces after it                                      *)
spacesAfter(s) == Reverse(skip(Reverse(s), isSpace))

(* The digits n in base 256, or what is left of a carry that does not fit    *)
times58(a, n, size) == IF a.carry # 0 THEN a ELSE multiply(a.b, 58, n, 256, size)
inBase256(n, size) ==
    LET upTo[i \in 0..Len(n)] ==
            IF i = 0 THEN nothing ELSE times58(upTo[i - 1], n[i], size)
    IN  upTo[Len(n)]
bytes58(zeroes, r) ==
    IF r.carry # 0 THEN Fail("INVALID_BASE58_INPUT") ELSE Ok(zeros(zeroes) \o digitsOf(r))
size256(n) == (n * 733) \div 1000 + 1
decodeDigits(zeroes, n, size) ==
    IF ~valid(n) THEN Fail("INVALID_BASE58_INPUT") ELSE bytes58(zeroes, inBase256(n, size))
numbers58(s) == [i \in DOMAIN s |-> mapBase58(s[i])]
decodeRest(s, psz) ==
    decodeDigits(Len(s) - Len(psz), numbers58(spacesAfter(psz)), size256(Len(psz)))
decodeFrom(s) == decodeRest(s, skip(s, {49}))

(* The size of the view is not looked at: s ends where its string ends, as   *)
(* it does for every caller                                                  *)
decodeBase58(s) == decodeFrom(skip(s, isSpace))

-----------------------------------------------------------------------------
(* Base 64                                                                   *)
alphabet64(n) ==
    CASE n < 26 -> 65 + n
      [] n \in 26..51 -> 71 + n
      [] n \in 52..61 -> n - 4
      [] n = 62 -> 43
      [] n = 63 -> 47
inverse_table(c) ==
    CASE c = 43 -> 62
      [] c = 47 -> 63
      [] isDigit(c) -> c + 4
      [] isUpper(c) -> c - 65
      [] isLower(c) -> c - 71
      [] OTHER -> -1
equals == 61

quad(c) ==
    <<at(c, 1) \div 4, 16 * (at(c, 1) % 4) + at(c, 2) \div 16,
      4 * (at(c, 2) % 16) + at(c, 3) \div 64, at(c, 3) % 64>>
char64(c, i) == IF i <= Len(c) + 1 THEN alphabet64(quad(c)[i]) ELSE equals
encodeBase64(data) ==
    [i \in 1..(4 * ((Len(data) + 2) \div 3)) |->
        char64(chunk(data, 3, (i + 3) \div 4), ((i - 1) % 4) + 1)]

isValidBase64(s) ==
    /\ Len(s) % 4 = 0
    /\ \E n \in 0..2 : n <= Len(s) /\ \A i \in DOMAIN s :
            IF i > Len(s) - n THEN s[i] = equals ELSE inverse_table(s[i]) >= 0

triple(c) ==
    <<4 * at(c, 1) + at(c, 2) \div 16, 16 * (at(c, 2) % 16) + at(c, 3) \div 4,
      64 * (at(c, 3) % 4) + at(c, 4)>>
bytes64(n) ==
    [i \in 1..((3 * Len(n)) \div 4) |-> triple(chunk(n, 4, (i + 2) \div 3))[((i - 1) % 3) + 1]]
decodeBase64(s) ==
    IF ~isValidBase64(s) THEN Fail("INVALID_BASE64_INPUT")
    ELSE Ok(bytes64(SelectSeq([i \in DOMAIN s |-> inverse_table(s[i])], LAMBDA v : v >= 0)))

-----------------------------------------------------------------------------
(* MultibaseCodecImpl: the first character says which                        *)
Encodings == {"BASE16_LOWER", "BASE16_UPPER", "BASE32_LOWER", "BASE32_UPPER", "BASE58", "BASE64"}
encodingChar(encoding) ==
    CASE encoding = "BASE16_LOWER" -> 102
      [] encoding = "BASE16_UPPER" -> 70
      [] encoding = "BASE32_LOWER" -> 98
      [] encoding = "BASE32_UPPER" -> 66
      [] encoding = "BASE58" -> 122
      [] encoding = "BASE64" -> 109

codecEncode(b, encoding) ==
    CASE encoding = "BASE16_LOWER" -> encodeBase16(b, "LOWER")
      [] encoding = "BASE16_UPPER" -> encodeBase16(b, "UPPER")
      [] encoding = "BASE32_LOWER" -> encodeBase32(b, "LOWER")
      [] encoding = "BASE32_UPPER" -> encodeBase32(b, "UPPER")
      [] encoding = "BASE58" -> encodeBase58(b)
      [] encoding = "BASE64" -> encodeBase64(b)
codecDecode(s, encoding) ==
    CASE encoding = "BASE16_LOWER" -> decodeBase16(s, "LOWER")
      [] encoding = "BASE16_UPPER" -> decodeBase16(s, "UPPER")
      [] encoding = "BASE32_LOWER" -> decodeBase32(s, "LOWER")
      [] encoding = "BASE32_UPPER" -> decodeBase32(s, "UPPER")
      [] encoding = "BASE58" -> decodeBase58(s)
      [] encoding = "BASE64" -> decodeBase64(s)

multibaseEncode(b, encoding) ==
    IF b = << >> THEN << >> ELSE <<encodingChar(encoding)>> \o codecEncode(b, encoding)

encodingByChar(ch) == {e \in Encodings : encodingChar(e) = ch}
decodeAs(s, encodings) ==
    IF encodings = {} THEN Fail("UNSUPPORTED_BASE")
    ELSE codecDecode(s, CHOOSE e \in encodings : TRUE)
multibaseDecode(s) ==
    IF Len(s) < 2 THEN Fail("INPUT_TOO_SHORT") ELSE decodeAs(Tail(s), encodingByChar(s[1]))

-----------------------------------------------------------------------------
(* Multihash                                                                 *)
Multihash(type, hash) == [type |-> type, hash |-> hash]
toBuffer(h) == V!encode(h.type) \o <<Len(h.hash)>> \o h.hash
toHex(h) == encodeBase16(toBuffer(h), "UPPER")

createHash(type, hash) ==
    IF Len(hash) > kMaxHashLength THEN Fail("INPUT_TOO_LONG") ELSE Ok(Multihash(type, hash))

ofLength(type, length, hash) ==
    IF length = 0 THEN Fail("ZERO_INPUT_LENGTH")
    ELSE IF Len(hash) # length THEN Fail("INCONSISTENT_LENGTH")
    ELSE createHash(type, hash)
afterType(vr) ==
    IF vr.state # "kReady" \/ vr.rest = << >> THEN Fail("INPUT_TOO_SHORT")
    ELSE ofLength(vr.reader.value, vr.rest[1], Tail(vr.rest))
createFromBytes(b) == afterType(V!consumeBuffer(V!reset, b))

(* OUTCOME_TRY: an error is returned, a value is used                        *)
fromHexBytes(r) == IF r.error # "none" THEN r ELSE createFromBytes(r.value)
createFromHex(hex) == fromHexBytes(unhex(hex))

(* Bytes in the order of std::vector's operator<                             *)
lessBytes(a, b) ==
    \/ Len(a) < Len(b) /\ a = SubSeq(b, 1, Len(a))
    \/ \E i \in DOMAIN a \cap DOMAIN b :
            a[i] < b[i] /\ SubSeq(a, 1, i - 1) = SubSeq(b, 1, i - 1)
lessHash(a, b) == IF a.type = b.type THEN lessBytes(toBuffer(a), toBuffer(b)) ELSE a.type < b.type

-----------------------------------------------------------------------------
(* PeerId                                                                    *)
fromPublicKey(key) ==
    IF Len(key) <= kMaxInlineKeyLength THEN createHash(identity, key)
    ELSE createHash(sha256Type, sha256(key))

fromHash(h) ==
    IF h.type # sha256Type /\ Len(toBuffer(h)) > kMaxInlineKeyLength
    THEN Fail("SHA256_EXPECTED") ELSE Ok(h)

ofHash(r) == IF r.error # "none" THEN r ELSE fromHash(r.value)
fromBytes(v) == ofHash(createFromBytes(v))
ofBytes(r) == IF r.error # "none" THEN r ELSE fromBytes(r.value)
fromBase58(id) == ofBytes(decodeBase58(id))
toBase58(h) == encodeBase58(toBuffer(h))

-----------------------------------------------------------------------------
(* ContentIdentifier and its codec                                           *)
ContentIdentifier(version, code, h) ==
    [version |-> version, content_type |-> code, content_address |-> h]

lessCid(a, b) ==
    \/ a.version < b.version
    \/ /\ a.version = b.version
       /\ \/ a.content_type < b.content_type
          \/ a.content_type = b.content_type /\ lessHash(a.content_address, b.content_address)

encode(c) ==
    IF c.version = 1
    THEN Ok(V!encode(1) \o V!encode(c.content_type) \o toBuffer(c.content_address))
    ELSE IF c.content_type # DAG_PB THEN Fail("INVALID_CONTENT_TYPE")
    ELSE IF c.content_address.type # sha256Type THEN Fail("INVALID_HASH_TYPE")
    ELSE IF Len(c.content_address.hash) # DigestSize THEN Fail("INVALID_HASH_LENGTH")
    ELSE Ok(toBuffer(c.content_address))

encodeCIDV0(data) == <<sha256Type, DigestSize>> \o sha256(data)
encodeCIDV1(code, h) == <<1, code % 256>> \o toBuffer(h)

named(version, code, r) ==
    IF r.error # "none" THEN r ELSE Ok(ContentIdentifier(version, code, r.value))

(* After the version, and after the content type that follows it             *)
decodeHash(b, size) ==
    named(1, V!toUInt64(V!create(b)), createFromBytes(SubSeq(b, size + 1, Len(b))))
decodeCode(b) ==
    IF V!calculateSize(b) = 0 THEN Fail("EMPTY_MULTICODEC") ELSE decodeHash(b, V!calculateSize(b))
decodeVersion(b, version) ==
    CASE version = 1 -> decodeCode(SubSeq(b, V!calculateSize(b) + 1, Len(b)))
      [] version = 0 -> Fail("MALFORMED_VERSION")
      [] version > 1 -> Fail("RESERVED_VERSION")

isV0(b) == Len(b) = DigestSize + 2 /\ b[1] = sha256Type /\ b[2] = DigestSize
decode(b) ==
    IF isV0(b) THEN named(0, DAG_PB, createFromBytes(b))
    ELSE IF V!calculateSize(b) = 0 THEN Fail("EMPTY_VERSION")
    ELSE decodeVersion(b, V!toUInt64(V!create(b)))

written(version, r, base) ==
    IF r.error # "none" THEN r
    ELSE IF version = 1 THEN Ok(multibaseEncode(r.value, base))
    ELSE IF base # "BASE58" THEN Fail("INVALID_BASE_ENCODING")
    ELSE Ok(encodeBase58(r.value))
toStringOfBase(c, base) == written(c.version, encode(c), base)
toString(c) == toStringOfBase(c, IF c.version = 0 THEN "BASE58" ELSE "BASE32_LOWER")

decoded(r) == IF r.error # "none" THEN r ELSE decode(r.value)
fromString(str) ==
    IF Len(str) < 2 THEN Fail("CID_TOO_SHORT")
    ELSE IF Len(str) = QmSize /\ SubSeq(str, 1, 2) = Qm THEN decoded(decodeBase58(str))
    ELSE decoded(multibaseDecode(str))

-----------------------------------------------------------------------------
(* One thing is named or read                                                *)
Cids ==
    {ContentIdentifier(v, c, Multihash(t, h)) : v \in {0, 1}, c \in Codes, t \in Types, h \in Hashes}

first == ContentIdentifier(0, DAG_PB, Multihash(identity, << >>))

Init == bytes = << >> /\ text = << >> /\ cid = first

read_bytes == bytes' \in Raw /\ UNCHANGED <<text, cid>>
read_text == text' \in Texts /\ UNCHANGED <<bytes, cid>>
name == cid' \in Cids /\ UNCHANGED <<bytes, text>>
Next == vars = <<<< >>, << >>, first>> /\ (read_bytes \/ read_text \/ name)

Spec == Init /\ [][Next]_vars

-----------------------------------------------------------------------------
(* Properties.                                                               *)

(* What is written in a base is read back from it, but for bytes whose text  *)
(* in base 16 has no letter, which is not taken for lower case.              *)
readsBack(b, s, base) ==
    IF base = "BASE16_LOWER" /\ encodingCaseIsUpper(Tail(s))
    THEN multibaseDecode(s) = Fail("NON_LOWERCASE_INPUT")
    ELSE multibaseDecode(s) = Ok(b)
DecodesBack ==
    bytes # << >> => \A e \in Encodings : readsBack(bytes, multibaseEncode(bytes, e), e)

bitsOf(s, n) ==
    [i \in 1..(n * Len(s)) |-> (s[(i + n - 1) \div n] \div 2^((n * Len(s) - i) % n)) % 2]
wholeBytes(bits) == SubSeq(bits, 1, 8 * (Len(bits) \div 8))
valueOf(s, base) == FoldLeft(LAMBDA x, d : base * x + d, 0, s)
leading(s, z) == Len(s) - Len(skip(s, {z}))
sameBits(r, numbers, n) == r.error = "none" => bitsOf(r.value, 8) = wholeBytes(bitsOf(numbers, n))
sameNumber(r, digits) ==
    r.error = "none" =>
        /\ valueOf(r.value, 256) = valueOf(numbers58(digits), 58)
        /\ leading(r.value, 0) = leading(digits, 49)

(* The bytes read from a text in base 32 or 64 are the bits of its digits,   *)
(* without the last ones that do not fill a byte; those from a text in base  *)
(* 58 are the number it stands for, after as many zeros as it begins with,   *)
(* whatever spaces are around it.                                            *)
DigitsAgree ==
    /\ sameBits(decodeBase32(text, "LOWER"), [i \in DOMAIN text |-> decode_char(text[i], "LOWER")], 5)
    /\ sameBits(decodeBase64(text),
                SelectSeq([i \in DOMAIN text |-> inverse_table(text[i])], LAMBDA v : v >= 0), 6)
    /\ sameNumber(decodeBase58(text), SelectSeq(text, LAMBDA c : c \notin isSpace))

(* A multihash that is read is written as it was, if its type was; and one   *)
(* that is made is read back from its bytes and from its text, unless it is  *)
(* empty.                                                                    *)
shortest(b) == b = << >> \/ ~\E i \in 2..4 : i <= Len(b) /\ b[i] = 0 /\ b[i - 1] >= 128
HashKept ==
    /\ \A r \in {createFromBytes(bytes)} :
            r.error = "none" /\ shortest(bytes) => toBuffer(r.value) = bytes
    /\ \A h \in {cid.content_address} : Len(h.hash) \in 1..kMaxHashLength =>
            /\ createFromBytes(toBuffer(h)) = Ok(h)
            /\ createFromHex(toHex(h)) = Ok(h)

(* The id of a key is read back from its bytes and its text, unless the key  *)
(* is inline and its multihash longer than an inline key may be.             *)
IdKept ==
    bytes # << >> =>
        \A id \in {fromPublicKey(bytes).value} :
            LET known == IF id.type = identity /\ Len(bytes) > kMaxInlineKeyLength - 2
                         THEN Fail("SHA256_EXPECTED") ELSE Ok(id)
            IN  fromHash(id) = known /\ fromBytes(toBuffer(id)) = known
                /\ fromBase58(toBase58(id)) = known

(* A content identifier that can be encoded is read back from its bytes,     *)
(* from the text of toString, and from its text in every base but            *)
(* BASE16_LOWER, of which nothing is said, if its multihash is; encodeCIDV0  *)
(* makes what encode would, and so does encodeCIDV1 of a small content type. *)
CidKept ==
    /\ \A r \in {encode(cid)} :
        r.error = "none" /\ Len(cid.content_address.hash) \in 1..kMaxHashLength =>
            /\ decode(r.value) = Ok(cid)
            /\ fromString(toString(cid).value) = Ok(cid)
            /\ \A e \in Encodings : \A t \in {toStringOfBase(cid, e)} :
                    t.error = "none" => fromString(t.value) = Ok(cid) \/ e = "BASE16_LOWER"
            /\ cid.version = 1 /\ cid.content_type < 128 =>
                    encodeCIDV1(cid.content_type, cid.content_address) = r.value
    /\ decode(encodeCIDV0(bytes)) = Ok(ContentIdentifier(0, DAG_PB, Multihash(sha256Type, sha256(bytes))))

(* Of two content identifiers one is less than the other, or they are equal. *)
Ordered ==
    cid # first => \A d \in Cids :
        IF d = cid THEN ~lessCid(cid, d) ELSE lessCid(cid, d) # lessCid(d, cid)
=============================================================================
