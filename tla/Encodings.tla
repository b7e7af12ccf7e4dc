----------------------------- MODULE Encodings ------------------------------
(***************************************************************************)
(* Numbers, keys, texts and byte streams, and the forms they are written   *)
(* in: serialize.h, uint256.h, bignum.h, base58.h, key.cpp, util.cpp.      *)
(***************************************************************************)
EXTENDS Integers, Sequences, SequencesExt, FiniteSets, Functions, Bitwise

-----------------------------------------------------------------------------
(***************************************************************************)
(* serialize.h: CDataStream, a vector of bytes with a position up to which *)
(* it has been read, which its users take for a queue, and the formats of  *)
(* sizes, vectors and maps that are written to it and read from it.        *)
(***************************************************************************)
CONSTANTS
    Base,        \* values of a byte, 256 in the code; the last three announce a longer size
    Widths,      \* bytes of the longer sizes, <<2, 4, 8>>
    MaxSize,     \* MAX_SIZE
    Chunk,       \* elements that Unserialize of a vector makes room for at a time
    Written,     \* what write and insert are given
    Sizes, Vectors, Maps,  \* values that are serialized
    MaxStream    \* bound on vch

VARIABLES
    vch, nReadPos,
    content,     \* what the stream holds for its user
    sample       \* a value that is serialized

streamVars == <<vch, nReadPos, content, sample>>

-----------------------------------------------------------------------------
(* The stream. *)

StreamEnd == Len(vch)
InStream(s, pos) == SubSeq(s, pos + 1, Len(s))

Becomes(bytes, pos) == vch' = bytes /\ nReadPos' = pos
Holds(s) == content' = s /\ UNCHANGED sample

StreamWrite(s) ==
    /\ StreamEnd + Len(s) <= MaxStream
    /\ Becomes(vch \o s, nReadPos) /\ Holds(content \o s)

\* CDataStream::read and ignore: at the end the buffer is cleared; with too few bytes left
\* setstate throws and nothing is taken.
ReadTo(n) == IF nReadPos + n >= StreamEnd THEN << <<>>, 0>> ELSE <<vch, nReadPos + n>>

StreamRead(n) ==
    /\ nReadPos + n <= StreamEnd
    /\ Becomes(ReadTo(n)[1], ReadTo(n)[2])
    /\ Holds(SubSeq(content, n + 1, Len(content)))

\* insert: at the front there may be room in front of the position.
HasRoom(s) == Len(s) <= nReadPos

StreamInsert(at, s) ==
    /\ at <= Len(content) /\ StreamEnd + Len(s) <= MaxStream
    /\ IF at = 0 /\ HasRoom(s)
       THEN Becomes([i \in DOMAIN vch |->
                       IF i > nReadPos - Len(s) /\ i <= nReadPos THEN s[i - (nReadPos - Len(s))] ELSE vch[i]],
                    nReadPos - Len(s))
       ELSE Becomes(SubSeq(vch, 1, nReadPos + at) \o s \o SubSeq(vch, nReadPos + at + 1, StreamEnd), nReadPos)
    /\ Holds(SubSeq(content, 1, at) \o s \o SubSeq(content, at + 1, Len(content)))

\* erase(first, last) of the elements after the first "from", up to the "to"-th.
EraseFront_Absolute(to) == IF nReadPos + to = StreamEnd THEN << <<>>, 0>> ELSE <<vch, to>>
EraseFront(to) == IF nReadPos + to = StreamEnd THEN << <<>>, 0>> ELSE <<vch, nReadPos + to>>

StreamErase(from, to) ==
    /\ from <= to /\ to <= Len(content)
    /\ IF from = 0
       THEN Becomes(EraseFront(to)[1], EraseFront(to)[2])
       ELSE Becomes(SubSeq(vch, 1, nReadPos + from) \o SubSeq(vch, nReadPos + to + 1, StreamEnd), nReadPos)
    /\ Holds(SubSeq(content, 1, from) \o SubSeq(content, to + 1, Len(content)))

\* erase(it): it may be the first element or another.
StreamEraseOne(at) ==
    /\ at < Len(content)
    /\ IF at = 0
       THEN IF nReadPos + 1 >= StreamEnd THEN Becomes(<<>>, 0) ELSE Becomes(vch, nReadPos + 1)
       ELSE Becomes(RemoveAt(vch, nReadPos + at + 1), nReadPos)
    /\ Holds(RemoveAt(content, at + 1))

StreamResize(n) ==
    LET to == n + nReadPos IN
    /\ to <= MaxStream
    /\ Becomes([i \in 1 .. to |-> IF i <= StreamEnd THEN vch[i] ELSE 0], nReadPos)
    /\ Holds([i \in 1 .. n |-> IF i <= Len(content) THEN content[i] ELSE 0])

Compact == Becomes(SubSeq(vch, nReadPos + 1, StreamEnd), 0) /\ Holds(content)

\* Rewind gives back what was read, as long as the buffer has not been compacted.
Rewind(n) ==
    /\ n <= nReadPos
    /\ Becomes(vch, nReadPos - n) /\ Holds(SubSeq(vch, nReadPos - n + 1, nReadPos) \o content)

-----------------------------------------------------------------------------
(* The formats. *)

LittleEndian(n, width) == [i \in 1 .. width |-> (n \div Base ^ (i - 1)) % Base]
ValueOf(s) == FoldLeft(LAMBDA acc, i : acc + s[i] * Base ^ (i - 1), 0, [i \in DOMAIN s |-> i])

WidthFor(n) == CHOOSE w \in DOMAIN Widths : n < Base ^ Widths[w] /\ (w > 1 => n >= Base ^ Widths[w - 1])

WriteCompactSize(n) ==
    IF n < Base - 3 THEN <<n>> ELSE <<Base - 4 + WidthFor(n)>> \o LittleEndian(n, Widths[WidthFor(n)])

GetSizeOfCompactSize(n) == IF n < Base - 3 THEN 1 ELSE 1 + Widths[WidthFor(n)]

\* What was read and the rest of the stream; a failure is an exception.
Read(value, rest) == [ok |-> TRUE, value |-> value, rest |-> rest]
Failed(rest) == [ok |-> FALSE, value |-> 0, rest |-> rest]

ReadCompactSize_Any(s) ==
    IF s = <<>> THEN Failed(s)
    ELSE LET w == s[1] - (Base - 4) IN
         IF w < 1 THEN Read(s[1], Tail(s))
         ELSE IF Len(s) - 1 < Widths[w] THEN Failed(Tail(s))
         ELSE Read(ValueOf(SubSeq(s, 2, Widths[w] + 1)), InStream(s, Widths[w] + 1))

ReadCompactSize(s) ==
    LET r == ReadCompactSize_Any(s) IN IF r.ok /\ r.value > MaxSize THEN Failed(r.rest) ELSE r

\* vector<unsigned char> and string.
SerializeVector(v) == WriteCompactSize(Len(v)) \o v

\* Chunk after chunk; what was made room for is never more than a chunk past what was read.
UnserializeVector(s) ==
    LET size   == ReadCompactSize(s)
        rounds == (size.value + Chunk - 1) \div Chunk
        step(acc, k) ==
            LET blk == IF size.value - Len(acc.value) < Chunk THEN size.value - Len(acc.value) ELSE Chunk IN
            IF ~acc.ok \/ Len(acc.rest) < blk THEN Failed(acc.rest)
            ELSE Read(acc.value \o SubSeq(acc.rest, 1, blk), InStream(acc.rest, blk))
    IN  IF ~size.ok THEN size ELSE FoldLeft(step, Read(<<>>, size.rest), [k \in 1 .. rounds |-> k])

\* A map from bytes to bytes, in the order of its keys.
SerializeMap(m) ==
    LET keys == SetToSortSeq(DOMAIN m, <)
    IN  WriteCompactSize(Len(keys)) \o FlattenSeq([i \in DOMAIN keys |-> <<keys[i], m[keys[i]]>>])

\* insert keeps the first of two items with the same key.
UnserializeMap(s) ==
    LET size == ReadCompactSize(s)
        step(acc, k) ==
            IF ~acc.ok \/ Len(acc.rest) < 2 THEN Failed(acc.rest)
            ELSE Read(IF acc.rest[1] \in DOMAIN acc.value THEN acc.value
                      ELSE [b \in DOMAIN acc.value \cup {acc.rest[1]} |->
                              IF b \in DOMAIN acc.value THEN acc.value[b] ELSE acc.rest[2]],
                      InStream(acc.rest, 2))
    IN  IF ~size.ok THEN size
        ELSE FoldLeft(step, Read([b \in {} |-> 0], size.rest), [k \in 1 .. size.value |-> k])

-----------------------------------------------------------------------------
StreamInit ==
    /\ vch = <<>> /\ nReadPos = 0 /\ content = <<>>
    /\ sample \in ({"size"} \X Sizes) \cup ({"vector"} \X Vectors) \cup ({"map"} \X Maps)

StreamNext ==
    \/ \E s \in Written : StreamWrite(s) \/ \E at \in 0 .. MaxStream : StreamInsert(at, s)
    \/ \E n \in 0 .. MaxStream :
        StreamRead(n) \/ StreamEraseOne(n) \/ StreamResize(n) \/ Rewind(n)
        \/ \E to \in 0 .. MaxStream : StreamErase(n, to)
    \/ Compact

-----------------------------------------------------------------------------
\* For its users the stream is a queue that can also be edited: what it holds is what was
\* written, inserted and not yet read or erased, wherever the position is and whenever the
\* buffer was cleared or compacted (serialize.h:700-1000).
StreamIsAQueue == InStream(vch, nReadPos) = content /\ nReadPos <= Len(vch)

\* What is read back is what was written, and the rest of the stream is untouched; a value
\* that is cut off is never taken for a whole one; its size is what GetSerializeSize says.
Serialized ==
    CASE sample[1] = "size" -> WriteCompactSize(sample[2])
      [] sample[1] = "vector" -> SerializeVector(sample[2])
      [] OTHER -> SerializeMap(sample[2])

Unserialized(s) ==
    CASE sample[1] = "size" -> ReadCompactSize(s)
      [] sample[1] = "vector" -> UnserializeVector(s)
      [] OTHER -> UnserializeMap(s)

RoundTrip ==
    /\ LET more == Serialized \o <<1>>
           r == Unserialized(more)
       IN  IF sample[1] = "size" /\ sample[2] > MaxSize THEN ~r.ok
           ELSE r = Read(sample[2], <<1>>)
    /\ \A k \in 0 .. Len(Serialized) - 1 : ~Unserialized(SubSeq(Serialized, 1, k)).ok
    /\ sample[1] = "size" => Len(Serialized) = GetSizeOfCompactSize(sample[2])

StreamIsRight == StreamIsAQueue /\ RoundTrip

-----------------------------------------------------------------------------
(***************************************************************************)
(* uint256.h: base_uint, a number kept as WIDTH limbs of 32 bits, the      *)
(* lowest first.  Its operators work limb by limb; what they compute is    *)
(* compared with the numbers themselves.  uint160, uint256 and uint512     *)
(* differ in WIDTH only.                                                   *)
(***************************************************************************)
CONSTANTS
    LimbBits,   \* 32; here a limb is one byte of two hexadecimal digits
    WIDTH,
    DigitBits   \* 4

VARIABLE pn     \* the first operand of everything

uintVars == pn

Limb == 2 ^ LimbBits
Range256 == 2 ^ (LimbBits * WIDTH)
Index == 1 .. WIDTH

\* What the limbs stand for, and the limbs of a number.
NumberOf(a) == FoldLeft(LAMBDA acc, i : acc + a[i] * Limb ^ (i - 1), 0, [i \in Index |-> i])
LimbsOf(n) == [i \in Index |-> (n \div Limb ^ (i - 1)) % Limb]

-----------------------------------------------------------------------------
Complement(a) == [i \in Index |-> Limb - 1 - a[i]]

\* operator++ and operator--: on to the next limb as long as this one wraps.
Increment_First(a) == [a EXCEPT ![1] = (@ + 1) % Limb]
Increment(a) ==
    [i \in Index |-> IF \A j \in 1 .. i - 1 : a[j] = Limb - 1 THEN (a[i] + 1) % Limb ELSE a[i]]
Decrement(a) ==
    [i \in Index |-> IF \A j \in 1 .. i - 1 : a[j] = 0 THEN (a[i] + Limb - 1) % Limb ELSE a[i]]

Negated(a) == Increment(Complement(a))

\* operator+=, with a carry from limb to limb.
Plus(a, b) ==
    FoldLeft(LAMBDA acc, i :
                 LET n == acc.carry + a[i] + b[i]
                 IN  [pn |-> Append(acc.pn, n % Limb), carry |-> n \div Limb],
             [pn |-> <<>>, carry |-> 0], [i \in Index |-> i]).pn
Minus(a, b) == Plus(a, Negated(b))

\* operator<<= and operator>>=: whole limbs, then what goes over into the next one.
ShiftLeft(a, shift) ==
    LET k == shift \div LimbBits
        s == shift % LimbBits
        from(i) == IF i \in Index THEN a[i] ELSE 0
        over(i) == IF s = 0 THEN 0 ELSE from(i) \div 2 ^ (LimbBits - s)
    IN  [i \in Index |-> ((from(i - k) * 2 ^ s) % Limb) | over(i - k - 1)]

ShiftRight_NoOver(a, shift) ==
    LET k == shift \div LimbBits
        s == shift % LimbBits
        from(i) == IF i \in Index THEN a[i] ELSE 0
    IN  [i \in Index |-> from(i + k) \div 2 ^ s]

ShiftRight(a, shift) ==
    LET k == shift \div LimbBits
        s == shift % LimbBits
        from(i) == IF i \in Index THEN a[i] ELSE 0
        over(i) == IF s = 0 THEN 0 ELSE (from(i) * 2 ^ (LimbBits - s)) % Limb
    IN  [i \in Index |-> (from(i + k) \div 2 ^ s) | over(i + k + 1)]

\* operator< and its kind: the highest limb in which they differ decides.
Less(a, b) == \E i \in Index : a[i] < b[i] /\ \A j \in i + 1 .. WIDTH : a[j] = b[j]

-----------------------------------------------------------------------------
\* GetHex: the bytes from the last to the first, two digits each.
DigitBase == 2 ^ DigitBits
GetHex(a) ==
    FlattenSeq([i \in Index |-> LET b == a[WIDTH + 1 - i] IN <<b \div DigitBase, b % DigitBase>>])

\* SetHex reads the digits from the last one on, as many as there is room for.
SetHex(digits) ==
    LET d(i) == IF i < Len(digits) THEN digits[Len(digits) - i] ELSE 0
    IN  [i \in Index |-> d(2 * i - 2) + DigitBase * d(2 * i - 1)]

DigitsValue(digits) == FoldLeft(LAMBDA acc, d : acc * DigitBase + d, 0, digits)

-----------------------------------------------------------------------------
UintInit == pn = LimbsOf(0)
UintNext == NumberOf(pn) < Range256 - 1 /\ pn' = Increment(pn)

\* The operators compute modulo 2^256 what they are named for; in particular operator++ goes
\* from each number to the next.
ArithmeticIsModular ==
    LET a == NumberOf(pn) IN
    /\ LimbsOf(a) = pn
    /\ NumberOf(Increment(pn)) = (a + 1) % Range256 /\ Decrement(Increment(pn)) = pn
    /\ NumberOf(Negated(pn)) = (Range256 - a) % Range256
    /\ \A b \in 0 .. Range256 - 1 :
        /\ NumberOf(Plus(pn, LimbsOf(b))) = (a + b) % Range256
        /\ NumberOf(Minus(pn, LimbsOf(b))) = (a - b) % Range256
        /\ Less(pn, LimbsOf(b)) <=> a < b
    /\ \A s \in 0 .. LimbBits * WIDTH :
        /\ NumberOf(ShiftLeft(pn, s)) = (a * 2 ^ s) % Range256
        /\ NumberOf(ShiftRight(pn, s)) = a \div 2 ^ s

\* The hexadecimal text leads back to the number; a text of fewer digits, an odd number of
\* them included, is that number, and of a longer one the low digits count (uint256.h:298-341).
HexLeadsBack ==
    LET a == NumberOf(pn) IN
    /\ SetHex(GetHex(pn)) = pn
    /\ \A k \in 0 .. 2 * WIDTH :
        NumberOf(SetHex(SubSeq(GetHex(pn), k + 1, 2 * WIDTH))) = DigitsValue(SubSeq(GetHex(pn), k + 1, 2 * WIDTH))
    /\ SetHex(<<1>> \o GetHex(pn)) = pn

UintIsRight == ArithmeticIsModular /\ HexLeadsBack

-----------------------------------------------------------------------------
(***************************************************************************)
(* bignum.h: CBigNum takes machine integers, byte vectors of scripts,      *)
(* compact targets and hexadecimal text to and from OpenSSL's numbers by   *)
(* way of the MPI format: bytes with the highest first, the top bit of the *)
(* first one for the sign.                                                 *)
(***************************************************************************)
CONSTANTS
    ByteBase,    \* 256
    IntBytes,    \* bytes of an int64
    IntMax,      \* numeric_limits<int>::max()
    HexBase,     \* 16
    MinNumber,
    MaxNumber    \* bounds on the numbers that are converted

VARIABLE bn

bigVars == bn

SignBit == ByteBase \div 2
UintRange == ByteBase ^ IntBytes

AbsoluteValue(n) == IF n < 0 THEN -n ELSE n

-----------------------------------------------------------------------------
(* BN_bn2mpi and BN_mpi2bn. *)

BytesFor(n) == CHOOSE k \in 0 .. 12 : n < ByteBase ^ k /\ (k > 0 => n >= ByteBase ^ (k - 1))
BigEndian(n) == LET k == BytesFor(n) IN [i \in 1 .. k |-> (n \div ByteBase ^ (k - i)) % ByteBase]
FromBigEndian(s) == FoldLeft(LAMBDA acc, b : acc * ByteBase + b, 0, s)

BnToMpi(n) ==
    LET s == BigEndian(AbsoluteValue(n))
        wide == IF s # <<>> /\ s[1] >= SignBit THEN <<0>> \o s ELSE s
    IN  IF n < 0 THEN [wide EXCEPT ![1] = @ + SignBit] ELSE wide

MpiToBn(s) ==
    IF s # <<>> /\ s[1] >= SignBit
    THEN -FromBigEndian([s EXCEPT ![1] = @ - SignBit])
    ELSE FromBigEndian(s)

-----------------------------------------------------------------------------
(* Machine integers. *)

\* The loop of setint64 and setuint64: leading zero bytes are left out, and a byte with its top
\* bit set gets one in front of it.
MpiOf_NoExtra(bytes, negative) ==
    LET lead == SelectInSeq(bytes, LAMBDA b : b # 0)
        s == IF lead = 0 THEN <<>> ELSE SubSeq(bytes, lead, Len(bytes))
    IN  IF s = <<>> THEN <<>> ELSE [s EXCEPT ![1] = IF negative /\ @ < SignBit THEN @ + SignBit ELSE @]

MpiOf(bytes, negative) ==
    LET lead == SelectInSeq(bytes, LAMBDA b : b # 0)
        s == IF lead = 0 THEN <<>> ELSE SubSeq(bytes, lead, Len(bytes))
    IN  IF s = <<>> THEN <<>>
        ELSE IF s[1] >= SignBit THEN <<IF negative THEN SignBit ELSE 0>> \o s
        ELSE [s EXCEPT ![1] = IF negative THEN @ + SignBit ELSE @]

FixedBytes(n) == [i \in 1 .. IntBytes |-> (n \div ByteBase ^ (IntBytes - i)) % ByteBase]

\* The minimum has no positive of its type: it is taken up by one first.
setint64(sn) == MpiToBn(MpiOf(FixedBytes(IF sn < 0 THEN (-(sn + 1) + 1) % UintRange ELSE sn), sn < 0))

setuint64(n) == MpiToBn(MpiOf(FixedBytes(n), FALSE))

\* getuint64 and getuint256: the sign is dropped, and so are the bytes that there is no room for.
getuint64_KeepsSign(n) ==
    LET s == BnToMpi(n) IN FromBigEndian(SubSeq(s, IF Len(s) > IntBytes THEN Len(s) - IntBytes + 1 ELSE 1, Len(s)))

getuint64(n) ==
    LET mpi == BnToMpi(n)
        s == IF mpi = <<>> THEN mpi ELSE [mpi EXCEPT ![1] = @ % SignBit]
    IN  FromBigEndian(SubSeq(s, IF Len(s) > IntBytes THEN Len(s) - IntBytes + 1 ELSE 1, Len(s)))

getint(n) ==
    IF n >= 0 THEN IF n > IntMax THEN IntMax ELSE n
    ELSE IF -n > IntMax THEN -IntMax - 1 ELSE n

-----------------------------------------------------------------------------
(* The vectors of scripts, compact targets and text. *)

getvch(n) == Reverse(BnToMpi(n))
setvch(s) == MpiToBn(Reverse(s))

\* The number of bytes and the first three of them.
GetCompact(n) ==
    LET s == BnToMpi(n) IN <<Len(s)>> \o [i \in 1 .. 3 |-> IF i <= Len(s) THEN s[i] ELSE 0]

SetCompact(c) == MpiToBn([i \in 1 .. c[1] |-> IF i <= 3 THEN c[i + 1] ELSE 0])

\* A character is its digit or one of these.
Dash == HexBase
LetterX == HexBase + 1
Space == HexBase + 2

TextOf(n) ==
    LET digits(m) == CHOOSE k \in 1 .. 20 : m < HexBase ^ k /\ (k > 1 => m >= HexBase ^ (k - 1))
        m == AbsoluteValue(n)
        d == [i \in 1 .. digits(m) |-> (m \div HexBase ^ (digits(m) - i)) % HexBase]
    IN  IF n < 0 THEN <<Dash>> \o d ELSE d

\* What is left of a text from its first character that is none of these.
After(s, skipped) ==
    LET i == SelectInSeq(s, LAMBDA c : c \notin skipped) IN IF i = 0 THEN <<>> ELSE SubSeq(s, i, Len(s))

ReadHexText(text) ==
    LET s0 == After(text, {Space})
        negative == s0 # <<>> /\ s0[1] = Dash
        s1 == IF negative THEN Tail(s0) ELSE s0
        s2 == IF Len(s1) >= 2 /\ s1[1] = 0 /\ s1[2] = LetterX THEN SubSeq(s1, 3, Len(s1)) ELSE s1
        s3 == After(s2, {Space})
        n == FoldLeft(LAMBDA acc, c : IF ~acc.more \/ c >= HexBase THEN [acc EXCEPT !.more = FALSE]
                                       ELSE [acc EXCEPT !.bn = @ * HexBase + c],
                      [bn |-> 0, more |-> TRUE], s3).bn
    IN  IF negative THEN -n ELSE n

ShiftedRight(n, shift) == IF 2 ^ shift > n THEN 0 ELSE n \div 2 ^ shift

-----------------------------------------------------------------------------
BigInit == bn = MinNumber
BigNext == bn < MaxNumber /\ bn' = bn + 1

\* A machine integer becomes the number it is, the smallest one included, and a number that fits
\* comes back; what does not fit is cut to the low bytes, or for getint to the nearest end.
IntegersAreKept ==
    /\ -bn <= UintRange \div 2 /\ bn < UintRange \div 2 => setint64(bn) = bn
    /\ bn \in 0 .. UintRange - 1 => setuint64(bn) = bn /\ getuint64(bn) = bn
    /\ getuint64(bn) = AbsoluteValue(bn) % UintRange
    /\ getint(bn) \in -IntMax - 1 .. IntMax
    /\ \A n \in -IntMax - 1 .. IntMax : AbsoluteValue(bn - getint(bn)) <= AbsoluteValue(bn - n)

\* A vector leads back to its number, in its shortest form, and no two numbers have the same.
VectorsAreShortest ==
    LET s == getvch(bn) IN
    /\ setvch(s) = bn
    /\ \A pad \in {<<0>>, <<0, 0>>} : bn >= 0 => setvch(s \o pad) = bn /\ getvch(setvch(s \o pad)) = s
    /\ s # <<>> => Last(s) % SignBit # 0 \/ (Len(s) > 1 /\ s[Len(s) - 1] >= SignBit)

\* Of a target the compact form keeps three bytes, rounds towards zero, keeps the order, and is
\* kept itself; a target that has passed the range check is its uint256 (main.cpp:1198-1216).
CompactKeepsOrder ==
    LET kept == SetCompact(GetCompact(bn)) IN
    /\ AbsoluteValue(kept) <= AbsoluteValue(bn)
    /\ (bn < 0) = (kept < 0)
    /\ Len(BnToMpi(bn)) > 3 => AbsoluteValue(bn) - AbsoluteValue(kept) < ByteBase ^ (Len(BnToMpi(bn)) - 3)
    /\ Len(BnToMpi(bn)) <= 3 => kept = bn
    /\ GetCompact(kept) = GetCompact(bn)
    /\ kept <= SetCompact(GetCompact(bn + 1))
    /\ kept > 0 /\ kept < UintRange => getuint64(kept) = kept

\* Text leads back to its number, in front of which spaces and 0x may stand.
TextLeadsBack ==
    LET s == TextOf(bn) IN
    /\ ReadHexText(s) = bn
    /\ bn >= 0 => ReadHexText(<<Space, 0, LetterX, Space>> \o s \o <<Space, 1>>) = bn
    /\ \A k \in 0 .. 3 : bn >= 0 => ShiftedRight(bn, k) = bn \div 2 ^ k

BigNumberIsRight == IntegersAreKept /\ VectorsAreShortest /\ CompactKeepsOrder /\ TextLeadsBack

-----------------------------------------------------------------------------
(***************************************************************************)
(* base58.h: bytes as text, with a version in front and a checksum behind  *)
(* for addresses and secret keys.                                          *)
(***************************************************************************)
CONSTANTS
    Alphabet,     \* 58 characters
    IdSize,       \* bytes of a key's or a script's hash, 20
    SecretSize,   \* bytes of a secret, 32
    Texts,        \* texts that are decoded
    ByteStrings,  \* byte strings that are encoded
    Secrets

\* What is encoded or decoded, and -testnet.
VARIABLES given, fTestNet

base58Vars == <<given, fTestNet>>

\* A character is its place in the alphabet or one of these.
Blank == Alphabet
Stranger == Alphabet + 1

-----------------------------------------------------------------------------
InBase(n, base) ==
    LET len == CHOOSE k \in 0 .. 20 : n < base ^ k /\ (k > 0 => n >= base ^ (k - 1))
    IN  [i \in 1 .. len |-> (n \div base ^ (len - i)) % base]

LeadingZeros(s) == Len(s) - Len(After(s, {0}))
Zeros(n) == [i \in 1 .. n |-> 0]

\* The zero at the end keeps the number from being negative.
EncodeBase58_NoZeros(bytes) == InBase(setvch(Reverse(bytes) \o <<0>>), Alphabet)
EncodeBase58(bytes) == Zeros(LeadingZeros(bytes)) \o InBase(setvch(Reverse(bytes) \o <<0>>), Alphabet)

NotText == <<FALSE, <<>>>>

\* The bytes of the number, without the byte that is there for its sign only.
PlainBytes_WithSign(n) == Reverse(getvch(n))
WithoutSign(s) == IF Len(s) >= 2 /\ Last(s) = 0 /\ s[Len(s) - 1] >= SignBit THEN Front(s) ELSE s
PlainBytes(n) == Reverse(WithoutSign(getvch(n)))

NumberIn(digits) == FoldLeft(LAMBDA acc, c : acc * Alphabet + c, 0, digits)
CharactersIn(s) == SelectSeq(s, LAMBDA c : c < Alphabet)

\* Blanks are skipped in front and behind.
Trimmed(s) == Reverse(After(Reverse(After(s, {Blank})), {Blank}))
BytesOf(digits) == Zeros(LeadingZeros(digits)) \o PlainBytes(NumberIn(digits))
DecodeBase58(text) ==
    IF CharactersIn(Trimmed(text)) # Trimmed(text) THEN NotText ELSE <<TRUE, BytesOf(Trimmed(text))>>

-----------------------------------------------------------------------------
(* The checksum: one byte here of a hash that is four there. *)

Checksum(bytes) == <<FoldLeft(LAMBDA acc, b : (acc * 3 + b + 1) % ByteBase, 0, bytes)>>

EncodeBase58Check(bytes) == EncodeBase58(bytes \o Checksum(bytes))

\* What was decoded, without its checksum.
CheckedOff(r) ==
    IF ~r[1] \/ r[2] = <<>> \/ Checksum(Front(r[2])) # <<Last(r[2])>> THEN NotText ELSE <<TRUE, Front(r[2])>>

DecodeBase58Check(text) == CheckedOff(DecodeBase58(text))

-----------------------------------------------------------------------------
(* CBase58Data, CBitcoinAddress and CBitcoinSecret. *)

PUBKEY_ADDRESS == 2
SCRIPT_ADDRESS == 1
PUBKEY_ADDRESS_TEST == 3
SCRIPT_ADDRESS_TEST == 5
SecretVersion(test) == SignBit + (IF test THEN PUBKEY_ADDRESS_TEST ELSE PUBKEY_ADDRESS)

Data(version, data) == [nVersion |-> version, vchData |-> data]
DataText(d) == EncodeBase58Check(<<d.nVersion>> \o d.vchData)

DataIn(bytes) == IF bytes = <<>> THEN Data(0, <<>>) ELSE Data(Head(bytes), Tail(bytes))
SetString(text) == DataIn(DecodeBase58Check(text)[2])

SetDestination(dest, test) ==
    Data(IF dest.kind = "key" THEN IF test THEN PUBKEY_ADDRESS_TEST ELSE PUBKEY_ADDRESS
         ELSE IF test THEN SCRIPT_ADDRESS_TEST ELSE SCRIPT_ADDRESS, dest.id)

AddressIsValid_AnyNet(d, test) ==
    /\ d.nVersion \in {PUBKEY_ADDRESS, SCRIPT_ADDRESS, PUBKEY_ADDRESS_TEST, SCRIPT_ADDRESS_TEST}
    /\ Len(d.vchData) = IdSize
AddressIsValid(d, test) ==
    /\ d.nVersion \in IF test THEN {PUBKEY_ADDRESS_TEST, SCRIPT_ADDRESS_TEST} ELSE {PUBKEY_ADDRESS, SCRIPT_ADDRESS}
    /\ Len(d.vchData) = IdSize

NoDestination == [kind |-> "none", id |-> <<>>]
Get(d, test) ==
    IF ~AddressIsValid(d, test) THEN NoDestination
    ELSE [kind |-> IF d.nVersion \in {PUBKEY_ADDRESS, PUBKEY_ADDRESS_TEST} THEN "key" ELSE "script", id |-> d.vchData]

SetSecretData(secret, compressed, test) == Data(SecretVersion(test), IF compressed THEN Append(secret, 1) ELSE secret)
GetSecret(d) == <<SubSeq(d.vchData, 1, SecretSize), Len(d.vchData) = SecretSize + 1>>
SecretIsValid(d, test) ==
    /\ d.nVersion = SecretVersion(test)
    /\ Len(d.vchData) = SecretSize \/ (Len(d.vchData) = SecretSize + 1 /\ Last(d.vchData) = 1)

-----------------------------------------------------------------------------
Destinations == [kind : {"key", "script"}, id : [1 .. IdSize -> 0 .. ByteBase - 1]]

Base58Init ==
    /\ given \in ({"bytes"} \X ByteStrings) \cup ({"text"} \X Texts)
    /\ fTestNet = FALSE

\* The user starts the program on the other net, with what the first one wrote.
OtherNet == fTestNet' = ~fTestNet /\ UNCHANGED given

\* Bytes come back from their text, zeros in front included; and of the texts of some bytes only
\* blanks make a difference.
TextsAreUnique ==
    /\ given[1] = "bytes" => DecodeBase58(EncodeBase58(given[2])) = <<TRUE, given[2]>>
    /\ given[1] = "text" => LET r == DecodeBase58(given[2]) IN
         r[1] => EncodeBase58(r[2]) = SelectSeq(given[2], LAMBDA c : c # Blank)

\* An address and a secret come back as what they were; on the other net they are neither, nor
\* is one ever taken for the other.
AddressesAreApart ==
    given = <<"bytes", <<>>>> =>
    /\ \A dest \in Destinations :
        \A d \in {SetString(DataText(SetDestination(dest, fTestNet)))} :
        /\ Get(d, fTestNet) = dest /\ Get(d, ~fTestNet) = NoDestination
        /\ \A test \in BOOLEAN : ~SecretIsValid(d, test)
    /\ \A s \in Secrets, compressed \in BOOLEAN :
        \A d \in {SetString(DataText(SetSecretData(s, compressed, fTestNet)))} :
        /\ SecretIsValid(d, fTestNet) /\ GetSecret(d) = <<s, compressed>> /\ ~SecretIsValid(d, ~fTestNet)
        /\ \A test \in BOOLEAN : Get(d, test) = NoDestination

Base58IsRight == TextsAreUnique /\ AddressesAreApart

-----------------------------------------------------------------------------
(***************************************************************************)
(* key.cpp: CKey, an OpenSSL key with the form its public key is written   *)
(* in, through the ways a wallet puts a key away and takes it out again,   *)
(* and the compact signatures of messages, from which the public key is    *)
(* recovered.  The curve is y^2 = x^3 + 7 as in the code, over a small     *)
(* field; its order is less than the field's, so that a point may have an  *)
(* x that is not below the order.                                          *)
(***************************************************************************)
CONSTANTS
    Field, Order,  \* primes; y^2 = x^3 + 7 over Field has Order points
    BasePoint,     \* a point
    KeySecrets,    \* the secrets of keys that are made
    Hashes         \* the hashes of messages that are signed

VARIABLES
    key,           \* the CKey at hand: [pkey, fSet, fCompressedPubKey]
    madeKey        \* the secret and the form of the key that was made, <<>> before

keyVars == <<key, madeKey>>

-----------------------------------------------------------------------------
(* The curve, with OpenSSL's operations on it. *)

Infinity == <<>>
OnCurve(x, y) == (y * y - x * x * x - 7) % Field = 0
ModInverse(a, m) == CHOOSE b \in 1 .. m - 1 : (a * b) % m = 1

PointSum(P, Q) ==
    IF P = Infinity THEN Q ELSE IF Q = Infinity THEN P
    ELSE IF P[1] = Q[1] /\ (P[2] + Q[2]) % Field = 0 THEN Infinity
    ELSE LET slope == (IF P = Q THEN 3 * P[1] * P[1] * ModInverse((2 * P[2]) % Field, Field)
                       ELSE (Q[2] - P[2]) * ModInverse((Q[1] - P[1]) % Field, Field)) % Field
             x == (slope * slope - P[1] - Q[1]) % Field
         IN  <<x, (slope * (P[1] - x) - P[2]) % Field>>

\* The multiples of the generator: the k-th one is at k + 1.
Multiples == FoldLeft(LAMBDA acc, k : Append(acc, PointSum(acc[k], BasePoint)), << <<>> >>, [k \in 1 .. Order - 1 |-> k])
Times(k) == Multiples[(k % Order) + 1]
LogOf(P) == SelectInSeq(Multiples, LAMBDA Q : Q = P) - 1

\* ECDSA_do_sign with a nonce, and ECDSA_verify.
DoSign(d, e, k) ==
    LET r == Times(k)[1] % Order IN
    IF r = 0 THEN <<0, 0>> ELSE <<r, (ModInverse(k, Order) * (e + r * d)) % Order>>

DoVerify(P, e, sig) ==
    /\ sig[1] \in 1 .. Order - 1 /\ sig[2] \in 1 .. Order - 1
    /\ LET w == ModInverse(sig[2], Order)
           X == PointSum(Times(e * w), Times(LogOf(P) * sig[1] * w))
       IN  X # Infinity /\ X[1] % Order = sig[1]

-----------------------------------------------------------------------------
(* CKey. *)

NewKey == [pkey |-> [priv |-> 0, pub |-> Infinity, compressed |-> FALSE], fSet |-> FALSE, fCompressedPubKey |-> FALSE]

SetCompressedPubKey(ck) == [ck EXCEPT !.pkey.compressed = TRUE, !.fCompressedPubKey = TRUE]

\* i2o_ECPublicKey: what GetPubKey returns.
PubKeyOf(ck) ==
    LET P == ck.pkey.pub IN
    IF P = Infinity THEN <<0>> ELSE IF ck.pkey.compressed THEN <<2 + (P[2] % 2), P[1]>> ELSE <<4, P[1], P[2]>>

PointOf(bytes) ==
    IF bytes[1] = 4 THEN <<bytes[2], bytes[3]>>
    ELSE <<bytes[2], CHOOSE y \in 0 .. Field - 1 : OnCurve(bytes[2], y) /\ y % 2 = bytes[1] - 2>>

MakeNewKey(d, compressed) ==
    LET ck == [NewKey EXCEPT !.pkey.priv = d, !.pkey.pub = Times(d), !.fSet = TRUE]
    IN  IF compressed THEN SetCompressedPubKey(ck) ELSE ck

\* A new pkey; the flag of an earlier public key stays.
SetSecret_AsAsked(ck, d, compressed) ==
    LET set == [ck EXCEPT !.pkey = [priv |-> d, pub |-> Times(d), compressed |-> FALSE], !.fSet = TRUE]
    IN  IF compressed THEN SetCompressedPubKey(set) ELSE set
SetSecret(ck, d, compressed) ==
    LET set == [ck EXCEPT !.pkey = [priv |-> d, pub |-> Times(d), compressed |-> FALSE], !.fSet = TRUE]
    IN  IF compressed \/ ck.fCompressedPubKey THEN SetCompressedPubKey(set) ELSE set

\* The decoders take the form from the text they read; only SetPubKey sets the flag after it.
SetPubKey(ck, bytes) ==
    LET set == [ck EXCEPT !.pkey.pub = PointOf(bytes), !.pkey.compressed = bytes[1] # 4, !.fSet = TRUE]
    IN  IF Len(bytes) = 2 THEN SetCompressedPubKey(set) ELSE set

PrivKeyOf(ck) == [priv |-> ck.pkey.priv, pub |-> PubKeyOf(ck)]
SetPrivKey(ck, der) ==
    [ck EXCEPT !.pkey = [priv |-> der.priv, pub |-> PointOf(der.pub), compressed |-> der.pub[1] # 4], !.fSet = TRUE]

SecretOf(ck) == <<ck.pkey.priv, ck.fCompressedPubKey>>

IsValidKey(ck) ==
    /\ ck.fSet /\ ck.pkey.pub = Times(ck.pkey.priv) /\ ck.pkey.pub # Infinity
    /\ PubKeyOf(ck) = PubKeyOf(SetSecret(NewKey, ck.pkey.priv, ck.fCompressedPubKey))

-----------------------------------------------------------------------------
(* Compact signatures. *)

\* ECDSA_SIG_recover_key_GFp: the second half of the recids stands for an x that is not below
\* the order.  Nothing is recovered from an r that has no inverse or no point.
XOf_First(r, recid) == r
XOf(r, recid) == r + (recid \div 2) * Order

Recovered(sig, e, recid) ==
    LET x == XOf(sig[1], recid)
        ys == {y \in 0 .. Field - 1 : OnCurve(x, y) /\ y % 2 = recid % 2}
    IN  IF x >= Field \/ ys = {} \/ sig[1] % Order = 0 THEN {}
        ELSE LET R == <<x, CHOOSE y \in ys : TRUE>>
                 rr == ModInverse(sig[1] % Order, Order)
             IN  {Times(LogOf(R) * sig[2] * rr - e * rr)}

\* SetCompactSignature into a CKey of its own.
SetCompactSignature(e, vchSig) ==
    LET recid == vchSig[1] % 4
        found == Recovered(<<vchSig[2], vchSig[3]>>, e, recid)
        ck == IF vchSig[1] >= 4 THEN SetCompressedPubKey(NewKey) ELSE NewKey
    IN  {[ck EXCEPT !.pkey.pub = P, !.fSet = TRUE] : P \in found}

\* The first byte less 27; without a recid that leads back the code throws.
SignCompact(ck, e, k) ==
    LET sig == DoSign(ck.pkey.priv, e, k)
        fits == {i \in 0 .. 3 : ck.pkey.pub \in Recovered(sig, e, i)}
    IN  IF fits = {} THEN <<>>
        ELSE <<(CHOOSE i \in fits : \A j \in fits : i <= j) + (IF ck.fCompressedPubKey THEN 4 ELSE 0), sig[1], sig[2]>>

-----------------------------------------------------------------------------
(* The ways of a wallet's key. *)

KeysInit == key = NewKey /\ madeKey = <<>>

\* CWallet::GenerateNewKey; the key goes to the key store and to the wallet's file.
GenerateNewKey(d, compressed) == key' = MakeNewKey(d, compressed) /\ madeKey' = <<d, compressed>>

MadeKey == MakeNewKey(madeKey[1], madeKey[2])

\* CBasicKeyStore::GetKey, and importprivkey of what dumpprivkey wrote.
GetKey == madeKey # <<>> /\ key' = SetSecret(NewKey, madeKey[1], madeKey[2]) /\ UNCHANGED madeKey

\* ReadKeyValue.
LoadKey_NoPubKey(ck) == ck
LoadKey(ck) == SetPubKey(ck, PubKeyOf(MadeKey))
LoadWallet == madeKey # <<>> /\ key' = SetPrivKey(LoadKey(NewKey), PrivKeyOf(MadeKey)) /\ UNCHANGED madeKey

\* CCryptoKeyStore::GetKey and Unlock.
DecryptKey == madeKey # <<>> /\ key' = SetSecret(SetPubKey(NewKey, PubKeyOf(MadeKey)), madeKey[1], FALSE) /\ UNCHANGED madeKey

KeysNext ==
    \/ \E d \in KeySecrets, compressed \in BOOLEAN : GenerateNewKey(d, compressed)
    \/ GetKey \/ LoadWallet \/ DecryptKey

-----------------------------------------------------------------------------
\* Whichever way a key was put away and taken out, its public key is written in the form in
\* which it was made, and with it its address is the same (keystore.cpp, walletdb.cpp:266-310).
FormIsKept ==
    madeKey # <<>> =>
    /\ PubKeyOf(key) = PubKeyOf(MadeKey) /\ SecretOf(key) = madeKey /\ IsValidKey(key)

\* The signature of a message leads back to the public key of its signer in its form, for every
\* nonce: signing finds a recid, the rare points with an x not below the order included.
SignatureLeadsBack ==
    key.fSet =>
    \A e \in Hashes, k \in 1 .. Order - 1 :
        0 \notin ToSet(DoSign(key.pkey.priv, e, k)) =>
          \A vchSig \in {SignCompact(key, e, k)} :
              /\ vchSig # <<>>
              /\ {PubKeyOf(ck) : ck \in SetCompactSignature(e, vchSig)} = {PubKeyOf(key)}

\* A key that is recovered from some numbers is one for which they are a signature, as long as
\* they are in the range of a signature.
RecoveredKeyIsValid ==
    madeKey = <<>> =>
    \A e \in Hashes, r, s \in 1 .. Order - 1, v \in 0 .. 3 :
        \A ck \in SetCompactSignature(e, <<v, r, s>>) : DoVerify(ck.pkey.pub, e, <<r, s>>)

KeysAreRight == FormIsKept /\ SignatureLeadsBack /\ RecoveredKeyIsValid

\* The comment at key.cpp:341-344 and key.h:157: a recovered key is valid and the signature is
\* one of the data for it.
AnyRecoveredKeyIsValid ==
    madeKey = <<>> =>
    \A e \in Hashes, r, s \in 0 .. Order, v \in 0 .. 3 :
        \A ck \in SetCompactSignature(e, <<v, r, s>>) : ck.pkey.pub # Infinity /\ DoVerify(ck.pkey.pub, e, <<r, s>>)

-----------------------------------------------------------------------------
(***************************************************************************)
(* The texts of util.cpp: amounts, hexadecimal, base64 and base32, and the *)
(* masks of -rpcallowip.  A character is a number; which one means what is *)
(* said where the text is read.                                            *)
(***************************************************************************)
CONSTANTS
    Ten,            \* 10
    Decimals,       \* COIN is Ten ^ Decimals, 8 in util.h
    PrintedWidth,   \* the digits FormatMoney asks for, 6 in util.cpp
    WholeDigits,    \* the digits ParseMoney takes in front of the point, 10
    TextSamples     \* <<kind, value>>: what is written or read

VARIABLE text

textVars == text

-----------------------------------------------------------------------------
(* Amounts: digits, and these. *)

COIN == Ten ^ Decimals
CENT == Ten ^ (Decimals - 2)
Point == Ten
Gap == Ten + 1
Sign == Ten + 2

DigitsOf(n, width) ==
    LET len == CHOOSE k \in 1 .. 12 : n < Ten ^ k /\ (k > 1 => n >= Ten ^ (k - 1))
        k == IF len < width THEN width ELSE len
    IN  [i \in 1 .. k |-> (n \div Ten ^ (k - i)) % Ten]

\* The zeros at the end are dropped down to the second place after the point.
IsKept(s, i) == s[i] # 0 \/ s[i - 2] = Point
WithoutZeros(s) == SubSeq(s, 1, CHOOSE i \in 3 .. Len(s) : IsKept(s, i) /\ \A j \in i + 1 .. Len(s) : ~IsKept(s, j))
Printed(abs) == WithoutZeros(DigitsOf(abs \div COIN, 1) \o <<Point>> \o DigitsOf(abs % COIN, PrintedWidth))
FormatMoney(n) == IF n < 0 THEN <<Sign>> \o Printed(-n) ELSE Printed(n)

SkipAny(s, skipped) ==
    LET i == SelectInSeq(s, LAMBDA c : c \notin skipped) IN IF i = 0 THEN <<>> ELSE SubSeq(s, i, Len(s))
UpToAny(s, chars) == LET i == SelectInSeq(s, LAMBDA c : c \in chars) IN IF i = 0 THEN s ELSE SubSeq(s, 1, i - 1)

NoAmount == -1

\* What stands in front of the point, and behind the digits that count.
IsAmount_NoTail(whole, behind) == Sign \notin {whole[i] : i \in DOMAIN whole}
IsAmount(whole, behind) ==
    /\ Sign \notin {whole[i] : i \in DOMAIN whole}
    /\ SkipAny(behind, {Gap}) = <<>>
    /\ Len(whole) <= WholeDigits

\* The digits that COIN has room for; what stands behind them counts only if there is no point.
FirstDigits(s) == SubSeq(s, 1, IF Len(s) > Decimals THEN Decimals ELSE Len(s))
UnitsOf(rest) == FirstDigits(UpToAny(Tail(rest), {Point, Gap, Sign}))
AmountOf(whole, units, behind) ==
    IF ~IsAmount(whole, behind) THEN NoAmount
    ELSE FoldLeft(LAMBDA acc, d : acc * Ten + d, 0, whole) * COIN
         + FoldLeft(LAMBDA acc, i : acc + units[i] * Ten ^ (Decimals - i), 0, [i \in DOMAIN units |-> i])

\* Whole digits, a point, as many digits as COIN has room for, blanks.
SplitMoney(whole, rest) ==
    IF rest = <<>> \/ Head(rest) # Point THEN AmountOf(whole, <<>>, rest)
    ELSE AmountOf(whole, UnitsOf(rest), SubSeq(rest, Len(UnitsOf(rest)) + 2, Len(rest)))

ReadMoney(s) == SplitMoney(UpToAny(s, {Point, Gap}), SubSeq(s, Len(UpToAny(s, {Point, Gap})) + 1, Len(s)))
ParseMoney(str) == ReadMoney(SkipAny(str, {Gap}))

-----------------------------------------------------------------------------
(* Hexadecimal: digits up to 15, a blank and other characters. *)

HexBlank == 16

HexStr(bytes) == FlattenSeq([i \in DOMAIN bytes |-> <<bytes[i] \div 16, bytes[i] % 16>>])
IsHex(str) == (\A i \in DOMAIN str : str[i] < 16) /\ str # <<>> /\ Len(str) % 2 = 0

\* Blanks may stand between the bytes but not within one; it ends at the first other character.
ParseHex(str) ==
    LET step(acc, c) ==
            IF acc.done \/ (acc.high = <<>> /\ c = HexBlank) THEN acc
            ELSE IF c >= 16 THEN [acc EXCEPT !.done = TRUE]
            ELSE IF acc.high = <<>> THEN [acc EXCEPT !.high = <<c>>]
            ELSE [acc EXCEPT !.high = <<>>, !.bytes = Append(@, 16 * acc.high[1] + c)]
    IN  FoldLeft(step, [bytes |-> <<>>, high |-> <<>>, done |-> FALSE], str).bytes

-----------------------------------------------------------------------------
(* base64 and base32: characters of K bits in groups that are whole bytes. *)

Pad == 64
Group(K) == IF K = 6 THEN 4 ELSE 8

\* The bits that are left over are kept until the next byte.
EncodeBits(K, bytes) ==
    LET step(acc, byte) ==
            LET all == acc.left * 256 + byte
                bits == acc.bits + 8
                out == [i \in 1 .. bits \div K |-> (all \div 2 ^ (bits - i * K)) % 2 ^ K]
            IN  [chars |-> acc.chars \o out, left |-> all % 2 ^ (bits % K), bits |-> bits % K]
        end == FoldLeft(step, [chars |-> <<>>, left |-> 0, bits |-> 0], bytes)
        chars == IF end.bits = 0 THEN end.chars ELSE Append(end.chars, end.left * 2 ^ (K - end.bits))
    IN  chars \o [i \in 1 .. (Group(K) - (Len(chars) % Group(K))) % Group(K) |-> Pad]

\* pfInvalid: bits that are left over must be zero, and the group must be filled with pads.
PadsFit_Any(K, left, chars, behind) == left < 2 ^ (K - 1)
PadsFit(K, left, chars, behind) ==
    LET pads == (Group(K) - (Len(chars) % Group(K))) % Group(K)
        at(i) == IF i <= Len(behind) THEN behind[i] ELSE Pad + 1
    IN  pads = 0 \/ (left = 0 /\ (\A i \in 1 .. pads : at(i) = Pad) /\ at(pads + 1) >= 2 ^ K)

DecodeBits(K, str) ==
    LET chars == UpToAny(str, {c \in 0 .. 70 : c >= 2 ^ K})
        step(acc, c) ==
            LET all == acc.left * 2 ^ K + c
                bits == acc.bits + K
            IN  IF bits < 8 THEN [acc EXCEPT !.left = all, !.bits = bits]
                ELSE [bytes |-> Append(acc.bytes, all \div 2 ^ (bits - 8)), left |-> all % 2 ^ (bits - 8), bits |-> bits - 8]
        end == FoldLeft(step, [bytes |-> <<>>, left |-> 0, bits |-> 0], chars)
    IN  <<end.bits < K /\ PadsFit(K, end.left, chars, SubSeq(str, Len(chars) + 1, Len(str))), end.bytes>>

-----------------------------------------------------------------------------
(* Masks. *)

AnyChar == 10
AnyText == 11

\* The place in the text and the place in the mask.
WildcardMatch(str, mask) ==
    LET match[p \in (1 .. Len(str) + 1) \X (1 .. Len(mask) + 1)] ==
            IF p[2] > Len(mask) THEN p[1] > Len(str)
            ELSE IF mask[p[2]] = AnyText
            THEN match[<<p[1], p[2] + 1>>] \/ (p[1] <= Len(str) /\ match[<<p[1] + 1, p[2]>>])
            ELSE /\ p[1] <= Len(str)
                 /\ mask[p[2]] \in {AnyChar, str[p[1]]}
                 /\ match[<<p[1] + 1, p[2] + 1>>]
    IN  match[<<1, 1>>]

-----------------------------------------------------------------------------
TextInit == text \in TextSamples

\* "reservebalance true <amount>" keeps the amount as text, and each attempt at staking reads it.
ReserveBalance ==
    /\ text[1] = "money" /\ text[2] > 0
    /\ LET nAmount == (text[2] \div CENT) * CENT IN
        nAmount >= 0 /\ text' = <<"reserve", ParseMoney(FormatMoney(nAmount)), nAmount>>
TextNext == ReserveBalance

\* Whole coins come back from their text, and what is read of a text of at most Decimals places
\* is the amount that it writes out; nothing else is read as an amount.
AmountsAreRead ==
    /\ text[1] = "money" /\ text[2] >= 0 /\ text[2] % COIN = 0 => ParseMoney(FormatMoney(text[2])) = text[2]
    /\ text[1] = "money" /\ text[2] < 0 => ParseMoney(FormatMoney(text[2])) = NoAmount
    /\ text[1] = "amount" =>
        \A n \in {ParseMoney(text[2])} \ {NoAmount} :
             /\ \A i \in DOMAIN text[2] : text[2][i] # Sign
             /\ LET plain == SelectSeq(text[2], LAMBDA c : c # Gap)
                    point == SelectInSeq(plain, LAMBDA c : c = Point)
                    digits == SelectSeq(plain, LAMBDA c : c # Point)
                    places == IF point = 0 THEN 0 ELSE Len(plain) - point
                IN  places <= Decimals /\ FoldLeft(LAMBDA acc, d : acc * Ten + d, 0, digits) * Ten ^ (Decimals - places) = n

\* Bytes come back from their text; a text that is taken for one is the text of its bytes, up to
\* what stands behind it.
BytesComeBack ==
    /\ text[1] = "bytes" =>
        /\ ParseHex(HexStr(text[2])) = text[2]
        /\ text[2] # <<>> => IsHex(HexStr(text[2]))
        /\ \A K \in {5, 6} : DecodeBits(K, EncodeBits(K, text[2])) = <<TRUE, text[2]>>
    /\ text[1] = "hex" => (IsHex(text[2]) => HexStr(ParseHex(text[2])) = text[2])
    /\ text[1] = "bits" =>
        \A K \in {5, 6} : \A r \in {DecodeBits(K, text[2])} :
            r[1] => IsPrefix(EncodeBits(K, r[2]), text[2])

\* A mask fits a text if the text can be cut into what its characters stand for.
MasksFit ==
    text[1] = "mask" =>
    LET str == text[2][1]
        mask == text[2][2]
        n == Len(mask)
    IN  WildcardMatch(str, mask) <=>
          \E cut \in [0 .. n -> 0 .. Len(str)] :
            /\ cut[0] = 0 /\ cut[n] = Len(str)
            /\ \A i \in 1 .. n :
                /\ cut[i - 1] <= cut[i]
                /\ mask[i] # AnyText => cut[i] = cut[i - 1] + 1 /\ mask[i] \in {AnyChar, str[cut[i]]}

TextsAreRight == AmountsAreRead /\ BytesComeBack /\ MasksFit

\* The reserve is the amount that was asked for: test/util_tests.cpp:191-198 reads the text of
\* each fraction of a coin as that fraction.
ReserveIsKept == text[1] = "reserve" => text[2] = text[3]
=============================================================================
