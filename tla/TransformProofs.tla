--------------------------- MODULE TransformProofs ---------------------------
(***************************************************************************)
(* The coders' loop for every text and every length of the buffer: what is   *)
(* written stays in the buffer, decoding in place reads what was given, and  *)
(* what an encoder wrote is decoded to the text it was given.  For the last, *)
(* a turn of each encoder is shown to be read back by a turn of its decoder  *)
(* whatever follows it, and the invariant keeps the places where the turns   *)
(* cut the text and its code.                                               *)
(***************************************************************************)
EXTENDS Transform, Iteration, FiniteSetTheorems, SequenceTheorems, TLAPS

-----------------------------------------------------------------------------
(* What one turn uses and emits                                              *)

\* A turn emits bytes and does not use more than the source has.
IsTurn(turn, rest) ==
  /\ turn.emit \in Seq(Byte)
  /\ turn.used \in 0..Len(rest)
  /\ turn.spare \in {0, 1}

\* A turn of an encoder keeps room for the '\0'.
Reserving(turn) == turn.spare = 1

\* A turn of a decoder does not write more than it read.
Shrinking(turn) == Len(turn.emit) <= turn.used

\* A byte is a number.
LEMMA ByteType == \A b \in Byte : b \in Nat /\ b <= 255
BY DEF Byte

\* A character that is taken as it is.
LEMMA PlainTurn ==
  ASSUME NEW rest \in Seq(Byte), rest # <<>>
  PROVE  /\ IsTurn(Plain(rest), rest) /\ Reserving(Plain(rest)) /\ Shrinking(Plain(rest))
         /\ rest[1] \in Byte /\ Len(rest) \in Nat \ {0}
<1>1. rest[1] \in Byte /\ Len(rest) \in Nat \ {0}
  OBVIOUS
<1>2. <<rest[1]>> \in Seq(Byte) /\ Len(<<rest[1]>>) = 1
  BY <1>1
<1>3. QED
  BY <1>1, <1>2 DEF IsTurn, Reserving, Shrinking, Plain, Turn

\* Two hexadecimal digits make a byte, whatever they are.
LEMMA HexByteType ==
  ASSUME NEW a \in Byte, NEW b \in Byte
  PROVE  HexByte(a, b) \in Byte
<1>1. \A c \in Byte : HexDecode(c) \in Byte
  BY DEF HexDecode, Byte
<1>2. \A x, y \in 0..15 : Or4(x, y) \in 0..15
  BY DEF Or4
<1>3. \A x \in Byte : x % 16 \in 0..15 /\ x \div 16 \in 0..15
  BY DEF Byte
<1>4. \A x \in 0..15, y \in 0..15 : 16 * x + y \in Byte
  BY DEF Byte
<1>5. QED
  BY <1>1, <1>2, <1>3, <1>4 DEF HexByte

\* A byte makes two hexadecimal digits.
LEMMA HexPairType ==
  ASSUME NEW ch \in Byte
  PROVE  HexPair(ch) \in Seq(Byte) /\ Len(HexPair(ch)) = 2
<1>1. ch \div 16 \in 0..15 /\ ch % 16 \in 0..15
  BY DEF Byte
<1>2. \A v \in 0..15 : HexEncode(v) \in Byte
  BY DEF HexEncode, Byte
<1>3. QED
  BY <1>1, <1>2 DEF HexPair

\* escape(), unescape(), encode() and decode()
LEMMA EscapeTurns ==
  ASSUME NEW rest \in Seq(Byte), rest # <<>>
  PROVE  /\ IsTurn(Escape(rest), rest) /\ Reserving(Escape(rest))
         /\ IsTurn(Unescape(rest), rest) /\ Reserving(Unescape(rest)) /\ Shrinking(Unescape(rest))
         /\ IsTurn(Encode(rest), rest) /\ Reserving(Encode(rest))
         /\ IsTurn(Decode(rest), rest) /\ Reserving(Decode(rest)) /\ Shrinking(Decode(rest))
<1>1. Esc \in Byte
  BY EscapeAssumption
<1>2. rest[1] \in Byte /\ Len(rest) \in Nat \ {0}
  BY PlainTurn
<1>3. IsTurn(Escape(rest), rest) /\ Reserving(Escape(rest))
  <2>1. <<Esc, rest[1]>> \in Seq(Byte)
    BY <1>1, <1>2
  <2>2. QED
    BY <1>2, <2>1, PlainTurn DEF Escape, IsTurn, Reserving, Turn
<1>4. IsTurn(Unescape(rest), rest) /\ Reserving(Unescape(rest)) /\ Shrinking(Unescape(rest))
  <2>1. CASE rest[1] = Esc /\ Len(rest) >= 2
    <3>1. rest[2] \in Byte
      BY <2>1
    <3>2. <<rest[2]>> \in Seq(Byte) /\ Len(<<rest[2]>>) = 1
      BY <3>1
    <3>3. QED
      BY <1>2, <2>1, <3>2 DEF Unescape, IsTurn, Reserving, Shrinking, Turn
  <2>2. CASE ~(rest[1] = Esc /\ Len(rest) >= 2)
    BY <2>2, PlainTurn DEF Unescape
  <2>3. QED
    BY <2>1, <2>2
<1>5. IsTurn(Encode(rest), rest) /\ Reserving(Encode(rest))
  <2>1. <<Esc>> \o HexPair(rest[1]) \in Seq(Byte)
    BY <1>1, <1>2, HexPairType
  <2>2. QED
    BY <1>2, <2>1, PlainTurn DEF Encode, IsTurn, Reserving, Turn
<1>6. IsTurn(Decode(rest), rest) /\ Reserving(Decode(rest)) /\ Shrinking(Decode(rest))
  <2>1. CASE rest[1] = Esc /\ Len(rest) >= 3
    <3>1. rest[2] \in Byte /\ rest[3] \in Byte
      BY <2>1
    <3>2. HexByte(rest[2], rest[3]) \in Byte
      BY <3>1, HexByteType
    <3>3. <<HexByte(rest[2], rest[3])>> \in Seq(Byte) /\ Len(<<HexByte(rest[2], rest[3])>>) = 1
      BY <3>2
    <3>4. QED
      BY <1>2, <2>1, <3>3 DEF Decode, IsTurn, Reserving, Shrinking, Turn
  <2>2. CASE ~(rest[1] = Esc /\ Len(rest) >= 3)
    BY <2>2, PlainTurn DEF Decode
  <2>3. QED
    BY <2>1, <2>2
<1>7. QED
  BY <1>3, <1>4, <1>5, <1>6

\* url_encode() and url_decode()
LEMMA UrlTurns ==
  ASSUME NEW rest \in Seq(Byte), rest # <<>>
  PROVE  /\ IsTurn(UrlEncode(rest), rest) /\ Reserving(UrlEncode(rest))
         /\ IsTurn(UrlDecode(rest), rest) /\ Reserving(UrlDecode(rest)) /\ Shrinking(UrlDecode(rest))
<1>1. Percent \in Byte /\ Space \in Byte
  BY DEF Percent, Space, Byte
<1>2. rest[1] \in Byte /\ Len(rest) \in Nat \ {0}
  BY PlainTurn
<1>3. IsTurn(UrlEncode(rest), rest) /\ Reserving(UrlEncode(rest))
  <2>1. <<Percent>> \o HexPair(rest[1]) \in Seq(Byte)
    BY <1>1, <1>2, HexPairType
  <2>2. QED
    BY <1>2, <2>1, PlainTurn DEF UrlEncode, IsTurn, Reserving, Turn
<1>4. IsTurn(UrlDecode(rest), rest) /\ Reserving(UrlDecode(rest)) /\ Shrinking(UrlDecode(rest))
  <2>1. CASE rest[1] = Plus
    <3>1. <<Space>> \in Seq(Byte) /\ Len(<<Space>>) = 1
      BY <1>1
    <3>2. UrlDecode(rest) = Turn(1, <<Space>>)
      BY <2>1 DEF UrlDecode, Plus, Percent
    <3>3. QED
      BY <1>2, <3>1, <3>2 DEF IsTurn, Reserving, Shrinking, Turn
  <2>2. CASE rest[1] = Percent /\ Len(rest) >= 3
    <3>1. rest[2] \in Byte /\ rest[3] \in Byte
      BY <2>2
    <3>2. HexByte(rest[2], rest[3]) \in Byte
      BY <3>1, HexByteType
    <3>3. <<HexByte(rest[2], rest[3])>> \in Seq(Byte) /\ Len(<<HexByte(rest[2], rest[3])>>) = 1
      BY <3>2
    <3>4. UrlDecode(rest) = Turn(3, <<HexByte(rest[2], rest[3])>>)
      BY <2>2 DEF UrlDecode, Plus, Percent
    <3>5. QED
      BY <1>2, <2>2, <3>3, <3>4 DEF IsTurn, Reserving, Shrinking, Turn
  <2>3. CASE rest[1] # Plus /\ ~(rest[1] = Percent /\ Len(rest) >= 3)
    <3>1. UrlDecode(rest) = Plain(rest)
      BY <2>3 DEF UrlDecode
    <3>2. QED
      BY <3>1, PlainTurn
  <2>4. QED
    BY <2>1, <2>2, <2>3
<1>5. QED
  BY <1>3, <1>4

\* hex_encode() and hex_decode(), whose loop leaves two characters at least.
LEMMA HexTurns ==
  ASSUME NEW rest \in Seq(Byte), rest # <<>>
  PROVE  /\ IsTurn(HexEncodes(rest), rest) /\ Reserving(HexEncodes(rest))
         /\ Len(HexEncodes(rest).emit) = 2 /\ HexEncodes(rest).used = 1
         /\ Len(rest) >= 2 => /\ IsTurn(HexDecodes(rest), rest) /\ Reserving(HexDecodes(rest))
                              /\ Shrinking(HexDecodes(rest))
<1>1. rest[1] \in Byte /\ Len(rest) \in Nat \ {0}
  BY PlainTurn
<1>2. HexPair(rest[1]) \in Seq(Byte) /\ Len(HexPair(rest[1])) = 2
  BY <1>1, HexPairType
<1>3. ASSUME Len(rest) >= 2
      PROVE  IsTurn(HexDecodes(rest), rest) /\ Reserving(HexDecodes(rest)) /\ Shrinking(HexDecodes(rest))
  <2>1. rest[2] \in Byte
    BY <1>3
  <2>2. HexByte(rest[1], rest[2]) \in Byte
    BY <1>1, <2>1, HexByteType
  <2>3. <<HexByte(rest[1], rest[2])>> \in Seq(Byte) /\ Len(<<HexByte(rest[1], rest[2])>>) = 1
    BY <2>2
  <2>4. QED
    BY <1>1, <1>3, <2>3 DEF HexDecodes, IsTurn, Reserving, Shrinking, Turn
<1>4. QED
  BY <1>1, <1>2, <1>3 DEF HexEncodes, IsTurn, Reserving, Turn

\* utf8_encode() makes at most four bytes, one of zero.
LEMMA Utf8EncodeType ==
  ASSUME NEW v
  PROVE  /\ Utf8Encode(v) \in Seq(Byte)
         /\ Len(Utf8Encode(v)) \in 0..4
         /\ v = 0 => Len(Utf8Encode(v)) = 1
<1>1. CASE v \notin Nat \/ v > Utf8Max
  <2>1. Utf8Encode(v) = <<>> /\ v # 0
    BY <1>1 DEF Utf8Encode, Utf8Max
  <2>2. QED
    BY <2>1
<1>2. CASE v \in Nat /\ v <= 127
  <2>1. v \in Byte
    BY <1>2 DEF Byte
  <2>2. Utf8Encode(v) = <<v>>
    BY <1>2 DEF Utf8Encode, Utf8Max
  <2>3. QED
    BY <2>1, <2>2
<1>3. CASE v \in Nat /\ v > 127 /\ v <= 2047
  <2>1. 192 + v \div 64 \in Byte /\ 128 + (v % 64) \in Byte
    BY <1>3 DEF Byte
  <2>2. Utf8Encode(v) = <<192 + v \div 64, 128 + (v % 64)>>
    BY <1>3 DEF Utf8Encode, Utf8Max
  <2>3. QED
    BY <1>3, <2>1, <2>2
<1>4. CASE v \in Nat /\ v > 2047 /\ v <= 65535
  <2>1. 224 + v \div 4096 \in Byte /\ 128 + ((v \div 64) % 64) \in Byte /\ 128 + (v % 64) \in Byte
    BY <1>4 DEF Byte
  <2>2. Utf8Encode(v) = <<224 + v \div 4096, 128 + ((v \div 64) % 64), 128 + (v % 64)>>
    BY <1>4 DEF Utf8Encode, Utf8Max
  <2>3. QED
    BY <1>4, <2>1, <2>2
<1>5. CASE v \in Nat /\ v > 65535 /\ v <= Utf8Max
  <2>1. /\ 240 + v \div 262144 \in Byte /\ 128 + ((v \div 4096) % 64) \in Byte
        /\ 128 + ((v \div 64) % 64) \in Byte /\ 128 + (v % 64) \in Byte
    BY <1>5 DEF Byte, Utf8Max
  <2>2. Utf8Encode(v) = <<240 + v \div 262144, 128 + ((v \div 4096) % 64),
                          128 + ((v \div 64) % 64), 128 + (v % 64)>>
    BY <1>5 DEF Utf8Encode, Utf8Max
  <2>3. QED
    BY <1>5, <2>1, <2>2
<1>6. QED
  BY <1>1, <1>2, <1>3, <1>4, <1>5 DEF Utf8Max

\* utf8_decode() uses no more than there is.
LEMMA Utf8DecodeType ==
  ASSUME NEW rest \in Seq(Byte), rest # <<>>
  PROVE  Utf8Decode(rest)[1] \in 0..Len(rest) /\ Utf8Decode(rest)[2] \in Nat
<1>1. Len(rest) \in Nat \ {0} /\ \A i \in 1..Len(rest) : rest[i] \in Nat
  BY ByteType
<1>2. \A v, b \in Nat : Join(v, b) \in Nat
  BY DEF Join
<1>3. rest[1] \in Nat /\ rest[1] % 32 \in Nat /\ rest[1] % 16 \in Nat /\ rest[1] % 8 \in Nat
  BY <1>1
<1>4. \A i \in 2..4 : Trailer(rest, i) => Len(rest) >= i /\ rest[i] \in Nat
  BY <1>1 DEF Trailer
<1> DEFINE v2 == Join(rest[1] % 32, rest[2])
           v3 == Join(Join(rest[1] % 16, rest[2]), rest[3])
           v4 == Join(Join(Join(rest[1] % 8, rest[2]), rest[3]), rest[4])
<1>5. /\ Trailer(rest, 2) => v2 \in Nat
      /\ Trailer(rest, 2) /\ Trailer(rest, 3) => v3 \in Nat
      /\ Trailer(rest, 2) /\ Trailer(rest, 3) /\ Trailer(rest, 4) => v4 \in Nat
  <2>1. ASSUME Trailer(rest, 2)
        PROVE  v2 \in Nat
    <3>1. rest[2] \in Nat
      BY <1>4, <2>1
    <3>2. QED
      BY <1>2, <1>3, <3>1
  <2>2. ASSUME Trailer(rest, 2), Trailer(rest, 3)
        PROVE  v3 \in Nat
    <3>1. rest[2] \in Nat /\ rest[3] \in Nat
      BY <1>4, <2>2
    <3>2. Join(rest[1] % 16, rest[2]) \in Nat
      BY <1>2, <1>3, <3>1
    <3>3. QED
      BY <1>2, <3>1, <3>2
  <2>3. ASSUME Trailer(rest, 2), Trailer(rest, 3), Trailer(rest, 4)
        PROVE  v4 \in Nat
    <3>1. rest[2] \in Nat /\ rest[3] \in Nat /\ rest[4] \in Nat
      BY <1>4, <2>3
    <3>2. Join(rest[1] % 8, rest[2]) \in Nat
      BY <1>2, <1>3, <3>1
    <3>3. Join(Join(rest[1] % 8, rest[2]), rest[3]) \in Nat
      BY <1>2, <3>1, <3>2
    <3>4. QED
      BY <1>2, <3>1, <3>3
  <2>4. QED
    BY <2>1, <2>2, <2>3
<1>6. \/ Utf8Decode(rest) = <<1, rest[1]>>
      \/ Utf8Decode(rest) = <<2, v2>> /\ Trailer(rest, 2)
      \/ Utf8Decode(rest) = <<3, v3>> /\ Trailer(rest, 2) /\ Trailer(rest, 3)
      \/ Utf8Decode(rest) = <<4, v4>> /\ Trailer(rest, 2) /\ Trailer(rest, 3) /\ Trailer(rest, 4)
      \/ Utf8Decode(rest) = <<0, 0>>
  BY Zenon DEF Utf8Decode
<1> HIDE DEF v2, v3, v4
<1>7. CASE Utf8Decode(rest) = <<1, rest[1]>> \/ Utf8Decode(rest) = <<0, 0>>
  BY <1>1, <1>3, <1>7
<1>8. CASE Utf8Decode(rest) = <<2, v2>> /\ Trailer(rest, 2)
  BY <1>1, <1>4, <1>5, <1>8
<1>9. CASE Utf8Decode(rest) = <<3, v3>> /\ Trailer(rest, 2) /\ Trailer(rest, 3)
  BY <1>1, <1>4, <1>5, <1>9
<1>10. CASE Utf8Decode(rest) = <<4, v4>> /\ Trailer(rest, 2) /\ Trailer(rest, 3) /\ Trailer(rest, 4)
  BY <1>1, <1>4, <1>5, <1>10
<1>11. QED
  BY <1>6, <1>7, <1>8, <1>9, <1>10

\* "&#%lu;"
LEMMA NumericType ==
  ASSUME NEW v \in Nat
  PROVE  Numeric(v) \in Seq(Byte)
<1> DEFINE K == {k \in 2..7 : v >= Tens[k]}
           n == 1 + Cardinality(K)
<1>1. n \in 1..7
  <2>1. IsFiniteSet(2..7) /\ Cardinality(2..7) = 6
    <3>1. 2 \in Int /\ 7 \in Int
      OBVIOUS
    <3>2. IsFiniteSet(2..7) /\ Cardinality(2..7) = IF 2 > 7 THEN 0 ELSE 7 - 2 + 1
      BY <3>1, FS_Interval, Zenon
    <3>3. QED
      BY <3>2
  <2>2. IsFiniteSet(K) /\ Cardinality(K) <= 6
    BY <2>1, FS_Subset
  <2>3. Cardinality(K) \in Nat
    BY <2>2, FS_CardinalityType
  <2>4. QED
    BY <2>2, <2>3
<1> DEFINE digits == [i \in 1..n |-> 48 + ((v \div Tens[n + 1 - i]) % 10)]
<1> HIDE DEF n
<1>2. digits \in Seq(Byte)
  <2>1. \A i \in 1..n : Tens[n + 1 - i] \in Nat \ {0}
    BY <1>1 DEF Tens
  <2>2. \A d \in Nat \ {0} : 48 + ((v \div d) % 10) \in Byte
    BY DEF Byte
  <2>3. digits \in [1..n -> Byte]
    BY <2>1, <2>2
  <2>4. QED
    BY <1>1, <2>3
<1>3. <<Amp, Hash>> \in Seq(Byte) /\ <<Semicolon>> \in Seq(Byte)
  BY DEF Amp, Hash, Semicolon, Byte
<1>4. Numeric(v) = <<Amp, Hash>> \o digits \o <<Semicolon>>
  BY DEF Numeric, n
<1> HIDE DEF digits
<1>5. QED
  BY <1>2, <1>3, <1>4

\* &quot; &amp; &apos; &lt; &gt;
LEMMA EntityType ==
  ASSUME NEW ch \in XmlUnsafe
  PROVE  Entity(ch) \in Seq(Byte) /\ Len(Entity(ch)) \in Nat \ {0}
<1>1. \A b \in {Amp, 113, 117, 111, 116, 97, 109, 112, 115, 108, 103, Semicolon} : b \in Byte
  BY DEF Amp, Semicolon, Byte
<1>2. CASE ch = 34
  BY <1>1, <1>2 DEF Entity
<1>3. CASE ch = 38
  BY <1>1, <1>3 DEF Entity
<1>4. CASE ch = 39
  BY <1>1, <1>4 DEF Entity
<1>5. CASE ch = 60
  BY <1>1, <1>5 DEF Entity
<1>6. CASE ch = 62
  BY <1>1, <1>6 DEF Entity
<1>7. QED
  BY <1>2, <1>3, <1>4, <1>5, <1>6 DEF XmlUnsafe

\* html_encode() and xml_encode()
LEMMA MarkupTurns ==
  ASSUME NEW rest \in Seq(Byte), rest # <<>>
  PROVE  /\ IsTurn(XmlEncode(rest), rest) /\ Reserving(XmlEncode(rest))
         /\ IsTurn(HtmlEncode(rest), rest) /\ Reserving(HtmlEncode(rest))
<1>1. rest[1] \in Byte /\ Len(rest) \in Nat \ {0}
  BY PlainTurn
<1>2. \A emit \in Seq(Byte) : IsTurn(Turn(1, emit), rest) /\ Reserving(Turn(1, emit))
  BY <1>1 DEF IsTurn, Reserving, Turn
<1>3. IsTurn(XmlEncode(rest), rest) /\ Reserving(XmlEncode(rest))
  BY <1>2, EntityType, PlainTurn DEF XmlEncode
<1>4. IsTurn(HtmlEncode(rest), rest) /\ Reserving(HtmlEncode(rest))
  <2> DEFINE utf8 == Utf8Decode(rest)
  <2>1. utf8[1] \in 0..Len(rest) /\ utf8[2] \in Nat
    BY Utf8DecodeType
  <2>2. \/ HtmlEncode(rest) = Turn(utf8[1], Numeric(utf8[2]))
        \/ HtmlEncode(rest) = Turn(1, Numeric(rest[1]))
        \/ HtmlEncode(rest) = Turn(1, Numeric(39))
        \/ HtmlEncode(rest) = XmlEncode(rest)
    BY Zenon DEF HtmlEncode
  <2> HIDE DEF utf8
  <2>3. 39 \in Nat /\ rest[1] \in Nat
    BY <1>1, ByteType
  <2>4. Numeric(utf8[2]) \in Seq(Byte) /\ Numeric(rest[1]) \in Seq(Byte) /\ Numeric(39) \in Seq(Byte)
    BY <2>1, <2>3, NumericType
  <2>5. IsTurn(Turn(utf8[1], Numeric(utf8[2])), rest) /\ Reserving(Turn(utf8[1], Numeric(utf8[2])))
    BY <2>1, <2>4 DEF IsTurn, Reserving, Turn
  <2>6. QED
    BY <1>2, <1>3, <2>2, <2>4, <2>5, Zenon
<1>5. QED
  BY <1>3, <1>4

\* What strtoul() has read of the digits, from one to the next.
LEMMA ValuesStep ==
  ASSUME NEW s \in Seq(Byte), NEW base \in {10, 16}
  PROVE  /\ Digits(s, base) \in 0..Len(s)
         /\ Values(s, base)[0] = 0
         /\ \A i \in 1..Digits(s, base) :
              Values(s, base)[i] = NextValue(Values(s, base)[i - 1], s[i], base)
<1> DEFINE n == Digits(s, base)
<1>1. n \in 0..Len(s)
  <2> DEFINE run == {i \in DOMAIN s : \A j \in 1..i : IsDigit(s[j], base)}
  <2>1. run \subseteq 1..Len(s) /\ Len(s) \in Nat
    OBVIOUS
  <2>2. IsFiniteSet(1..Len(s)) /\ Cardinality(1..Len(s)) = Len(s)
    <3>1. 1 \in Int /\ Len(s) \in Int
      BY <2>1
    <3>2. IsFiniteSet(1..Len(s)) /\ Cardinality(1..Len(s)) = IF 1 > Len(s) THEN 0 ELSE Len(s) - 1 + 1
      BY <3>1, FS_Interval, Zenon
    <3>3. QED
      BY <2>1, <3>2
  <2> HIDE DEF run
  <2>3. IsFiniteSet(run) /\ Cardinality(run) <= Len(s)
    BY <2>1, <2>2, FS_Subset
  <2>4. Cardinality(run) \in Nat
    BY <2>3, FS_CardinalityType
  <2>5. n = Cardinality(run)
    BY DEF Digits, run
  <2>6. QED
    BY <2>1, <2>3, <2>4, <2>5
<1> HIDE DEF n
<1> DEFINE step == [p \in Nat \X (1..n) |-> NextValue(p[1], s[p[2]], base)]
<1>2. \A v \in Nat, i \in 1..n : NextValue(v, s[i], base) \in Nat
  <2>1. \A c \in Byte : HexDecode(c) \in Nat
    BY DEF HexDecode, Byte
  <2>2. \A i \in 1..n : s[i] \in Byte
    BY <1>1
  <2>3. \A v \in Nat : v * base \in Nat
    OBVIOUS
  <2>4. QED
    BY <2>1, <2>2, <2>3 DEF NextValue, Utf8Max
<1>3. step \in [Nat \X (1..n) -> Nat]
  BY <1>2
<1>4. \A v \in Nat, i \in 1..n : step[<<v, i>>] = NextValue(v, s[i], base)
  OBVIOUS
<1> HIDE DEF step
<1>5. \E f : Iterates(f, Nat, n, 0, step)
  <2>1. n \in Nat /\ 0 \in Nat
    BY <1>1
  <2>2. QED
    BY <1>3, <2>1, IterationExists
<1>6. PICK f \in [0..n -> Nat] : f[0] = 0 /\ \A i \in 1..n : f[i] = step[<<f[i - 1], i>>]
  BY <1>5, Zenon DEF Iterates
<1>7. f = [i \in 0..n |-> IF i = 0 THEN 0 ELSE NextValue(f[i - 1], s[i], base)]
  <2>1. ASSUME NEW i \in 0..n, i # 0
        PROVE  f[i] = NextValue(f[i - 1], s[i], base)
    <3>1. i \in 1..n /\ i - 1 \in 0..n
      BY <1>1, <2>1
    <3>2. f[i - 1] \in Nat
      BY <1>6, <3>1
    <3>3. step[<<f[i - 1], i>>] = NextValue(f[i - 1], s[i], base)
      BY <1>4, <3>1, <3>2, Zenon
    <3>4. QED
      BY <1>6, <3>1, <3>3, Zenon
  <2>2. QED
    BY <1>6, <2>1
<1> DEFINE g == Values(s, base)
<1>8. g = CHOOSE h : h = [i \in 0..n |-> IF i = 0 THEN 0 ELSE NextValue(h[i - 1], s[i], base)]
  BY DEF Values, n
<1>9. g = [i \in 0..n |-> IF i = 0 THEN 0 ELSE NextValue(g[i - 1], s[i], base)]
  <2> HIDE DEF g
  <2>1. QED
    BY <1>7, <1>8, Zenon
<1> HIDE DEF g
<1>10. g[0] = 0 /\ \A i \in 1..n : g[i] = NextValue(g[i - 1], s[i], base)
  BY <1>1, <1>9
<1>11. QED
  BY <1>1, <1>10 DEF g, n

\* A character reference is longer than the character, whatever its digits say.
LEMMA CharRefTurn ==
  ASSUME NEW rest \in Seq(Byte), Len(rest) >= 2
  PROVE  IsTurn(CharRef(rest), rest) /\ Shrinking(CharRef(rest))
<1> DEFINE hex == Len(rest) >= 3 /\ rest[3] = LowerX
           first == IF hex THEN 4 ELSE 3
           tail == SubSeq(rest, first, Len(rest))
           base == IF hex THEN 16 ELSE 10
           number == Number(tail, base)
           last == first + number[1]
           ok == last <= Len(rest) /\ rest[last] = Semicolon /\ number[2] <= Utf8Max
<1>1. CharRef(rest) = IF ok THEN [used |-> last, emit |-> Utf8Encode(number[2]), spare |-> 0] ELSE GiveUp
  BY DEF CharRef
<1>2. number[1] \in Nat /\ (number[1] = 0 => number[2] = 0)
  <2>1. first \in Nat \ {0} /\ Len(rest) \in Nat
    OBVIOUS
  <2>2. tail \in Seq(Byte) /\ base \in {10, 16}
    BY <2>1
  <2>3. number[1] = Digits(tail, base) /\ number[2] = Values(tail, base)[Digits(tail, base)]
    BY DEF Number
  <2> HIDE DEF tail, base, number
  <2>4. Digits(tail, base) \in 0..Len(tail) /\ Values(tail, base)[0] = 0
    BY <2>2, ValuesStep, Zenon
  <2>5. QED
    BY <2>2, <2>3, <2>4
<1>3. first \in {3, 4}
  OBVIOUS
<1> HIDE DEF hex, first, tail, base, number
<1>4. /\ Utf8Encode(number[2]) \in Seq(Byte)
      /\ Len(Utf8Encode(number[2])) \in 0..4
      /\ number[2] = 0 => Len(Utf8Encode(number[2])) = 1
  BY Utf8EncodeType
<1>5. CASE ok
  <2> DEFINE turn == [used |-> last, emit |-> Utf8Encode(number[2]), spare |-> 0]
  <2>1. CharRef(rest) = turn
    BY <1>1, <1>5
  <2>2. last \in 0..Len(rest)
    BY <1>2, <1>3, <1>5
  <2>3. Len(Utf8Encode(number[2])) <= last
    <3>1. CASE number[1] = 0
      <4>1. Len(Utf8Encode(number[2])) = 1 /\ last = first
        BY <1>2, <1>3, <1>4, <3>1
      <4>2. QED
        BY <1>3, <4>1
    <3>2. CASE number[1] # 0
      <4>1. number[1] >= 1
        BY <1>2, <3>2
      <4>2. last >= 4
        BY <1>2, <1>3, <4>1
      <4>3. \A l \in 0..4 : l <= last
        <5>1. last \in Nat
          BY <1>2, <1>3
        <5> HIDE DEF last
        <5>2. QED
          BY <4>2, <5>1
      <4>4. QED
        BY <1>4, <4>3, Zenon
    <3>3. QED
      BY <3>1, <3>2
  <2>4. IsTurn(turn, rest) /\ Shrinking(turn)
    BY <1>4, <2>2, <2>3 DEF IsTurn, Shrinking
  <2>5. QED
    BY <2>1, <2>4
<1>6. CASE ~ok
  <2>1. <<>> \in Seq(Byte) /\ Len(<<>>) = 0 /\ Len(rest) \in Nat
    OBVIOUS
  <2>2. QED
    BY <1>1, <1>6, <2>1 DEF IsTurn, Shrinking, GiveUp, Turn
<1>7. QED
  BY <1>5, <1>6

\* xml_decode() and html_decode()
LEMMA XmlDecodeTurn ==
  ASSUME NEW rest \in Seq(Byte), rest # <<>>
  PROVE  IsTurn(XmlDecode(rest), rest) /\ Shrinking(XmlDecode(rest))
<1> DEFINE found == {ch \in {34, 38, 39, 60, 62} : IsPrefix(Entity(ch), rest)}
           ch == CHOOSE c \in found : TRUE
           entity == Turn(Len(Entity(ch)), <<ch>>)
<1>1. \/ XmlDecode(rest) = Plain(rest)
      \/ XmlDecode(rest) = entity /\ found # {}
      \/ XmlDecode(rest) = CharRef(rest) /\ Len(rest) >= 2
      \/ XmlDecode(rest) = GiveUp
  BY Zenon DEF XmlDecode
<1>2. CASE XmlDecode(rest) = Plain(rest)
  BY <1>2, PlainTurn
<1>3. CASE XmlDecode(rest) = entity /\ found # {}
  <2>1. ch \in found
    BY <1>3
  <2>2. ch \in XmlUnsafe /\ IsPrefix(Entity(ch), rest)
    BY <2>1 DEF XmlUnsafe
  <2>3. ch \in Byte
    BY <2>2 DEF XmlUnsafe, Byte
  <2> HIDE DEF found, ch
  <2>4. Len(Entity(ch)) \in Nat \ {0} /\ Len(Entity(ch)) <= Len(rest) /\ Len(rest) \in Nat
    BY <2>2, EntityType DEF IsPrefix
  <2>5. <<ch>> \in Seq(Byte) /\ Len(<<ch>>) = 1
    BY <2>3
  <2>6. IsTurn(entity, rest) /\ Shrinking(entity)
    BY <2>4, <2>5 DEF IsTurn, Shrinking, Turn
  <2>7. QED
    BY <1>3, <2>6
<1>4. CASE XmlDecode(rest) = CharRef(rest) /\ Len(rest) >= 2
  BY <1>4, CharRefTurn
<1>5. CASE XmlDecode(rest) = GiveUp
  <2>1. <<>> \in Seq(Byte) /\ Len(<<>>) = 0 /\ Len(rest) \in Nat
    OBVIOUS
  <2>2. QED
    BY <1>5, <2>1 DEF IsTurn, Shrinking, GiveUp, Turn
<1>6. QED
  BY <1>1, <1>2, <1>3, <1>4, <1>5

-----------------------------------------------------------------------------
(* The invariant                                                             *)

\* hex_encode() has no test of the buffer: it is where its limit on the source says.
HexInv == codec = "hex" /\ call = "encode" => bufpos = 2 * srcpos

\* In place the memory holds the whole source.
PlaceInv == inPlace => srclen <= Len(buffer)

Inv == TypeOK /\ TerminatorFits /\ UnreadUntouched /\ HexInv /\ PlaceInv

\* Only a character reference goes without room for the '\0'.
Terminated(turn) == Reserving(turn) \/ (codec \in {"html", "xml"} /\ call = "decode")

\* What every coder does in a turn of its loop.
LEMMA CodedTurn ==
  ASSUME Inv, call # "done", Looping
  PROVE  /\ IsTurn(Coded(Rest), Rest)
         /\ Len(Rest) = srclen - srcpos
         /\ Terminated(Coded(Rest))
         /\ call = "decode" => Shrinking(Coded(Rest))
         /\ codec = "hex" /\ call = "encode" => Len(Coded(Rest).emit) = 2 /\ Coded(Rest).used = 1
<1> DEFINE read == IF inPlace THEN buffer ELSE source
<1>1. /\ codec \in Codecs /\ call \in {"encode", "decode"}
      /\ srclen \in Nat /\ srcpos \in Nat /\ srcpos < srclen
      /\ codec = "hex" /\ call = "decode" => srcpos + 1 < srclen
  BY DEF Inv, TypeOK, Looping, HexLimit, Codecs, srclen
<1>2. read \in Seq(Byte) /\ srclen <= Len(read) /\ Len(read) \in Nat
  BY <1>1 DEF Inv, TypeOK, PlaceInv, srclen
<1>3. Rest = SubSeq(read, srcpos + 1, srclen)
  BY DEF Rest
<1> HIDE DEF read
<1>4. Rest \in Seq(Byte) /\ Len(Rest) = srclen - srcpos
  BY <1>1, <1>2, <1>3
<1>5. Rest # <<>> /\ (codec = "hex" /\ call = "decode" => Len(Rest) >= 2)
  BY <1>1, <1>4
<1> HIDE DEF Rest
<1> DEFINE rest == Rest
<1>6. CASE codec = "escape"
  BY <1>1, <1>4, <1>5, <1>6, EscapeTurns DEF Coded, Terminated
<1>7. CASE codec = "encode"
  BY <1>1, <1>4, <1>5, <1>7, EscapeTurns DEF Coded, Terminated
<1>8. CASE codec = "url"
  BY <1>1, <1>4, <1>5, <1>8, UrlTurns DEF Coded, Terminated
<1>9. CASE codec = "html"
  BY <1>1, <1>4, <1>5, <1>9, MarkupTurns, XmlDecodeTurn DEF Coded, Terminated
<1>10. CASE codec = "xml"
  BY <1>1, <1>4, <1>5, <1>10, MarkupTurns, XmlDecodeTurn DEF Coded, Terminated
<1>11. CASE codec = "hex"
  BY <1>1, <1>4, <1>5, <1>11, HexTurns DEF Coded, Terminated
<1>12. QED
  BY <1>1, <1>6, <1>7, <1>8, <1>9, <1>10, <1>11 DEF Codecs

\* Writing to the buffer changes no cell outside.
LEMMA WrittenType ==
  ASSUME Inv, NEW bytes \in Seq(Byte)
  PROVE  /\ Written(bytes) \in Seq(Byte)
         /\ Len(Written(bytes)) = Len(buffer)
         /\ \A i \in 1..Len(buffer) : i <= bufpos \/ i > bufpos + Len(bytes) =>
              Written(bytes)[i] = buffer[i]
<1>1. buffer \in Seq(Byte) /\ bufpos \in Nat /\ Len(buffer) \in Nat /\ Len(bytes) \in Nat
  BY DEF Inv, TypeOK
<1>2. Written(bytes) \in [1..Len(buffer) -> Byte]
  BY <1>1 DEF Written
<1>3. Written(bytes) \in Seq(Byte) /\ Len(Written(bytes)) = Len(buffer)
  BY <1>1, <1>2
<1>4. QED
  BY <1>1, <1>3 DEF Written

\* Every call starts in it, in place or not.
LEMMA InitInv == Init => Inv
<1> SUFFICES ASSUME Init
             PROVE  Inv
  OBVIOUS
<1>1. text \in Seq(Byte) /\ source = text /\ Len(text) \in Nat
  <2>1. codec \in Codecs /\ call \in {"encode", "decode"} /\ text \in Texts[<<codec, call>>]
    BY DEF Init
  <2>2. Texts[<<codec, call>>] \subseteq Seq(Byte)
    BY <2>1, TextsAssumption
  <2>3. QED
    BY <2>1, <2>2 DEF Init
<1>2. buflen \in Nat
  BY <1>1, TextsAssumption DEF Init, Asked
<1> DEFINE length == IF inPlace THEN Larger(Len(text), buflen) ELSE buflen
<1>3. length \in Nat /\ length >= buflen /\ (inPlace => length >= Len(text))
  BY <1>1, <1>2 DEF Larger
<1>4. buffer = [i \in 1..length |-> IF inPlace /\ i <= Len(text) THEN text[i] ELSE 0]
  BY DEF Init
<1>5. buffer \in Seq(Byte) /\ Len(buffer) = length
  <2> HIDE DEF length
  <2>1. 0 \in Byte
    BY DEF Byte
  <2>2. \A i \in 1..Len(text) : text[i] \in Byte
    BY <1>1
  <2>3. \A i \in 1..length : i <= Len(text) => i \in 1..Len(text)
    BY <1>1, <1>3
  <2>4. buffer \in [1..length -> Byte]
    BY <1>4, <2>1, <2>2, <2>3
  <2>5. QED
    BY <1>3, <2>4
<1>6. TypeOK
  <2>1. /\ codec \in Codecs /\ caller \in {"buffer", "s_transform"} /\ call \in {"encode", "decode"}
        /\ inPlace \in BOOLEAN /\ again = FALSE /\ whole = FALSE /\ srcpos = 0 /\ bufpos = 0
    BY DEF Init
  <2> HIDE DEF length
  <2>2. srcpos \in 0..srclen /\ bufpos \in 0..buflen /\ Len(buffer) >= buflen
    BY <1>1, <1>2, <1>3, <1>5, <2>1 DEF srclen
  <2>3. QED
    BY <1>1, <1>2, <1>5, <2>1, <2>2 DEF TypeOK
<1>7. TerminatorFits
  BY <1>2 DEF Init, TerminatorFits
<1>8. UnreadUntouched
  <2>1. ASSUME inPlace, NEW i \in 1..srclen
        PROVE  buffer[i] = source[i]
    <3>1. i \in 1..length /\ i <= Len(text)
      BY <1>1, <1>3, <2>1 DEF srclen
    <3> HIDE DEF length
    <3>2. QED
      BY <1>1, <1>4, <2>1, <3>1
  <2>2. srcpos = 0 /\ bufpos = 0
    BY DEF Init
  <2>3. QED
    BY <2>1, <2>2 DEF UnreadUntouched
<1>9. HexInv /\ PlaceInv
  BY <1>1, <1>3, <1>5 DEF Init, HexInv, PlaceInv, srclen
<1>10. QED
  BY <1>6, <1>7, <1>8, <1>9 DEF Inv

\* The sequence of a turn, and the '\0' behind it unless it ends a character reference,
\* are in the buffer: by the test of its length, or by the limit of hex_encode().
LEMMA EmissionFits ==
  ASSUME Inv, Convert
  PROVE  /\ bufpos' \in Nat /\ bufpos' <= buflen
         /\ bufpos' < buflen \/ (codec \in {"html", "xml"} /\ call = "decode")
<1> DEFINE turn == Coded(Rest)
<1>1. /\ call # "done" /\ Looping /\ Fits(turn)
      /\ bufpos' = bufpos + Len(turn.emit) /\ srcpos' = srcpos + turn.used
  BY DEF Convert
<1>2. /\ turn.emit \in Seq(Byte) /\ Len(turn.emit) \in Nat /\ turn.spare \in {0, 1}
      /\ Terminated(turn)
      /\ codec = "hex" /\ call = "encode" => Len(turn.emit) = 2 /\ turn.used = 1
  BY <1>1, CodedTurn DEF IsTurn
<1>3. buflen \in Nat /\ bufpos \in Nat /\ srcpos \in Nat /\ srclen \in Nat
  BY DEF Inv, TypeOK, srclen
<1> HIDE DEF turn
<1>4. CASE codec = "hex" /\ call = "encode"
  <2>1. buflen > 0 /\ srcpos < HexLimit
    BY <1>1, <1>4 DEF Looping
  <2>2. HexLimit \in Int /\ HexLimit <= (buflen - 1) \div 2
    BY <1>3, <2>1 DEF HexLimit
  <2>3. 2 * srcpos + 2 < buflen
    BY <1>3, <2>1, <2>2
  <2>4. bufpos = 2 * srcpos
    BY <1>4 DEF Inv, HexInv
  <2>5. Len(turn.emit) = 2
    BY <1>2, <1>4, Zenon
  <2>6. bufpos' = 2 * srcpos + 2
    BY <1>1, <1>3, <2>4, <2>5
  <2>7. QED
    BY <1>3, <2>3, <2>6
<1>5. CASE ~(codec = "hex" /\ call = "encode")
  <2>1. bufpos + Len(turn.emit) + turn.spare <= buflen
    BY <1>1, <1>5, Zenon DEF Fits
  <2>2. QED
    BY <1>1, <1>2, <1>3, <2>1 DEF Terminated, Reserving
<1>6. QED
  BY <1>4, <1>5

\* A turn keeps the invariant.
LEMMA ConvertInv ==
  ASSUME Inv, Convert
  PROVE  Inv'
<1> DEFINE turn == Coded(Rest)
<1>1. /\ call # "done" /\ Looping
      /\ bufpos' = bufpos + Len(turn.emit) /\ srcpos' = srcpos + turn.used
      /\ buffer' = Written(turn.emit)
      /\ UNCHANGED <<fixed, call, again, inPlace, source, whole>>
  BY DEF Convert
<1>2. /\ turn.emit \in Seq(Byte) /\ Len(turn.emit) \in Nat
      /\ turn.used \in Nat /\ turn.used <= srclen - srcpos
      /\ call = "decode" => Len(turn.emit) <= turn.used
      /\ codec = "hex" /\ call = "encode" => Len(turn.emit) = 2 /\ turn.used = 1
  <2>1. srclen \in Nat /\ srcpos \in Nat /\ srcpos <= srclen
    BY DEF Inv, TypeOK, srclen
  <2>2. QED
    BY <1>1, <2>1, CodedTurn DEF IsTurn, Shrinking
<1>3. /\ buflen \in Nat /\ bufpos \in Nat /\ srcpos \in Nat /\ srclen \in Nat
      /\ srcpos <= srclen /\ Len(buffer) \in Nat
  BY DEF Inv, TypeOK, srclen
<1>4. /\ bufpos' \in Nat /\ bufpos' <= buflen
      /\ bufpos' < buflen \/ (codec \in {"html", "xml"} /\ call = "decode")
  BY EmissionFits
<1> HIDE DEF turn
<1>5. /\ buffer' \in Seq(Byte) /\ Len(buffer') = Len(buffer)
      /\ \A i \in 1..Len(buffer) : i > bufpos' => buffer'[i] = buffer[i]
  <2>1. /\ buffer' \in Seq(Byte) /\ Len(buffer') = Len(buffer)
        /\ \A i \in 1..Len(buffer) : i <= bufpos \/ i > bufpos + Len(turn.emit) =>
             buffer'[i] = buffer[i]
    BY <1>1, <1>2, WrittenType
  <2>2. QED
    BY <1>1, <2>1
<1>6. srclen' = srclen /\ srcpos' \in 0..srclen
  BY <1>1, <1>2, <1>3 DEF srclen
<1>7. TypeOK'
  BY <1>1, <1>4, <1>5, <1>6 DEF Inv, TypeOK, fixed
<1>8. TerminatorFits'
  BY <1>1, <1>3, <1>4 DEF TerminatorFits, fixed
<1>9. UnreadUntouched'
  <2>1. ASSUME inPlace, call = "decode"
        PROVE  bufpos' <= srcpos' /\ \A i \in srcpos' + 1..srclen : buffer'[i] = source[i]
    <3>1. bufpos <= srcpos /\ \A i \in srcpos + 1..srclen : buffer[i] = source[i]
      BY <2>1 DEF Inv, UnreadUntouched
    <3>2. bufpos' <= srcpos' /\ srcpos' >= srcpos /\ srcpos' \in Nat
      BY <1>1, <1>2, <1>3, <2>1, <3>1
    <3>3. ASSUME NEW i \in srcpos' + 1..srclen
          PROVE  buffer'[i] = source[i]
      <4>1. i \in Nat \ {0} /\ srcpos' < i /\ i <= srclen
        <5>1. \A m, n \in Nat : \A j \in m + 1..n : j \in Nat \ {0} /\ m < j /\ j <= n
          OBVIOUS
        <5>2. QED
          BY <1>3, <3>2, <5>1, Zenon
      <4>2. i \in srcpos + 1..srclen /\ i > bufpos'
        BY <1>3, <1>4, <3>2, <4>1
      <4>3. srclen <= Len(buffer)
        BY <2>1, Zenon DEF Inv, PlaceInv
      <4>4. i \in 1..Len(buffer)
        BY <1>3, <4>1, <4>2, <4>3
      <4>5. QED
        BY <1>5, <3>1, <4>2, <4>4
    <3>4. QED
      BY <3>2, <3>3
  <2>2. QED
    BY <1>1, <1>6, <2>1 DEF UnreadUntouched
<1>10. HexInv'
  <2>1. ASSUME codec = "hex", call = "encode"
        PROVE  bufpos' = 2 * srcpos'
    <3>1. bufpos = 2 * srcpos
      BY <2>1, Zenon DEF Inv, HexInv
    <3>2. Len(turn.emit) = 2 /\ turn.used = 1
      BY <1>2, <2>1, Zenon
    <3>3. bufpos' = bufpos + 2 /\ srcpos' = srcpos + 1
      BY <1>1, <3>2
    <3>4. QED
      BY <1>3, <3>1, <3>3
  <2>2. QED
    BY <1>1, <2>1 DEF HexInv, fixed
<1>11. PlaceInv'
  BY <1>1, <1>5, <1>6 DEF Inv, PlaceInv
<1>12. QED
  BY <1>7, <1>8, <1>9, <1>10, <1>11 DEF Inv

\* The '\0' keeps the invariant, and what it ends can be decoded in place.
LEMMA ReturnInv ==
  ASSUME Inv, Return
  PROVE  Inv'
<1>1. <<0>> \in Seq(Byte)
  BY DEF Byte
<1>2. /\ buflen \in Nat /\ bufpos \in Nat /\ bufpos <= buflen
      /\ buffer \in Seq(Byte) /\ Len(buffer) \in Nat /\ Len(buffer) >= buflen
  BY DEF Inv, TypeOK
<1>3. UNCHANGED fixed /\ whole' \in BOOLEAN
  BY DEF Return, Inv, TypeOK
<1>4. /\ buffer' \in Seq(Byte) /\ Len(buffer') = Len(buffer)
      /\ \A i \in 1..Len(buffer) : i <= bufpos => buffer'[i] = buffer[i]
  <2>1. buffer' = Written(<<0>>) \/ buffer' = buffer
    BY DEF Return
  <2>2. CASE buffer' = Written(<<0>>)
    BY <1>1, <1>2, <2>2, WrittenType
  <2>3. CASE buffer' = buffer
    BY <1>2, <2>3
  <2>4. QED
    BY <2>1, <2>2, <2>3
<1>5. CASE call = "encode" /\ caller = "buffer"
  <2>1. /\ call' = "decode" /\ again' = TRUE /\ inPlace' = TRUE
        /\ source' = SubSeq(buffer, 1, bufpos) /\ srcpos' = 0 /\ bufpos' = 0
    BY <1>5 DEF Return
  <2>2. /\ source' \in Seq(Byte) /\ srclen' = bufpos
        /\ \A i \in 1..bufpos : source'[i] = buffer[i]
    BY <1>2, <2>1 DEF srclen
  <2>3. TypeOK'
    BY <1>2, <1>3, <1>4, <2>1, <2>2 DEF Inv, TypeOK, fixed
  <2>4. TerminatorFits'
    BY <1>2, <1>3, <2>1 DEF TerminatorFits, fixed
  <2>5. UnreadUntouched'
    <3>1. \A i \in 1..bufpos : buffer'[i] = source'[i]
      BY <1>2, <1>4, <2>2
    <3>2. QED
      BY <1>2, <2>1, <2>2, <3>1 DEF UnreadUntouched
  <2>6. HexInv' /\ PlaceInv'
    BY <1>2, <1>4, <2>1, <2>2 DEF HexInv, PlaceInv
  <2>7. QED
    BY <2>3, <2>4, <2>5, <2>6 DEF Inv
<1>6. CASE ~(call = "encode" /\ caller = "buffer")
  <2>1. call' = "done" /\ UNCHANGED <<again, inPlace, source, srcpos, bufpos>>
    BY <1>6 DEF Return
  <2>2. srclen' = srclen
    BY <2>1 DEF srclen
  <2>3. TypeOK'
    BY <1>3, <1>4, <2>1, <2>2 DEF Inv, TypeOK, fixed
  <2>4. TerminatorFits' /\ UnreadUntouched' /\ HexInv'
    BY <2>1 DEF TerminatorFits, UnreadUntouched, HexInv
  <2>5. PlaceInv'
    BY <1>4, <2>1, <2>2 DEF Inv, PlaceInv
  <2>6. QED
    BY <2>3, <2>4, <2>5 DEF Inv
<1>7. QED
  BY <1>5, <1>6

\* Every step keeps the invariant.
LEMMA NextInv == Inv /\ [Next]_vars => Inv'
<1> SUFFICES ASSUME Inv, [Next]_vars
             PROVE  Inv'
  OBVIOUS
<1>1. CASE Convert
  BY <1>1, ConvertInv
<1>2. CASE Return
  BY <1>2, ReturnInv
<1>3. CASE UNCHANGED vars
  BY <1>3 DEF vars, fixed, Inv, TypeOK, TerminatorFits, UnreadUntouched, HexInv, PlaceInv, srclen
<1>4. QED
  BY <1>1, <1>2, <1>3 DEF Next, Done

\* So it holds in every state.
LEMMA AlwaysInv == Spec => []Inv
<1>1. Init => Inv
  BY InitInv
<1>2. Inv /\ [Next]_vars => Inv'
  BY NextInv
<1>3. QED
  BY <1>1, <1>2, PTL DEF Spec

-----------------------------------------------------------------------------
(* What an encoder emits in a turn is read back by a turn of its decoder     *)

\* One turn of the decoder of a codec.
Decoded(k, rest) ==
  CASE k = "escape" -> Unescape(rest)
    [] k = "encode" -> Decode(rest)
    [] k = "url" -> UrlDecode(rest)
    [] k \in {"html", "xml"} -> XmlDecode(rest)
    [] k = "hex" -> HexDecodes(rest)

\* Whatever comes behind it, code is read in one turn, as unit.
Reads(k, code, unit) ==
  /\ code \in Seq(Byte) /\ Len(code) > 0
  /\ unit \in Seq(Byte) /\ Len(unit) > 0
  /\ k = "hex" => Len(code) > 1
  /\ \A more \in Seq(Byte) :
       Decoded(k, code \o more).used = Len(code) /\ Decoded(k, code \o more).emit = unit

\* A turn of an encoder whose emission is read as what the turn used.
Readable(k, turn, rest) ==
  turn.used \in 1..Len(rest) /\ Reads(k, turn.emit, SubSeq(rest, 1, turn.used))

\* What is before more.
LEMMA Ahead ==
  ASSUME NEW code \in Seq(Byte), NEW more \in Seq(Byte)
  PROVE  /\ code \o more \in Seq(Byte)
         /\ Len(code \o more) = Len(code) + Len(more)
         /\ Len(more) \in Nat /\ Len(code) \in Nat
         /\ \A i \in Nat : 1 <= i /\ i <= Len(code) => (code \o more)[i] = code[i]
OBVIOUS

\* The first character of the source as a sequence.
LEMMA FirstOf ==
  ASSUME NEW rest \in Seq(Byte), rest # <<>>
  PROVE  /\ SubSeq(rest, 1, 1) = <<rest[1]>> /\ rest[1] \in Byte /\ 1 \in 1..Len(rest)
         /\ <<rest[1]>> \in Seq(Byte) /\ Len(<<rest[1]>>) = 1 /\ <<rest[1]>>[1] = rest[1]
<1>1. rest[1] \in Byte /\ Len(rest) \in Nat \ {0}
  OBVIOUS
<1> DEFINE one == <<rest[1]>>
           part == SubSeq(rest, 1, 1)
<1>2. one \in Seq(Byte) /\ Len(one) = 1 /\ one[1] = rest[1]
  BY <1>1
<1>3. part \in Seq(Byte) /\ Len(part) = 1 /\ part[1] = rest[1]
  BY <1>1
<1> HIDE DEF one, part
<1>4. part = one
  BY <1>2, <1>3, SeqEqual
<1>5. QED
  BY <1>1, <1>2, <1>4 DEF one, part

\* A hexadecimal digit of a number below sixteen means that number.
LEMMA HexDigitRead ==
  ASSUME NEW v \in 0..15
  PROVE  HexDecode(HexEncode(v)) = v
BY DEF HexEncode, HexDecode

\* hex_decode() undoes hex_encode().
LEMMA HexPairRead ==
  ASSUME NEW ch \in Byte
  PROVE  /\ HexByte(HexEncode(ch \div 16), HexEncode(ch % 16)) = ch
         /\ HexPair(ch) = <<HexEncode(ch \div 16), HexEncode(ch % 16)>>
<1> DEFINE x == ch \div 16
           y == ch % 16
<1>1. x \in 0..15 /\ y \in 0..15 /\ ch = 16 * x + y
  BY DEF Byte
<1> HIDE DEF x, y
<1>2. HexDecode(HexEncode(x)) = x /\ HexDecode(HexEncode(y)) = y
  BY <1>1, HexDigitRead
<1>3. HexByte(HexEncode(x), HexEncode(y)) = 16 * Or4(x % 16, y \div 16) + (y % 16)
  BY <1>2 DEF HexByte
<1>4. x % 16 = x /\ y \div 16 = 0 /\ y % 16 = y
  BY <1>1
<1>5. \A u \in 0..15 : Or4(u, 0) = u
  BY DEF Or4
<1>6. QED
  BY <1>1, <1>3, <1>4, <1>5 DEF x, y, HexPair

\* Two hexadecimal digits behind a character.
LEMMA HexCode ==
  ASSUME NEW e \in Byte, NEW ch \in Byte
  PROVE  /\ <<e>> \o HexPair(ch) \in Seq(Byte)
         /\ Len(<<e>> \o HexPair(ch)) = 3
         /\ \A more \in Seq(Byte) :
              LET s == (<<e>> \o HexPair(ch)) \o more
              IN  Len(s) >= 3 /\ s[1] = e /\ HexByte(s[2], s[3]) = ch
<1> DEFINE a == HexEncode(ch \div 16)
           b == HexEncode(ch % 16)
<1>1. HexByte(a, b) = ch /\ HexPair(ch) = <<a, b>>
  BY HexPairRead
<1>2. a \in Byte /\ b \in Byte
  BY DEF HexEncode, Byte
<1> HIDE DEF a, b
<1> DEFINE code == <<e>> \o <<a, b>>
<1>3. /\ code \in Seq(Byte) /\ Len(code) = 3 /\ code[1] = e /\ code[2] = a /\ code[3] = b
  BY <1>2
<1> HIDE DEF code
<1>4. ASSUME NEW more \in Seq(Byte)
      PROVE  /\ Len(code \o more) >= 3
             /\ (code \o more)[1] = e /\ (code \o more)[2] = a /\ (code \o more)[3] = b
  <2>1. /\ Len(code \o more) = Len(code) + Len(more) /\ Len(more) \in Nat
        /\ \A i \in Nat : 1 <= i /\ i <= Len(code) => (code \o more)[i] = code[i]
    BY <1>3, Ahead, Zenon
  <2>2. QED
    BY <1>3, <2>1
<1>5. <<e>> \o HexPair(ch) = code
  BY <1>1 DEF code
<1>6. QED
  BY <1>1, <1>3, <1>4, <1>5

\* What is read as the first character.
LEMMA OneReadable ==
  ASSUME NEW k, NEW rest \in Seq(Byte), rest # <<>>,
         NEW code, Reads(k, code, <<rest[1]>>)
  PROVE  Readable(k, Turn(1, code), rest)
<1> DEFINE turn == Turn(1, code)
<1>1. turn.used = 1 /\ turn.emit = code
  BY DEF Turn
<1> HIDE DEF turn
<1>2. SubSeq(rest, 1, 1) = <<rest[1]>> /\ 1 \in 1..Len(rest)
  BY FirstOf
<1>3. QED
  BY <1>1, <1>2 DEF Readable, turn

\* A character that is taken as it is.
LEMMA PlainReadable ==
  ASSUME NEW k \in Codecs \ {"hex"}, NEW rest \in Seq(Byte), rest # <<>>,
         \A s \in Seq(Byte) : s # <<>> /\ s[1] = rest[1] => Decoded(k, s) = Plain(s)
  PROVE  Readable(k, Plain(rest), rest)
<1>1. /\ SubSeq(rest, 1, 1) = <<rest[1]>> /\ rest[1] \in Byte /\ 1 \in 1..Len(rest)
      /\ <<rest[1]>> \in Seq(Byte) /\ Len(<<rest[1]>>) = 1 /\ <<rest[1]>>[1] = rest[1]
  BY FirstOf
<1> DEFINE code == <<rest[1]>>
<1> HIDE DEF code
<1>2. ASSUME NEW more \in Seq(Byte)
      PROVE  Decoded(k, code \o more) = Turn(1, code)
  <2>1. /\ code \o more \in Seq(Byte) /\ Len(code \o more) = 1 + Len(more) /\ Len(more) \in Nat
        /\ (code \o more)[1] = rest[1]
    BY <1>1, Ahead DEF code
  <2>2. code \o more # <<>>
    BY <2>1
  <2>3. Decoded(k, code \o more) = Plain(code \o more)
    BY <2>1, <2>2
  <2>4. QED
    BY <2>1, <2>3 DEF Plain, code
<1>3. Reads(k, code, code)
  BY <1>1, <1>2 DEF Reads, Turn, code
<1>4. QED
  BY <1>3, OneReadable DEF Plain, code

\* escape() and unescape()
LEMMA EscapeReadable ==
  ASSUME NEW rest \in Seq(Byte), rest # <<>>
  PROVE  Readable("escape", Escape(rest), rest)
<1>1. /\ SubSeq(rest, 1, 1) = <<rest[1]>> /\ rest[1] \in Byte /\ 1 \in 1..Len(rest)
      /\ <<rest[1]>> \in Seq(Byte) /\ Len(<<rest[1]>>) = 1
  BY FirstOf
<1>2. Esc \in Byte
  BY EscapeAssumption
<1>3. CASE Escaped(rest[1])
  <2> DEFINE code == <<Esc, rest[1]>>
  <2>1. /\ code \in Seq(Byte) /\ Len(code) = 2 /\ code[1] = Esc /\ code[2] = rest[1]
    BY <1>1, <1>2
  <2> HIDE DEF code
  <2>2. ASSUME NEW more \in Seq(Byte)
        PROVE  Decoded("escape", code \o more) = Turn(2, <<rest[1]>>)
    <3>1. /\ Len(code \o more) = 2 + Len(more) /\ Len(more) \in Nat
          /\ (code \o more)[1] = Esc /\ (code \o more)[2] = rest[1]
      <4>1. /\ Len(code \o more) = Len(code) + Len(more) /\ Len(more) \in Nat
            /\ \A i \in Nat : 1 <= i /\ i <= Len(code) => (code \o more)[i] = code[i]
        BY <2>1, Ahead, Zenon
      <4>2. QED
        BY <2>1, <4>1
    <3>2. QED
      BY <3>1 DEF Decoded, Unescape
  <2>3. Reads("escape", code, <<rest[1]>>)
    BY <1>1, <2>1, <2>2 DEF Reads, Turn
  <2>4. Escape(rest) = Turn(1, code)
    BY <1>3 DEF Escape, code
  <2>5. QED
    BY <2>3, <2>4, OneReadable
<1>4. CASE ~Escaped(rest[1])
  <2>1. \A s \in Seq(Byte) : s # <<>> /\ s[1] = rest[1] => Decoded("escape", s) = Plain(s)
    BY <1>4 DEF Decoded, Unescape, Escaped
  <2>2. QED
    BY <1>4, <2>1, PlainReadable DEF Escape, Codecs
<1>5. QED
  BY <1>3, <1>4

\* encode() and decode()
LEMMA EncodeReadable ==
  ASSUME NEW rest \in Seq(Byte), rest # <<>>
  PROVE  Readable("encode", Encode(rest), rest)
<1>1. /\ SubSeq(rest, 1, 1) = <<rest[1]>> /\ rest[1] \in Byte /\ 1 \in 1..Len(rest)
      /\ <<rest[1]>> \in Seq(Byte) /\ Len(<<rest[1]>>) = 1
  BY FirstOf
<1>2. Esc \in Byte
  BY EscapeAssumption
<1>3. CASE Escaped(rest[1])
  <2> DEFINE code == <<Esc>> \o HexPair(rest[1])
  <2>1. Esc \in Byte /\ rest[1] \in Byte
    BY <1>1, <1>2
  <2>2. /\ code \in Seq(Byte)
        /\ Len(code) = 3
        /\ \A more \in Seq(Byte) :
             LET s == code \o more
             IN  Len(s) >= 3 /\ s[1] = Esc /\ HexByte(s[2], s[3]) = rest[1]
    BY <2>1, HexCode, Zenon
  <2> HIDE DEF code
  <2>3. \A more \in Seq(Byte) : Decoded("encode", code \o more) = Turn(3, <<rest[1]>>)
    BY <2>2 DEF Decoded, Decode
  <2>4. Reads("encode", code, <<rest[1]>>)
    BY <1>1, <2>2, <2>3 DEF Reads, Turn
  <2>5. Encode(rest) = Turn(1, code)
    BY <1>3 DEF Encode, code
  <2>6. QED
    BY <2>4, <2>5, OneReadable
<1>4. CASE ~Escaped(rest[1])
  <2>1. \A s \in Seq(Byte) : s # <<>> /\ s[1] = rest[1] => Decoded("encode", s) = Plain(s)
    BY <1>4 DEF Decoded, Decode, Escaped
  <2>2. QED
    BY <1>4, <2>1, PlainReadable DEF Encode, Codecs
<1>5. QED
  BY <1>3, <1>4

\* url_encode() and url_decode()
LEMMA UrlReadable ==
  ASSUME NEW rest \in Seq(Byte), rest # <<>>
  PROVE  Readable("url", UrlEncode(rest), rest)
<1>1. /\ SubSeq(rest, 1, 1) = <<rest[1]>> /\ rest[1] \in Byte /\ 1 \in 1..Len(rest)
      /\ <<rest[1]>> \in Seq(Byte) /\ Len(<<rest[1]>>) = 1
  BY FirstOf
<1>2. Percent \in Byte /\ Percent # Plus /\ {Percent, Plus} \subseteq UrlUnsafe
  BY DEF Percent, Plus, Byte, UrlUnsafe
<1>3. CASE rest[1] \in UrlUnsafe
  <2> DEFINE code == <<Percent>> \o HexPair(rest[1])
  <2>1. Percent \in Byte /\ rest[1] \in Byte
    BY <1>1, <1>2
  <2>2. /\ code \in Seq(Byte)
        /\ Len(code) = 3
        /\ \A more \in Seq(Byte) :
             LET s == code \o more
             IN  Len(s) >= 3 /\ s[1] = Percent /\ HexByte(s[2], s[3]) = rest[1]
    BY <2>1, HexCode, Zenon
  <2> HIDE DEF code
  <2>3. \A more \in Seq(Byte) : Decoded("url", code \o more) = Turn(3, <<rest[1]>>)
    BY <1>2, <2>2 DEF Decoded, UrlDecode
  <2>4. Reads("url", code, <<rest[1]>>)
    BY <1>1, <2>2, <2>3 DEF Reads, Turn
  <2>5. UrlEncode(rest) = Turn(1, code)
    BY <1>3 DEF UrlEncode, code
  <2>6. QED
    BY <2>4, <2>5, OneReadable
<1>4. CASE rest[1] \notin UrlUnsafe
  <2>1. \A s \in Seq(Byte) : s # <<>> /\ s[1] = rest[1] => Decoded("url", s) = Plain(s)
    BY <1>2, <1>4 DEF Decoded, UrlDecode
  <2>2. QED
    BY <1>4, <2>1, PlainReadable DEF UrlEncode, Codecs
<1>5. QED
  BY <1>3, <1>4

\* hex_encode() and hex_decode()
LEMMA HexReadable ==
  ASSUME NEW rest \in Seq(Byte), rest # <<>>
  PROVE  Readable("hex", HexEncodes(rest), rest)
<1>1. /\ SubSeq(rest, 1, 1) = <<rest[1]>> /\ rest[1] \in Byte /\ 1 \in 1..Len(rest)
      /\ <<rest[1]>> \in Seq(Byte) /\ Len(<<rest[1]>>) = 1
  BY FirstOf
<1> DEFINE a == HexEncode(rest[1] \div 16)
           b == HexEncode(rest[1] % 16)
           code == <<a, b>>
<1>2. HexByte(a, b) = rest[1] /\ HexPair(rest[1]) = code
  BY <1>1, HexPairRead
<1>3. code \in Seq(Byte)
  BY <1>1, <1>2, HexPairType
<1> HIDE DEF a, b
<1>4. Len(code) = 2 /\ code[1] = a /\ code[2] = b
  OBVIOUS
<1> HIDE DEF code
<1>5. ASSUME NEW more \in Seq(Byte)
      PROVE  Decoded("hex", code \o more) = Turn(2, <<rest[1]>>)
  <2>1. (code \o more)[1] = a /\ (code \o more)[2] = b
    <3>1. /\ Len(code \o more) = Len(code) + Len(more) /\ Len(more) \in Nat
          /\ \A i \in Nat : 1 <= i /\ i <= Len(code) => (code \o more)[i] = code[i]
      BY <1>3, Ahead, Zenon
    <3>2. QED
      BY <1>4, <3>1
  <2>2. QED
    BY <1>2, <2>1 DEF Decoded, HexDecodes
<1>6. Reads("hex", code, <<rest[1]>>)
  BY <1>1, <1>3, <1>4, <1>5 DEF Reads, Turn
<1>7. HexEncodes(rest) = Turn(1, code)
  BY <1>2 DEF HexEncodes
<1>8. QED
  BY <1>6, <1>7, OneReadable

\* Two prefixes of the same length.
LEMMA PrefixAt ==
  ASSUME NEW p \in Seq(Byte), NEW s \in Seq(Byte)
  PROVE  IsPrefix(p, s) <=>
           Len(p) <= Len(s) /\ \A i \in Nat : 1 <= i /\ i <= Len(p) => s[i] = p[i]
<1>1. Len(p) \in Nat /\ Len(s) \in Nat
  OBVIOUS
<1>2. SubSeq(p, 1, Len(p)) = p
  BY SubSeqFull
<1>3. ASSUME Len(p) <= Len(s)
      PROVE  SubSeq(s, 1, Len(p)) = p <=> \A i \in Nat : 1 <= i /\ i <= Len(p) => s[i] = p[i]
  <2> DEFINE t == SubSeq(s, 1, Len(p))
  <2>1. /\ t \in Seq(Byte) /\ Len(t) = Len(p)
        /\ \A i \in Nat : 1 <= i /\ i <= Len(p) => t[i] = s[i]
    BY <1>1, <1>3
  <2> HIDE DEF t
  <2>2. ASSUME \A i \in Nat : 1 <= i /\ i <= Len(p) => s[i] = p[i]
        PROVE  t = p
    <3>1. \A i \in 1..Len(t) : t[i] = p[i]
      BY <1>1, <2>1, <2>2
    <3>2. QED
      BY <2>1, <3>1, SeqEqual
  <2>3. ASSUME t = p
        PROVE  \A i \in Nat : 1 <= i /\ i <= Len(p) => s[i] = p[i]
    BY <2>1, <2>3
  <2>4. QED
    BY <2>2, <2>3 DEF t
<1>4. QED
  BY <1>2, <1>3 DEF IsPrefix

\* How the entities begin, and how long they are.
LEMMA EntityShape ==
  /\ Len(Entity(34)) = 6 /\ Entity(34)[1] = Amp /\ Entity(34)[2] = 113
  /\ Len(Entity(38)) = 5 /\ Entity(38)[1] = Amp /\ Entity(38)[2] = 97 /\ Entity(38)[3] = 109
  /\ Len(Entity(39)) = 6 /\ Entity(39)[1] = Amp /\ Entity(39)[2] = 97 /\ Entity(39)[3] = 112
  /\ Len(Entity(60)) = 4 /\ Entity(60)[1] = Amp /\ Entity(60)[2] = 108
  /\ Len(Entity(62)) = 4 /\ Entity(62)[1] = Amp /\ Entity(62)[2] = 103
BY DEF Entity

\* Only one entity begins what an entity begins, and none begins a numeric reference.
LEMMA EntityAlone ==
  ASSUME NEW ch \in XmlUnsafe, NEW s \in Seq(Byte), IsPrefix(Entity(ch), s)
  PROVE  /\ s[1] = Amp /\ s[2] # Hash
         /\ \A c \in XmlUnsafe : IsPrefix(Entity(c), s) => c = ch
<1>1. \A c \in XmlUnsafe : IsPrefix(Entity(c), s) =>
        /\ s[1] = Entity(c)[1] /\ s[2] = Entity(c)[2] /\ s[3] = Entity(c)[3]
  <2> SUFFICES ASSUME NEW c \in XmlUnsafe, IsPrefix(Entity(c), s)
               PROVE  s[1] = Entity(c)[1] /\ s[2] = Entity(c)[2] /\ s[3] = Entity(c)[3]
    OBVIOUS
  <2>1. Entity(c) \in Seq(Byte)
    BY EntityType
  <2>2. Len(Entity(c)) >= 4 /\ Len(Entity(c)) \in Nat
    <3> DEFINE l == Len(Entity(c))
    <3>1. l = 4 \/ l = 5 \/ l = 6
      BY EntityShape, Zenon DEF XmlUnsafe
    <3> HIDE DEF l
    <3>2. l >= 4 /\ l \in Nat
      BY <3>1
    <3>3. QED
      BY <3>2 DEF l
  <2>3. \A i \in Nat : 1 <= i /\ i <= Len(Entity(c)) => s[i] = Entity(c)[i]
    BY <2>1, PrefixAt
  <2>4. QED
    BY <2>2, <2>3
<1>2. QED
  BY <1>1, EntityShape DEF XmlUnsafe, Hash

\* What xml_decode() makes of an entity.
LEMMA EntityReads ==
  ASSUME NEW ch \in XmlUnsafe, NEW k \in {"html", "xml"}
  PROVE  Reads(k, Entity(ch), <<ch>>)
<1> DEFINE code == Entity(ch)
<1>1. code \in Seq(Byte) /\ Len(code) \in Nat \ {0}
  BY EntityType
<1>2. ch \in Byte
  BY DEF XmlUnsafe, Byte
<1>3. <<ch>> \in Seq(Byte) /\ Len(<<ch>>) = 1
  BY <1>2
<1>4. ASSUME NEW more \in Seq(Byte)
      PROVE  Decoded(k, code \o more) = Turn(Len(code), <<ch>>)
  <2> DEFINE s == code \o more
  <2> HIDE DEF code
  <2>1. s \in Seq(Byte) /\ Len(s) = Len(code) + Len(more) /\ Len(more) \in Nat
    BY <1>1, Ahead
  <2>2. \A i \in Nat : 1 <= i /\ i <= Len(code) => s[i] = code[i]
    BY <1>1, Ahead, Zenon
  <2> HIDE DEF s
  <2>3. IsPrefix(code, s)
    <3>1. Len(code) <= Len(s)
      BY <1>1, <2>1
    <3>2. QED
      BY <1>1, <2>1, <2>2, <3>1, PrefixAt, Zenon
  <2>4. s[1] = Amp /\ \A c \in XmlUnsafe : IsPrefix(Entity(c), s) => c = ch
    BY <2>1, <2>3, EntityAlone DEF code
  <2> DEFINE found == {c \in {34, 38, 39, 60, 62} : IsPrefix(Entity(c), s)}
  <2>5. found = {ch}
    BY <2>3, <2>4 DEF XmlUnsafe, code
  <2>6. XmlDecode(s) = IF s[1] # Amp THEN Plain(s)
                       ELSE IF found # {}
                       THEN LET c == CHOOSE x \in found : TRUE IN Turn(Len(Entity(c)), <<c>>)
                       ELSE IF Len(s) >= 2 /\ s[2] = Hash THEN CharRef(s)
                       ELSE GiveUp
    BY DEF XmlDecode
  <2> HIDE DEF found
  <2>7. (CHOOSE x \in found : TRUE) = ch
    BY <2>5
  <2>8. XmlDecode(s) = Turn(Len(code), <<ch>>)
    BY <2>4, <2>5, <2>6, <2>7 DEF code
  <2>9. QED
    BY <2>8 DEF Decoded, s
<1> HIDE DEF code
<1>5. Reads(k, code, <<ch>>)
  BY <1>1, <1>3, <1>4 DEF Reads, Turn
<1>6. QED
  BY <1>5 DEF code

\* xml_encode() and xml_decode(), with what html_encode() has of it.
LEMMA XmlReadable ==
  ASSUME NEW rest \in Seq(Byte), rest # <<>>, NEW k \in {"html", "xml"}
  PROVE  Readable(k, XmlEncode(rest), rest)
<1>1. CASE rest[1] \in XmlUnsafe
  <2>1. XmlEncode(rest) = Turn(1, Entity(rest[1]))
    BY <1>1 DEF XmlEncode
  <2>2. QED
    BY <1>1, <2>1, EntityReads, OneReadable
<1>2. CASE rest[1] \notin XmlUnsafe
  <2>1. \A s \in Seq(Byte) : s # <<>> /\ s[1] = rest[1] => Decoded(k, s) = Plain(s)
    <3>1. rest[1] # Amp
      BY <1>2 DEF XmlUnsafe, Amp
    <3>2. QED
      BY <3>1 DEF Decoded, XmlDecode
  <2>2. XmlEncode(rest) = Plain(rest)
    BY <1>2 DEF XmlEncode
  <2>3. QED
    BY <2>1, <2>2, PlainReadable DEF Codecs
<1>3. QED
  BY <1>1, <1>2

\* The powers of ten.
LEMMA TensPowers ==
  /\ \A k \in 1..7 : Tens[k] \in Nat \ {0}
  /\ Tens[1] = 1
  /\ \A k \in 1..6 : Tens[k + 1] = 10 * Tens[k]
<1>1. /\ Tens[1] = 1 /\ Tens[2] = 10 /\ Tens[3] = 100 /\ Tens[4] = 1000 /\ Tens[5] = 10000
      /\ Tens[6] = 100000 /\ Tens[7] = 1000000
  BY DEF Tens
<1>2. \A k \in 1..7 : k = 1 \/ k = 2 \/ k = 3 \/ k = 4 \/ k = 5 \/ k = 6 \/ k = 7
  OBVIOUS
<1>3. QED
  BY <1>1, <1>2

\* A decimal digit behind those before it.
LEMMA NextDigit ==
  ASSUME NEW v \in Nat, NEW k \in 1..6
  PROVE  (v \div Tens[k + 1]) * 10 + ((v \div Tens[k]) % 10) = v \div Tens[k]
<1>1. /\ Tens[1] = 1 /\ Tens[2] = 10 /\ Tens[3] = 100 /\ Tens[4] = 1000 /\ Tens[5] = 10000
      /\ Tens[6] = 100000 /\ Tens[7] = 1000000
  BY DEF Tens
<1>2. /\ (v \div 10) * 10 + ((v \div 1) % 10) = v \div 1
      /\ (v \div 100) * 10 + ((v \div 10) % 10) = v \div 10
      /\ (v \div 1000) * 10 + ((v \div 100) % 10) = v \div 100
      /\ (v \div 10000) * 10 + ((v \div 1000) % 10) = v \div 1000
      /\ (v \div 100000) * 10 + ((v \div 10000) % 10) = v \div 10000
      /\ (v \div 1000000) * 10 + ((v \div 100000) % 10) = v \div 100000
  BY SMT
<1>3. \/ k = 1 /\ k + 1 = 2
      \/ k = 2 /\ k + 1 = 3
      \/ k = 3 /\ k + 1 = 4
      \/ k = 4 /\ k + 1 = 5
      \/ k = 5 /\ k + 1 = 6
      \/ k = 6 /\ k + 1 = 7
  BY SMT
<1>4. QED
  BY <1>1, <1>2, <1>3, SMT

\* A number has as many digits as Numeric() writes.
LEMMA NumericShape ==
  ASSUME NEW v \in Nat, v <= Utf8Max
  PROVE  \E n \in 1..7 :
           /\ v \div Tens[n] < 10
           /\ Numeric(v) = <<Amp, Hash>>
                \o [i \in 1..n |-> 48 + ((v \div Tens[n + 1 - i]) % 10)] \o <<Semicolon>>
<1> DEFINE K == {k \in 2..7 : v >= Tens[k]}
           n == 1 + Cardinality(K)
<1>1. /\ Tens[1] = 1 /\ Tens[2] = 10 /\ Tens[3] = 100 /\ Tens[4] = 1000 /\ Tens[5] = 10000
      /\ Tens[6] = 100000 /\ Tens[7] = 1000000
  BY DEF Tens
<1>2. v \in Nat /\ v < 10000000
  BY SMT DEF Utf8Max
<1>3. \E m \in 1..7 : v \div Tens[m] < 10 /\ K = 2..m
  <2>1. \A k \in 2..7 : k = 2 \/ k = 3 \/ k = 4 \/ k = 5 \/ k = 6 \/ k = 7
    OBVIOUS
  <2>2. CASE v < 10
    <3>1. v \div Tens[1] < 10 /\ K = 2..1
      BY <1>1, <1>2, <2>1, <2>2
    <3>2. QED
      BY <3>1
  <2>3. CASE v >= 10 /\ v < 100
    <3>1. v \div Tens[2] < 10 /\ K = 2..2
      BY <1>1, <1>2, <2>1, <2>3
    <3>2. QED
      BY <3>1
  <2>4. CASE v >= 100 /\ v < 1000
    <3>1. v \div Tens[3] < 10 /\ K = 2..3
      BY <1>1, <1>2, <2>1, <2>4
    <3>2. QED
      BY <3>1
  <2>5. CASE v >= 1000 /\ v < 10000
    <3>1. v \div Tens[4] < 10 /\ K = 2..4
      BY <1>1, <1>2, <2>1, <2>5
    <3>2. QED
      BY <3>1
  <2>6. CASE v >= 10000 /\ v < 100000
    <3>1. v \div Tens[5] < 10 /\ K = 2..5
      BY <1>1, <1>2, <2>1, <2>6
    <3>2. QED
      BY <3>1
  <2>7. CASE v >= 100000 /\ v < 1000000
    <3>1. v \div Tens[6] < 10 /\ K = 2..6
      BY <1>1, <1>2, <2>1, <2>7
    <3>2. QED
      BY <3>1
  <2>8. CASE v >= 1000000
    <3>1. v \div Tens[7] < 10 /\ K = 2..7
      BY <1>1, <1>2, <2>1, <2>8
    <3>2. QED
      BY <3>1
  <2>9. QED
    BY <1>2, <2>2, <2>3, <2>4, <2>5, <2>6, <2>7, <2>8
<1>4. PICK m \in 1..7 : v \div Tens[m] < 10 /\ K = 2..m
  BY <1>3
<1>5. n = m
  <2> HIDE DEF K
  <2>1. 2 \in Int /\ m \in Int
    OBVIOUS
  <2>2. Cardinality(2..m) = IF 2 > m THEN 0 ELSE m - 2 + 1
    BY <2>1, FS_Interval, Zenon
  <2>3. QED
    BY <1>4, <2>2
<1>6. Numeric(v) = <<Amp, Hash>> \o [i \in 1..n |-> 48 + ((v \div Tens[n + 1 - i]) % 10)]
                   \o <<Semicolon>>
  BY DEF Numeric
<1> HIDE DEF n
<1>7. QED
  BY <1>4, <1>5, <1>6

\* strtoul() of the digits of a number, up to what follows them.
LEMMA NumberRead ==
  ASSUME NEW v \in Nat, v <= Utf8Max, NEW n \in 1..7, v \div Tens[n] < 10,
         NEW s \in Seq(Byte), n < Len(s), s[n + 1] = Semicolon,
         \A i \in 1..n : s[i] = 48 + ((v \div Tens[n + 1 - i]) % 10)
  PROVE  Number(s, 10) = <<n, v>>
<1>1. v \in Nat /\ v <= Utf8Max /\ Utf8Max \in Nat
  <2>1. Utf8Max \in Nat
    BY SMT DEF Utf8Max
  <2>2. QED
    BY <2>1
<1>2. \A i \in 1..n : Tens[n + 1 - i] \in Nat \ {0}
  <2>1. \A i \in 1..n : n + 1 - i \in 1..7
    OBVIOUS
  <2>2. QED
    BY <2>1, TensPowers, Zenon
<1>3. \A i \in 1..n : v \div Tens[n + 1 - i] \in Nat /\ v \div Tens[n + 1 - i] <= v
  <2>1. \A d \in Nat \ {0} : v \div d \in Nat /\ v \div d <= v
    BY <1>1
  <2>2. QED
    BY <1>2, <2>1
<1>4. Digits(s, 10) = n
  <2> DEFINE run == {i \in DOMAIN s : \A j \in 1..i : IsDigit(s[j], 10)}
  <2>1. \A i \in 1..n : IsDigit(s[i], 10)
    <3>1. \A q \in Nat : 48 + (q % 10) \in 48..57
      OBVIOUS
    <3>2. QED
      BY <1>3, <3>1, Zenon DEF IsDigit
  <2>2. ~IsDigit(s[n + 1], 10)
    BY DEF IsDigit, Semicolon
  <2>3. run = 1..n
    <3>1. \A i \in 1..n : i \in run
      BY <2>1
    <3>2. \A i \in run : i \in 1..n
      BY <2>2
    <3>3. QED
      BY <3>1, <3>2
  <2>4. Cardinality(1..n) = n
    <3>1. 1 \in Int /\ n \in Int
      OBVIOUS
    <3>2. Cardinality(1..n) = IF 1 > n THEN 0 ELSE n - 1 + 1
      BY <3>1, FS_Interval, Zenon
    <3>3. QED
      BY <3>2
  <2>5. QED
    BY <2>3, <2>4 DEF Digits
<1> DEFINE values == Values(s, 10)
           T == {i \in 0..n : values[i] = IF i = 0 THEN 0 ELSE v \div Tens[n + 1 - i]}
<1>5. values[0] = 0 /\ \A i \in 1..n : values[i] = NextValue(values[i - 1], s[i], 10)
  BY <1>4, ValuesStep
<1> HIDE DEF values
<1>6. ASSUME NEW i \in 0..n - 1, i \in T
      PROVE  i + 1 \in T
  <2> DEFINE w == v \div Tens[n - i]
  <2>1. w \in Nat /\ w <= v /\ s[i + 1] = 48 + (w % 10) /\ i + 1 \in 1..n
    <3>1. i + 1 \in 1..n /\ n + 1 - (i + 1) = n - i
      OBVIOUS
    <3>2. QED
      BY <1>3, <3>1
  <2>2. values[i] * 10 + (w % 10) = w /\ values[i] \in Nat
    <3>1. CASE i = 0
      <4>1. n - i = n /\ values[i] = 0
        BY <1>5, <3>1
      <4>2. w < 10
        BY <4>1
      <4> HIDE DEF w
      <4>3. w % 10 = w
        BY <2>1, <4>2
      <4>4. QED
        BY <2>1, <4>1, <4>3
    <3>2. CASE i # 0
      <4>1. n - i \in 1..6 /\ n + 1 - i = (n - i) + 1
        BY <3>2
      <4>2. values[i] = v \div Tens[(n - i) + 1]
        BY <1>6, <3>2, <4>1
      <4>3. values[i] \in Nat
        BY <1>3, <1>6, <3>2
      <4>4. QED
        BY <1>1, <4>1, <4>2, <4>3, NextDigit
    <3>3. QED
      BY <3>1, <3>2
  <2> HIDE DEF w
  <2>3. HexDecode(s[i + 1]) = w % 10
    BY <2>1 DEF HexDecode
  <2>4. NextValue(values[i], s[i + 1], 10) = w
    <3>1. values[i] * 10 + HexDecode(s[i + 1]) = w
      BY <2>2, <2>3
    <3>2. ~(w > Utf8Max)
      BY <1>1, <2>1
    <3>3. QED
      BY <3>1, <3>2, Zenon DEF NextValue
  <2>5. values[i + 1] = w
    <3>1. (i + 1) - 1 = i
      OBVIOUS
    <3>2. QED
      BY <1>5, <2>1, <2>4, <3>1
  <2>6. n + 1 - (i + 1) = n - i /\ i + 1 \in 0..n /\ i + 1 # 0
    OBVIOUS
  <2>7. QED
    BY <2>5, <2>6 DEF w
<1>7. n \in T
  <2>1. 0 \in T
    BY <1>5
  <2> HIDE DEF T
  <2>2. QED
    BY <1>6, <2>1, Counting
<1>8. values[n] = v
  <2>1. n + 1 - n = 1 /\ n # 0 /\ v \div 1 = v
    BY <1>1
  <2>2. values[n] = v \div Tens[n + 1 - n]
    BY <1>7, <2>1, Zenon
  <2>3. QED
    BY <2>1, <2>2, TensPowers
<1>9. QED
  BY <1>4, <1>8 DEF Number, values

\* What xml_decode() makes of the number of a character.
LEMMA NumericReads ==
  ASSUME NEW v \in Nat, v <= Utf8Max
  PROVE  Reads("html", Numeric(v), Utf8Encode(v))
<1>1. PICK n \in 1..7 :
        /\ v \div Tens[n] < 10
        /\ Numeric(v) = <<Amp, Hash>>
             \o [i \in 1..n |-> 48 + ((v \div Tens[n + 1 - i]) % 10)] \o <<Semicolon>>
  BY NumericShape
<1> DEFINE digits == [i \in 1..n |-> 48 + ((v \div Tens[n + 1 - i]) % 10)]
           code == Numeric(v)
<1>2. \A i \in 1..n : digits[i] \in 48..57
  <2>1. \A i \in 1..n : Tens[n + 1 - i] \in Nat \ {0}
    BY TensPowers
  <2>2. \A d \in Nat \ {0} : 48 + ((v \div d) % 10) \in 48..57
    OBVIOUS
  <2>3. QED
    BY <2>1, <2>2
<1>3. digits \in Seq(Byte) /\ Len(digits) = n
  <2>1. \A i \in 1..n : digits[i] \in Byte
    BY <1>2 DEF Byte
  <2>2. DOMAIN digits = 1..n
    OBVIOUS
  <2>3. digits = [i \in 1..n |-> digits[i]]
    OBVIOUS
  <2> HIDE DEF digits
  <2>4. QED
    BY <2>1, <2>2, <2>3
<1> HIDE DEF digits
<1>4. /\ code \in Seq(Byte) /\ Len(code) = n + 3
      /\ code[1] = Amp /\ code[2] = Hash /\ code[n + 3] = Semicolon
      /\ \A i \in 1..n : code[i + 2] = digits[i]
  <2>1. code = <<Amp, Hash>> \o digits \o <<Semicolon>>
    BY <1>1 DEF digits
  <2>2. <<Amp, Hash>> \in Seq(Byte) /\ <<Semicolon>> \in Seq(Byte)
    BY DEF Amp, Hash, Semicolon, Byte
  <2> HIDE DEF code
  <2>3. QED
    BY <1>3, <2>1, <2>2
<1>5. ASSUME NEW more \in Seq(Byte)
      PROVE  Decoded("html", code \o more) = [used |-> n + 3, emit |-> Utf8Encode(v), spare |-> 0]
  <2> DEFINE s == code \o more
             tail == SubSeq(s, 3, Len(s))
  <2> HIDE DEF code
  <2>1. s \in Seq(Byte) /\ Len(s) = n + 3 + Len(more) /\ Len(more) \in Nat
    BY <1>4, Ahead
  <2>2. \A i \in Nat : 1 <= i /\ i <= Len(code) => s[i] = code[i]
    BY <1>4, Ahead, Zenon
  <2> HIDE DEF s
  <2>3. s[1] = Amp /\ s[2] = Hash /\ s[n + 3] = Semicolon
    BY <1>4, <2>2
  <2>4. \A i \in 1..n : s[i + 2] = digits[i]
    BY <1>4, <2>2
  <2>5. /\ tail \in Seq(Byte) /\ Len(tail) = n + 1 + Len(more)
        /\ tail[n + 1] = Semicolon /\ \A i \in 1..n : tail[i] = digits[i]
    BY <2>1, <2>3, <2>4
  <2> HIDE DEF tail
  <2>6. Number(tail, 10) = <<n, v>>
    <3>1. \A i \in 1..n : tail[i] = 48 + ((v \div Tens[n + 1 - i]) % 10)
      BY <2>5 DEF digits
    <3>2. n < Len(tail)
      BY <2>1, <2>5
    <3>3. QED
      BY <1>1, <2>5, <3>1, <3>2, NumberRead
  <2>7. s[3] # LowerX
    <3>1. 1 \in 1..n
      OBVIOUS
    <3>2. s[1 + 2] = digits[1] /\ digits[1] \in 48..57
      BY <1>2, <2>4, <3>1
    <3>3. QED
      BY <3>2 DEF LowerX
  <2>8. CharRef(s) = [used |-> n + 3, emit |-> Utf8Encode(v), spare |-> 0]
    <3>1. v <= Utf8Max /\ 3 + n <= Len(s) /\ 3 + n = n + 3
      BY <2>1, SMT DEF Utf8Max
    <3>2. Number(SubSeq(s, 3, Len(s)), 10)[1] = n /\ Number(SubSeq(s, 3, Len(s)), 10)[2] = v
      BY <2>6 DEF tail
    <3>3. QED
      BY <2>3, <2>7, <3>1, <3>2 DEF CharRef
  <2>9. {ch \in {34, 38, 39, 60, 62} : IsPrefix(Entity(ch), s)} = {}
    BY <2>1, <2>3, EntityAlone DEF XmlUnsafe
  <2>10. XmlDecode(s) = CharRef(s)
    <3>1. Len(s) >= 2
      BY <2>1
    <3>2. QED
      BY <2>3, <2>9, <3>1 DEF XmlDecode
  <2>11. QED
    BY <2>8, <2>10 DEF Decoded, s
<1> HIDE DEF code
<1>6. Utf8Encode(v) \in Seq(Byte) /\ Len(Utf8Encode(v)) > 0
  <2>1. Utf8Encode(v) \in Seq(Byte)
    BY Utf8EncodeType
  <2>2. Utf8Max \in Nat
    BY SMT DEF Utf8Max
  <2>3. CASE v <= 127
    <3>1. Utf8Encode(v) = <<v>>
      BY <2>3, <2>2 DEF Utf8Encode
    <3>2. QED
      BY <2>1, <3>1
  <2>4. CASE v > 127 /\ v <= 2047
    <3>1. Utf8Encode(v) = <<192 + v \div 64, 128 + (v % 64)>>
      BY <2>4, <2>2 DEF Utf8Encode
    <3>2. QED
      BY <2>1, <3>1
  <2>5. CASE v > 2047 /\ v <= 65535
    <3>1. Utf8Encode(v) = <<224 + v \div 4096, 128 + ((v \div 64) % 64), 128 + (v % 64)>>
      BY <2>5, <2>2 DEF Utf8Encode
    <3>2. QED
      BY <2>1, <3>1
  <2>6. CASE v > 65535
    <3>1. Utf8Encode(v) = <<240 + v \div 262144, 128 + ((v \div 4096) % 64),
                            128 + ((v \div 64) % 64), 128 + (v % 64)>>
      BY <2>6, <2>2 DEF Utf8Encode
    <3>2. QED
      BY <2>1, <3>1
  <2>7. QED
    BY <2>3, <2>4, <2>5, <2>6
<1>7. Reads("html", code, Utf8Encode(v))
  <2>1. Len(code) = n + 3 /\ Len(code) > 0
    BY <1>4
  <2>2. QED
    BY <1>4, <1>5, <1>6, <2>1 DEF Reads
<1>8. QED
  BY <1>7 DEF code

\* The bytes of a character behind the first.
LEMMA Utf8Trailers ==
  ASSUME NEW rest \in Seq(Byte), rest # <<>>, NEW i \in Nat,
         2 <= i, i <= Utf8Decode(rest)[1]
  PROVE  rest[i] \div 64 = 2
<1> DEFINE v2 == Join(rest[1] % 32, rest[2])
           v3 == Join(Join(rest[1] % 16, rest[2]), rest[3])
           v4 == Join(Join(Join(rest[1] % 8, rest[2]), rest[3]), rest[4])
<1>1. \/ Utf8Decode(rest) = <<1, rest[1]>>
      \/ Utf8Decode(rest) = <<2, v2>> /\ Trailer(rest, 2)
      \/ Utf8Decode(rest) = <<3, v3>> /\ Trailer(rest, 2) /\ Trailer(rest, 3)
      \/ Utf8Decode(rest) = <<4, v4>> /\ Trailer(rest, 2) /\ Trailer(rest, 3) /\ Trailer(rest, 4)
      \/ Utf8Decode(rest) = <<0, 0>>
  BY Zenon DEF Utf8Decode
<1> HIDE DEF v2, v3, v4
<1>2. QED
  BY <1>1 DEF Trailer

\* rest begins with a character of UTF-8 in the shortest form.
CharAhead(rest) ==
  Utf8Decode(rest)[1] > 0
  /\ Utf8Encode(Utf8Decode(rest)[2]) = SubSeq(rest, 1, Utf8Decode(rest)[1])

\* html_encode() and html_decode(), of a character of UTF-8.
LEMMA HtmlReadable ==
  ASSUME NEW rest \in Seq(Byte), rest # <<>>, CharAhead(rest)
  PROVE  /\ Readable("html", HtmlEncode(rest), rest)
         /\ HtmlEncode(rest).used = Utf8Decode(rest)[1]
<1> DEFINE utf8 == Utf8Decode(rest)
<1>1. utf8[1] \in 1..Len(rest) /\ utf8[2] \in Nat
  BY Utf8DecodeType DEF CharAhead
<1>2. utf8[2] <= Utf8Max
  <2>1. ASSUME utf8[2] > Utf8Max
        PROVE  FALSE
    <3>1. Utf8Encode(utf8[2]) = <<>>
      BY <2>1 DEF Utf8Encode
    <3>2. SubSeq(rest, 1, utf8[1]) # <<>>
      BY <1>1
    <3>3. QED
      BY <3>1, <3>2 DEF CharAhead
  <2>2. Utf8Max \in Nat
    BY SMT DEF Utf8Max
  <2>3. QED
    BY <1>1, <2>1, <2>2
<1>3. rest[1] \in Nat
  BY FirstOf, ByteType
<1>4. CASE rest[1] >= 128
  <2>1. HtmlEncode(rest) = Turn(utf8[1], Numeric(utf8[2]))
    BY <1>4 DEF HtmlEncode, CharAhead
  <2>2. Reads("html", Numeric(utf8[2]), SubSeq(rest, 1, utf8[1]))
    BY <1>1, <1>2, NumericReads DEF CharAhead
  <2> HIDE DEF utf8
  <2>3. HtmlEncode(rest).used = utf8[1] /\ HtmlEncode(rest).emit = Numeric(utf8[2])
    BY <2>1 DEF Turn
  <2>4. QED
    BY <1>1, <2>2, <2>3 DEF Readable, utf8
<1>5. CASE rest[1] < 128
  <2>1. utf8[1] = 1
    BY <1>5 DEF Utf8Decode
  <2>2. CASE rest[1] = 39
    <3>1. HtmlEncode(rest) = Turn(1, Numeric(39))
      BY <2>2 DEF HtmlEncode
    <3>2. Utf8Max \in Nat /\ 39 <= Utf8Max
      BY SMT DEF Utf8Max
    <3>3. Utf8Encode(39) = <<39>>
      BY <3>2 DEF Utf8Encode
    <3>4. Reads("html", Numeric(39), <<rest[1]>>)
      BY <2>2, <3>2, <3>3, NumericReads
    <3>5. QED
      BY <2>1, <3>1, <3>4, OneReadable DEF Turn
  <2>3. CASE rest[1] # 39
    <3>1. HtmlEncode(rest) = XmlEncode(rest)
      <4>1. ~(rest[1] >= 128)
        BY <1>3, <1>5
      <4>2. QED
        BY <2>3, <4>1, Zenon DEF HtmlEncode
    <3>2. XmlEncode(rest).used = 1
      BY DEF XmlEncode, Plain, Turn
    <3>3. QED
      BY <2>1, <3>1, <3>2, XmlReadable
  <2>4. QED
    BY <2>2, <2>3
<1>6. rest[1] >= 128 \/ rest[1] < 128
  BY <1>3
<1>7. QED
  BY <1>4, <1>5, <1>6

\* A character begins behind the first n bytes of s, or s ends there.
Starts(s, n) == n < Len(s) => s[n + 1] \notin 128..191

\* What IsUtf8() says of the character that begins at i, with the sequences it decodes.
LEMMA Utf8At ==
  ASSUME NEW s \in Seq(Byte), IsUtf8(s), NEW j \in 1..Len(s)
  PROVE  LET at(i) == Utf8Decode(SubSeq(s, i, Len(s)))
         IN  /\ at(j)[1] \in Nat /\ j + at(j)[1] <= Len(s) + 1
             /\ \A m \in Nat : j < m /\ m < j + at(j)[1] => s[m] \in 128..191
             /\ s[j] \in 128..191 => \E k \in 1..j - 1 : s[k] >= 192 /\ k + at(k)[1] > j
             /\ s[j] \notin 128..191 => CharAhead(SubSeq(s, j, Len(s)))
<1> DEFINE from == SubSeq(s, j, Len(s))
           u == Utf8Decode(from)[1]
<1>1. j \in Nat /\ 1 <= j /\ j <= Len(s) /\ Len(s) \in Nat
  OBVIOUS
<1>2. /\ from \in Seq(Byte) /\ Len(from) = Len(s) - j + 1
      /\ \A k \in 1..Len(s) - j + 1 : from[k] = s[j + k - 1]
  OBVIOUS
<1>3. /\ s[j] \in 128..191 =>
           \E k \in 1..j - 1 : s[k] >= 192 /\ k + Utf8Decode(SubSeq(s, k, Len(s)))[1] > j
      /\ s[j] \notin 128..191 =>
           u > 0 /\ Utf8Encode(Utf8Decode(from)[2]) = SubSeq(s, j, j + u - 1)
  <2>1. j \in DOMAIN s
    OBVIOUS
  <2>2. QED
    BY <2>1, Zenon DEF IsUtf8
<1> HIDE DEF from
<1>4. from # <<>>
  BY <1>1, <1>2
<1>5. u \in 0..Len(s) - j + 1
  BY <1>2, <1>4, Utf8DecodeType
<1> HIDE DEF u
<1>6. u \in Nat /\ j + u <= Len(s) + 1
  BY <1>1, <1>5
<1>7. ASSUME NEW m \in Nat, j < m, m < j + u
      PROVE  s[m] \in 128..191
  <2>1. m - j + 1 \in Nat /\ 2 <= m - j + 1 /\ m - j + 1 <= u
    BY <1>1, <1>6, <1>7
  <2>2. from[m - j + 1] \div 64 = 2
    BY <1>2, <1>4, <2>1, Utf8Trailers DEF u
  <2>3. m - j + 1 \in 1..Len(s) - j + 1 /\ j + (m - j + 1) - 1 = m /\ m \in 1..Len(s)
    BY <1>1, <1>6, <1>7
  <2>4. from[m - j + 1] = s[m]
    BY <1>2, <2>3
  <2>5. s[m] \in Byte
    BY <2>3
  <2>6. \A b \in Byte : b \div 64 = 2 => b \in 128..191
    BY DEF Byte
  <2>7. QED
    BY <2>2, <2>4, <2>5, <2>6
<1>8. ASSUME s[j] \notin 128..191
      PROVE  CharAhead(from)
  <2>1. u > 0 /\ Utf8Encode(Utf8Decode(from)[2]) = SubSeq(s, j, j + u - 1)
    BY <1>3, <1>8, Zenon
  <2>2. /\ u \in 1..Len(s) - j + 1 /\ 1 \in 1..Len(s) - j + 1 /\ Len(s) \in 1..Len(s)
        /\ j \in 1..Len(s)
    BY <1>1, <1>6, <2>1
  <2>3. SubSeq(SubSeq(s, j, Len(s)), 1, u) = SubSeq(s, j + 1 - 1, j + u - 1)
    BY <2>2, SubSeqOfSubSeq
  <2>4. j + 1 - 1 = j
    BY <1>1
  <2>5. SubSeq(s, j, j + u - 1) = SubSeq(from, 1, u)
    BY <2>3, <2>4 DEF from
  <2>6. QED
    BY <2>1, <2>5 DEF CharAhead, u
<1>9. QED
  BY <1>3, <1>6, <1>7, <1>8 DEF u, from

\* Where one character of UTF-8 ends the next begins.
LEMMA NextStarts ==
  ASSUME NEW s \in Seq(Byte), IsUtf8(s), NEW i \in 1..Len(s), s[i] \notin 128..191
  PROVE  LET rest == SubSeq(s, i, Len(s))
         IN  CharAhead(rest) /\ Starts(s, i - 1 + Utf8Decode(rest)[1])
<1> DEFINE at == [j \in 1..Len(s) |-> Utf8Decode(SubSeq(s, j, Len(s)))[1]]
           u == at[i]
<1>1. \A j \in 1..Len(s) : at[j] = Utf8Decode(SubSeq(s, j, Len(s)))[1]
  OBVIOUS
<1> HIDE DEF at
<1>2. \A j \in 1..Len(s) :
        /\ at[j] \in Nat /\ j + at[j] <= Len(s) + 1
        /\ \A m \in Nat : j < m /\ m < j + at[j] => s[m] \in 128..191
  BY <1>1, Utf8At
<1>3. \A j \in 1..Len(s) : s[j] \in 128..191 => \E k \in 1..j - 1 : s[k] >= 192 /\ k + at[k] > j
  <2> SUFFICES ASSUME NEW j \in 1..Len(s), s[j] \in 128..191
               PROVE  \E k \in 1..j - 1 : s[k] >= 192 /\ k + at[k] > j
    OBVIOUS
  <2>1. PICK k \in 1..j - 1 : s[k] >= 192 /\ k + Utf8Decode(SubSeq(s, k, Len(s)))[1] > j
    BY Utf8At
  <2>2. k \in 1..Len(s)
    OBVIOUS
  <2>3. QED
    BY <1>1, <2>1, <2>2
<1>4. i \in Nat /\ 1 <= i /\ i <= Len(s) /\ Len(s) \in Nat /\ u \in Nat
  BY <1>2
<1> HIDE DEF u
<1>5. CharAhead(SubSeq(s, i, Len(s)))
  BY Utf8At
<1>6. ASSUME NEW m \in 1..Len(s), m = i + u, s[m] \in 128..191
      PROVE  FALSE
  <2>1. PICK j \in 1..m - 1 : s[j] >= 192 /\ j + at[j] > m
    BY <1>3, <1>6
  <2>2. j \in Nat /\ j \in 1..Len(s) /\ j < m /\ m \in Nat
    OBVIOUS
  <2>3. at[j] \in Nat
    BY <1>2, <2>2
  <2>4. CASE j = i
    BY <1>4, <1>6, <2>1, <2>4 DEF u
  <2>5. CASE j > i
    <3>1. s[j] \in 128..191
      BY <1>2, <1>4, <1>6, <2>2, <2>5 DEF u
    <3>2. \A b \in 128..191 : ~(b >= 192)
      OBVIOUS
    <3>3. QED
      BY <2>1, <3>1, <3>2, Zenon
  <2>6. CASE j < i
    <3>1. i < j + at[j]
      BY <1>4, <1>6, <2>1, <2>2, <2>3
    <3>2. s[i] \in 128..191
      BY <1>2, <1>4, <2>2, <2>6, <3>1
    <3>3. QED
      BY <3>2
  <2>7. QED
    BY <1>4, <2>2, <2>4, <2>5, <2>6
<1>7. Starts(s, i - 1 + u)
  <2>1. i - 1 + u + 1 = i + u /\ (i - 1 + u < Len(s) => i + u \in 1..Len(s))
    BY <1>4
  <2>2. QED
    BY <1>6, <2>1 DEF Starts
<1>8. u = Utf8Decode(SubSeq(s, i, Len(s)))[1]
  BY <1>1 DEF u
<1>9. QED
  BY <1>5, <1>7, <1>8

-----------------------------------------------------------------------------
(* The pieces of a text and of its code                                      *)

\* The first m characters of plain are encoded as the first n of coded, piece by piece:
\* cuts are the places where a piece ends in both, <<0, 0>> the first and <<m, n>> the last.
Pieces(k, cuts, plain, coded, m, n) ==
  /\ cuts \subseteq (0..m) \X (0..n)
  /\ <<0, 0>> \in cuts /\ <<m, n>> \in cuts
  /\ \A p \in cuts : p = <<m, n>> \/ \E q \in cuts :
       /\ p[1] < q[1] /\ p[2] < q[2]
       /\ Reads(k, SubSeq(coded, p[2] + 1, q[2]), SubSeq(plain, p[1] + 1, q[1]))

\* Pieces depend on what they cover.
LEMMA SameCells ==
  ASSUME NEW s \in Seq(Byte), NEW t \in Seq(Byte), NEW a \in Nat, NEW b \in Nat,
         b <= Len(s), b <= Len(t), \A i \in 1..b : s[i] = t[i]
  PROVE  SubSeq(s, a + 1, b) = SubSeq(t, a + 1, b)
<1> DEFINE x == SubSeq(s, a + 1, b)
           y == SubSeq(t, a + 1, b)
           n == IF a + 1 <= b THEN b - a ELSE 0
<1>1. n \in Nat /\ \A i \in 1..n : a + i \in 1..b /\ a + 1 + i - 1 = a + i
  OBVIOUS
<1>2. /\ x \in Seq(Byte) /\ Len(x) = n /\ \A i \in 1..n : x[i] = s[a + i]
      /\ y \in Seq(Byte) /\ Len(y) = n /\ \A i \in 1..n : y[i] = t[a + i]
  OBVIOUS
<1> HIDE DEF x, y, n
<1>3. \A i \in 1..n : x[i] = y[i]
  BY <1>1, <1>2
<1>4. x = y
  BY <1>2, <1>3, SeqEqual
<1>5. QED
  BY <1>4 DEF x, y

LEMMA PiecesKept ==
  ASSUME NEW k, NEW cuts, NEW plain, NEW m \in Nat, NEW n \in Nat,
         NEW coded \in Seq(Byte), Pieces(k, cuts, plain, coded, m, n),
         NEW other \in Seq(Byte), n <= Len(coded), n <= Len(other),
         \A i \in 1..n : other[i] = coded[i]
  PROVE  Pieces(k, cuts, plain, other, m, n)
<1> SUFFICES ASSUME NEW p \in cuts, NEW q \in cuts,
                    Reads(k, SubSeq(coded, p[2] + 1, q[2]), SubSeq(plain, p[1] + 1, q[1]))
             PROVE  Reads(k, SubSeq(other, p[2] + 1, q[2]), SubSeq(plain, p[1] + 1, q[1]))
  BY DEF Pieces
<1>1. p[2] \in Nat /\ q[2] \in 0..n
  BY DEF Pieces
<1>2. q[2] \in Nat /\ q[2] <= Len(other) /\ q[2] <= Len(coded)
  BY <1>1
<1>3. \A i \in 1..q[2] : other[i] = coded[i]
  BY <1>1
<1>4. SubSeq(other, p[2] + 1, q[2]) = SubSeq(coded, p[2] + 1, q[2])
  BY <1>1, <1>2, <1>3, SameCells
<1>5. QED
  BY <1>4

\* One piece more.
LEMMA PiecesGrow ==
  ASSUME NEW k, NEW cuts, NEW plain, NEW coded, NEW m \in Nat, NEW n \in Nat,
         Pieces(k, cuts, plain, coded, m, n),
         NEW m2 \in Nat, NEW n2 \in Nat, m < m2, n < n2,
         Reads(k, SubSeq(coded, n + 1, n2), SubSeq(plain, m + 1, m2))
  PROVE  Pieces(k, cuts \cup {<<m2, n2>>}, plain, coded, m2, n2)
<1> DEFINE more == cuts \cup {<<m2, n2>>}
<1>1. more \subseteq (0..m2) \X (0..n2)
  <2>1. (0..m) \X (0..n) \subseteq (0..m2) \X (0..n2) /\ <<m2, n2>> \in (0..m2) \X (0..n2)
    OBVIOUS
  <2>2. QED
    BY <2>1 DEF Pieces
<1>2. <<0, 0>> \in more /\ <<m2, n2>> \in more
  BY DEF Pieces
<1>3. ASSUME NEW p \in more, p # <<m2, n2>>
      PROVE  \E q \in more :
               /\ p[1] < q[1] /\ p[2] < q[2]
               /\ Reads(k, SubSeq(coded, p[2] + 1, q[2]), SubSeq(plain, p[1] + 1, q[1]))
  <2>1. p \in cuts
    BY <1>3
  <2>2. CASE p = <<m, n>>
    <3> DEFINE q == <<m2, n2>>
    <3>1. p[1] = m /\ p[2] = n /\ q[1] = m2 /\ q[2] = n2 /\ q \in more
      BY <2>2
    <3>2. QED
      BY <3>1
  <2>3. CASE p # <<m, n>>
    BY <2>1, <2>3 DEF Pieces
  <2>4. QED
    BY <2>2, <2>3
<1>4. QED
  BY <1>1, <1>2, <1>3 DEF Pieces

-----------------------------------------------------------------------------
(* The invariant of the round trip                                           *)

\* What RoundTrip asks of the text.
Given == codec = "html" => IsUtf8(text)

\* While encoding, what is in the buffer is the code of what was read of the text.
Encoding == call = "encode" =>
  /\ source = text /\ ~again /\ ~inPlace
  /\ Given =>
       /\ codec = "html" => Starts(text, srcpos)
       /\ \E cuts : Pieces(codec, cuts, text, buffer, srcpos, bufpos)

\* While decoding it, what is in the buffer is the text, as far as the code was read, and
\* both stand where a piece ends.
Decoding == again =>
  /\ call # "encode" /\ inPlace
  /\ srclen < buflen \/ (srclen = 0 /\ buflen = 0)
  /\ Given => \E cuts, m :
       /\ m \in 0..Len(text)
       /\ Pieces(codec, cuts, text, source, m, srclen)
       /\ <<bufpos, srcpos>> \in cuts
       /\ \A i \in 1..bufpos : buffer[i] = text[i]
       /\ whole => m = Len(text)
       /\ call = "done" => srcpos = srclen

TripInv == Inv /\ Encoding /\ Decoding

\* A turn of an encoder makes a piece.
LEMMA EncoderTurn ==
  ASSUME TripInv, call = "encode", Looping, Given
  PROVE  /\ Readable(codec, Coded(Rest), Rest)
         /\ codec = "html" => Starts(text, srcpos + Coded(Rest).used)
<1>1. Rest = SubSeq(text, srcpos + 1, srclen) /\ srclen = Len(text)
  BY DEF TripInv, Encoding, Rest, srclen
<1>2. /\ codec \in Codecs /\ text \in Seq(Byte) /\ Len(text) \in Nat
      /\ srcpos \in Nat /\ srcpos < srclen
  BY <1>1 DEF TripInv, Inv, TypeOK, Looping, HexLimit, Codecs, srclen
<1>3. Rest \in Seq(Byte) /\ Rest # <<>>
  <2>1. Rest \in Seq(Byte) /\ Len(Rest) = Len(text) - srcpos
    BY <1>1, <1>2
  <2>2. Len(Rest) # 0
    BY <1>1, <1>2, <2>1
  <2>3. QED
    BY <2>1, <2>2
<1>4. CASE codec = "html"
  <2>1. IsUtf8(text) /\ Starts(text, srcpos)
    BY <1>4 DEF Given, TripInv, Encoding
  <2> DEFINE i == srcpos + 1
  <2>2. i \in 1..Len(text) /\ text[i] \notin 128..191 /\ i - 1 = srcpos
    BY <1>1, <1>2, <2>1 DEF Starts
  <2>3. Rest = SubSeq(text, i, Len(text))
    BY <1>1
  <2> HIDE DEF i
  <2>4. CharAhead(Rest) /\ Starts(text, srcpos + Utf8Decode(Rest)[1])
    BY <1>2, <2>1, <2>2, <2>3, NextStarts
  <2>5. Coded(Rest) = HtmlEncode(Rest)
    BY <1>4 DEF Coded
  <2>6. QED
    BY <1>3, <1>4, <2>4, <2>5, HtmlReadable
<1>5. CASE codec = "escape"
  BY <1>3, <1>5, EscapeReadable DEF Coded
<1>6. CASE codec = "encode"
  BY <1>3, <1>6, EncodeReadable DEF Coded
<1>7. CASE codec = "url"
  BY <1>3, <1>7, UrlReadable DEF Coded
<1>8. CASE codec = "xml"
  BY <1>3, <1>8, XmlReadable DEF Coded
<1>9. CASE codec = "hex"
  BY <1>3, <1>9, HexReadable DEF Coded
<1>10. QED
  BY <1>2, <1>4, <1>5, <1>6, <1>7, <1>8, <1>9 DEF Codecs

\* What a turn writes stands behind what was written before.
LEMMA WrittenAt ==
  ASSUME Inv, NEW bytes \in Seq(Byte), bufpos + Len(bytes) <= Len(buffer)
  PROVE  SubSeq(Written(bytes), bufpos + 1, bufpos + Len(bytes)) = bytes
<1> DEFINE to == bufpos + Len(bytes)
           w == Written(bytes)
           x == SubSeq(w, bufpos + 1, to)
<1>1. bufpos \in Nat /\ Len(bytes) \in Nat /\ Len(buffer) \in Nat /\ buffer \in Seq(Byte)
  BY DEF Inv, TypeOK
<1>2. w \in Seq(Byte) /\ Len(w) = Len(buffer)
  BY WrittenType
<1>3. \A i \in 1..Len(bytes) : w[bufpos + i] = bytes[i]
  <2> SUFFICES ASSUME NEW i \in 1..Len(bytes)
               PROVE  w[bufpos + i] = bytes[i]
    OBVIOUS
  <2>1. PICK j \in DOMAIN buffer : j = bufpos + i /\ j - bufpos = i /\ j - bufpos \in DOMAIN bytes
    BY <1>1
  <2>2. w[j] = bytes[j - bufpos]
    BY <2>1 DEF Written
  <2>3. QED
    BY <2>1, <2>2, Zenon
<1> HIDE DEF w
<1>4. x \in Seq(Byte) /\ Len(x) = Len(bytes) /\ \A i \in 1..Len(bytes) : x[i] = w[bufpos + i]
  BY <1>1, <1>2
<1> HIDE DEF x
<1>5. x = bytes
  BY <1>3, <1>4, SeqEqual
<1>6. QED
  BY <1>5 DEF x, w

\* What the next turn of a decoder reads and makes of the code.
LEMMA DecoderTurn ==
  ASSUME Inv, call = "decode", inPlace, NEW plain \in Seq(Byte), NEW cuts, NEW m \in 0..Len(plain),
         Pieces(codec, cuts, plain, source, m, srclen), <<bufpos, srcpos>> \in cuts,
         srcpos < srclen
  PROVE  \E q \in cuts :
           /\ q[1] \in Nat /\ q[1] <= m /\ bufpos < q[1]
           /\ q[2] \in Nat /\ q[2] <= srclen /\ srcpos < q[2]
           /\ codec = "hex" => srcpos + 1 < q[2]
           /\ Coded(Rest).used = q[2] - srcpos
           /\ Coded(Rest).emit = SubSeq(plain, bufpos + 1, q[1])
<1>1. /\ source \in Seq(Byte) /\ buffer \in Seq(Byte) /\ srclen = Len(source) /\ srclen \in Nat
      /\ srcpos \in Nat /\ bufpos \in Nat /\ srclen <= Len(buffer) /\ codec \in Codecs
  BY DEF Inv, TypeOK, PlaceInv, srclen
<1> DEFINE p == <<bufpos, srcpos>>
<1>2. p \in cuts /\ p # <<m, srclen>> /\ p[1] = bufpos /\ p[2] = srcpos
  BY <1>1
<1>3. PICK q \in cuts :
        /\ p[1] < q[1] /\ p[2] < q[2]
        /\ Reads(codec, SubSeq(source, p[2] + 1, q[2]), SubSeq(plain, p[1] + 1, q[1]))
  BY <1>2 DEF Pieces
<1>4. q[1] \in 0..m /\ q[2] \in 0..srclen
  BY DEF Pieces
<1>5. /\ q[1] \in Nat /\ q[1] <= m /\ bufpos < q[1]
      /\ q[2] \in Nat /\ q[2] <= srclen /\ srcpos < q[2]
  BY <1>1, <1>2, <1>3, <1>4
<1> DEFINE code == SubSeq(source, srcpos + 1, q[2])
           rest == SubSeq(source, q[2] + 1, srclen)
           unit == SubSeq(plain, bufpos + 1, q[1])
<1>6. Reads(codec, code, unit)
  BY <1>2, <1>3
<1>7. Len(code) = q[2] - srcpos /\ code \in Seq(Byte) /\ rest \in Seq(Byte)
  BY <1>1, <1>5
<1>8. Rest = code \o rest
  <2>1. \A i \in srcpos + 1..srclen : buffer[i] = source[i]
    BY DEF Inv, UnreadUntouched
  <2> DEFINE x == SubSeq(buffer, srcpos + 1, srclen)
             y == SubSeq(source, srcpos + 1, srclen)
             n == srclen - srcpos
  <2>2. n \in Nat /\ \A i \in 1..n : srcpos + i \in srcpos + 1..srclen
    BY <1>1
  <2>3. /\ x \in Seq(Byte) /\ Len(x) = n /\ \A i \in 1..n : x[i] = buffer[srcpos + i]
        /\ y \in Seq(Byte) /\ Len(y) = n /\ \A i \in 1..n : y[i] = source[srcpos + i]
    BY <1>1
  <2> HIDE DEF x, y, n
  <2>4. \A i \in 1..n : x[i] = y[i]
    BY <2>1, <2>2, <2>3
  <2>5. x = y
    BY <2>3, <2>4, SeqEqual
  <2>6. srcpos + 1 \in 1..Len(source) + 1 /\ q[2] \in srcpos + 1 - 1..Len(source) /\ srclen \in q[2]..Len(source)
    BY <1>1, <1>5
  <2>7. code \o rest = y
    <3>1. SubSeq(source, srcpos + 1, q[2]) \o SubSeq(source, q[2] + 1, srclen)
            = SubSeq(source, srcpos + 1, srclen)
      <4>1. \A c \in srcpos + 1 - 1..Len(source) : \A e \in c..Len(source) :
              SubSeq(source, srcpos + 1, c) \o SubSeq(source, c + 1, e) = SubSeq(source, srcpos + 1, e)
        BY <1>1, <2>6, ConcatAdjacentSubSeq
      <4>2. QED
        BY <2>6, <4>1, Zenon
    <3>2. QED
      BY <3>1 DEF y
  <2>8. Rest = x
    BY DEF Rest, x
  <2>9. QED
    BY <2>5, <2>7, <2>8
<1> HIDE DEF code, rest, unit
<1>9. Decoded(codec, Rest).used = Len(code) /\ Decoded(codec, Rest).emit = unit
  BY <1>6, <1>7, <1>8 DEF Reads
<1>10. Coded(Rest) = Decoded(codec, Rest)
  BY <1>1, Zenon DEF Coded, Decoded, Codecs
<1>11. codec = "hex" => Len(code) > 1
  BY <1>6 DEF Reads
<1>12. QED
  BY <1>1, <1>5, <1>7, <1>9, <1>10, <1>11 DEF unit

\* A turn of the encoder adds a piece.
LEMMA ConvertEncoding ==
  ASSUME TripInv, Convert
  PROVE  Encoding'
<1> SUFFICES ASSUME call' = "encode"
             PROVE  /\ source' = text' /\ ~again' /\ ~inPlace'
                    /\ Given' =>
                         /\ codec' = "html" => Starts(text, srcpos)'
                         /\ \E cuts : Pieces(codec, cuts, text, buffer, srcpos, bufpos)'
  BY DEF Encoding
<1> DEFINE turn == Coded(Rest)
<1>1. /\ Looping /\ bufpos' = bufpos + Len(turn.emit) /\ srcpos' = srcpos + turn.used
      /\ buffer' = Written(turn.emit)
      /\ UNCHANGED <<fixed, call, again, inPlace, source, whole>>
  BY DEF Convert
<1>2. Inv /\ Inv'
  BY ConvertInv DEF TripInv
<1>3. call = "encode" /\ source = text /\ ~again /\ ~inPlace
  BY <1>1 DEF TripInv, Encoding
<1>4. /\ codec' = codec /\ text' = text /\ source' = source /\ again' = again /\ inPlace' = inPlace
      /\ Given' = Given
  BY <1>1 DEF fixed, Given
<1> SUFFICES ASSUME Given
             PROVE  /\ codec = "html" => Starts(text, srcpos')
                    /\ \E cuts : Pieces(codec, cuts, text, buffer', srcpos', bufpos')
  BY <1>3, <1>4 DEF Starts, Pieces
<1>5. Readable(codec, turn, Rest) /\ (codec = "html" => Starts(text, srcpos'))
  BY <1>1, <1>3, EncoderTurn
<1>6. PICK cuts : Pieces(codec, cuts, text, buffer, srcpos, bufpos)
  BY <1>3 DEF TripInv, Encoding
<1>7. /\ turn.emit \in Seq(Byte) /\ Len(turn.emit) \in Nat /\ Len(turn.emit) > 0
      /\ turn.used \in 1..Len(Rest) /\ turn.used \in Nat /\ turn.used > 0
  BY <1>5 DEF Readable, Reads
<1>8. /\ srcpos \in Nat /\ bufpos \in Nat /\ text \in Seq(Byte) /\ Len(text) \in Nat
      /\ srclen = Len(text) /\ srcpos <= Len(text)
      /\ buffer \in Seq(Byte) /\ Len(buffer) \in Nat /\ bufpos <= Len(buffer)
      /\ buffer' \in Seq(Byte) /\ Len(buffer') = Len(buffer)
      /\ bufpos' <= Len(buffer)
  <2>1. /\ srcpos \in Nat /\ bufpos \in Nat /\ bufpos <= buflen /\ buflen \in Nat
        /\ text \in Seq(Byte) /\ buffer \in Seq(Byte) /\ buflen <= Len(buffer)
    BY <1>2 DEF Inv, TypeOK
  <2>2. srclen = Len(text) /\ srcpos <= Len(text)
    BY <1>2, <1>3 DEF Inv, TypeOK, srclen
  <2>3. buffer' \in Seq(Byte) /\ Len(buffer') = Len(buffer)
    BY <1>1, <1>2, <1>7, WrittenType
  <2>4. bufpos' <= buflen /\ bufpos' \in Nat
    BY <1>2, EmissionFits
  <2>5. QED
    BY <2>1, <2>2, <2>3, <2>4
<1> HIDE DEF turn
<1>9. SubSeq(buffer', bufpos + 1, bufpos') = turn.emit
  <2>1. bufpos + Len(turn.emit) <= Len(buffer)
    BY <1>1, <1>8
  <2>2. SubSeq(Written(turn.emit), bufpos + 1, bufpos + Len(turn.emit)) = turn.emit
    BY <1>2, <1>7, <2>1, WrittenAt
  <2>3. QED
    BY <1>1, <2>2
<1>10. \A i \in 1..bufpos : buffer'[i] = buffer[i]
  <2>1. \A i \in 1..Len(buffer) : i <= bufpos => buffer'[i] = buffer[i]
    BY <1>1, <1>2, <1>7, WrittenType
  <2>2. \A i \in 1..bufpos : i \in 1..Len(buffer) /\ i <= bufpos
    BY <1>8
  <2>3. QED
    BY <2>1, <2>2
<1>11. SubSeq(Rest, 1, turn.used) = SubSeq(text, srcpos + 1, srcpos')
  <2>1. Rest = SubSeq(text, srcpos + 1, Len(text)) /\ Len(Rest) = Len(text) - srcpos
    BY <1>3, <1>8 DEF Rest
  <2>2. /\ srcpos + 1 \in 1..Len(text) /\ Len(text) \in 1..Len(text)
        /\ 1 \in 1..Len(text) - (srcpos + 1) + 1 /\ turn.used \in 1..Len(text) - (srcpos + 1) + 1
    BY <1>7, <1>8, <2>1
  <2>3. SubSeq(SubSeq(text, srcpos + 1, Len(text)), 1, turn.used)
          = SubSeq(text, srcpos + 1 + 1 - 1, srcpos + 1 + turn.used - 1)
    BY <1>8, <2>2, SubSeqOfSubSeq
  <2>4. srcpos + 1 + 1 - 1 = srcpos + 1 /\ srcpos + 1 + turn.used - 1 = srcpos'
    <3>1. srcpos' = srcpos + turn.used
      BY <1>1
    <3>2. srcpos \in Nat /\ turn.used \in Nat
      BY <1>7, <1>8
    <3>3. QED
      BY <3>1, <3>2
  <2>5. QED
    BY <2>1, <2>3, <2>4
<1>12. Reads(codec, SubSeq(buffer', bufpos + 1, bufpos'), SubSeq(text, srcpos + 1, srcpos'))
  BY <1>5, <1>9, <1>11 DEF Readable
<1>13. Pieces(codec, cuts, text, buffer', srcpos, bufpos)
  BY <1>6, <1>8, <1>10, PiecesKept
<1>14. srcpos' \in Nat /\ bufpos' \in Nat /\ srcpos < srcpos' /\ bufpos < bufpos'
  BY <1>1, <1>7, <1>8
<1>15. Pieces(codec, cuts \cup {<<srcpos', bufpos'>>}, text, buffer', srcpos', bufpos')
  BY <1>8, <1>12, <1>13, <1>14, PiecesGrow
<1>16. QED
  BY <1>5, <1>15

\* A turn of the decoder takes a piece.
LEMMA ConvertDecoding ==
  ASSUME TripInv, Convert
  PROVE  Decoding'
<1> DEFINE turn == Coded(Rest)
<1>1. /\ bufpos' = bufpos + Len(turn.emit) /\ srcpos' = srcpos + turn.used
      /\ Looping /\ call # "done"
      /\ buffer' = Written(turn.emit)
      /\ UNCHANGED <<fixed, call, again, inPlace, source, whole>>
  BY DEF Convert
<1> SUFFICES ASSUME again
             PROVE  Decoding'
  BY <1>1 DEF Decoding
<1>2. Inv /\ Inv'
  BY ConvertInv DEF TripInv
<1>3. call = "decode" /\ inPlace
  BY <1>1, <1>2 DEF TripInv, Decoding, Inv, TypeOK
<1>4. /\ codec' = codec /\ text' = text /\ source' = source /\ again' = again /\ inPlace' = inPlace
      /\ call' = call /\ whole' = whole /\ buflen' = buflen /\ srclen' = srclen /\ Given' = Given
  BY <1>1 DEF fixed, Given, srclen
<1> SUFFICES ASSUME Given
             PROVE  \E cuts, m :
                      /\ m \in 0..Len(text')
                      /\ Pieces(codec', cuts, text', source', m, srclen')
                      /\ <<bufpos', srcpos'>> \in cuts
                      /\ \A i \in 1..bufpos' : buffer'[i] = text'[i]
                      /\ whole' => m = Len(text')
                      /\ call' = "done" => srcpos' = srclen'
  <2>1. call' # "encode" /\ inPlace' /\ (srclen' < buflen' \/ (srclen' = 0 /\ buflen' = 0))
    BY <1>3, <1>4 DEF TripInv, Decoding
  <2>2. QED
    BY <1>4, <2>1 DEF Decoding, Pieces
<1>5. PICK cuts, m :
        /\ m \in 0..Len(text)
        /\ Pieces(codec, cuts, text, source, m, srclen)
        /\ <<bufpos, srcpos>> \in cuts
        /\ \A i \in 1..bufpos : buffer[i] = text[i]
        /\ whole => m = Len(text)
  BY DEF TripInv, Decoding
<1>6. srcpos < srclen /\ text \in Seq(Byte)
  BY <1>1, <1>2, <1>3 DEF Looping, HexLimit, Inv, TypeOK, Codecs, srclen
<1>7. PICK q \in cuts :
        /\ q[1] \in Nat /\ q[1] <= m /\ bufpos < q[1]
        /\ q[2] \in Nat /\ q[2] <= srclen /\ srcpos < q[2]
        /\ turn.used = q[2] - srcpos
        /\ turn.emit = SubSeq(text, bufpos + 1, q[1])
  BY <1>2, <1>3, <1>5, <1>6, DecoderTurn
<1> HIDE DEF turn
<1>8. /\ srcpos \in Nat /\ bufpos \in Nat /\ m \in Nat /\ m <= Len(text) /\ Len(text) \in Nat
      /\ Len(buffer) \in Nat
  BY <1>2, <1>5, <1>6 DEF Inv, TypeOK
<1>9. turn.emit \in Seq(Byte) /\ Len(turn.emit) = q[1] - bufpos
  BY <1>6, <1>7, <1>8
<1>10. bufpos' = q[1] /\ srcpos' = q[2]
  <2>1. bufpos' = bufpos + (q[1] - bufpos) /\ srcpos' = srcpos + (q[2] - srcpos)
    BY <1>1, <1>7, <1>9, Zenon
  <2>2. q[1] \in Nat /\ q[2] \in Nat /\ bufpos \in Nat /\ srcpos \in Nat
    BY <1>7, <1>8, Zenon
  <2>3. QED
    BY <2>1, <2>2
<1>11. <<bufpos', srcpos'>> \in cuts
  <2>1. q = <<q[1], q[2]>>
    BY <1>5 DEF Pieces
  <2>2. QED
    BY <1>7, <1>10, <2>1
<1>12. \A i \in 1..bufpos' : buffer'[i] = text[i]
  <2> SUFFICES ASSUME NEW i \in 1..bufpos'
               PROVE  buffer'[i] = text[i]
    OBVIOUS
  <2>1. bufpos' <= Len(buffer)
    <3>1. bufpos' \in Nat /\ bufpos' <= buflen /\ buflen \in Nat /\ buflen <= Len(buffer)
      BY <1>2, EmissionFits DEF Inv, TypeOK
    <3>2. QED
      BY <1>8, <3>1
  <2>2. CASE i <= bufpos
    <3>1. i \in 1..Len(buffer) /\ i \in 1..bufpos
      BY <1>8, <1>10, <1>7, <2>1, <2>2
    <3>2. buffer'[i] = buffer[i]
      BY <1>1, <1>2, <1>9, <2>2, <3>1, WrittenType
    <3>3. QED
      BY <1>5, <3>1, <3>2
  <2>3. CASE i > bufpos
    <3> DEFINE j == i - bufpos
    <3>1. /\ j \in 1..Len(turn.emit) /\ bufpos + 1 + j - 1 = i /\ j \in 1..q[1] - bufpos
          /\ i \in 1..Len(buffer)
      BY <1>7, <1>8, <1>9, <1>10, <2>1, <2>3
    <3>2. turn.emit[j] = text[i]
      <4> HIDE DEF j
      <4>1. turn.emit[j] = text[bufpos + 1 + j - 1]
        <5>1. SubSeq(text, bufpos + 1, q[1])[j] = text[bufpos + 1 + j - 1]
          <6>1. \A k \in 1..q[1] - bufpos : SubSeq(text, bufpos + 1, q[1])[k] = text[bufpos + 1 + k - 1]
            <7>1. q[1] \in Nat /\ bufpos \in Nat /\ q[1] <= Len(text) /\ Len(text) \in Nat
              BY <1>7, <1>8
            <7>2. QED
              BY <1>6, <7>1
          <6>2. QED
            BY <3>1, <6>1
        <5>2. QED
          BY <1>7, <5>1
      <4>2. QED
        BY <3>1, <4>1
    <3>3. buffer'[i] = turn.emit[j]
      <4>1. DOMAIN buffer = 1..Len(buffer) /\ DOMAIN turn.emit = 1..Len(turn.emit)
        BY <1>2, <1>9 DEF Inv, TypeOK
      <4>2. i - bufpos \in DOMAIN turn.emit /\ i \in DOMAIN buffer
        BY <3>1, <4>1
      <4>3. QED
        BY <1>1, <4>2 DEF Written
    <3>4. QED
      BY <3>2, <3>3
  <2>4. QED
    BY <1>7, <1>8, <1>10, <2>2, <2>3
<1>13. QED
  BY <1>1, <1>4, <1>5, <1>11, <1>12

\* The '\0' stands behind what was written.
LEMMA ReturnKeeps ==
  ASSUME Inv, Return
  PROVE  /\ bufpos \in Nat /\ bufpos <= Len(buffer) /\ Len(buffer) \in Nat
         /\ \A i \in 1..bufpos : buffer'[i] = buffer[i]
<1>1. <<0>> \in Seq(Byte)
  BY DEF Byte
<1>2. bufpos \in Nat /\ bufpos <= buflen /\ buflen \in Nat /\ Len(buffer) \in Nat /\ buflen <= Len(buffer)
  BY DEF Inv, TypeOK
<1>3. \A i \in 1..bufpos : i \in 1..Len(buffer) /\ i <= bufpos
  BY <1>2
<1>4. CASE buffer' = Written(<<0>>)
  <2>1. \A i \in 1..Len(buffer) : i <= bufpos => Written(<<0>>)[i] = buffer[i]
    BY <1>1, WrittenType
  <2>2. QED
    BY <1>2, <1>3, <1>4, <2>1
<1>5. CASE buffer' = buffer
  BY <1>2, <1>5
<1>6. QED
  BY <1>4, <1>5 DEF Return

\* The decoder does not stop before the end of the code: nothing that was encoded is a
\* sequence it gives up, and what it makes has room where the code had.
LEMMA StopsAtEnd ==
  ASSUME Inv, Decoding, Stops, again, call # "done", Given
  PROVE  srcpos = srclen
<1>1. call = "decode" /\ inPlace /\ (srclen < buflen \/ (srclen = 0 /\ buflen = 0))
  BY DEF Inv, TypeOK, Decoding
<1>2. /\ srcpos \in Nat /\ bufpos \in Nat /\ srclen \in Nat /\ buflen \in Nat /\ srcpos <= srclen
      /\ text \in Seq(Byte) /\ codec \in Codecs
  BY DEF Inv, TypeOK, srclen
<1>3. bufpos <= srcpos
  BY <1>1 DEF Inv, UnreadUntouched
<1> SUFFICES ASSUME srcpos < srclen
             PROVE  FALSE
  BY <1>2
<1>4. PICK cuts, m :
        /\ m \in 0..Len(text)
        /\ Pieces(codec, cuts, text, source, m, srclen) /\ <<bufpos, srcpos>> \in cuts
  BY DEF Decoding
<1>5. PICK q \in cuts :
        /\ q[2] \in Nat /\ q[2] <= srclen /\ srcpos < q[2]
        /\ codec = "hex" => srcpos + 1 < q[2]
        /\ Coded(Rest).used = q[2] - srcpos
  BY <1>1, <1>2, <1>4, DecoderTurn
<1> DEFINE next == q[2]
<1>6. /\ next \in Nat /\ next <= srclen /\ srcpos < next
      /\ codec = "hex" => srcpos + 1 < next
      /\ Coded(Rest).used = next - srcpos
  BY <1>5
<1> HIDE DEF next
<1>7. buflen > 0 /\ bufpos + 1 < buflen /\ (codec = "hex" => srcpos + 1 < srclen)
  BY <1>1, <1>2, <1>3, <1>6
<1>8. Looping
  BY <1>1, <1>7 DEF Looping
<1> DEFINE turn == Coded(Rest)
<1>9. turn.emit \in Seq(Byte) /\ turn.spare \in {0, 1} /\ Len(turn.emit) <= turn.used
  BY <1>1, <1>8, CodedTurn DEF IsTurn, Shrinking
<1>10. Len(turn.emit) \in Nat
  BY <1>9
<1> HIDE DEF turn
<1>11. turn.used = next - srcpos
  BY <1>6 DEF turn
<1>12. bufpos + Len(turn.emit) + turn.spare <= buflen
  BY <1>1, <1>2, <1>3, <1>6, <1>9, <1>10, <1>11
<1>13. turn.used # 0 /\ Fits(turn)
  <2>1. turn.used # 0
    BY <1>2, <1>6, <1>11
  <2>2. QED
    BY <1>12, <2>1, Zenon DEF Fits
<1>14. QED
  BY <1>8, <1>13, Zenon DEF Stops, turn

\* The caller of an encoder decodes what it wrote; the decoder ends with the text.
LEMMA ReturnDecoding ==
  ASSUME TripInv, Return
  PROVE  Decoding'
<1>1. Inv
  BY DEF TripInv
<1>2. /\ codec' = codec /\ text' = text /\ buflen' = buflen /\ Given' = Given
  BY DEF Return, fixed, Given
<1>3. /\ bufpos \in Nat /\ bufpos <= Len(buffer) /\ Len(buffer) \in Nat
      /\ \A i \in 1..bufpos : buffer'[i] = buffer[i]
  BY <1>1, ReturnKeeps
<1>4. CASE call = "encode" /\ caller = "buffer"
  <2>1. /\ call' = "decode" /\ again' = TRUE /\ inPlace' = TRUE
        /\ source' = SubSeq(buffer, 1, bufpos) /\ srcpos' = 0 /\ bufpos' = 0
    BY <1>4 DEF Return
  <2>2. source = text /\ ~again
    BY <1>4 DEF TripInv, Encoding
  <2>3. buffer \in Seq(Byte) /\ srcpos \in 0..Len(text) /\ srclen = Len(text)
    BY <1>1, <2>2 DEF Inv, TypeOK, srclen
  <2>4. /\ source' \in Seq(Byte) /\ Len(source') = bufpos /\ srclen' = bufpos
        /\ \A i \in 1..bufpos : source'[i] = buffer[i]
    BY <1>3, <2>1, <2>3 DEF srclen
  <2>5. bufpos < buflen \/ (bufpos = 0 /\ buflen = 0)
    BY <1>1, <1>4 DEF Inv, TypeOK, TerminatorFits
  <2>6. ASSUME Given
        PROVE  \E cuts, m :
                 /\ m \in 0..Len(text)
                 /\ Pieces(codec, cuts, text, source', m, srclen')
                 /\ <<bufpos', srcpos'>> \in cuts
                 /\ \A i \in 1..bufpos' : buffer'[i] = text[i]
                 /\ whole' => m = Len(text)
                 /\ call' = "done" => srcpos' = srclen'
    <3>1. PICK cuts : Pieces(codec, cuts, text, buffer, srcpos, bufpos)
      BY <1>4, <2>6 DEF TripInv, Encoding
    <3>2. srcpos \in Nat /\ bufpos <= Len(source')
      BY <1>3, <2>3, <2>4
    <3>3. Pieces(codec, cuts, text, source', srcpos, bufpos)
      BY <1>3, <2>3, <2>4, <3>1, <3>2, PiecesKept
    <3>4. <<bufpos', srcpos'>> \in cuts
      BY <2>1, <3>1 DEF Pieces
    <3>5. whole' => srcpos = Len(text)
      BY <2>2, <2>3 DEF Return
    <3>6. \A i \in 1..bufpos' : buffer'[i] = text[i]
      BY <2>1
    <3>7. QED
      BY <2>1, <2>3, <2>4, <3>3, <3>4, <3>5, <3>6
  <2>7. call' # "encode" /\ inPlace' /\ (srclen' < buflen' \/ (srclen' = 0 /\ buflen' = 0))
    BY <1>2, <2>1, <2>4, <2>5
  <2>8. QED
    BY <1>2, <2>6, <2>7 DEF Decoding
<1>5. CASE ~(call = "encode" /\ caller = "buffer")
  <2>1. /\ call' = "done" /\ again' = again /\ inPlace' = inPlace /\ source' = source
        /\ srcpos' = srcpos /\ bufpos' = bufpos /\ srclen' = srclen
    BY <1>5 DEF Return, srclen
  <2> SUFFICES ASSUME again
               PROVE  Decoding'
    BY <2>1 DEF Decoding
  <2>2. whole' = whole /\ call # "done" /\ Stops
    BY DEF Return
  <2>3. Decoding
    BY DEF TripInv
  <2>4. inPlace /\ (srclen < buflen \/ (srclen = 0 /\ buflen = 0))
    BY <2>3 DEF Decoding
  <2>5. ASSUME Given
        PROVE  \E cuts, m :
                 /\ m \in 0..Len(text)
                 /\ Pieces(codec, cuts, text, source', m, srclen')
                 /\ <<bufpos', srcpos'>> \in cuts
                 /\ \A i \in 1..bufpos' : buffer'[i] = text[i]
                 /\ whole' => m = Len(text)
                 /\ call' = "done" => srcpos' = srclen'
    <3>1. PICK cuts, m :
            /\ m \in 0..Len(text)
            /\ Pieces(codec, cuts, text, source, m, srclen)
            /\ <<bufpos, srcpos>> \in cuts
            /\ \A i \in 1..bufpos : buffer[i] = text[i]
            /\ whole => m = Len(text)
      BY <2>3, <2>5 DEF Decoding
    <3>2. srcpos = srclen
      BY <1>1, <2>2, <2>3, <2>5, StopsAtEnd
    <3>3. \A i \in 1..bufpos' : buffer'[i] = text[i]
      BY <1>3, <2>1, <3>1
    <3>4. QED
      BY <2>1, <2>2, <3>1, <3>2, <3>3
  <2>6. call' # "encode" /\ inPlace' /\ (srclen' < buflen' \/ (srclen' = 0 /\ buflen' = 0))
    BY <1>2, <2>1, <2>4
  <2>7. QED
    BY <1>2, <2>5, <2>6 DEF Decoding
<1>6. QED
  BY <1>4, <1>5

\* Every call starts with nothing encoded.
LEMMA InitTrip == Init => TripInv
<1> SUFFICES ASSUME Init
             PROVE  TripInv
  OBVIOUS
<1>1. Inv
  BY InitInv
<1>2. Decoding
  BY DEF Init, Decoding
<1>3. Encoding
  <2> SUFFICES ASSUME call = "encode"
               PROVE  /\ source = text /\ ~again /\ ~inPlace
                      /\ Given => /\ codec = "html" => Starts(text, srcpos)
                                  /\ \E cuts : Pieces(codec, cuts, text, buffer, srcpos, bufpos)
    BY DEF Encoding
  <2>1. source = text /\ ~again /\ ~inPlace /\ srcpos = 0 /\ bufpos = 0
    BY DEF Init
  <2>2. ASSUME Given, codec = "html"
        PROVE  Starts(text, 0)
    <3>1. IsUtf8(text) /\ text \in Seq(Byte)
      BY <1>1, <2>2 DEF Given, Inv, TypeOK
    <3>2. ASSUME 0 < Len(text), text[1] \in 128..191
          PROVE  FALSE
      <4>1. 1 \in 1..Len(text)
        BY <3>1, <3>2
      <4>2. \E k \in 1..1 - 1 : text[k] >= 192
        BY <3>1, <3>2, <4>1, Utf8At
      <4>3. QED
        BY <4>2
    <3>3. 0 + 1 = 1
      OBVIOUS
    <3>4. QED
      BY <3>2, <3>3 DEF Starts
  <2>3. Pieces(codec, {<<0, 0>>}, text, buffer, 0, 0)
    BY DEF Pieces
  <2>4. QED
    BY <2>1, <2>2, <2>3
<1>4. QED
  BY <1>1, <1>2, <1>3 DEF TripInv

\* Every step keeps it.
LEMMA NextTrip == TripInv /\ [Next]_vars => TripInv'
<1> SUFFICES ASSUME TripInv, [Next]_vars
             PROVE  TripInv'
  OBVIOUS
<1>1. Inv'
  BY NextInv DEF TripInv
<1>2. CASE Convert
  BY <1>1, <1>2, ConvertEncoding, ConvertDecoding DEF TripInv
<1>3. CASE Return
  <2>1. call' # "encode"
    BY <1>3 DEF Return
  <2>2. Encoding'
    BY <2>1 DEF Encoding
  <2>3. QED
    BY <1>1, <1>3, <2>2, ReturnDecoding DEF TripInv
<1>4. CASE UNCHANGED vars
  <2>1. /\ call' = call /\ codec' = codec /\ text' = text /\ source' = source /\ buffer' = buffer
        /\ again' = again /\ inPlace' = inPlace /\ srcpos' = srcpos /\ bufpos' = bufpos
        /\ buflen' = buflen /\ whole' = whole /\ Given' = Given /\ srclen' = srclen
    BY <1>4 DEF vars, fixed, Given, srclen
  <2>2. Encoding'
    BY <2>1 DEF TripInv, Encoding
  <2>3. Decoding'
    BY <2>1 DEF TripInv, Decoding
  <2>4. QED
    BY <1>1, <2>2, <2>3 DEF TripInv
<1>5. QED
  BY <1>2, <1>3, <1>4 DEF Next, Done

\* What the invariant says of a decoder that has returned.
LEMMA TripRoundTrip == TripInv => RoundTrip
<1> SUFFICES ASSUME TripInv, call = "done", again, Given
             PROVE  /\ IsPrefix(SubSeq(buffer, 1, bufpos), text)
                    /\ whole => bufpos = Len(text)
  BY DEF RoundTrip, Given
<1>1. PICK cuts, m :
        /\ m \in 0..Len(text)
        /\ Pieces(codec, cuts, text, source, m, srclen)
        /\ <<bufpos, srcpos>> \in cuts
        /\ \A i \in 1..bufpos : buffer[i] = text[i]
        /\ whole => m = Len(text)
        /\ srcpos = srclen
  BY DEF TripInv, Decoding
<1>2. /\ text \in Seq(Byte) /\ Len(text) \in Nat /\ buffer \in Seq(Byte) /\ Len(buffer) \in Nat
      /\ bufpos \in Nat /\ bufpos <= Len(buffer) /\ srclen \in Nat
  BY DEF TripInv, Inv, TypeOK, srclen
<1>3. bufpos = m
  <2> DEFINE p == <<bufpos, srclen>>
  <2>1. p \in cuts /\ p[2] = srclen
    BY <1>1
  <2>2. \A q \in cuts : q[2] \in 0..srclen
    BY <1>1 DEF Pieces
  <2>3. \A q \in cuts : ~(p[2] < q[2])
    BY <1>2, <2>1, <2>2
  <2>4. p = <<m, srclen>>
    <3> HIDE DEF p
    <3>1. QED
      BY <1>1, <2>1, <2>3 DEF Pieces
  <2>5. QED
    BY <2>4
<1>4. bufpos <= Len(text)
  BY <1>1, <1>2, <1>3
<1> DEFINE out == SubSeq(buffer, 1, bufpos)
<1>5. out \in Seq(Byte) /\ Len(out) = bufpos /\ \A i \in 1..bufpos : out[i] = buffer[i]
  BY <1>2
<1> HIDE DEF out
<1>6. IsPrefix(out, text)
  <2>1. \A i \in Nat : 1 <= i /\ i <= Len(out) => text[i] = out[i]
    BY <1>1, <1>2, <1>5
  <2>2. QED
    BY <1>2, <1>4, <1>5, <2>1, PrefixAt
<1>7. QED
  BY <1>1, <1>3, <1>6 DEF out

-----------------------------------------------------------------------------
(* The theorems                                                              *)

\* The variables have their types: bufpos never passes the length of the buffer, and
\* srcpos never that of the source (stringencode.cc:65-478).
THEOREM Typing == Spec => []TypeOK
<1>1. Inv => TypeOK
  BY DEF Inv
<1>2. QED
  BY <1>1, AlwaysInv, PTL

\* Whatever the text and the length of the buffer, what a coder has written ends in the
\* buffer, with a cell left for the '\0' unless a character reference filled it
\* (stringencode.cc:65-478).
THEOREM OutputInBuffer == Spec => []TerminatorFits
<1>1. Inv => TerminatorFits
  BY DEF Inv
<1>2. QED
  BY <1>1, AlwaysInv, PTL

\* Decoding in place reads what the caller gave: no turn of any decoder overwrites what
\* it has not read yet (stringencode.h:57,69,82,89,96).
THEOREM InPlaceDecoding == Spec => []UnreadUntouched
<1>1. Inv => UnreadUntouched
  BY DEF Inv
<1>2. QED
  BY <1>1, AlwaysInv, PTL

\* Decoding in place what an encoder wrote gives the text back, whatever the text and the
\* buffer's length: the whole text if the encoder had room for it, and otherwise a prefix
\* that ends between two characters (stringencode.cc:65-478).
THEOREM EncodeThenDecode == Spec => []RoundTrip
<1>1. Spec => []TripInv
  BY InitTrip, NextTrip, PTL DEF Spec
<1>2. QED
  BY <1>1, TripRoundTrip, PTL

=============================================================================
