----------------------------- MODULE StringEncode -----------------------------
(***************************************************************************)
(* What one turn of the loop of each coder in common/base/stringencode.cc    *)
(* reads and writes.  Characters are their codes.                           *)
(*                                                                         *)
(* A turn is a record: how many characters of the source it uses (0: the     *)
(* coder gives up), what it emits, and how many cells of the buffer it wants *)
(* to be left.  rest is what the source has left, never empty.              *)
(***************************************************************************)
EXTENDS Integers, Sequences, FiniteSets, SequencesExt

CONSTANTS
  Illegal, \* the argument "illegal" of escape() and encode()
  Esc      \* their argument "escape"

Byte == 0..255

HexDigits == 48..57 \cup 97..102

\* "hex digits should not be used as illegal characters" (stringencode.h:64).
ASSUME EscapeAssumption ==
  Esc \in Byte \ HexDigits /\ Illegal \subseteq Byte \ HexDigits

Turn(used, emit) == [used |-> used, emit |-> emit, spare |-> 1]
GiveUp == Turn(0, <<>>)
Plain(rest) == Turn(1, <<rest[1]>>)

Percent == 37
Plus == 43
Space == 32
Amp == 38
Hash == 35
Semicolon == 59
LowerX == 120

-----------------------------------------------------------------------------
(* Hexadecimal digits                                                        *)

\* hex_encode(unsigned char)
HexEncode(v) == IF v < 10 THEN 48 + v ELSE 87 + v

\* hex_decode(char), for every character: the result is an unsigned char.
HexDecode(ch) ==
  LET lower == IF ch \in 65..90 THEN ch + 32 ELSE ch IN
  IF ch >= 128 \/ ch <= 57 THEN (ch - 48) % 256 ELSE (lower - 87) % 256

\* x | y of two numbers of four bits.
Or4(x, y) ==
  LET bit(b) == IF (x \div b) % 2 = 1 \/ (y \div b) % 2 = 1 THEN b ELSE 0
  IN bit(1) + bit(2) + bit(4) + bit(8)

\* (hex_decode(a) << 4) | hex_decode(b), as a char.
HexByte(a, b) ==
  LET x == HexDecode(a)
      y == HexDecode(b)
  IN 16 * Or4(x % 16, y \div 16) + (y % 16)

HexPair(ch) == <<HexEncode(ch \div 16), HexEncode(ch % 16)>>

-----------------------------------------------------------------------------
(* escape(), encode(), url_encode(), hex_encode() and their inverses          *)

\* strchr() finds the terminator of "illegal" as well.
Escaped(ch) == ch \in Illegal \cup {0, Esc}

Escape(rest) == IF Escaped(rest[1]) THEN Turn(1, <<Esc, rest[1]>>) ELSE Plain(rest)

Unescape(rest) ==
  IF rest[1] = Esc /\ Len(rest) >= 2 THEN Turn(2, <<rest[2]>>) ELSE Plain(rest)

Encode(rest) == IF Escaped(rest[1]) THEN Turn(1, <<Esc>> \o HexPair(rest[1])) ELSE Plain(rest)

Decode(rest) ==
  IF rest[1] = Esc /\ Len(rest) >= 3 THEN Turn(3, <<HexByte(rest[2], rest[3])>>)
  ELSE Plain(rest)

\* The characters of ASCII_CLASS with URL_UNSAFE.
UrlUnsafe == 0..32 \cup 34..38 \cup {43, 44, 47} \cup 58..64 \cup 91..94
             \cup {96} \cup 123..125 \cup {127}

UrlEncode(rest) ==
  IF rest[1] \in UrlUnsafe THEN Turn(1, <<Percent>> \o HexPair(rest[1])) ELSE Plain(rest)

\* Mutant: the last "%xx" of the source is taken as it is.
UrlDecode_short(rest) ==
  CASE rest[1] = Plus -> Turn(1, <<Space>>)
    [] rest[1] = Percent /\ Len(rest) > 3 -> Turn(3, <<HexByte(rest[2], rest[3])>>)
    [] OTHER -> Plain(rest)

UrlDecode(rest) ==
  CASE rest[1] = Plus -> Turn(1, <<Space>>)
    [] rest[1] = Percent /\ Len(rest) >= 3 -> Turn(3, <<HexByte(rest[2], rest[3])>>)
    [] OTHER -> Plain(rest)

HexEncodes(rest) == Turn(1, HexPair(rest[1]))
HexDecodes(rest) == Turn(2, <<HexByte(rest[1], rest[2])>>)

-----------------------------------------------------------------------------
(* UTF-8                                                                     *)

Trailer(rest, i) == Len(rest) >= i /\ rest[i] \div 64 = 2

\* The six bits of a trailer behind those of v.
Join(v, byte) == v * 64 + (byte % 64)

\* utf8_decode(): the number of bytes used and the value; overlong forms are accepted.
Utf8Decode(rest) ==
  IF rest[1] < 128 THEN <<1, rest[1]>>
  ELSE IF rest[1] \div 32 = 6 /\ Trailer(rest, 2) THEN <<2, Join(rest[1] % 32, rest[2])>>
  ELSE IF rest[1] \div 16 = 14 /\ Trailer(rest, 2) /\ Trailer(rest, 3)
    THEN <<3, Join(Join(rest[1] % 16, rest[2]), rest[3])>>
  ELSE IF rest[1] \div 8 = 30 /\ Trailer(rest, 2) /\ Trailer(rest, 3) /\ Trailer(rest, 4)
    THEN <<4, Join(Join(Join(rest[1] % 8, rest[2]), rest[3]), rest[4])>>
  ELSE <<0, 0>>

Utf8Max == 2097151 \* 0x1FFFFF

\* Mutant: only the longest form.
Utf8Encode_long(v) ==
  IF v > Utf8Max THEN <<>>
  ELSE <<240 + v \div 262144, 128 + ((v \div 4096) % 64), 128 + ((v \div 64) % 64), 128 + (v % 64)>>

\* utf8_encode(), if there is room.
Utf8Encode(v) ==
  IF v \notin Nat \/ v > Utf8Max THEN <<>>
  ELSE IF v <= 127 THEN <<v>>
  ELSE IF v <= 2047 THEN <<192 + v \div 64, 128 + (v % 64)>>
  ELSE IF v <= 65535 THEN <<224 + v \div 4096, 128 + ((v \div 64) % 64), 128 + (v % 64)>>
  ELSE <<240 + v \div 262144, 128 + ((v \div 4096) % 64), 128 + ((v \div 64) % 64),
         128 + (v % 64)>>

-----------------------------------------------------------------------------
(* html_encode(), xml_encode() and xml_decode()                               *)

\* The characters of ASCII_CLASS with XML_UNSAFE or HTML_UNSAFE.
XmlUnsafe == {34, 38, 39, 60, 62}

\* &quot; &amp; &apos; &lt; &gt;
Entity(ch) ==
  CASE ch = 34 -> <<Amp, 113, 117, 111, 116, Semicolon>>
    [] ch = 38 -> <<Amp, 97, 109, 112, Semicolon>>
    [] ch = 39 -> <<Amp, 97, 112, 111, 115, Semicolon>>
    [] ch = 60 -> <<Amp, 108, 116, Semicolon>>
    [] ch = 62 -> <<Amp, 103, 116, Semicolon>>

Tens == <<1, 10, 100, 1000, 10000, 100000, 1000000>>

\* "&#%lu;" of a value of at most seven digits.
Numeric(v) ==
  LET n == 1 + Cardinality({k \in 2..7 : v >= Tens[k]})
  IN <<Amp, Hash>> \o [i \in 1..n |-> 48 + ((v \div Tens[n + 1 - i]) % 10)] \o <<Semicolon>>

XmlEncode(rest) == IF rest[1] \in XmlUnsafe THEN Turn(1, Entity(rest[1])) ELSE Plain(rest)

\* Beyond ASCII a character becomes its number; a byte that is no UTF-8 its own.
HtmlEncode(rest) ==
  LET utf8 == Utf8Decode(rest) IN
  IF rest[1] >= 128
    THEN IF utf8[1] > 0 THEN Turn(utf8[1], Numeric(utf8[2])) ELSE Turn(1, Numeric(rest[1]))
  ELSE IF rest[1] = 39 THEN Turn(1, Numeric(39))
  ELSE XmlEncode(rest)

\* strtoul() of s: how many digits s begins with, and their value, up to one more than
\* Utf8Max.  Signs, white space and a second "0x" are left out.
IsDigit(c, base) == c \in 48..57 \/ (base = 16 /\ c \in 65..70 \cup 97..102)

Digits(s, base) == Cardinality({i \in DOMAIN s : \A j \in 1..i : IsDigit(s[j], base)})

NextValue(v, c, base) ==
  IF v * base + HexDecode(c) > Utf8Max THEN Utf8Max + 1 ELSE v * base + HexDecode(c)

Values(s, base) ==
  LET value[i \in 0..Digits(s, base)] == IF i = 0 THEN 0 ELSE NextValue(value[i - 1], s[i], base)
  IN value

Number(s, base) == <<Digits(s, base), Values(s, base)[Digits(s, base)]>>

\* "&#..;" and "&#x..;": utf8_encode() may fill the buffer.
CharRef(rest) ==
  LET hex == Len(rest) >= 3 /\ rest[3] = LowerX
      first == IF hex THEN 4 ELSE 3
      number == Number(SubSeq(rest, first, Len(rest)), IF hex THEN 16 ELSE 10)
      last == first + number[1]
  IN IF last <= Len(rest) /\ rest[last] = Semicolon /\ number[2] <= Utf8Max
     THEN [used |-> last, emit |-> Utf8Encode(number[2]), spare |-> 0]
     ELSE GiveUp

XmlDecode(rest) ==
  LET found == {ch \in {34, 38, 39, 60, 62} : IsPrefix(Entity(ch), rest)} IN
  IF rest[1] # Amp THEN Plain(rest)
  ELSE IF found # {} THEN LET ch == CHOOSE c \in found : TRUE IN Turn(Len(Entity(ch)), <<ch>>)
  ELSE IF Len(rest) >= 2 /\ rest[2] = Hash THEN CharRef(rest)
  ELSE GiveUp

=============================================================================
