------------------------------ MODULE Transform ------------------------------
(***************************************************************************)
(* The loop that all coders of common/base/stringencode.cc share, with its   *)
(* caller: one turn a step.  A text is encoded and the result decoded in     *)
(* place, or a text is decoded, in place or not; or s_transform() sizes the  *)
(* buffer.  The buffer is as long as the caller says, and in place at least  *)
(* as long as the text.                                                     *)
(***************************************************************************)
EXTENDS StringEncode

CONSTANTS
  Texts,     \* what is given to encode and decode of each codec
  MaxBuflen  \* bound: the length of a buffer

Codecs == {"escape", "encode", "url", "html", "xml", "hex"}

\* Coders of the type Transform, which s_transform() can be given.
Transforms == {"url", "html", "xml", "hex"}

ASSUME TextsAssumption ==
  /\ Texts \in [Codecs \X {"encode", "decode"} -> SUBSET Seq(Byte)]
  /\ MaxBuflen \in Nat

VARIABLES
  codec,    \* the pair of coders
  caller,   \* "buffer", or "s_transform"
  call,     \* the coder that runs, or "done"
  text,     \* what the first of them was given
  again,    \* decoding what was encoded before
  inPlace,  \* buffer == source
  source,   \* source[0 .. srclen - 1] when the coder was called
  buflen,
  srcpos,
  bufpos,
  buffer,   \* the memory at buffer
  whole     \* the first coder did not stop before the end of the text (history)

fixed == <<codec, caller, text, buflen>>
vars == <<fixed, call, again, inPlace, source, srcpos, bufpos, buffer, whole>>

\* The first call of s_transform(), with NULL for the buffer: only the coders for URLs
\* look at it.
Asked(coder, c, n) ==
  CASE coder = "url" /\ c = "encode" -> 3 * n + 1
    [] coder = "url" /\ c = "decode" -> n + 1
    [] OTHER -> 0

Larger(m, n) == IF m > n THEN m ELSE n

Init ==
  /\ codec \in Codecs
  /\ call \in {"encode", "decode"}
  /\ text \in Texts[<<codec, call>>]
  /\ \/ caller = "buffer" /\ buflen \in 0..MaxBuflen /\ inPlace \in BOOLEAN
     \/ caller = "s_transform" /\ codec \in Transforms /\ inPlace = FALSE
        /\ buflen = Asked(codec, call, Len(text))
  /\ inPlace => call = "decode"
  /\ source = text
  /\ buffer = IF inPlace THEN [i \in 1..Larger(Len(text), buflen) |->
                                 IF i <= Len(text) THEN text[i] ELSE 0]
              ELSE [i \in 1..buflen |-> 0]
  /\ again = FALSE /\ whole = FALSE
  /\ srcpos = 0 /\ bufpos = 0

-----------------------------------------------------------------------------
srclen == Len(source)

\* What the coder still has to read.
Rest == SubSeq(IF inPlace THEN buffer ELSE source, srcpos + 1, srclen)

\* One turn of the loop.
Coded(rest) ==
  CASE codec = "escape" -> IF call = "encode" THEN Escape(rest) ELSE Unescape(rest)
    [] codec = "encode" -> IF call = "encode" THEN Encode(rest) ELSE Decode(rest)
    [] codec = "url" -> IF call = "encode" THEN UrlEncode(rest) ELSE UrlDecode(rest)
    [] codec = "html" -> IF call = "encode" THEN HtmlEncode(rest) ELSE XmlDecode(rest)
    [] codec = "xml" -> IF call = "encode" THEN XmlEncode(rest) ELSE XmlDecode(rest)
    [] codec = "hex" -> IF call = "encode" THEN HexEncodes(rest) ELSE HexDecodes(rest)

\* Mutant: no room for the '\0' is kept.
HexLimit_full == IF srclen <= buflen \div 2 THEN srclen ELSE buflen \div 2

\* hex_encode() only takes as much of the source as the buffer has room for.
HexLimit == IF srclen <= (buflen - 1) \div 2 THEN srclen ELSE (buflen - 1) \div 2

\* The condition of the while loop, after the test of buflen.
Looping ==
  /\ buflen > 0
  /\ CASE codec = "hex" /\ call = "encode" -> srcpos < HexLimit
       [] codec = "hex" /\ call = "decode" -> srcpos + 1 < srclen /\ bufpos + 1 < buflen
       [] OTHER -> srcpos < srclen /\ bufpos + 1 < buflen

\* Mutant: the condition of the loop is taken for enough.
Fits_loop(turn) == bufpos + 1 < buflen

\* The test before the emission; hex_encode() has none.
Fits(turn) ==
  bufpos + Len(turn.emit) + turn.spare <= buflen \/ (codec = "hex" /\ call = "encode")

\* bytes from bufpos on; what lies beyond the memory at buffer is not ours.
Written(bytes) ==
  [i \in DOMAIN buffer |-> IF i - bufpos \in DOMAIN bytes THEN bytes[i - bufpos] ELSE buffer[i]]

Convert ==
  /\ call # "done" /\ Looping
  /\ LET turn == Coded(Rest) IN
       /\ turn.used > 0 /\ Fits(turn)
       /\ buffer' = Written(turn.emit)
       /\ srcpos' = srcpos + turn.used
       /\ bufpos' = bufpos + Len(turn.emit)
  /\ UNCHANGED <<fixed, call, again, inPlace, source, whole>>

\* The loop ends, or breaks.
Stops == Looping => Coded(Rest).used = 0 \/ ~Fits(Coded(Rest))

\* The '\0' is written and bufpos returned.
Return ==
  /\ call # "done" /\ Stops
  /\ buffer' = IF buflen > 0 THEN Written(<<0>>) ELSE buffer
  /\ whole' = IF again THEN whole ELSE srcpos = srclen
  /\ IF call = "encode" /\ caller = "buffer"
       THEN /\ call' = "decode" /\ again' = TRUE /\ inPlace' = TRUE
            /\ source' = SubSeq(buffer, 1, bufpos)
            /\ srcpos' = 0 /\ bufpos' = 0
       ELSE call' = "done" /\ UNCHANGED <<again, inPlace, source, srcpos, bufpos>>
  /\ UNCHANGED fixed

Done == call = "done" /\ UNCHANGED vars

Next == Convert \/ Return \/ Done

Spec == Init /\ [][Next]_vars

-----------------------------------------------------------------------------
(* Properties                                                                *)

\* Types.
TypeOK ==
  /\ codec \in Codecs
  /\ caller \in {"buffer", "s_transform"}
  /\ call \in {"encode", "decode", "done"}
  /\ text \in Seq(Byte) /\ source \in Seq(Byte) /\ buffer \in Seq(Byte)
  /\ again \in BOOLEAN /\ inPlace \in BOOLEAN /\ whole \in BOOLEAN
  /\ buflen \in Nat /\ Len(buffer) >= buflen
  /\ srcpos \in 0..srclen /\ bufpos \in 0..buflen

\* In every turn the '\0' still fits behind what was written, whatever the length of the
\* buffer; only a character reference of html_decode() and xml_decode() may fill the
\* buffer (stringencode.cc:65-225,288-478).
TerminatorFits ==
  call # "done" /\ buflen > 0 =>
    bufpos < buflen \/ (codec \in {"html", "xml"} /\ call = "decode" /\ bufpos = buflen)

\* "in-place decoding (buffer == source) is allowed" (stringencode.h:57,69,82,89,96): no
\* coder overwrites what it has not read yet.
UnreadUntouched ==
  inPlace /\ call = "decode" =>
    bufpos <= srcpos /\ \A i \in srcpos + 1..srclen : buffer[i] = source[i]

\* s is UTF-8 in the shortest form.
IsUtf8(s) ==
  LET at(i) == Utf8Decode(SubSeq(s, i, Len(s))) IN
  \A i \in DOMAIN s :
    IF s[i] \in 128..191
      THEN \E j \in 1..i - 1 : s[j] >= 192 /\ j + at(j)[1] > i
      ELSE at(i)[1] > 0 /\ Utf8Encode(at(i)[2]) = SubSeq(s, i, i + at(i)[1] - 1)

\* Decoding what an encoder wrote gives the text back, or the part of it for which the
\* buffer had room: no buffer splits an escape sequence (stringencode.cc:65-478).  For HTML
\* the text has to be UTF-8.
RoundTrip ==
  call = "done" /\ again /\ (codec = "html" => IsUtf8(text)) =>
    IsPrefix(SubSeq(buffer, 1, bufpos), text) /\ (whole => bufpos = Len(text))

\* utf8_encode() returns "0 if the encoding is longer than buflen - 1" (stringencode.h:46):
\* after it returned something else, a cell of the buffer is left.
Utf8LeavesRoom == call = "decode" /\ buflen > 0 => bufpos < buflen

=============================================================================
