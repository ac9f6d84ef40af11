----------------------------- MODULE MCTransform -----------------------------
(***************************************************************************)
(* Instances of Transform: short texts of the characters that matter to each *)
(* coder.                                                                   *)
(***************************************************************************)
EXTENDS Transform

\* ":" and "/", and "%".
MCIllegal == {58, 47}
MCEsc == 37

\* The texts of up to n tokens of s.
Strings(s, n) == {FlattenSeq(t) : t \in UNION {[1..k -> s] : k \in 0..n}}

Chars(s) == {<<ch>> : ch \in s}

\* "&", "#", "a", "lt;", "apos;", "&#233;", "&#x10ffff;" and "&#x700000;", and up to four
\* of "x", "9", "f" and ";" behind "&#".
Markup == Chars({38, 35, 97}) \cup
  {<<108, 116, 59>>, <<97, 112, 111, 115, 59>>, <<38, 35, 50, 51, 51, 59>>,
   <<38, 35, 120, 49, 48, 102, 102, 102, 102, 59>>,
   <<38, 35, 120, 55, 48, 48, 48, 48, 48, 59>>}
References == {<<38, 35>> \o s : s \in Strings(Chars({120, 57, 102, 59}), 4)}

\* "a", "<", "'", "&", two characters of two and of four bytes, and bytes that are no UTF-8.
Html == Chars({97, 60, 39, 38, 200, 169}) \cup {<<195, 169>>, <<244, 143, 191, 191>>, <<192, 128>>}

MCTexts == [c \in Codecs \X {"encode", "decode"} |->
  CASE c[1] = "escape" -> Strings(Chars({97, 58, 37, 0}), 4)
    [] c[1] = "encode" /\ c[2] = "encode" -> Strings(Chars({97, 58, 37, 200, 0}), 3)
    [] c[1] = "encode" /\ c[2] = "decode" -> Strings(Chars({37, 51, 97, 103, 200}), 4)
    [] c[1] = "url" /\ c[2] = "encode" -> Strings(Chars({97, 32, 43, 37, 60, 200}), 3)
    [] c[1] = "url" /\ c[2] = "decode" -> Strings(Chars({37, 43, 50, 66, 122, 200}), 4)
    [] c[1] = "html" /\ c[2] = "encode" -> Strings(Html, 3)
    [] c[1] = "xml" /\ c[2] = "encode" -> Strings(Chars({34, 38, 39, 60, 62, 97, 200}), 3)
    [] c[1] = "hex" /\ c[2] = "encode" -> Strings(Chars({0, 97, 255}), 3)
    [] c[1] = "hex" /\ c[2] = "decode" -> Strings(Chars({48, 70, 122, 200}), 4)
    [] OTHER -> Strings(Markup, 3) \cup References]

=============================================================================
