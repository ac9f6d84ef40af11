---------------------------- MODULE HttpTextProofs ----------------------------
(***************************************************************************)
(* Proofs about HttpText, for any tokens and any inputs: what is written as *)
(* a query, cookies, attributes, a date or a request is read back, and the  *)
(* tables of names and codes are in step with their enumerations.           *)
(*                                                                         *)
(* InputInv says that the text is one the job takes, ReadInv what a parser   *)
(* that has returned made of it; RequestInv and AttributesInv say how far    *)
(* the two loops have come.                                                *)
(***************************************************************************)
EXTENDS HttpText, Iteration, FiniteSetTheorems, SequenceTheorems, TLAPS

USE DEF Text

-----------------------------------------------------------------------------
(* Pieces of texts                                                           *)

\* The tokens that mean something.
LEMMA TokensAre ==
  /\ "=" \in Tokens /\ "&" \in Tokens /\ ";" \in Tokens /\ " " \in Tokens /\ "*" \in Tokens /\ "," \in Tokens
  /\ "+" \in Tokens /\ "%26" \in Tokens /\ "%2B" \in Tokens /\ "%3D" \in Tokens /\ "\"" \in Tokens /\ "\\" \in Tokens /\ "Cookie: " \in Tokens
BY TokensAssumption

\* A part of a text.
LEMMA Part ==
  ASSUME NEW s \in Text, NEW a \in Nat, NEW e \in Nat, 1 <= a, e <= Len(s)
  PROVE  /\ SubSeq(s, a, e) \in Text
         /\ Len(SubSeq(s, a, e)) = IF a <= e THEN e - a + 1 ELSE 0
         /\ \A i \in 1..e - a + 1 : SubSeq(s, a, e)[i] = s[a + i - 1]
<1>1. a \in Int /\ e \in Int /\ \A i \in a..e : s[i] \in Tokens
  OBVIOUS
<1>2. QED
  BY <1>1, SubSeqProperties

\* Two texts that agree between two positions have the same part there.
LEMMA SameParts ==
  ASSUME NEW s \in Text, NEW u \in Text, NEW a \in Nat, NEW e \in Nat, 1 <= a,
         e <= Len(s), e <= Len(u), \A i \in a..e : s[i] = u[i]
  PROVE  SubSeq(s, a, e) = SubSeq(u, a, e)
<1> DEFINE x == SubSeq(s, a, e)
           y == SubSeq(u, a, e)
<1>1. x \in Text /\ y \in Text /\ Len(x) = Len(y) /\ Len(x) = IF a <= e THEN e - a + 1 ELSE 0
  BY Part
<1>2. \A i \in 1..e - a + 1 : x[i] = s[a + i - 1] /\ y[i] = u[a + i - 1]
  BY Part
<1>3. \A i \in 1..e - a + 1 : a + i - 1 \in a..e
  OBVIOUS
<1> HIDE DEF x, y
<1>4. \A i \in 1..Len(x) : x[i] = y[i]
  BY <1>1, <1>2, <1>3
<1>5. x = y
  BY <1>1, <1>4, SeqEqual
<1>6. QED
  BY <1>5 DEF x, y

\* Two texts with a token between them.
LEMMA Between ==
  ASSUME NEW a \in Text, NEW c \in Tokens, NEW b \in Text, NEW s, s = a \o <<c>> \o b
  PROVE  /\ s \in Text /\ Len(s) = Len(a) + 1 + Len(b) /\ Len(a) \in Nat /\ Len(b) \in Nat
         /\ \A i \in 1..Len(a) : s[i] = a[i]
         /\ s[Len(a) + 1] = c
         /\ \A i \in 1..Len(b) : s[Len(a) + 1 + i] = b[i]
         /\ SubSeq(s, 1, Len(a)) = a
         /\ SubSeq(s, Len(a) + 2, Len(s)) = b
<1>1. /\ s \in Text /\ Len(s) = Len(a) + 1 + Len(b) /\ Len(a) \in Nat /\ Len(b) \in Nat
      /\ \A i \in 1..Len(a) : s[i] = a[i]
      /\ s[Len(a) + 1] = c
      /\ \A i \in 1..Len(b) : s[Len(a) + 1 + i] = b[i]
  <2> DEFINE r == a \o <<c>>
  <2>1. /\ r \in Text /\ Len(r) = Len(a) + 1 /\ Len(a) \in Nat /\ Len(b) \in Nat
        /\ \A i \in 1..Len(a) : r[i] = a[i]
        /\ r[Len(a) + 1] = c
    <3>1. <<c>> \in Text /\ Len(<<c>>) = 1 /\ <<c>>[1] = c /\ Len(a) \in Nat /\ Len(b) \in Nat
      OBVIOUS
    <3>2. /\ r \in Text /\ Len(r) = Len(a) + Len(<<c>>)
          /\ \A i \in 1..Len(a) + Len(<<c>>) : r[i] = IF i <= Len(a) THEN a[i] ELSE <<c>>[i - Len(a)]
      BY <3>1, ConcatProperties
    <3> HIDE DEF r
    <3>3. Len(a) + 1 \in 1..Len(a) + Len(<<c>>) /\ Len(a) + 1 - Len(a) = 1 /\ ~(Len(a) + 1 <= Len(a))
      BY <3>1
    <3>4. r[Len(a) + 1] = c
      BY <3>1, <3>2, <3>3
    <3>5. QED
      BY <3>1, <3>2, <3>4
  <2> HIDE DEF r
  <2>2. /\ r \o b \in Text /\ Len(r \o b) = Len(r) + Len(b)
        /\ \A i \in 1..Len(r) + Len(b) : (r \o b)[i] = IF i <= Len(r) THEN r[i] ELSE b[i - Len(r)]
    BY <2>1, ConcatProperties
  <2>3. s = r \o b
    BY DEF r
  <2>4. \A i \in 1..Len(b) : Len(a) + 1 + i \in 1..Len(r) + Len(b) /\ Len(a) + 1 + i - Len(r) = i
                             /\ ~(Len(a) + 1 + i <= Len(r))
    BY <2>1
  <2>5. \A i \in 1..Len(b) : s[Len(a) + 1 + i] = b[i]
    BY <2>2, <2>3, <2>4
  <2>6. s \in Text /\ Len(s) = Len(a) + 1 + Len(b)
    BY <2>1, <2>2, <2>3
  <2>7. \A i \in 1..Len(a) + 1 : s[i] = r[i]
    BY <2>1, <2>2, <2>3
  <2>8. QED
    BY <2>1, <2>5, <2>6, <2>7
<1>2. SubSeq(s, 1, Len(a)) = a
  <2>1. /\ SubSeq(s, 1, Len(a)) \in Text /\ Len(SubSeq(s, 1, Len(a))) = Len(a)
        /\ \A i \in 1..Len(a) : SubSeq(s, 1, Len(a))[i] = s[i]
    BY <1>1
  <2>2. QED
    BY <1>1, <2>1, SeqEqual
<1>3. SubSeq(s, Len(a) + 2, Len(s)) = b
  <2> DEFINE e == SubSeq(s, Len(a) + 2, Len(s))
  <2>1. e \in Text /\ Len(e) = Len(b) /\ \A i \in 1..Len(b) : e[i] = s[Len(a) + 1 + i]
    BY <1>1
  <2> HIDE DEF e
  <2>2. e = b
    BY <1>1, <2>1, SeqEqual
  <2>3. QED
    BY <2>2 DEF e
<1>4. QED
  BY <1>1, <1>2, <1>3

\* A text in two.
LEMMA Cut ==
  ASSUME NEW t \in Text, NEW k \in 0..Len(t)
  PROVE  /\ SubSeq(t, 1, k) \in Text /\ SubSeq(t, k + 1, Len(t)) \in Text
         /\ t = SubSeq(t, 1, k) \o SubSeq(t, k + 1, Len(t))
<1> DEFINE n == Len(t)
           a == SubSeq(t, 1, k)
           b == SubSeq(t, k + 1, n)
           s == a \o b
<1>1. n \in Nat /\ n = Len(t) /\ k \in Nat /\ k <= n /\ k + 1 \in Nat /\ 1 <= k + 1
  OBVIOUS
<1>2. a \in Text /\ Len(a) = k /\ \A i \in 1..k : a[i] = t[i]
  <2>1. a \in Text /\ Len(a) = (IF 1 <= k THEN k - 1 + 1 ELSE 0) /\ \A i \in 1..k - 1 + 1 : a[i] = t[1 + i - 1]
    BY <1>1, Part
  <2> HIDE DEF a
  <2>2. QED
    BY <1>1, <2>1
<1>3. b \in Text /\ Len(b) = n - k /\ \A i \in 1..n - k : b[i] = t[k + i]
  <2> DEFINE c == k + 1
  <2>1. c \in Nat /\ 1 <= c /\ n <= Len(t)
    BY <1>1
  <2> HIDE DEF c, n
  <2>2. /\ SubSeq(t, c, n) \in Text
        /\ Len(SubSeq(t, c, n)) = (IF c <= n THEN n - c + 1 ELSE 0)
        /\ \A i \in 1..n - c + 1 : SubSeq(t, c, n)[i] = t[c + i - 1]
    BY <1>1, <2>1, Part
  <2>3. n - c + 1 = n - k /\ \A i \in 1..n - k : c + i - 1 = k + i
    BY <1>1 DEF c
  <2>4. b = SubSeq(t, c, n)
    BY DEF c
  <2> HIDE DEF b
  <2>5. QED
    BY <1>1, <2>2, <2>3, <2>4 DEF c
<1> HIDE DEF n, a, b
<1>4. /\ s \in Text /\ Len(s) = Len(a) + Len(b)
      /\ \A i \in 1..Len(a) + Len(b) : s[i] = IF i <= Len(a) THEN a[i] ELSE b[i - Len(a)]
  BY <1>2, <1>3, ConcatProperties
<1> HIDE DEF s
<1>5. \A i \in 1..Len(t) : t[i] = s[i]
  <2>1. TAKE i \in 1..Len(t)
  <2>2. CASE i <= k
    BY <1>1, <1>2, <1>3, <1>4, <2>2
  <2>3. CASE ~(i <= k)
    <3>1. i - k \in 1..n - k /\ k + (i - k) = i /\ i \in 1..Len(a) + Len(b)
      BY <1>1, <1>2, <1>3, <2>3
    <3>2. b[i - k] = t[i]
      BY <1>3, <3>1
    <3>3. s[i] = b[i - k]
      BY <1>2, <1>4, <2>3, <3>1
    <3>4. QED
      BY <3>2, <3>3
  <2>4. QED
    BY <2>2, <2>3
<1>6. Len(t) = Len(s)
  BY <1>1, <1>2, <1>3, <1>4
<1>7. t = s
  BY <1>4, <1>5, <1>6, SeqEqual
<1>8. QED
  BY <1>2, <1>3, <1>7 DEF s, a, b, n

\* find_first_of('=').
LEMMA PosEqualIs ==
  ASSUME NEW s \in Text
  PROVE  /\ PosEqual(s) \in 0..Len(s)
         /\ PosEqual(s) = 0 => \A i \in 1..Len(s) : s[i] # "="
         /\ PosEqual(s) # 0 => s[PosEqual(s)] = "=" /\ \A i \in 1..PosEqual(s) - 1 : s[i] # "="
<1> DEFINE I == {i \in 1..Len(s) : s[i] = "="}
<1>1. PosEqual(s) = IF I # {} THEN CHOOSE i \in I : \A j \in I : i <= j ELSE 0
  BY DEF PosEqual, SelectInSeq, Min
<1>2. CASE I = {}
  BY <1>1, <1>2
<1>3. CASE I # {}
  <2>1. I \subseteq Nat
    OBVIOUS
  <2>2. \E i \in I : \A j \in I : i <= j
    BY <1>3, <2>1, Least
  <2>3. PosEqual(s) \in I /\ \A j \in I : PosEqual(s) <= j
    BY <1>1, <1>3, <2>2
  <2>4. QED
    BY <2>3
<1>4. QED
  BY <1>2, <1>3

\* Where the first "=" is.
LEMMA PosEqualAt ==
  ASSUME NEW s \in Text, NEW n \in Nat, n + 1 <= Len(s), \A i \in 1..n : s[i] # "=", s[n + 1] = "="
  PROVE  PosEqual(s) = n + 1
<1> DEFINE p == PosEqual(s)
<1>1. n + 1 \in 1..Len(s) /\ p \in 0..Len(s)
  BY PosEqualIs
<1>2. p # 0
  BY <1>1, PosEqualIs
<1>3. s[p] = "=" /\ \A i \in 1..p - 1 : s[i] # "="
  BY <1>2, PosEqualIs
<1> HIDE DEF p
<1>4. p = n + 1
  BY <1>1, <1>2, <1>3
<1>5. QED
  BY <1>4 DEF p

\* What UpToFirst() leaves: the longest beginning without the token.
LEMMA UpToFirstIs ==
  ASSUME NEW t \in Text, NEW c
  PROVE  \E n \in 0..Len(t) :
           /\ UpToFirst(t, c) = SubSeq(t, 1, n) /\ UpToFirst(t, c) \in Text /\ Len(UpToFirst(t, c)) = n
           /\ \A i \in 1..n : UpToFirst(t, c)[i] = t[i] /\ t[i] # c
           /\ n = Len(t) \/ t[n + 1] = c
<1> DEFINE I == {i \in 1..Len(t) : t[i] = c}
           at == SelectInSeq(t, LAMBDA x : x = c)
           u == UpToFirst(t, c)
<1>1. at = IF I # {} THEN CHOOSE i \in I : \A j \in I : i <= j ELSE 0
  BY DEF SelectInSeq, Min
<1>2. u = IF at = 0 THEN t ELSE SubSeq(t, 1, at - 1)
  BY DEF UpToFirst
<1> HIDE DEF at
<1>3. ASSUME NEW n \in 0..Len(t), u = SubSeq(t, 1, n)
      PROVE  u \in Text /\ Len(u) = n /\ \A i \in 1..n : u[i] = t[i]
  BY <1>3
<1>4. CASE I = {}
  <2> DEFINE n == Len(t)
  <2>1. u = t
    BY <1>1, <1>2, <1>4
  <2>2. n \in 0..Len(t) /\ SubSeq(t, 1, n) = t /\ \A i \in 1..n : t[i] # c
    BY <1>4
  <2> HIDE DEF n, I, u
  <2>3. u \in Text /\ Len(u) = n /\ \A i \in 1..n : u[i] = t[i]
    BY <1>3, <2>1, <2>2
  <2>4. QED
    BY <2>1, <2>2, <2>3 DEF u, n
<1>5. CASE I # {}
  <2> DEFINE n == at - 1
  <2>1. I \subseteq Nat
    OBVIOUS
  <2>2. \E i \in I : \A j \in I : i <= j
    BY <1>5, <2>1, Least
  <2>3. at \in I /\ \A j \in I : at <= j
    BY <1>1, <1>5, <2>2
  <2>4. n \in 0..Len(t) /\ u = SubSeq(t, 1, n) /\ t[n + 1] = c
    BY <1>2, <2>3
  <2>5. \A i \in 1..n : t[i] # c
    BY <2>3
  <2> HIDE DEF n, I, u
  <2>6. u \in Text /\ Len(u) = n /\ \A i \in 1..n : u[i] = t[i]
    BY <1>3, <2>4
  <2>7. QED
    BY <2>4, <2>5, <2>6 DEF u
<1>6. QED
  BY <1>4, <1>5

\* A text without the token is left whole.
LEMMA UpToFirstWhole ==
  ASSUME NEW t \in Text, NEW c, Lacks(t, {c})
  PROVE  UpToFirst(t, c) = t
<1>1. {i \in 1..Len(t) : t[i] = c} = {}
  BY DEF Lacks
<1>2. SelectInSeq(t, LAMBDA x : x = c) = 0
  BY <1>1 DEF SelectInSeq
<1>3. QED
  BY <1>2 DEF UpToFirst

\* A name without an equal sign, one, and a value.
IsPairText(s, k, v) ==
  s \in Text /\ PosEqual(s) = Len(k) + 1 /\ PosEqual(s) # 0 /\ Before(s) = k /\ After(s) = v

\* A key without "=" and its value are what stands before and behind the first "=".
LEMMA KeyValue ==
  ASSUME NEW k \in Text, NEW v \in Text, Lacks(k, {"="})
  PROVE  IsPairText(k \o <<"=">> \o v, k, v)
<1> DEFINE c == "="
           s == k \o <<"=">> \o v
<1>1. s = k \o <<"=">> \o v
  OBVIOUS
<1> HIDE DEF s
<1>2. /\ s \in Text /\ Len(s) = Len(k) + 1 + Len(v) /\ Len(k) \in Nat /\ Len(v) \in Nat
      /\ \A i \in 1..Len(k) : s[i] = k[i]
      /\ s[Len(k) + 1] = c
      /\ SubSeq(s, 1, Len(k)) = k
      /\ SubSeq(s, Len(k) + 2, Len(s)) = v
  <2>1. c \in Tokens /\ s = k \o <<c>> \o v
    BY <1>1, TokensAre
  <2> HIDE DEF c
  <2>2. QED
    BY <2>1, Between
<1>3. \A i \in 1..Len(k) : k[i] # "="
  BY DEF Lacks
<1>4. PosEqual(s) = Len(k) + 1
  <2>1. Len(k) + 1 <= Len(s) /\ \A i \in 1..Len(k) : s[i] # "="
    BY <1>2, <1>3
  <2>2. QED
    BY <1>2, <2>1, PosEqualAt, Zenon
<1>5. PosEqual(s) - 1 = Len(k) /\ PosEqual(s) + 1 = Len(k) + 2
  BY <1>2, <1>4
<1>6. Before(s) = k /\ After(s) = v
  BY <1>2, <1>5, Zenon DEF Before, After
<1>7. PosEqual(s) # 0
  BY <1>2, <1>4
<1>8. IsPairText(s, k, v)
  BY <1>2, <1>4, <1>6, <1>7 DEF IsPairText
<1>9. QED
  BY <1>1, <1>8, Zenon

-----------------------------------------------------------------------------
(* Maps of pairs                                                             *)

\* Maps from texts to texts.
PairMaps == UNION {[D -> Text] : D \in SUBSET Text}

\* A map of pairs has texts as keys and as values.
LEMMA PairMap ==
  ASSUME NEW m
  PROVE  m \in PairMaps <=> DOMAIN m \subseteq Text /\ m \in [DOMAIN m -> Text]
BY DEF PairMaps

\* The empty map.
LEMMA NoPairsType == NoPairs \in PairMaps /\ DOMAIN NoPairs = {}
<1>1. DOMAIN NoPairs = {} /\ NoPairs \in [{} -> Text]
  BY DEF NoPairs
<1>2. QED
  BY <1>1, PairMap

\* What entering a pair changes: its own key and no other.
LEMMA WithType ==
  ASSUME NEW m \in PairMaps, NEW k \in Text, NEW v \in Text
  PROVE  /\ With(m, k, v) \in PairMaps /\ DOMAIN With(m, k, v) = DOMAIN m \cup {k}
         /\ With(m, k, v)[k] = v
         /\ \A x \in DOMAIN m : x # k => With(m, k, v)[x] = m[x]
<1>1. DOMAIN m \subseteq Text /\ m \in [DOMAIN m -> Text]
  BY PairMap
<1>2. /\ DOMAIN With(m, k, v) = DOMAIN m \cup {k}
      /\ With(m, k, v)[k] = v
      /\ \A x \in DOMAIN m : x # k => With(m, k, v)[x] = m[x]
  BY DEF With
<1>3. With(m, k, v) \in [DOMAIN m \cup {k} -> Text]
  BY <1>1 DEF With
<1>4. QED
  BY <1>1, <1>2, <1>3, PairMap

\* A decoded token is a token.
LEMMA DecodedTokenType ==
  ASSUME NEW c \in Tokens
  PROVE  DecodedToken(c) \in Tokens
<1>1. " " \in Tokens /\ "&" \in Tokens /\ "+" \in Tokens /\ "=" \in Tokens
  BY TokensAre
<1>2. DecodedToken(c) \in {" ", "&", "+", "=", c}
  BY DEF DecodedToken
<1>3. QED
  BY <1>1, <1>2

\* url_decode() makes a text of a text.
LEMMA DecodedType ==
  ASSUME NEW v \in Text
  PROVE  Decoded(v) \in Text
<1> DEFINE plain == [i \in DOMAIN v |-> DecodedToken(v[i])]
<1>1. plain \in Text
  <2>1. DOMAIN v = 1..Len(v) /\ Len(v) \in Nat /\ \A i \in 1..Len(v) : v[i] \in Tokens
    OBVIOUS
  <2>2. \A i \in 1..Len(v) : DecodedToken(v[i]) \in Tokens
    BY <2>1, DecodedTokenType
  <2>3. plain \in [1..Len(v) -> Tokens]
    BY <2>1, <2>2
  <2> HIDE DEF plain
  <2>4. QED
    BY <2>1, <2>3
<1>2. Decoded(v) = UpToFirst(plain, "%00")
  BY DEF Decoded
<1> HIDE DEF plain
<1>3. QED
  BY <1>1, <1>2, UpToFirstIs

\* Insertion and Add() make a map of a map.
LEMMA EnterType ==
  ASSUME NEW kind, NEW m \in PairMaps, NEW piece \in Text
  PROVE  Enter(kind, m, piece) \in PairMaps
<1>1. Before(piece) \in Text /\ After(piece) \in Text
  BY PosEqualIs DEF Before, After
<1>2. Decoded(After(piece)) \in Text
  BY <1>1, DecodedType
<1>3. /\ With(m, Before(piece), Decoded(After(piece))) \in PairMaps
      /\ With(m, Before(piece), After(piece)) \in PairMaps
  BY <1>1, <1>2, WithType
<1>4. QED
  BY <1>3 DEF Enter, InsertPair, AddCookie

-----------------------------------------------------------------------------
(* The loop over the pieces                                                  *)

\* What the loop over the pieces keeps: the pairs so far and where the next piece begins.
Splits == [pairs : PairMaps, from : Nat \ {0}]

\* A turn of the loop keeps a map and a position.
LEMMA SplitAtType ==
  ASSUME NEW kind, NEW t \in Text, NEW i \in 1..Len(t), NEW b \in Splits
  PROVE  SplitAt(kind, t, i, b) \in Splits
<1>1. b.pairs \in PairMaps /\ b.from \in Nat \ {0} /\ i \in Nat /\ i <= Len(t)
  BY DEF Splits
<1>2. SubSeq(t, b.from, i - 1) \in Text
  <2> DEFINE a == b.from
             e == i - 1
  <2>1. a \in Nat /\ 1 <= a /\ e \in Nat /\ e <= Len(t)
    BY <1>1
  <2> HIDE DEF a, e
  <2>2. SubSeq(t, a, e) \in Text
    BY <2>1, Part
  <2>3. QED
    BY <2>2 DEF a, e
<1>3. Enter(kind, b.pairs, SubSeq(t, b.from, i - 1)) \in PairMaps
  BY <1>1, <1>2, EnterType
<1>4. QED
  BY <1>1, <1>3 DEF SplitAt, Splits

\* The loop turns from one token to the next.
LEMMA SplitTurns ==
  ASSUME NEW kind, NEW t \in Text
  PROVE  /\ Split(kind, t)[0] = [pairs |-> NoPairs, from |-> 1]
         /\ \A i \in 0..Len(t) : Split(kind, t)[i] \in Splits
         /\ \A i \in 1..Len(t) : Split(kind, t)[i] = SplitAt(kind, t, i, Split(kind, t)[i - 1])
<1> DEFINE n == Len(t)
           first == [pairs |-> NoPairs, from |-> 1]
           step == [p \in Splits \X (1..n) |-> SplitAt(kind, t, p[2], p[1])]
<1>1. n \in Nat /\ first \in Splits
  BY NoPairsType DEF Splits
<1>2. \A b \in Splits, i \in 1..n : SplitAt(kind, t, i, b) \in Splits
  BY SplitAtType
<1>3. step \in [Splits \X (1..n) -> Splits]
  BY <1>2
<1>4. \A b \in Splits, i \in 1..n : step[<<b, i>>] = SplitAt(kind, t, i, b)
  OBVIOUS
<1> HIDE DEF step, first, n
<1>5. \E f : Iterates(f, Splits, n, first, step)
  BY <1>1, <1>3, IterationExists
<1>6. PICK f \in [0..n -> Splits] : f[0] = first /\ \A i \in 1..n : f[i] = step[<<f[i - 1], i>>]
  BY <1>5, Zenon DEF Iterates
<1>7. f = [i \in 0..n |-> IF i = 0 THEN first ELSE SplitAt(kind, t, i, f[i - 1])]
  <2>1. ASSUME NEW i \in 0..n, i # 0
        PROVE  f[i] = SplitAt(kind, t, i, f[i - 1])
    <3>1. i \in 1..n /\ i - 1 \in 0..n
      BY <1>1, <2>1
    <3>2. f[i - 1] \in Splits
      BY <1>6, <3>1
    <3>3. QED
      BY <1>4, <1>6, <3>1, <3>2, Zenon
  <2>2. QED
    BY <1>6, <2>1
<1> DEFINE g == Split(kind, t)
<1>8. g = CHOOSE h : h = [i \in 0..n |-> IF i = 0 THEN first ELSE SplitAt(kind, t, i, h[i - 1])]
  BY DEF Split, n, first
<1> HIDE DEF g
<1>9. g = [i \in 0..n |-> IF i = 0 THEN first ELSE SplitAt(kind, t, i, g[i - 1])]
  BY <1>7, <1>8, Zenon
<1>10. g[0] = first /\ \A i \in 1..n : g[i] = SplitAt(kind, t, i, g[i - 1])
  BY <1>1, <1>9
<1>11. \A i \in 0..n : g[i] \in Splits
  <2> DEFINE T == {i \in 0..n : g[i] \in Splits}
  <2>1. 0 \in T
    BY <1>1, <1>10
  <2>2. ASSUME NEW i \in 0..n - 1, i \in T
        PROVE  i + 1 \in T
    <3>1. i + 1 \in 1..n /\ i + 1 - 1 = i /\ g[i] \in Splits
      BY <1>1, <2>2
    <3>2. g[i + 1] = SplitAt(kind, t, i + 1, g[i])
      BY <1>10, <3>1
    <3>3. SplitAt(kind, t, i + 1, g[i]) \in Splits
      BY <1>2, <3>1
    <3>4. QED
      BY <3>1, <3>2, <3>3
  <2> HIDE DEF T
  <2>3. \A i \in 0..n : i \in T
    BY <1>1, <2>1, <2>2, Counting
  <2>4. QED
    BY <2>3 DEF T
<1>12. QED
  BY <1>10, <1>11 DEF g, n, first

\* Tokens that are no separators change nothing.
LEMMA SplitSkips ==
  ASSUME NEW kind, NEW t \in Text, NEW m \in 0..Len(t),
         \A i \in m + 1..Len(t) : t[i] \notin Separators(kind)
  PROVE  Split(kind, t)[Len(t)] = Split(kind, t)[m]
<1> DEFINE n == Len(t) - m
           T == {i \in 0..n : Split(kind, t)[m + i] = Split(kind, t)[m]}
<1>1. n \in Nat /\ m \in Nat /\ Len(t) \in Nat /\ n = Len(t) - m
  OBVIOUS
<1> HIDE DEF n
<1>2. 0 \in T
  BY <1>1
<1>3. ASSUME NEW i \in 0..n - 1, i \in T
      PROVE  i + 1 \in T
  <2> DEFINE j == m + i + 1
  <2>1. j \in 1..Len(t) /\ j - 1 = m + i /\ j \in m + 1..Len(t) /\ i + 1 \in 0..n /\ m + (i + 1) = j
    BY <1>1
  <2> HIDE DEF j
  <2>2. t[j] \notin Separators(kind)
    BY <2>1
  <2>3. Split(kind, t)[j] = SplitAt(kind, t, j, Split(kind, t)[j - 1])
    BY <2>1, SplitTurns
  <2>4. Split(kind, t)[j] = Split(kind, t)[m + i]
    BY <2>1, <2>2, <2>3 DEF SplitAt
  <2>5. Split(kind, t)[m + i] = Split(kind, t)[m]
    BY <1>3
  <2>6. QED
    BY <2>1, <2>4, <2>5
<1> HIDE DEF T
<1>4. n \in T
  <2>1. \A i \in 0..n : i \in T
    BY <1>1, <1>2, <1>3, Counting
  <2>2. QED
    BY <1>1, <2>1
<1>5. m + n = Len(t)
  BY <1>1
<1>6. QED
  BY <1>4, <1>5 DEF T

\* The loop depends on what it has seen.
LEMMA SplitAgrees ==
  ASSUME NEW kind, NEW t \in Text, NEW u \in Text, NEW n \in Nat, n <= Len(t), n <= Len(u),
         \A i \in 1..n : t[i] = u[i]
  PROVE  /\ Split(kind, t)[n] = Split(kind, u)[n]
         /\ Split(kind, t)[n].from \in 1..n + 1
<1> DEFINE T == {i \in 0..n : Split(kind, t)[i] = Split(kind, u)[i] /\ Split(kind, t)[i].from \in 1..i + 1}
<1>1. 0 \in T
  BY SplitTurns
<1>2. ASSUME NEW i \in 0..n - 1, i \in T
      PROVE  i + 1 \in T
  <2> DEFINE b == Split(kind, t)[i]
             j == i + 1
  <2>1. b = Split(kind, u)[i] /\ b.from \in 1..i + 1
    BY <1>2
  <2>2. j \in Nat /\ j \in 1..Len(t) /\ j \in 1..Len(u) /\ j - 1 = i /\ j \in 1..n
    OBVIOUS
  <2>3. Split(kind, t)[j] = SplitAt(kind, t, j, b) /\ Split(kind, u)[j] = SplitAt(kind, u, j, b)
    <3> HIDE DEF j
    <3>1. \A k \in 1..Len(t) : Split(kind, t)[k] = SplitAt(kind, t, k, Split(kind, t)[k - 1])
      BY SplitTurns
    <3>2. \A k \in 1..Len(u) : Split(kind, u)[k] = SplitAt(kind, u, k, Split(kind, u)[k - 1])
      BY SplitTurns
    <3>3. QED
      BY <2>1, <2>2, <3>1, <3>2
  <2> HIDE DEF b, j
  <2>4. t[j] = u[j]
    BY <2>2
  <2>5. SubSeq(t, b.from, j - 1) = SubSeq(u, b.from, j - 1)
    <3> DEFINE a == b.from
               e == j - 1
    <3>1. a \in Nat /\ 1 <= a /\ e \in Nat /\ e <= Len(t) /\ e <= Len(u) /\ e <= n
      BY <2>1, <2>2
    <3> HIDE DEF a, e
    <3>2. \A k \in a..e : t[k] = u[k]
      BY <3>1
    <3>3. SubSeq(t, a, e) = SubSeq(u, a, e)
      BY <3>1, <3>2, SameParts
    <3>4. QED
      BY <3>3 DEF a, e
  <2>6. SplitAt(kind, t, j, b) = SplitAt(kind, u, j, b)
    BY <2>4, <2>5 DEF SplitAt
  <2>7. SplitAt(kind, t, j, b).from \in 1..j + 1
    BY <2>1, <2>2 DEF SplitAt
  <2>8. j \in 0..n /\ j = i + 1
    BY <2>2 DEF j
  <2>9. QED
    BY <2>3, <2>6, <2>7, <2>8
<1> HIDE DEF T
<1>3. n \in T
  <2>1. \A i \in 0..n : i \in T
    BY <1>1, <1>2, Counting
  <2>2. QED
    BY <2>1
<1>4. QED
  BY <1>3 DEF T

-----------------------------------------------------------------------------
(* What is read of a text that goes on                                       *)

\* The two kinds of lists of pairs.
Kinds == {"query", "cookie"}

\* What is entered for a text: the pairs of the loop, and the piece behind the last separator.
LEMMA PairsInIs ==
  ASSUME NEW kind, NEW t \in Text
  PROVE  /\ PairsIn(kind, t) = Enter(kind, Split(kind, t)[Len(t)].pairs, SubSeq(t, Split(kind, t)[Len(t)].from, Len(t)))
         /\ Split(kind, t)[Len(t)] \in Splits
         /\ Split(kind, t)[Len(t)].from \in 1..Len(t) + 1
         /\ PairsIn(kind, t) \in PairMaps
<1> DEFINE b == Split(kind, t)[Len(t)]
<1>1. PairsIn(kind, t) = Enter(kind, b.pairs, SubSeq(t, b.from, Len(t)))
  BY DEF PairsIn
<1>2. Len(t) \in Nat /\ Len(t) \in 0..Len(t)
  OBVIOUS
<1>3. b \in Splits
  BY <1>2, SplitTurns
<1>4. b.from \in 1..Len(t) + 1
  BY <1>2, SplitAgrees
<1>5. SubSeq(t, b.from, Len(t)) \in Text
  <2> DEFINE a == b.from
             e == Len(t)
  <2>1. a \in Nat /\ 1 <= a /\ e \in Nat /\ e <= Len(t)
    BY <1>2, <1>4
  <2> HIDE DEF a, e
  <2>2. SubSeq(t, a, e) \in Text
    BY <2>1, Part
  <2>3. QED
    BY <2>2 DEF a, e
<1>6. PairsIn(kind, t) \in PairMaps
  <2>1. b.pairs \in PairMaps
    BY <1>3 DEF Splits
  <2>2. QED
    BY <1>1, <1>5, <2>1, EnterType
<1>7. QED
  BY <1>1, <1>3, <1>4, <1>6

\* A text is the whole of itself.
LEMMA Whole ==
  ASSUME NEW p \in Text
  PROVE  SubSeq(p, 1, Len(p)) = p
<1> DEFINE e == Len(p)
           x == SubSeq(p, 1, e)
<1>1. e \in Nat /\ e <= Len(p) /\ 1 \in Nat
  OBVIOUS
<1> HIDE DEF e
<1>2. x \in Text /\ (Len(x) = IF 1 <= e THEN e - 1 + 1 ELSE 0) /\ \A i \in 1..e - 1 + 1 : x[i] = p[1 + i - 1]
  BY <1>1, Part
<1>3. e = Len(p)
  BY DEF e
<1> HIDE DEF x
<1>4. Len(x) = Len(p) /\ \A i \in 1..Len(p) : x[i] = p[i]
  BY <1>1, <1>2, <1>3
<1>5. x = p
  BY <1>2, <1>4, SeqEqual
<1>6. QED
  BY <1>3, <1>5 DEF x

\* A text without a separator is one piece.
LEMMA PairsAlone ==
  ASSUME NEW kind, NEW p \in Text, Lacks(p, Separators(kind))
  PROVE  PairsIn(kind, p) = Enter(kind, NoPairs, p)
<1>1. Split(kind, p)[Len(p)] = [pairs |-> NoPairs, from |-> 1]
  <2>1. Len(p) \in Nat /\ 0 \in 0..Len(p) /\ \A i \in 0 + 1..Len(p) : p[i] \notin Separators(kind)
    BY DEF Lacks
  <2>2. Split(kind, p)[Len(p)] = Split(kind, p)[0]
    BY <2>1, SplitSkips, Zenon
  <2>3. QED
    BY <2>2, SplitTurns
<1>2. SubSeq(p, 1, Len(p)) = p
  BY Whole
<1> DEFINE b == Split(kind, p)[Len(p)]
<1>3. PairsIn(kind, p) = Enter(kind, b.pairs, SubSeq(p, b.from, Len(p)))
  BY PairsInIs
<1>4. b.pairs = NoPairs /\ b.from = 1
  BY <1>1
<1> HIDE DEF b
<1>5. QED
  BY <1>2, <1>3, <1>4, Zenon

\* A separator and a piece behind it.
LEMMA PairsAppend ==
  ASSUME NEW kind, NEW t \in Text, NEW c \in Tokens, c \in Separators(kind),
         NEW p \in Text, Lacks(p, Separators(kind))
  PROVE  PairsIn(kind, t \o <<c>> \o p) = Enter(kind, PairsIn(kind, t), p)
<1> DEFINE n == Len(t)
           b == Split(kind, t)[n]
           s == t \o <<c>> \o p
<1>1. s = t \o <<c>> \o p
  OBVIOUS
<1> HIDE DEF s
<1>2. /\ s \in Text /\ Len(s) = n + 1 + Len(p) /\ n \in Nat /\ Len(p) \in Nat
      /\ \A i \in 1..n : s[i] = t[i]
      /\ s[n + 1] = c
      /\ \A i \in 1..Len(p) : s[n + 1 + i] = p[i]
      /\ SubSeq(s, n + 2, Len(s)) = p
  BY <1>1, Between
<1>3. Split(kind, s)[n] = b /\ b.from \in 1..n + 1 /\ b \in Splits
  <2>1. n <= Len(t) /\ n <= Len(s) /\ \A i \in 1..n : t[i] = s[i]
    BY <1>2
  <2>2. Split(kind, t)[n] = Split(kind, s)[n] /\ Split(kind, t)[n].from \in 1..n + 1
    <3>1. n \in Nat
      BY <1>2
    <3>2. s \in Text
      BY <1>2
    <3> HIDE DEF n
    <3>3. QED
      BY <2>1, <3>1, <3>2, SplitAgrees, Zenon
  <2>3. b \in Splits
    BY PairsInIs
  <2>4. QED
    BY <2>2, <2>3
<1>4. SubSeq(s, b.from, n) = SubSeq(t, b.from, n)
  <2> DEFINE a == b.from
  <2>1. a \in Nat /\ 1 <= a /\ n <= Len(s) /\ n <= Len(t) /\ \A i \in a..n : s[i] = t[i]
    BY <1>2, <1>3
  <2>2. n \in Nat
    BY <1>2
  <2> HIDE DEF a, n
  <2>3. SubSeq(s, a, n) = SubSeq(t, a, n)
    BY <1>2, <2>1, <2>2, SameParts
  <2>4. QED
    BY <2>3 DEF a
<1>5. PairsIn(kind, t) = Enter(kind, b.pairs, SubSeq(t, b.from, n))
  BY PairsInIs
<1>6. Split(kind, s)[n + 1] = [pairs |-> PairsIn(kind, t), from |-> n + 2]
  <2> DEFINE j == n + 1
  <2>1. j \in 1..Len(s) /\ j - 1 = n /\ j + 1 = n + 2
    BY <1>2
  <2>2. s[j] = c
    BY <1>2
  <2> HIDE DEF j, n, b
  <2>3. Split(kind, s)[j] = SplitAt(kind, s, j, Split(kind, s)[j - 1])
    BY <1>2, <2>1, SplitTurns
  <2>4. Split(kind, s)[j] = SplitAt(kind, s, j, b)
    BY <1>3, <2>1, <2>3
  <2>5. SplitAt(kind, s, j, b) = [pairs |-> Enter(kind, b.pairs, SubSeq(s, b.from, j - 1)), from |-> j + 1]
    BY <2>2 DEF SplitAt
  <2>6. Split(kind, s)[j] = [pairs |-> PairsIn(kind, t), from |-> n + 2]
    BY <2>1, <2>4, <2>5, <1>4, <1>5, Zenon
  <2>7. QED
    BY <2>6 DEF j
<1>7. Split(kind, s)[Len(s)] = Split(kind, s)[n + 1]
  <2> DEFINE m == n + 1
  <2>1. m \in 0..Len(s)
    BY <1>2
  <2>2. \A i \in m + 1..Len(s) : s[i] \notin Separators(kind)
    <3>1. \A i \in m + 1..Len(s) : i - (n + 1) \in 1..Len(p) /\ n + 1 + (i - (n + 1)) = i
      BY <1>2
    <3>2. \A i \in 1..Len(p) : p[i] \notin Separators(kind)
      BY DEF Lacks
    <3> HIDE DEF m, n
    <3>3. QED
      BY <1>2, <3>1, <3>2, Zenon
  <2> HIDE DEF m
  <2>3. Split(kind, s)[Len(s)] = Split(kind, s)[m]
    <3>1. s \in Text
      BY <1>2
    <3>2. QED
      BY <2>1, <2>2, <3>1, SplitSkips, Zenon
  <2>4. QED
    BY <2>3 DEF m
<1>8. PairsIn(kind, s) = Enter(kind, Split(kind, s)[Len(s)].pairs, SubSeq(s, Split(kind, s)[Len(s)].from, Len(s)))
  BY <1>2, PairsInIs
<1> HIDE DEF n, b
<1>9. Split(kind, s)[Len(s)].pairs = PairsIn(kind, t) /\ Split(kind, s)[Len(s)].from = n + 2
  BY <1>6, <1>7
<1>10. QED
  BY <1>1, <1>2, <1>8, <1>9, Zenon

\* What has no equal sign is not entered.
LEMMA EnterNothing ==
  ASSUME NEW kind, NEW m, NEW p \in Text, Lacks(p, {"="})
  PROVE  Enter(kind, m, p) = m
<1>1. PosEqual(p) = 0
  BY PosEqualIs DEF Lacks
<1>2. QED
  BY <1>1 DEF Enter, InsertPair, AddCookie

\* A text without "=" has no pairs.
LEMMA NothingIn ==
  ASSUME NEW kind, NEW t \in Text, Lacks(t, {"="})
  PROVE  PairsIn(kind, t) = NoPairs
<1> DEFINE S == Split(kind, t)
           T == {i \in 0..Len(t) : S[i].pairs = NoPairs /\ S[i].from \in 1..i + 1}
           n == Len(t)
<1>1. n \in Nat /\ Len(t) = n
  OBVIOUS
<1>2. ASSUME NEW a \in Nat, NEW e \in Nat, 1 <= a, e <= n
      PROVE  Enter(kind, NoPairs, SubSeq(t, a, e)) = NoPairs
  <2> DEFINE x == SubSeq(t, a, e)
  <2>1. /\ x \in Text
        /\ Len(x) = IF a <= e THEN e - a + 1 ELSE 0
        /\ \A i \in 1..e - a + 1 : x[i] = t[a + i - 1]
    BY <1>2, Part
  <2>2. \A i \in 1..e - a + 1 : a + i - 1 \in 1..Len(t)
    BY <1>2
  <2>3. \A i \in 1..Len(t) : t[i] # "="
    BY DEF Lacks
  <2> HIDE DEF x
  <2>4. \A i \in 1..Len(x) : x[i] # "="
    <3>1. \A i \in 1..Len(x) : i \in 1..e - a + 1
      BY <2>1
    <3>2. \A i \in 1..e - a + 1 : t[a + i - 1] # "="
      BY <2>2, <2>3, Zenon
    <3>3. QED
      BY <2>1, <3>1, <3>2
  <2>5. Lacks(x, {"="})
    BY <2>1, <2>4 DEF Lacks
  <2>6. Enter(kind, NoPairs, x) = NoPairs
    BY <2>1, <2>5, EnterNothing
  <2>7. QED
    BY <2>6 DEF x
<1>3. 0 \in T
  BY SplitTurns
<1>4. ASSUME NEW i \in 0..n - 1, i \in T
      PROVE  i + 1 \in T
  <2> DEFINE j == i + 1
             b == S[i]
  <2>1. j \in 1..n /\ j - 1 = i /\ j - 1 \in Nat /\ j - 1 <= n /\ j \in 0..n
    BY <1>1
  <2>2. b.pairs = NoPairs /\ b.from \in 1..i + 1
    BY <1>4
  <2>3. b.from \in Nat /\ 1 <= b.from
    BY <2>2
  <2> HIDE DEF j
  <2>4. S[j] = SplitAt(kind, t, j, S[j - 1])
    BY <2>1, SplitTurns
  <2> HIDE DEF b
  <2>5. Enter(kind, NoPairs, SubSeq(t, b.from, j - 1)) = NoPairs
    BY <1>2, <2>1, <2>3, Zenon
  <2>6. S[j] = SplitAt(kind, t, j, b)
    BY <2>1, <2>4 DEF b
  <2>7. S[j].pairs = NoPairs /\ S[j].from \in 1..j + 1
    <3>1. CASE t[j] \notin Separators(kind)
      BY <2>1, <2>2, <2>6, <3>1 DEF SplitAt
    <3>2. CASE t[j] \in Separators(kind)
      BY <2>1, <2>2, <2>5, <2>6, <3>2 DEF SplitAt
    <3>3. QED
      BY <3>1, <3>2
  <2>8. j \in T
    BY <2>1, <2>7
  <2>9. QED
    BY <2>8 DEF j
<1> HIDE DEF T
<1>5. n \in T
  <2>1. \A i \in 0..n : i \in T
    BY <1>1, <1>3, <1>4, Counting
  <2>2. QED
    BY <1>1, <2>1
<1>6. S[n].pairs = NoPairs /\ S[n].from \in 1..n + 1
  BY <1>5 DEF T
<1>7. S[n].from \in Nat /\ 1 <= S[n].from
  BY <1>6
<1>8. Enter(kind, NoPairs, SubSeq(t, S[n].from, n)) = NoPairs
  BY <1>1, <1>2, <1>7
<1>9. QED
  BY <1>6, <1>8, PairsInIs

-----------------------------------------------------------------------------
(* Joined pieces, and the pairs that are read of them                        *)

\* The growth of a joined text, piece by piece.
LEMMA JoiningTurns ==
  ASSUME NEW pieces \in Seq(Text), NEW sep \in Text
  PROVE  /\ Joining(pieces, sep)[0] = <<>>
         /\ \A k \in 0..Len(pieces) : Joining(pieces, sep)[k] \in Text
         /\ Len(pieces) > 0 => Joining(pieces, sep)[1] = pieces[1]
         /\ \A k \in 2..Len(pieces) :
              Joining(pieces, sep)[k] = Joining(pieces, sep)[k - 1] \o sep \o pieces[k]
<1> DEFINE n == Len(pieces)
           Turn(t, k) == IF k = 1 THEN pieces[1] ELSE t \o sep \o pieces[k]
           step == [p \in Text \X (1..n) |-> Turn(p[1], p[2])]
<1>1. n \in Nat /\ <<>> \in Text
  OBVIOUS
<1>2. \A t \in Text, k \in 1..n : Turn(t, k) \in Text
  <2> SUFFICES ASSUME NEW t \in Text, NEW k \in 1..n
               PROVE  Turn(t, k) \in Text
    BY Zenon
  <2>1. pieces[k] \in Text /\ pieces[1] \in Text
    OBVIOUS
  <2>2. t \o sep \in Text
    OBVIOUS
  <2>3. (t \o sep) \o pieces[k] \in Text
    BY <2>1, <2>2, ConcatProperties
  <2>4. QED
    BY <2>1, <2>3
<1> HIDE DEF Turn
<1>3. step \in [Text \X (1..n) -> Text]
  BY <1>2
<1>4. \A t \in Text, k \in 1..n : step[<<t, k>>] = Turn(t, k)
  OBVIOUS
<1> HIDE DEF step, n
<1>5. \E f : Iterates(f, Text, n, <<>>, step)
  BY <1>1, <1>3, IterationExists, Zenon
<1>6. PICK f \in [0..n -> Text] : f[0] = <<>> /\ \A i \in 1..n : f[i] = step[<<f[i - 1], i>>]
  BY <1>5, Zenon DEF Iterates
<1>7. f = [i \in 0..n |-> IF i = 0 THEN <<>> ELSE Turn(f[i - 1], i)]
  <2>1. ASSUME NEW i \in 0..n, i # 0
        PROVE  f[i] = Turn(f[i - 1], i)
    <3>1. i \in 1..n /\ i - 1 \in 0..n
      BY <1>1, <2>1
    <3>2. f[i - 1] \in Text
      BY <1>6, <3>1
    <3>3. QED
      BY <1>4, <1>6, <3>1, <3>2, Zenon
  <2>2. QED
    BY <1>6, <2>1
<1> DEFINE g == Joining(pieces, sep)
<1>8. g = CHOOSE h : h = [i \in 0..n |-> IF i = 0 THEN <<>> ELSE Turn(h[i - 1], i)]
  BY Zenon DEF Joining, n, Turn
<1> HIDE DEF g
<1>9. g = [i \in 0..n |-> IF i = 0 THEN <<>> ELSE Turn(g[i - 1], i)]
  BY <1>7, <1>8, Zenon
<1>10. g[0] = <<>> /\ \A i \in 1..n : g[i] = Turn(g[i - 1], i)
  BY <1>1, <1>9
<1>11. \A i \in 0..n : g[i] \in Text
  <2> DEFINE T == {i \in 0..n : g[i] \in Text}
  <2>1. 0 \in T
    <3>1. 0 \in 0..n
      BY <1>1
    <3>2. g[0] \in Text
      BY <1>1, <1>10, Zenon
    <3>3. QED
      BY <3>1, <3>2
  <2>2. ASSUME NEW i \in 0..n - 1, i \in T
        PROVE  i + 1 \in T
    <3>1. i + 1 \in 1..n /\ i + 1 - 1 = i /\ g[i] \in Text
      BY <1>1, <2>2
    <3>2. g[i + 1] = Turn(g[i], i + 1)
      BY <1>10, <3>1
    <3>3. Turn(g[i], i + 1) \in Text
      BY <1>2, <3>1, Zenon
    <3>4. i + 1 \in 0..n
      BY <1>1
    <3>5. QED
      BY <3>2, <3>3, <3>4
  <2> HIDE DEF T
  <2>3. \A i \in 0..n : i \in T
    BY <1>1, <2>1, <2>2, Counting
  <2>4. QED
    BY <2>3 DEF T
<1>12. n > 0 => g[1] = pieces[1]
  BY <1>1, <1>10 DEF Turn
<1>13. \A k \in 2..n : g[k] = g[k - 1] \o sep \o pieces[k]
  <2> SUFFICES ASSUME NEW k \in 2..n
               PROVE  g[k] = g[k - 1] \o sep \o pieces[k]
    OBVIOUS
  <2>1. k \in 1..n /\ k # 1
    BY <1>1
  <2>2. g[k] = Turn(g[k - 1], k)
    BY <1>10, <2>1, Zenon
  <2>3. QED
    BY <2>1, <2>2, Zenon DEF Turn
<1>14. QED
  BY <1>10, <1>11, <1>12, <1>13 DEF g, n

\* Lists of pairs.
Pairs == Seq(Text \X Text)

\* m holds what is to be read of the first k pairs: of a query a key's first value, of
\* cookies its last.
Reads(kind, m, pairs, k) ==
  /\ m \in PairMaps
  /\ DOMAIN m = {pairs[i][1] : i \in 1..k}
  /\ \A i \in 1..k :
       (\A j \in 1..k : (IF kind = "query" THEN j < i ELSE i < j) => pairs[j][1] # pairs[i][1])
         => m[pairs[i][1]] = pairs[i][2]

\* A piece that is read as a pair.
IsCore(kind, core, pair) ==
  /\ core \in Text /\ Lacks(core, Separators(kind)) /\ PosEqual(core) # 0
  /\ Before(core) = pair[1]
  /\ pair[2] = IF kind = "query" THEN Decoded(After(core)) ELSE After(core)

\* The piece that is written for it: more may follow that has no equal sign.
Prolongs(kind, piece, core) ==
  \/ piece = core
  \/ \E c \in Tokens, p \in Text :
       c \in Separators(kind) /\ Lacks(p, {"="}) /\ piece = core \o <<c>> \o p

IsPiece(kind, piece, pair) ==
  piece \in Text /\ \E core : IsCore(kind, core, pair) /\ Prolongs(kind, piece, core)

\* Before the first pair nothing is read.
LEMMA ReadsNothing ==
  ASSUME NEW kind, NEW pairs
  PROVE  Reads(kind, NoPairs, pairs, 0)
<1>1. NoPairs \in PairMaps /\ DOMAIN NoPairs = {}
  BY NoPairsType
<1>2. 1..0 = {}
  OBVIOUS
<1>3. QED
  BY <1>1, <1>2 DEF Reads

\* The next piece makes the next pair read: of several of a key a query keeps the first, and a
\* cookie the last.
LEMMA ReadsOneMore ==
  ASSUME NEW kind \in Kinds, NEW m, NEW pairs \in Pairs, NEW k \in Nat, k < Len(pairs),
         Reads(kind, m, pairs, k), NEW piece, IsCore(kind, piece, pairs[k + 1])
  PROVE  Reads(kind, Enter(kind, m, piece), pairs, k + 1)
<1> DEFINE key == pairs[k + 1][1]
           v == pairs[k + 1][2]
           e == Enter(kind, m, piece)
           K == {pairs[i][1] : i \in 1..k}
           q == k + 1
<1>1. /\ m \in PairMaps
      /\ DOMAIN m = K
      /\ \A i \in 1..k :
           (\A j \in 1..k : (IF kind = "query" THEN j < i ELSE i < j) => pairs[j][1] # pairs[i][1])
             => m[pairs[i][1]] = pairs[i][2]
  BY DEF Reads
<1>2. k + 1 \in 1..Len(pairs) /\ 1..k + 1 = 1..k \cup {k + 1} /\ \A i \in 1..k : i < k + 1
  OBVIOUS
<1>3. key \in Text /\ v \in Text
  <2>1. pairs[q] \in Text \X Text
    BY <1>2 DEF Pairs
  <2> HIDE DEF q
  <2>2. pairs[q][1] \in Text /\ pairs[q][2] \in Text
    BY <2>1
  <2>3. QED
    BY <2>2 DEF q
<1>4. e = IF kind = "query" /\ key \in K THEN m ELSE With(m, key, v)
  BY <1>1 DEF Enter, InsertPair, AddCookie, IsCore, Kinds
<1>5. /\ With(m, key, v) \in PairMaps /\ DOMAIN With(m, key, v) = DOMAIN m \cup {key}
      /\ With(m, key, v)[key] = v
      /\ \A x \in DOMAIN m : x # key => With(m, key, v)[x] = m[x]
  BY <1>1, <1>3, WithType, Zenon
<1>6. e \in PairMaps
  BY <1>1, <1>4, <1>5
<1>7. DOMAIN e = K \cup {key}
  BY <1>1, <1>4, <1>5
<1>8. K \cup {key} = {pairs[i][1] : i \in 1..k + 1}
  BY <1>2
<1>9. ASSUME NEW i \in 1..k + 1,
             \A j \in 1..k + 1 : (IF kind = "query" THEN j < i ELSE i < j) => pairs[j][1] # pairs[i][1]
      PROVE  e[pairs[i][1]] = pairs[i][2]
  <2> HIDE DEF K, e
  <2>1. CASE i = k + 1
    <3>1. kind = "query" => key \notin K
      BY <1>2, <1>9, <2>1 DEF K
    <3>2. QED
      BY <1>4, <1>5, <2>1, <3>1
  <2>2. CASE i \in 1..k
    <3>1. m[pairs[i][1]] = pairs[i][2]
      BY <1>1, <1>2, <1>9, <2>2
    <3>2. pairs[i][1] \in K
      BY <2>2 DEF K
    <3>3. CASE kind = "query"
      <4>1. key \notin K => pairs[i][1] # key
        BY <3>2
      <4>2. QED
        BY <1>1, <1>4, <1>5, <3>1, <3>2, <3>3, <4>1
    <3>4. CASE kind # "query"
      <4>1. pairs[i][1] # key
        BY <1>2, <1>9, <2>2, <3>4
      <4>2. QED
        BY <1>1, <1>4, <1>5, <3>1, <3>2, <3>4, <4>1
    <3>5. QED
      BY <3>3, <3>4
  <2>3. QED
    BY <1>2, <2>1, <2>2
<1>10. QED
  BY <1>6, <1>7, <1>8, <1>9 DEF Reads

\* Concatenation is associative.
LEMMA Associates ==
  ASSUME NEW a \in Text, NEW b \in Text, NEW c \in Text
  PROVE  a \o (b \o c) = a \o b \o c /\ a \o b \in Text
<1>1. (a \o b) \o c = a \o (b \o c)
  BY ConcatAssociative
<1>2. QED
  BY <1>1

\* The groupings of four texts that are equal.
Regroups(a, b, c, d) == a \o (b \o c \o d) = (a \o b) \o c \o d

\* The same for four texts.
LEMMA AssociatesThree ==
  ASSUME NEW a \in Text, NEW b \in Text, NEW c \in Text, NEW d \in Text
  PROVE  Regroups(a, b, c, d)
<1>1. a \o b \in Text /\ b \o c \in Text
  OBVIOUS
<1>2. (a \o (b \o c)) \o d = a \o ((b \o c) \o d)
  <2> DEFINE x == b \o c
  <2>1. x \in Text
    BY <1>1
  <2> HIDE DEF x
  <2>2. (a \o x) \o d = a \o (x \o d)
    BY <2>1, ConcatAssociative
  <2>3. QED
    BY <2>2 DEF x
<1>3. a \o (b \o c) = (a \o b) \o c
  BY Associates
<1>4. QED
  BY <1>1, <1>2, <1>3 DEF Regroups

\* The empty text adds nothing.
LEMMA WithNothing ==
  ASSUME NEW a \in Text
  PROVE  a \o <<>> = a /\ <<>> \o a = a
BY ConcatEmptySeq

\* Two tokens are a text of one and another one.
LEMMA TwoTokens ==
  ASSUME NEW c \in Tokens, NEW d \in Tokens
  PROVE  <<c, d>> = <<c>> \o <<d>> /\ <<c>> \in Text /\ <<d>> \in Text /\ <<c, d>> \in Text
<1> DEFINE a == <<c>>
           b == <<d>>
           x == <<c, d>>
           y == a \o b
<1>1. /\ a \in Text /\ Len(a) = 1 /\ a[1] = c /\ b \in Text /\ Len(b) = 1 /\ b[1] = d
      /\ x \in Text /\ Len(x) = 2 /\ x[1] = c /\ x[2] = d
  OBVIOUS
<1> HIDE DEF a, b, x
<1>2. y \in Text /\ Len(y) = 2 /\ \A i \in 1..2 : y[i] = IF i <= 1 THEN a[i] ELSE b[i - 1]
  BY <1>1, ConcatProperties
<1>3. y[1] = c /\ y[2] = d
  BY <1>1, <1>2
<1> HIDE DEF y
<1>4. x = y
  <2>1. \A i \in 1..Len(x) : x[i] = y[i]
    BY <1>1, <1>3
  <2>2. QED
    BY <1>1, <1>2, <2>1, SeqEqual
<1>5. QED
  BY <1>1, <1>4 DEF a, b, x, y

\* What is written between two pieces.
SeparatorOf(kind) == IF kind = "query" THEN <<"&">> ELSE <<";", " ">>

\* What separates pairs is a text.
LEMMA SeparatorType ==
  ASSUME NEW kind \in Kinds
  PROVE  SeparatorOf(kind) \in Text
<1> DEFINE et == "&"
           semi == ";"
           space == " "
<1>1. et \in Tokens /\ semi \in Tokens /\ space \in Tokens
  BY TokensAre
<1>2. SeparatorOf(kind) \in {<<et>>, <<semi, space>>}
  BY DEF SeparatorOf
<1> HIDE DEF et, semi, space
<1>3. <<et>> \in Text /\ <<semi, space>> \in Text
  BY <1>1, TwoTokens
<1>4. QED
  BY <1>2, <1>3

\* A piece behind a separator is entered into what the text before it gave.
LEMMA AfterSeparator ==
  ASSUME NEW kind \in Kinds, NEW t \in Text, NEW p \in Text, Lacks(p, Separators(kind))
  PROVE  PairsIn(kind, t \o SeparatorOf(kind) \o p) = Enter(kind, PairsIn(kind, t), p)
<1> DEFINE et == "&"
           semi == ";"
           space == " "
<1>1. CASE kind = "query"
  <2>1. et \in Tokens /\ et \in Separators(kind)
    BY <1>1, TokensAre DEF Separators
  <2>2. SeparatorOf(kind) = <<et>>
    BY <1>1 DEF SeparatorOf
  <2> HIDE DEF et
  <2>3. PairsIn(kind, t \o <<et>> \o p) = Enter(kind, PairsIn(kind, t), p)
    BY <2>1, PairsAppend, Zenon
  <2>4. QED
    BY <2>2, <2>3, Zenon
<1>2. CASE kind = "cookie"
  <2>1. /\ semi \in Tokens /\ semi \in Separators(kind)
        /\ space \in Tokens /\ space \in Separators(kind)
    BY <1>2, TokensAre DEF Separators
  <2>2. SeparatorOf(kind) = <<semi, space>>
    BY <1>2 DEF SeparatorOf
  <2> HIDE DEF semi, space
  <2>3. <<semi, space>> = <<semi>> \o <<space>> /\ <<semi>> \in Text /\ <<space>> \in Text
    BY <2>1, TwoTokens
  <2>4. t \o <<semi, space>> = (t \o <<semi>>) \o <<space>> /\ t \o <<semi>> \in Text
    <3>1. t \o (<<semi>> \o <<space>>) = (t \o <<semi>>) \o <<space>> /\ t \o <<semi>> \in Text
      BY <2>3, Associates
    <3>2. QED
      BY <2>3, <3>1
  <2>5. PairsIn(kind, t \o <<semi>> \o <<>>) = Enter(kind, PairsIn(kind, t), <<>>)
    <3>1. <<>> \in Text /\ Lacks(<<>>, Separators(kind))
      BY DEF Lacks
    <3>2. QED
      BY <2>1, <3>1, PairsAppend, Zenon
  <2>6. t \o <<semi>> \o <<>> = t \o <<semi>>
    BY <2>4, WithNothing, Zenon
  <2>7. Enter(kind, PairsIn(kind, t), <<>>) = PairsIn(kind, t)
    <3>1. <<>> \in Text /\ Lacks(<<>>, {"="})
      BY DEF Lacks
    <3>2. QED
      BY <3>1, EnterNothing, Zenon
  <2>8. PairsIn(kind, (t \o <<semi>>) \o <<space>> \o p) = Enter(kind, PairsIn(kind, t \o <<semi>>), p)
    BY <2>1, <2>4, PairsAppend, Zenon
  <2>9. QED
    BY <2>2, <2>4, <2>5, <2>6, <2>7, <2>8, Zenon
<1>3. QED
  BY <1>1, <1>2 DEF Kinds

\* The same with a front before both.
LEMMA AfterSeparatorJoined ==
  ASSUME NEW kind \in Kinds, NEW front \in Text, NEW t \in Text, NEW p \in Text, Lacks(p, Separators(kind))
  PROVE  PairsIn(kind, front \o (t \o SeparatorOf(kind) \o p)) = Enter(kind, PairsIn(kind, front \o t), p)
<1> DEFINE sep == SeparatorOf(kind)
<1>1. sep \in Text
  BY SeparatorType
<1>2. PairsIn(kind, (front \o t) \o sep \o p) = Enter(kind, PairsIn(kind, front \o t), p)
  <2>1. front \o t \in Text
    OBVIOUS
  <2>2. QED
    BY <2>1, AfterSeparator, Zenon
<1> HIDE DEF sep
<1>3. front \o (t \o sep \o p) = (front \o t) \o sep \o p
  <2>1. Regroups(front, t, sep, p)
    BY <1>1, AssociatesThree
  <2>2. QED
    BY <2>1, Zenon DEF Regroups
<1>4. QED
  BY <1>2, <1>3, Zenon DEF sep

\* What may stand before a query: nothing that has an equal sign.
IsFront(kind, front) ==
  \/ front = <<>>
  \/ kind = "query" /\ \E f \in Text : Lacks(f, {"="}) /\ front = f \o <<"&">>

\* What stands before the pairs, as "Cookie: ", enters nothing.
LEMMA AfterFront ==
  ASSUME NEW kind \in Kinds, NEW front \in Text, IsFront(kind, front), NEW p \in Text, Lacks(p, Separators(kind))
  PROVE  /\ PairsIn(kind, front) = NoPairs
         /\ PairsIn(kind, front \o p) = Enter(kind, NoPairs, p)
<1>1. CASE front = <<>>
  <2>1. front \o p = p
    BY <1>1, WithNothing
  <2>2. Lacks(front, {"="})
    BY <1>1 DEF Lacks
  <2>3. QED
    BY <2>1, <2>2, NothingIn, PairsAlone, Zenon
<1>2. CASE kind = "query" /\ \E f \in Text : Lacks(f, {"="}) /\ front = f \o <<"&">>
  <2> DEFINE et == "&"
  <2>1. et \in Tokens /\ et \in Separators(kind) /\ \E f \in Text : Lacks(f, {"="}) /\ front = f \o <<et>>
    BY <1>2, TokensAre DEF Separators
  <2> HIDE DEF et
  <2>2. PICK f \in Text : Lacks(f, {"="}) /\ front = f \o <<et>>
    BY <2>1
  <2>3. <<>> \in Text /\ Lacks(<<>>, Separators(kind)) /\ Lacks(<<>>, {"="})
    BY DEF Lacks
  <2>4. PairsIn(kind, f) = NoPairs
    BY <2>2, NothingIn, Zenon
  <2>5. PairsIn(kind, front \o p) = Enter(kind, NoPairs, p)
    BY <2>1, <2>2, <2>4, PairsAppend, Zenon
  <2>6. PairsIn(kind, f \o <<et>> \o <<>>) = Enter(kind, NoPairs, <<>>)
    BY <2>1, <2>3, <2>4, PairsAppend, Zenon
  <2>7. f \o <<et>> \o <<>> = front
    BY <2>2, WithNothing, Zenon
  <2>8. Enter(kind, NoPairs, <<>>) = NoPairs
    BY <2>3, EnterNothing, Zenon
  <2>9. QED
    BY <2>5, <2>6, <2>7, <2>8, Zenon
<1>3. QED
  BY <1>1, <1>2 DEF IsFront

\* What goes on without an equal sign adds nothing.
LEMMA NothingMore ==
  ASSUME NEW kind, NEW t \in Text, NEW c \in Tokens, c \in Separators(kind),
         NEW p \in Text, Lacks(p, {"="})
  PROVE  PairsIn(kind, t \o <<c>> \o p) = PairsIn(kind, t)
<1> DEFINE n == Len(t)
           s == t \o <<c>> \o p
           u == t \o <<c>>
           m == PairsIn(kind, t)
           l == Len(s)
           S == Split(kind, s)
           T == {i \in 0..Len(p) : S[n + 1 + i].pairs = m /\ S[n + 1 + i].from \in n + 2..n + 2 + i}
<1>1. s = t \o <<c>> \o p /\ u = t \o <<c>>
  OBVIOUS
<1>2. PairsIn(kind, u) = m /\ u \in Text /\ Len(u) = n + 1 /\ \A i \in 1..n : u[i] = t[i]
  <2>1. <<>> \in Text /\ Lacks(<<>>, Separators(kind)) /\ Lacks(<<>>, {"="})
    BY DEF Lacks
  <2>2. PairsIn(kind, t \o <<c>> \o <<>>) = Enter(kind, PairsIn(kind, t), <<>>)
    BY <2>1, PairsAppend, Zenon
  <2>3. u \in Text
    OBVIOUS
  <2>4. t \o <<c>> \o <<>> = u
    BY <2>3, WithNothing, Zenon
  <2>5. Enter(kind, PairsIn(kind, t), <<>>) = m
    BY <2>1, EnterNothing, Zenon
  <2>6. QED
    BY <2>2, <2>3, <2>4, <2>5
<1> HIDE DEF s, u
<1>3. /\ s \in Text /\ Len(s) = n + 1 + Len(p) /\ n \in Nat /\ Len(p) \in Nat
      /\ \A i \in 1..n : s[i] = t[i]
      /\ s[n + 1] = c
      /\ \A i \in 1..Len(p) : s[n + 1 + i] = p[i]
  BY <1>1, Between
<1>4. \A i \in 1..Len(p) : s[n + 1 + i] # "="
  BY <1>3 DEF Lacks
<1>5. \A a \in Nat, e \in Nat : n + 2 <= a /\ e <= l => SubSeq(s, a, e) \in Text /\ Enter(kind, m, SubSeq(s, a, e)) = m
  <2>1. SUFFICES ASSUME NEW a \in Nat, NEW e \in Nat, n + 2 <= a, e <= l
                 PROVE  SubSeq(s, a, e) \in Text /\ Enter(kind, m, SubSeq(s, a, e)) = m
    BY Zenon
  <2> DEFINE x == SubSeq(s, a, e)
  <2>2. 1 <= a /\ l = n + 1 + Len(p)
    BY <1>3, <2>1
  <2>3. /\ x \in Text
        /\ Len(x) = IF a <= e THEN e - a + 1 ELSE 0
        /\ \A i \in 1..e - a + 1 : x[i] = s[a + i - 1]
    BY <1>3, <2>1, <2>2, Part
  <2> HIDE DEF x, l, m, S
  <2>4. \A i \in 1..Len(x) : x[i] # "="
    <3>1. TAKE i \in 1..Len(x)
    <3> DEFINE j == a + i - 1 - (n + 1)
    <3>2. i \in 1..e - a + 1 /\ j \in 1..Len(p) /\ n + 1 + j = a + i - 1
      BY <1>3, <2>1, <2>2, <2>3
    <3> HIDE DEF j
    <3>3. s[n + 1 + j] # "="
      BY <1>4, <3>2
    <3>4. QED
      BY <2>3, <3>2, <3>3
  <2>5. Lacks(x, {"="})
    BY <2>3, <2>4 DEF Lacks
  <2>6. QED
    BY <2>3, <2>5, EnterNothing, Zenon DEF x
<1>6. S[n + 1] = [pairs |-> m, from |-> n + 2]
  <2> DEFINE b == S[n]
             j == n + 1
  <2>1. j \in 1..Len(s) /\ j - 1 = n /\ j + 1 = n + 2
    BY <1>3
  <2>2. s[j] = c
    BY <1>3
  <2>3. b = Split(kind, t)[n] /\ b.from \in 1..n + 1
    <3> DEFINE k == n
    <3>1. k \in Nat /\ k <= Len(t) /\ k <= Len(s) /\ \A i \in 1..k : t[i] = s[i]
      BY <1>3
    <3> HIDE DEF k
    <3>2. Split(kind, t)[k] = Split(kind, s)[k] /\ Split(kind, t)[k].from \in 1..k + 1
      BY <1>3, <3>1, SplitAgrees, Zenon
    <3>3. QED
      BY <3>2 DEF k
  <2>4. SubSeq(s, b.from, n) = SubSeq(t, b.from, n)
    <3> DEFINE a == b.from
               k == n
    <3>1. a \in Nat /\ 1 <= a /\ k \in Nat /\ k <= Len(s) /\ k <= Len(t) /\ \A i \in a..k : s[i] = t[i]
      BY <1>3, <2>3
    <3> HIDE DEF a, k
    <3>2. SubSeq(s, a, k) = SubSeq(t, a, k)
      BY <1>3, <3>1, SameParts
    <3>3. QED
      BY <3>2 DEF a, k
  <2>5. m = Enter(kind, b.pairs, SubSeq(t, b.from, n))
    BY <2>3, PairsInIs
  <2> HIDE DEF j, n, b, m
  <2>6. S[j] = SplitAt(kind, s, j, S[j - 1])
    BY <1>3, <2>1, SplitTurns
  <2>7. S[j] = SplitAt(kind, s, j, b)
    BY <2>1, <2>6 DEF b
  <2>8. SplitAt(kind, s, j, b) = [pairs |-> Enter(kind, b.pairs, SubSeq(s, b.from, j - 1)), from |-> j + 1]
    BY <2>2 DEF SplitAt
  <2>9. QED
    BY <2>1, <2>4, <2>5, <2>7, <2>8, Zenon DEF j
<1> HIDE DEF m, l, S
<1>7. 0 \in T
  BY <1>3, <1>6
<1>8. ASSUME NEW i \in 0..Len(p) - 1, i \in T
      PROVE  i + 1 \in T
  <2> DEFINE j == n + 2 + i
             b == S[j - 1]
  <2>1. /\ j \in 1..Len(s) /\ j - 1 = n + 1 + i /\ n + 1 + (i + 1) = j /\ i + 1 \in 0..Len(p)
        /\ j - 1 \in Nat /\ j - 1 <= l /\ j + 1 = n + 2 + (i + 1)
    <3> DEFINE k == Len(p)
    <3>1. Len(s) = n + 1 + k /\ l = n + 1 + k /\ n \in Nat /\ k \in Nat /\ i \in 0..k - 1
      BY <1>3, <1>8 DEF l
    <3> HIDE DEF k, n
    <3>2. j \in 1..Len(s) /\ j - 1 = n + 1 + i /\ n + 1 + (i + 1) = j /\ i + 1 \in 0..k
      BY <3>1
    <3>3. j - 1 \in Nat /\ j - 1 <= l /\ j + 1 = n + 2 + (i + 1)
      BY <3>1
    <3>4. QED
      BY <3>2, <3>3 DEF k
  <2>2. b.pairs = m /\ b.from \in n + 2..n + 2 + i
    BY <1>8, <2>1
  <2>3. b.from \in Nat /\ n + 2 <= b.from
    BY <1>3, <2>2
  <2>4. S[j] = SplitAt(kind, s, j, b)
    <3> HIDE DEF j
    <3>1. QED
      BY <1>3, <2>1, SplitTurns DEF S
  <2> HIDE DEF b
  <2>5. Enter(kind, m, SubSeq(s, b.from, j - 1)) = m
    BY <1>5, <2>1, <2>3, Zenon
  <2>6. SplitAt(kind, s, j, b).pairs = m /\ SplitAt(kind, s, j, b).from \in {b.from, j + 1}
    BY <2>2, <2>5 DEF SplitAt
  <2>7. S[j].pairs = m /\ S[j].from \in n + 2..n + 2 + (i + 1)
    BY <1>3, <2>1, <2>2, <2>4, <2>6
  <2>8. QED
    BY <2>1, <2>7
<1> HIDE DEF T
<1>9. Len(p) \in T
  <2>1. \A i \in 0..Len(p) : i \in T
    BY <1>3, <1>7, <1>8, Counting
  <2>2. QED
    BY <1>3, <2>1
<1>10. S[l].pairs = m /\ S[l].from \in Nat /\ n + 2 <= S[l].from
  <2>1. n + 1 + Len(p) = l
    BY <1>3 DEF l
  <2>2. S[l].pairs = m /\ S[l].from \in n + 2..n + 2 + Len(p)
    BY <1>9, <2>1 DEF T
  <2>3. QED
    BY <1>3, <2>2
<1>11. l \in Nat /\ l <= l
  BY <1>3 DEF l
<1>12. Enter(kind, m, SubSeq(s, S[l].from, l)) = m
  BY <1>5, <1>10, <1>11
<1>13. PairsIn(kind, s) = Enter(kind, S[l].pairs, SubSeq(s, S[l].from, l))
  BY <1>3, PairsInIs DEF S, l
<1>14. PairsIn(kind, s) = m
  BY <1>10, <1>12, <1>13
<1>15. QED
  BY <1>1, <1>14, Zenon DEF m

\* Behind y, and behind a front, y and a separator, a piece is read like its core.
ReadsAlike(kind, y, piece, core) == PairsIn(kind, y \o piece) = PairsIn(kind, y \o core)
ReadsAlikeJoined(kind, front, y, piece, core) ==
  PairsIn(kind, front \o (y \o SeparatorOf(kind) \o piece))
    = PairsIn(kind, front \o (y \o SeparatorOf(kind) \o core))

\* What follows a core is not read.
LEMMA FollowerUnread ==
  ASSUME NEW kind, NEW y \in Text, NEW core \in Text, NEW piece, Prolongs(kind, piece, core)
  PROVE  ReadsAlike(kind, y, piece, core)
<1>1. CASE piece = core
  BY <1>1 DEF ReadsAlike
<1>2. CASE piece # core
  <2>1. PICK c \in Tokens, p \in Text :
          c \in Separators(kind) /\ Lacks(p, {"="}) /\ piece = core \o <<c>> \o p
    BY <1>2, Zenon DEF Prolongs
  <2>2. Regroups(y, core, <<c>>, p)
    <3>1. <<c>> \in Text
      OBVIOUS
    <3>2. QED
      BY <3>1, AssociatesThree, Zenon
  <2>3. y \o piece = (y \o core) \o <<c>> \o p
    BY <2>1, <2>2, Zenon DEF Regroups
  <2>4. y \o core \in Text
    OBVIOUS
  <2>5. PairsIn(kind, (y \o core) \o <<c>> \o p) = PairsIn(kind, y \o core)
    BY <2>1, <2>4, NothingMore, Zenon
  <2>6. QED
    BY <2>3, <2>5, Zenon DEF ReadsAlike
<1>3. QED
  BY <1>1, <1>2

\* Nor is it behind a separator.
LEMMA FollowerUnreadJoined ==
  ASSUME NEW kind \in Kinds, NEW front \in Text, NEW t \in Text, NEW core \in Text, NEW piece \in Text,
         Prolongs(kind, piece, core)
  PROVE  ReadsAlikeJoined(kind, front, t, piece, core)
<1> DEFINE sep == SeparatorOf(kind)
           y == (front \o t) \o sep
<1>1. sep \in Text
  BY SeparatorType
<1> HIDE DEF sep
<1>2. Regroups(front, t, sep, piece) /\ Regroups(front, t, sep, core)
  BY <1>1, AssociatesThree
<1>3. y \in Text
  <2>1. front \o t \in Text
    OBVIOUS
  <2> DEFINE x == front \o t
  <2> HIDE DEF x
  <2>2. x \o sep \in Text
    BY <1>1, <2>1 DEF x
  <2>3. QED
    BY <2>2 DEF x
<1>4. front \o (t \o sep \o piece) = y \o piece /\ front \o (t \o sep \o core) = y \o core
  BY <1>2, Zenon DEF Regroups
<1> HIDE DEF y
<1>5. ReadsAlike(kind, y, piece, core)
  BY <1>3, FollowerUnread, Zenon
<1>6. QED
  BY <1>4, <1>5, Zenon DEF sep, ReadsAlike, ReadsAlikeJoined

\* So pieces that are joined are read in their order, by induction over their number.
LEMMA JoinedReads ==
  ASSUME NEW kind \in Kinds, NEW pairs \in Pairs, NEW pieces \in Seq(Text), Len(pieces) = Len(pairs),
         \A i \in 1..Len(pairs) : IsPiece(kind, pieces[i], pairs[i]),
         NEW front \in Text, IsFront(kind, front)
  PROVE  Reads(kind, PairsIn(kind, front \o Joined(pieces, SeparatorOf(kind))), pairs, Len(pairs))
<1> DEFINE J == Joining(pieces, SeparatorOf(kind))
           n == Len(pairs)
           P(k) == PairsIn(kind, front \o J[k])
           T == {k \in 0..n : Reads(kind, P(k), pairs, k)}
<1>1. n \in Nat /\ Len(pieces) = n /\ Len(pairs) = n
  BY DEF Pairs
<1>2. /\ J[0] = <<>>
      /\ \A k \in 0..n : J[k] \in Text
      /\ n > 0 => J[1] = pieces[1]
      /\ \A k \in 2..n : J[k] = J[k - 1] \o SeparatorOf(kind) \o pieces[k]
  <2>1. SeparatorOf(kind) \in Text
    BY SeparatorType
  <2>2. QED
    BY <2>1, JoiningTurns
<1>3. PairsIn(kind, front) = NoPairs
  <2>1. <<>> \in Text /\ Lacks(<<>>, Separators(kind))
    BY DEF Lacks
  <2>2. QED
    BY <2>1, AfterFront, Zenon
<1> HIDE DEF J, n
<1>4. 0 \in T
  <2>1. P(0) = NoPairs
    BY <1>2, <1>3, WithNothing, Zenon
  <2>2. 0 \in 0..n
    BY <1>1
  <2>3. Reads(kind, P(0), pairs, 0)
    BY <2>1, ReadsNothing, Zenon
  <2> HIDE DEF P
  <2>4. QED
    BY <2>2, <2>3
<1>5. ASSUME NEW k \in 0..n - 1, k \in T
      PROVE  k + 1 \in T
  <2> DEFINE q == k + 1
             piece == pieces[q]
  <2>1. k \in Nat /\ k < Len(pairs) /\ q \in 1..n /\ q - 1 = k /\ q \in 0..n /\ (k # 0 => q \in 2..n) /\ k \in 0..n
    BY <1>1
  <2>2. IsPiece(kind, piece, pairs[q])
    BY <1>1, <2>1, Zenon
  <2>3. PICK core : IsCore(kind, core, pairs[q]) /\ Prolongs(kind, piece, core) /\ piece \in Text
    BY <2>2, Zenon DEF IsPiece
  <2>4. core \in Text /\ Lacks(core, Separators(kind))
    BY <2>3 DEF IsCore
  <2>5. P(q) = Enter(kind, P(k), core)
    <3>1. CASE k = 0
      <4>1. J[q] = piece /\ J[k] = <<>>
        BY <1>1, <1>2, <2>1, <3>1
      <4>2. P(k) = NoPairs
        BY <1>3, <4>1, WithNothing, Zenon
      <4> HIDE DEF piece
      <4>3. PairsIn(kind, front \o piece) = PairsIn(kind, front \o core)
        BY <2>3, <2>4, FollowerUnread, Zenon DEF ReadsAlike
      <4>4. PairsIn(kind, front \o core) = Enter(kind, NoPairs, core)
        BY <2>4, AfterFront, Zenon
      <4>5. QED
        BY <4>1, <4>2, <4>3, <4>4, Zenon
    <3>2. CASE k # 0
      <4>1. J[q] = J[k] \o SeparatorOf(kind) \o piece
        BY <1>2, <2>1, <3>2
      <4>2. J[k] \in Text /\ SeparatorOf(kind) \in Text
        BY <1>2, <2>1, SeparatorType
      <4> HIDE DEF piece
      <4>3. P(q) = PairsIn(kind, front \o (J[k] \o SeparatorOf(kind) \o piece))
        BY <4>1
      <4>4. P(q) = PairsIn(kind, front \o (J[k] \o SeparatorOf(kind) \o core))
        <5>1. ReadsAlikeJoined(kind, front, J[k], piece, core)
          BY <2>3, <2>4, <4>2, FollowerUnreadJoined, Zenon
        <5>2. QED
          BY <4>3, <5>1, Zenon DEF ReadsAlikeJoined
      <4>5. QED
        BY <2>4, <4>2, <4>4, AfterSeparatorJoined, Zenon
    <3>3. QED
      BY <3>1, <3>2
  <2> HIDE DEF piece, P
  <2>6. Reads(kind, P(k), pairs, k)
    BY <1>5
  <2>7. Reads(kind, Enter(kind, P(k), core), pairs, q)
    BY <2>1, <2>3, <2>6, ReadsOneMore, Zenon
  <2>8. q \in T
    BY <2>1, <2>5, <2>7
  <2>9. QED
    BY <2>8
<1> HIDE DEF T
<1>6. n \in T
  <2>1. \A i \in 0..n : i \in T
    BY <1>1, <1>4, <1>5, Counting
  <2>2. QED
    BY <1>1, <2>1
<1>7. Joined(pieces, SeparatorOf(kind)) = J[n]
  BY <1>1 DEF Joined, J
<1>8. QED
  BY <1>1, <1>6, <1>7, Zenon DEF T

-----------------------------------------------------------------------------
(* The first and the last value of a key                                     *)

\* The first value of a key stands at the first place that has it.
LEMMA FirstOfIs ==
  ASSUME NEW pairs \in Pairs, NEW k \in KeysOf(pairs)
  PROVE  \E i \in 1..Len(pairs) :
           /\ pairs[i][1] = k /\ \A j \in 1..i - 1 : pairs[j][1] # k
           /\ FirstOf(pairs, k) = pairs[i][2]
<1> DEFINE I == {i \in 1..Len(pairs) : pairs[i][1] = k}
           c == CHOOSE i \in DOMAIN pairs : pairs[i][1] = k /\ \A j \in 1..i - 1 : pairs[j][1] # k
<1>1. DOMAIN pairs = 1..Len(pairs) /\ Len(pairs) \in Nat
  BY DEF Pairs
<1>2. I # {} /\ I \subseteq Nat
  BY <1>1 DEF KeysOf
<1>3. PICK i \in I : \A j \in I : i <= j
  BY <1>2, Least
<1>4. \A j \in 1..i - 1 : pairs[j][1] # k
  <2>1. \A j \in 1..i - 1 : j \in 1..Len(pairs) /\ ~(i <= j)
    BY <1>1
  <2>2. QED
    BY <1>3, <2>1
<1>5. c \in DOMAIN pairs /\ pairs[c][1] = k /\ \A j \in 1..c - 1 : pairs[j][1] # k
  BY <1>1, <1>4
<1>6. FirstOf(pairs, k) = pairs[c][2]
  BY DEF FirstOf
<1>7. QED
  BY <1>1, <1>5, <1>6

\* A query that was read is a map of the first values.
LEMMA ReadsFirst ==
  ASSUME NEW pairs \in Pairs, NEW m, Reads("query", m, pairs, Len(pairs))
  PROVE  m = [k \in KeysOf(pairs) |-> FirstOf(pairs, k)]
<1>1. /\ m \in PairMaps
      /\ DOMAIN m = {pairs[i][1] : i \in 1..Len(pairs)}
      /\ \A i \in 1..Len(pairs) :
           (\A j \in 1..Len(pairs) : j < i => pairs[j][1] # pairs[i][1]) => m[pairs[i][1]] = pairs[i][2]
  BY DEF Reads
<1>2. DOMAIN m = KeysOf(pairs)
  BY <1>1 DEF KeysOf, Pairs
<1>3. ASSUME NEW k \in KeysOf(pairs)
      PROVE  m[k] = FirstOf(pairs, k)
  <2>1. PICK i \in 1..Len(pairs) :
          /\ pairs[i][1] = k /\ \A j \in 1..i - 1 : pairs[j][1] # k
          /\ FirstOf(pairs, k) = pairs[i][2]
    BY <1>3, FirstOfIs
  <2>2. \A j \in 1..Len(pairs) : j < i => j \in 1..i - 1
    OBVIOUS
  <2>3. \A j \in 1..Len(pairs) : j < i => pairs[j][1] # pairs[i][1]
    BY <2>1, <2>2
  <2>4. QED
    BY <1>1, <2>1, <2>3
<1>4. m \in [DOMAIN m -> Text]
  BY <1>1, PairMap
<1>5. QED
  BY <1>2, <1>3, <1>4

\* The keys and values of pairs that are turned round.
LEMMA Turned ==
  ASSUME NEW pairs \in Pairs
  PROVE  /\ Reverse(pairs) \in Pairs /\ Len(Reverse(pairs)) = Len(pairs) /\ Len(pairs) \in Nat
         /\ \A i \in 1..Len(pairs) : Reverse(pairs)[i] = pairs[Len(pairs) - i + 1]
<1>1. Len(pairs) \in Nat /\ \A i \in 1..Len(pairs) : pairs[i] \in Text \X Text
  BY DEF Pairs
<1>2. Reverse(pairs) = [i \in 1..Len(pairs) |-> pairs[(Len(pairs) - i) + 1]]
  BY DEF Reverse
<1>3. \A i \in 1..Len(pairs) : Len(pairs) - i + 1 \in 1..Len(pairs)
  BY <1>1
<1>4. \A i \in 1..Len(pairs) : pairs[Len(pairs) - i + 1] \in Text \X Text
  BY <1>1, <1>3, Zenon
<1>5. Reverse(pairs) \in [1..Len(pairs) -> Text \X Text]
  BY <1>2, <1>4
<1>6. QED
  BY <1>1, <1>2, <1>5 DEF Pairs

\* Cookies that were read are a map of the last values.
LEMMA ReadsLast ==
  ASSUME NEW pairs \in Pairs, NEW m, Reads("cookie", m, pairs, Len(pairs))
  PROVE  m = [k \in KeysOf(pairs) |-> LastOf(pairs, k)]
<1> DEFINE n == Len(pairs)
           turned == Reverse(pairs)
<1>1. /\ m \in PairMaps
      /\ DOMAIN m = {pairs[i][1] : i \in 1..n}
      /\ \A i \in 1..n :
           (\A j \in 1..n : i < j => pairs[j][1] # pairs[i][1]) => m[pairs[i][1]] = pairs[i][2]
  BY DEF Reads
<1>2. DOMAIN m = KeysOf(pairs)
  BY <1>1 DEF KeysOf, Pairs
<1>3. turned \in Pairs /\ Len(turned) = n /\ n \in Nat /\ \A i \in 1..n : turned[i] = pairs[n - i + 1]
  BY Turned
<1> HIDE DEF n, turned
<1>4. ASSUME NEW k \in KeysOf(pairs)
      PROVE  m[k] = LastOf(pairs, k)
  <2>1. k \in KeysOf(turned)
    <3>1. PICK i \in 1..n : pairs[i][1] = k
      BY <1>1, <1>2, <1>4
    <3>2. n - i + 1 \in 1..n /\ n - (n - i + 1) + 1 = i
      BY <1>3
    <3>3. turned[n - i + 1] = pairs[i]
      BY <1>3, <3>2
    <3>4. n - i + 1 \in DOMAIN turned
      BY <1>3, <3>2 DEF Pairs
    <3>5. QED
      BY <3>1, <3>3, <3>4 DEF KeysOf
  <2>2. PICK i \in 1..n :
          /\ turned[i][1] = k /\ \A j \in 1..i - 1 : turned[j][1] # k
          /\ FirstOf(turned, k) = turned[i][2]
    BY <1>3, <2>1, FirstOfIs
  <2> DEFINE at == n - i + 1
  <2>3. at \in 1..n /\ turned[i] = pairs[at]
    BY <1>3
  <2>4. \A j \in 1..n : at < j => n - j + 1 \in 1..i - 1 /\ n - j + 1 \in 1..n /\ n - (n - j + 1) + 1 = j
    BY <1>3
  <2>5. \A j \in 1..n : at < j => turned[n - j + 1] = pairs[j]
    BY <1>3, <2>4
  <2> HIDE DEF at
  <2>6. \A j \in 1..n : at < j => pairs[j][1] # pairs[at][1]
    BY <2>2, <2>3, <2>4, <2>5
  <2>7. m[pairs[at][1]] = pairs[at][2]
    BY <1>1, <2>3, <2>6
  <2>8. QED
    BY <2>2, <2>3, <2>7 DEF LastOf, turned
<1>5. m \in [DOMAIN m -> Text]
  BY <1>1, PairMap
<1>6. QED
  BY <1>2, <1>4, <1>5

-----------------------------------------------------------------------------
(* Queries and cookies                                                       *)

\* A text lacks what its parts lack.
LEMMA LacksBetween ==
  ASSUME NEW X, NEW a \in Text, NEW b \in Text, NEW c \in Tokens, c \notin X, Lacks(a, X), Lacks(b, X),
         NEW s, s = a \o <<c>> \o b
  PROVE  Lacks(s, X)
<1>1. /\ s \in Text /\ Len(s) = Len(a) + 1 + Len(b) /\ Len(a) \in Nat /\ Len(b) \in Nat
      /\ \A i \in 1..Len(a) : s[i] = a[i]
      /\ s[Len(a) + 1] = c
      /\ \A i \in 1..Len(b) : s[Len(a) + 1 + i] = b[i]
  BY Between
<1>2. (\A i \in 1..Len(a) : a[i] \notin X) /\ (\A i \in 1..Len(b) : b[i] \notin X)
  BY DEF Lacks
<1> DEFINE n == Len(a)
<1>3. \A i \in 1..Len(s) : i \in 1..n \/ i = n + 1 \/ (i - n - 1 \in 1..Len(b) /\ n + 1 + (i - n - 1) = i)
  BY <1>1
<1>4. \A i \in 1..Len(s) : s[i] \notin X
  <2>1. TAKE i \in 1..Len(s)
  <2>2. CASE i \in 1..n \/ i = n + 1
    BY <1>1, <1>2, <2>2
  <2>3. CASE i - n - 1 \in 1..Len(b) /\ n + 1 + (i - n - 1) = i
    <3> DEFINE j == i - n - 1
    <3>1. j \in 1..Len(b) /\ n + 1 + j = i
      BY <2>3
    <3> HIDE DEF j
    <3>2. s[n + 1 + j] = b[j] /\ b[j] \notin X
      BY <1>1, <1>2, <3>1
    <3>3. QED
      BY <3>1, <3>2
  <2>4. QED
    BY <1>3, <2>2, <2>3
<1>5. QED
  BY <1>1, <1>4 DEF Lacks

\* An encoded token is a token that stands for itself.
LEMMA EncodedTokenIs ==
  ASSUME NEW kept \in SUBSET {"="}, NEW x \in Tokens
  PROVE  LET y == IF x \in kept THEN x ELSE EncodedToken(x)
         IN /\ y \in Tokens /\ y # "&" /\ (kept = {} => y # "=")
            /\ x \notin {"%26", "%2B", "%3D"} => DecodedToken(y) = x
<1> DEFINE y == IF x \in kept THEN x ELSE EncodedToken(x)
<1>1. CASE x \in kept
  <2>1. y = x /\ x = "=" /\ kept # {}
    BY <1>1
  <2>2. DecodedToken(x) = x
    BY <2>1 DEF DecodedToken
  <2>3. QED
    BY <2>1, <2>2
<1>2. CASE x \notin kept
  <2>1. y = EncodedToken(x)
    BY <1>2
  <2>2. CASE x = " "
    <3>1. y = "+" /\ DecodedToken("+") = " "
      BY <2>1, <2>2 DEF EncodedToken, DecodedToken
    <3>2. QED
      BY <2>2, <3>1, TokensAre
  <2>3. CASE x = "&"
    <3>1. y = "%26" /\ DecodedToken("%26") = "&"
      BY <2>1, <2>3 DEF EncodedToken, DecodedToken
    <3>2. QED
      BY <2>3, <3>1, TokensAre
  <2>4. CASE x = "+"
    <3>1. y = "%2B" /\ DecodedToken("%2B") = "+"
      BY <2>1, <2>4 DEF EncodedToken, DecodedToken
    <3>2. QED
      BY <2>4, <3>1, TokensAre
  <2>5. CASE x = "="
    <3>1. y = "%3D" /\ DecodedToken("%3D") = "="
      BY <2>1, <2>5 DEF EncodedToken, DecodedToken
    <3>2. QED
      BY <2>5, <3>1, TokensAre
  <2>6. CASE x # " " /\ x # "&" /\ x # "+" /\ x # "="
    <3>1. y = x
      BY <2>1, <2>6 DEF EncodedToken
    <3>2. x \notin {"%26", "%2B", "%3D"} => DecodedToken(x) = x
      BY <2>6 DEF DecodedToken
    <3>3. QED
      BY <2>6, <3>1, <3>2
  <2>7. QED
    BY <2>2, <2>3, <2>4, <2>5, <2>6
<1>3. QED
  BY <1>1, <1>2

\* What is encoded has no "&" in it, and no "=" where none is kept; a value is decoded as itself up
\* to its first NUL (stream.cc:212-240).
LEMMA EncodedText ==
  ASSUME NEW t \in Text, NEW kept \in SUBSET {"="}
  PROVE  /\ Encoded(t, kept) \in Text /\ Lacks(Encoded(t, kept), {"&"})
         /\ kept = {} => Lacks(Encoded(t, kept), {"="})
         /\ Lacks(t, {"%26", "%2B", "%3D"}) => Decoded(Encoded(t, kept)) = UpToFirst(t, "%00")
<1> DEFINE e == Encoded(t, kept)
           n == Len(t)
           T(x) == IF x \in kept THEN x ELSE EncodedToken(x)
<1>1. n \in Nat /\ DOMAIN t = 1..n /\ t \in [1..n -> Tokens]
  OBVIOUS
<1>2. e = [i \in 1..n |-> T(t[i])]
  BY <1>1 DEF Encoded
<1>3. \A i \in 1..n : /\ T(t[i]) \in Tokens /\ T(t[i]) # "&" /\ (kept = {} => T(t[i]) # "=")
                      /\ t[i] \notin {"%26", "%2B", "%3D"} => DecodedToken(T(t[i])) = t[i]
  BY <1>1, EncodedTokenIs
<1> HIDE DEF e, n, T
<1>4. e \in Text /\ DOMAIN e = 1..n /\ \A i \in 1..n : e[i] = T(t[i])
  <2>1. e \in [1..n -> Tokens]
    BY <1>2, <1>3
  <2>2. QED
    BY <1>1, <1>2, <2>1
<1>5. Lacks(e, {"&"}) /\ (kept = {} => Lacks(e, {"="}))
  BY <1>3, <1>4 DEF Lacks
<1>6. ASSUME Lacks(t, {"%26", "%2B", "%3D"})
      PROVE  Decoded(e) = UpToFirst(t, "%00")
  <2> DEFINE plain == [i \in DOMAIN e |-> DecodedToken(e[i])]
  <2>1. \A i \in 1..n : plain[i] = t[i]
    BY <1>1, <1>3, <1>4, <1>6 DEF Lacks
  <2>2. plain = [i \in 1..n |-> plain[i]]
    BY <1>4
  <2>3. Decoded(e) = UpToFirst(plain, "%00")
    BY DEF Decoded
  <2> HIDE DEF plain
  <2>4. plain = t
    BY <1>1, <2>1, <2>2
  <2>5. QED
    BY <2>3, <2>4
<1>7. QED
  BY <1>4, <1>5, <1>6 DEF e

\* A name and a value with a "=" between them.
LEMMA PairCore ==
  ASSUME NEW kind \in Kinds, NEW k \in Text, Lacks(k, {"="}), Lacks(k, Separators(kind)),
         NEW w \in Text, Lacks(w, Separators(kind)),
         NEW v, v = IF kind = "query" THEN Decoded(w) ELSE w
  PROVE  IsCore(kind, k \o <<"=">> \o w, <<k, v>>)
<1> DEFINE q == "="
           s == k \o <<q>> \o w
<1>1. s \in Text /\ PosEqual(s) # 0 /\ Before(s) = k /\ After(s) = w
  <2>1. IsPairText(k \o <<"=">> \o w, k, w)
    BY KeyValue, Zenon
  <2>2. IsPairText(s, k, w)
    BY <2>1
  <2> HIDE DEF s
  <2>3. QED
    BY <2>2 DEF IsPairText
<1>2. Lacks(s, Separators(kind))
  <2>1. q \in Tokens /\ q \notin Separators(kind)
    BY TokensAre DEF Separators
  <2> HIDE DEF q
  <2>2. s = k \o <<q>> \o w
    OBVIOUS
  <2> HIDE DEF s
  <2>3. QED
    BY <2>1, <2>2, LacksBetween
<1>3. s = k \o <<"=">> \o w
  OBVIOUS
<1> HIDE DEF s
<1>4. IsCore(kind, s, <<k, v>>)
  BY <1>1, <1>2 DEF IsCore
<1>5. QED
  BY <1>3, <1>4

\* A core is a piece.
LEMMA CoreIsPiece ==
  ASSUME NEW kind, NEW core, NEW pair, IsCore(kind, core, pair)
  PROVE  IsPiece(kind, core, pair)
<1>1. Prolongs(kind, core, core) /\ core \in Text
  BY DEF Prolongs, IsCore
<1>2. QED
  BY <1>1, Zenon DEF IsPiece

\* A pair written into a query is a piece of its own.
LEMMA QueryPiece ==
  ASSUME NEW k \in Text, NEW v \in Text, Lacks(v, {"%26", "%2B", "%3D"}), NEW kept \in SUBSET {"="}
  PROVE  IsPiece("query", Encoded(k, {}) \o <<"=">> \o Encoded(v, kept),
                 <<Encoded(k, {}), UpToFirst(v, "%00")>>)
<1> DEFINE x == Encoded(k, {})
           y == Encoded(v, kept)
           u == UpToFirst(v, "%00")
<1>1. x \in Text /\ Lacks(x, {"="}) /\ Lacks(x, {"&"})
  <2>1. {} \in SUBSET {"="}
    OBVIOUS
  <2>2. QED
    BY <2>1, EncodedText
<1>2. y \in Text /\ Lacks(y, {"&"}) /\ Decoded(y) = u
  BY EncodedText
<1>3. "query" \in Kinds /\ Separators("query") = {"&"}
  BY DEF Kinds, Separators
<1> HIDE DEF x, y, u
<1>4. IsCore("query", x \o <<"=">> \o y, <<x, u>>)
  BY <1>1, <1>2, <1>3, PairCore
<1>5. QED
  BY <1>4, CoreIsPiece DEF x, y, u

\* A pair without "*" written into a cookie is a core of its own.
LEMMA CookieCore ==
  ASSUME NEW k \in Text, Lacks(k, {"=", ";", " ", "*"}), NEW v \in Text, Lacks(v, {";", " ", "*"})
  PROVE  IsCore("cookie", k \o <<"=">> \o v, <<k, v>>)
<1>1. "cookie" \in Kinds /\ Separators("cookie") = {";", " ", "*"}
  BY DEF Kinds, Separators
<1>2. Lacks(k, {"="}) /\ Lacks(k, {";", " ", "*"})
  BY DEF Lacks
<1>3. QED
  BY <1>1, <1>2, PairCore

\* A text behind a token.
LEMMA Headed ==
  ASSUME NEW c \in Tokens, NEW b \in Text
  PROVE  <<c>> \o b \in Text /\ <<c>> \o b # <<>> /\ (<<c>> \o b)[1] = c /\ Tail(<<c>> \o b) = b
<1> DEFINE s == <<c>> \o b
           a == <<>>
           r == Tail(s)
<1>1. a \in Text /\ Len(a) = 0 /\ s = a \o <<c>> \o b
  <2>1. a \o <<c>> = <<c>>
    BY WithNothing
  <2>2. QED
    BY <2>1
<1> HIDE DEF s, a
<1>2. /\ s \in Text /\ Len(s) = Len(a) + 1 + Len(b) /\ Len(b) \in Nat
      /\ s[Len(a) + 1] = c
      /\ \A i \in 1..Len(b) : s[Len(a) + 1 + i] = b[i]
  BY <1>1, Between
<1>3. Len(s) = 1 + Len(b) /\ s[1] = c /\ \A i \in 1..Len(b) : s[1 + i] = b[i]
  BY <1>1, <1>2
<1>4. s # <<>>
  BY <1>2, <1>3
<1>5. r \in Text /\ Len(r) = Len(b) /\ \A i \in 1..Len(b) : r[i] = s[1 + i]
  BY <1>2, <1>3, <1>4
<1> HIDE DEF r
<1>6. r = b
  <2>1. \A i \in 1..Len(r) : r[i] = b[i]
    BY <1>3, <1>5
  <2>2. QED
    BY <1>5, <2>1, SeqEqual
<1>7. QED
  BY <1>2, <1>3, <1>4, <1>6, Zenon DEF s, r

\* The two groupings of three texts.
Associate(a, b, c) == a \o (b \o c) = a \o b \o c

\* Associativity as an instance that can be cited.
LEMMA AssociateTwo ==
  ASSUME NEW a \in Text, NEW b \in Text, NEW c \in Text
  PROVE  Associate(a, b, c)
BY Associates DEF Associate

\* A token is a text.
LEMMA OneToken ==
  ASSUME NEW c \in Tokens
  PROVE  <<c>> \in Text /\ <<c>> # <<>> /\ <<c>>[1] = c /\ Len(<<c>>) = 1
OBVIOUS

\* A concatenation is a text.
LEMMA Both ==
  ASSUME NEW a \in Text, NEW b \in Text
  PROVE  a \o b \in Text
OBVIOUS

\* From the first token c on a text lacks Y.
RestLacks(v, c, Y) == Lacks(SubSeq(v, Len(UpToFirst(v, c)) + 1, Len(v)), Y)

\* u is all of v, or what stands before a c.
IsCut(v, c, Y, u) == v = u \/ \E p \in Text : Lacks(p, Y) /\ v = u \o <<c>> \o p

\* A text up to its first token c, and what follows.
LEMMA CutAtFirst ==
  ASSUME NEW v \in Text, NEW c \in Tokens, NEW X, NEW Y, Lacks(v, X), RestLacks(v, c, Y)
  PROVE  /\ UpToFirst(v, c) \in Text /\ Lacks(UpToFirst(v, c), X) /\ Lacks(UpToFirst(v, c), {c})
         /\ IsCut(v, c, Y, UpToFirst(v, c))
<1> DEFINE u == UpToFirst(v, c)
<1>1. PICK n \in 0..Len(v) : /\ u = SubSeq(v, 1, n) /\ u \in Text /\ Len(u) = n
                             /\ \A i \in 1..n : u[i] = v[i] /\ v[i] # c
                             /\ n = Len(v) \/ v[n + 1] = c
  BY UpToFirstIs
<1>2. Lacks(u, X) /\ Lacks(u, {c})
  <2>1. \A i \in 1..Len(v) : v[i] \notin X
    BY DEF Lacks
  <2>2. DOMAIN u = 1..n /\ \A i \in 1..n : i \in 1..Len(v)
    BY <1>1
  <2> HIDE DEF u
  <2>3. \A i \in 1..n : u[i] \notin X /\ u[i] # c
    BY <1>1, <2>1, <2>2
  <2>4. QED
    BY <2>2, <2>3 DEF Lacks
<1> DEFINE r == SubSeq(v, n + 1, Len(v))
<1>3. Lacks(r, Y)
  BY <1>1 DEF RestLacks
<1> HIDE DEF u
<1>4. r \in Text /\ v = u \o r
  <2> HIDE DEF r
  <2>1. SubSeq(v, n + 1, Len(v)) \in Text /\ v = SubSeq(v, 1, n) \o SubSeq(v, n + 1, Len(v))
    BY Cut
  <2>2. QED
    BY <1>1, <2>1 DEF r
<1>5. CASE n = Len(v)
  <2>1. r = <<>>
    BY <1>4, <1>5
  <2> HIDE DEF r
  <2>2. v = u
    BY <1>1, <1>4, <2>1, WithNothing
  <2>3. QED
    BY <1>1, <1>2, <2>2 DEF u, IsCut
<1>6. CASE n # Len(v)
  <2> DEFINE p == Tail(r)
  <2>1. v[n + 1] = c /\ n + 1 <= Len(v) /\ n + 1 \in Nat
    BY <1>1, <1>6
  <2>2. Len(r) > 0 /\ r[1] = v[n + 1]
    BY <2>1
  <2> HIDE DEF r
  <2>3. r # <<>> /\ p \in Text /\ Len(p) = Len(r) - 1 /\ \A i \in 1..Len(p) : p[i] = r[i + 1]
    BY <1>4, <2>2
  <2>4. Lacks(p, Y)
    <3>1. \A i \in 1..Len(p) : i + 1 \in DOMAIN r /\ p[i] = r[i + 1]
      BY <1>4, <2>3
    <3>2. DOMAIN p = 1..Len(p)
      BY <2>3
    <3> HIDE DEF p
    <3>3. QED
      BY <1>3, <3>1, <3>2 DEF Lacks
  <2> HIDE DEF p
  <2>5. r = <<c>> \o p
    <3> DEFINE h == <<c>> \o p
    <3>1. h \in Text /\ h # <<>> /\ h[1] = c /\ Tail(h) = p
      BY <2>3, Headed
    <3> HIDE DEF h
    <3>2. Len(h) = Len(p) + 1 /\ \A i \in 1..Len(p) : h[i + 1] = p[i]
      <4> DEFINE y == Tail(h)
      <4>1. y \in Text /\ Len(h) \in Nat /\ Len(y) = Len(h) - 1 /\ \A i \in 1..Len(y) : y[i] = h[i + 1]
        BY <3>1
      <4>2. y = p
        BY <3>1
      <4> HIDE DEF y
      <4>3. QED
        BY <4>1, <4>2
    <3>3. Len(h) = Len(r) /\ \A i \in 1..Len(r) : i = 1 \/ (i - 1 \in 1..Len(p) /\ i - 1 + 1 = i)
      BY <1>4, <2>2, <2>3, <3>2
    <3>4. h[1] = r[1]
      BY <2>1, <2>2, <3>1
    <3>5. \A i \in 1..Len(r) : r[i] = h[i]
      <4>1. \A j \in 1..Len(p) : h[j + 1] = r[j + 1]
        BY <2>3, <3>2
      <4>2. TAKE i \in 1..Len(r)
      <4>3. QED
        BY <3>3, <3>4, <4>1
    <3>6. QED
      BY <1>4, <3>1, <3>3, <3>5, SeqEqual DEF h
  <2>6. Associate(u, <<c>>, p)
    <3>1. <<c>> \in Text
      OBVIOUS
    <3>2. QED
      BY <1>1, <2>3, <3>1, AssociateTwo, Zenon
  <2>7. v = u \o <<c>> \o p
    BY <1>4, <2>5, <2>6, Zenon DEF Associate
  <2>8. QED
    BY <1>1, <1>2, <2>3, <2>4, <2>7, Zenon DEF u, IsCut
<1>7. QED
  BY <1>5, <1>6

\* A core that is followed by a separator and no equal sign is a piece.
LEMMA ProlongedCore ==
  ASSUME NEW kind, NEW c \in Tokens, c \in Separators(kind), NEW front \in Text, NEW u \in Text,
         NEW pair, IsCore(kind, front \o u, pair), NEW v \in Text,
         IsCut(v, c, {"="}, u)
  PROVE  IsPiece(kind, front \o v, pair)
<1> DEFINE core == front \o u
           piece == front \o v
<1>1. piece \in Text
  OBVIOUS
<1>2. Prolongs(kind, piece, core)
  <2>1. CASE v = u
    BY <2>1 DEF Prolongs
  <2>2. CASE v # u
    <3>1. PICK p \in Text : Lacks(p, {"="}) /\ v = u \o <<c>> \o p
      BY <2>2, Zenon DEF IsCut
    <3>2. Regroups(front, u, <<c>>, p)
      <4>1. <<c>> \in Text
        OBVIOUS
      <4>2. QED
        BY <4>1, AssociatesThree, Zenon
    <3>3. piece = core \o <<c>> \o p
      BY <3>1, <3>2, Zenon DEF Regroups
    <3> HIDE DEF piece, core
    <3>4. QED
      BY <3>1, <3>3, Zenon DEF Prolongs
  <2>3. QED
    BY <2>1, <2>2
<1>3. IsCore(kind, core, pair)
  OBVIOUS
<1> HIDE DEF core, piece
<1>4. IsPiece(kind, piece, pair)
  BY <1>1, <1>2, <1>3, Zenon DEF IsPiece
<1>5. QED
  BY <1>4 DEF piece

\* What separates cookies as they are sent, and what separates them too when they are read.
BlankTokens == {";", " "}
Star == "*"

\* A pair written into a cookie is a piece that is read up to the first "*" of its value.
LEMMA CookiePiece ==
  ASSUME NEW k \in Text, Lacks(k, {"=", ";", " ", "*"}), NEW v \in Text, Lacks(v, {";", " "}),
         Lacks(SubSeq(v, Len(UpToFirst(v, "*")) + 1, Len(v)), {"="})
  PROVE  IsPiece("cookie", k \o <<"=">> \o v, <<k, UpToFirst(v, "*")>>)
<1> DEFINE u == UpToFirst(v, Star)
           e == <<"=">>
           front == k \o e
<1>1. Star \in Tokens /\ Star \in Separators("cookie")
  BY TokensAre, Zenon DEF Separators, Star
<1>2. Lacks(v, BlankTokens) /\ RestLacks(v, Star, {"="})
  BY Zenon DEF BlankTokens, Star, RestLacks
<1>3. u \in Text /\ Lacks(u, BlankTokens) /\ Lacks(u, {Star}) /\ IsCut(v, Star, {"="}, u)
  BY <1>1, <1>2, CutAtFirst, Zenon
<1> HIDE DEF u
<1>4. Lacks(u, {";", " ", "*"})
  BY <1>3 DEF Lacks, BlankTokens, Star
<1>5. IsCore("cookie", front \o u, <<k, u>>)
  BY <1>3, <1>4, CookieCore
<1>6. front \in Text
  <2>1. e \in Text
    <3>1. "=" \in Tokens
      BY TokensAre
    <3>2. QED
      BY <3>1, OneToken, Zenon
  <2> HIDE DEF e
  <2>2. QED
    BY <2>1, Both, Zenon
<1> HIDE DEF front
<1>7. IsPiece("cookie", front \o v, <<k, u>>)
  BY <1>1, <1>3, <1>5, <1>6, ProlongedCore, Zenon
<1>8. QED
  BY <1>7, Zenon DEF front, u, Star

\* The pairs of a query as they arrive.
LEMMA QueryAsReadIs ==
  ASSUME NEW pairs \in Pairs
  PROVE  /\ QueryAsRead(pairs) \in Pairs /\ Len(QueryAsRead(pairs)) = Len(pairs) /\ Len(pairs) \in Nat
         /\ DOMAIN pairs = 1..Len(pairs)
         /\ \A i \in 1..Len(pairs) :
              /\ pairs[i][1] \in Text /\ pairs[i][2] \in Text /\ pairs[i] = <<pairs[i][1], pairs[i][2]>>
              /\ QueryAsRead(pairs)[i] = <<Encoded(pairs[i][1], {}), UpToFirst(pairs[i][2], "%00")>>
<1> DEFINE n == Len(pairs)
           read(i) == <<Encoded(pairs[i][1], {}), UpToFirst(pairs[i][2], "%00")>>
<1>1. n \in Nat /\ DOMAIN pairs = 1..n /\ \A i \in 1..n : pairs[i] \in Text \X Text
  BY DEF Pairs
<1>2. \A i \in 1..n : pairs[i][1] \in Text /\ pairs[i][2] \in Text /\ pairs[i] = <<pairs[i][1], pairs[i][2]>>
  BY <1>1
<1>3. \A i \in 1..n : read(i) \in Text \X Text
  <2>1. {} \in SUBSET {"="}
    OBVIOUS
  <2>2. \A i \in 1..n : Encoded(pairs[i][1], {}) \in Text /\ UpToFirst(pairs[i][2], "%00") \in Text
    BY <1>2, <2>1, EncodedText, UpToFirstIs
  <2>3. QED
    BY <2>2
<1>4. QueryAsRead(pairs) = [i \in 1..n |-> read(i)]
  BY <1>1 DEF QueryAsRead
<1> HIDE DEF n, read
<1>5. QueryAsRead(pairs) \in [1..n -> Text \X Text]
  BY <1>3, <1>4
<1>6. QueryAsRead(pairs) \in Pairs /\ Len(QueryAsRead(pairs)) = n
  BY <1>1, <1>5 DEF Pairs
<1>7. \A i \in 1..n : QueryAsRead(pairs)[i] = read(i)
  BY <1>4
<1>8. QED
  BY <1>1, <1>2, <1>6, <1>7 DEF n, read

\* Cookies as they arrive.
LEMMA CookiesAsReadIs ==
  ASSUME NEW pairs \in Pairs
  PROVE  /\ CookiesAsRead(pairs) \in Pairs /\ Len(CookiesAsRead(pairs)) = Len(pairs) /\ Len(pairs) \in Nat
         /\ DOMAIN pairs = 1..Len(pairs)
         /\ \A i \in 1..Len(pairs) :
              /\ pairs[i][1] \in Text /\ pairs[i][2] \in Text /\ pairs[i] = <<pairs[i][1], pairs[i][2]>>
              /\ CookiesAsRead(pairs)[i] = <<pairs[i][1], UpToFirst(pairs[i][2], "*")>>
<1> DEFINE n == Len(pairs)
           read(i) == <<pairs[i][1], UpToFirst(pairs[i][2], "*")>>
<1>1. n \in Nat /\ DOMAIN pairs = 1..n /\ \A i \in 1..n : pairs[i] \in Text \X Text
  BY DEF Pairs
<1>2. \A i \in 1..n : pairs[i][1] \in Text /\ pairs[i][2] \in Text /\ pairs[i] = <<pairs[i][1], pairs[i][2]>>
  BY <1>1
<1>3. \A i \in 1..n : read(i) \in Text \X Text
  <2>1. \A i \in 1..n : UpToFirst(pairs[i][2], "*") \in Text
    BY <1>2, UpToFirstIs
  <2>2. QED
    BY <1>2, <2>1
<1>4. CookiesAsRead(pairs) = [i \in 1..n |-> read(i)]
  BY <1>1 DEF CookiesAsRead
<1> HIDE DEF n, read
<1>5. CookiesAsRead(pairs) \in [1..n -> Text \X Text]
  BY <1>3, <1>4
<1>6. CookiesAsRead(pairs) \in Pairs /\ Len(CookiesAsRead(pairs)) = n
  BY <1>1, <1>5 DEF Pairs
<1>7. \A i \in 1..n : CookiesAsRead(pairs)[i] = read(i)
  BY <1>4
<1>8. QED
  BY <1>1, <1>2, <1>6, <1>7 DEF n, read

\* A query is read as the first value of each of its keys.
LEMMA QueryRead ==
  ASSUME NEW pairs \in Queries, NEW kept \in SUBSET {"="}, NEW front \in Text, IsFront("query", front)
  PROVE  /\ pairs \in Pairs /\ QueryText(pairs, kept) \in Text
         /\ ParseQuery(front \o QueryText(pairs, kept))
              = [k \in KeysOf(QueryAsRead(pairs)) |-> FirstOf(QueryAsRead(pairs), k)]
<1> DEFINE pieces == [i \in DOMAIN pairs |->
                        Encoded(pairs[i][1], {}) \o <<"=">> \o Encoded(pairs[i][2], kept)]
           n == Len(pairs)
           read == QueryAsRead(pairs)
<1>1. pairs \in Pairs /\ \A i \in DOMAIN pairs : Lacks(pairs[i][2], {"%26", "%2B", "%3D"})
  BY Zenon DEF Queries, Pairs
<1>2. /\ read \in Pairs /\ Len(read) = n /\ n \in Nat /\ DOMAIN pairs = 1..n
      /\ \A i \in 1..n : /\ pairs[i][1] \in Text /\ pairs[i][2] \in Text
                         /\ read[i] = <<Encoded(pairs[i][1], {}), UpToFirst(pairs[i][2], "%00")>>
  BY <1>1, QueryAsReadIs
<1> HIDE DEF read
<1>3. ASSUME NEW i \in 1..n
      PROVE  IsPiece("query", pieces[i], read[i])
  <2> DEFINE k == pairs[i][1]
             v == pairs[i][2]
  <2>1. k \in Text /\ v \in Text /\ i \in DOMAIN pairs
    BY <1>2
  <2>2. Lacks(v, {"%26", "%2B", "%3D"})
    BY <1>1, <2>1
  <2>3. pieces[i] = Encoded(k, {}) \o <<"=">> \o Encoded(v, kept)
    BY <2>1
  <2>4. read[i] = <<Encoded(k, {}), UpToFirst(v, "%00")>>
    BY <1>2
  <2> HIDE DEF k, v, pieces
  <2>5. IsPiece("query", Encoded(k, {}) \o <<"=">> \o Encoded(v, kept), <<Encoded(k, {}), UpToFirst(v, "%00")>>)
    BY <2>1, <2>2, QueryPiece
  <2>6. QED
    BY <2>3, <2>4, <2>5, Zenon
<1>4. pieces \in Seq(Text) /\ Len(pieces) = Len(read)
  <2>1. DOMAIN pieces = 1..n
    BY <1>2
  <2>2. \A i \in 1..n : pieces[i] \in Text
    BY <1>3 DEF IsPiece
  <2>3. pieces = [i \in 1..n |-> pieces[i]]
    BY <1>2
  <2> HIDE DEF pieces
  <2>4. pieces \in [1..n -> Text]
    BY <2>2, <2>3
  <2> HIDE DEF n
  <2>5. pieces \in Seq(Text) /\ Len(pieces) = n
    BY <1>2, <2>4
  <2>6. QED
    BY <1>2, <2>5
<1> HIDE DEF pieces
<1>5. "query" \in Kinds
  BY DEF Kinds
<1>6. Reads("query", PairsIn("query", front \o Joined(pieces, SeparatorOf("query"))), read, Len(read))
  BY <1>2, <1>3, <1>4, <1>5, JoinedReads
<1>7. QueryText(pairs, kept) = Joined(pieces, SeparatorOf("query"))
  BY DEF QueryText, SeparatorOf, pieces
<1>8. Reads("query", ParseQuery(front \o QueryText(pairs, kept)), read, Len(read))
  BY <1>6, <1>7, Zenon DEF ParseQuery
<1>9. Joined(pieces, SeparatorOf("query")) \in Text
  <2>1. SeparatorOf("query") \in Text
    BY <1>5, SeparatorType
  <2>2. Len(pieces) \in Nat /\ Len(pieces) \in 0..Len(pieces)
    BY <1>4
  <2>3. QED
    BY <1>4, <2>1, <2>2, JoiningTurns DEF Joined
<1>10. ParseQuery(front \o QueryText(pairs, kept)) = [k \in KeysOf(read) |-> FirstOf(read, k)]
  BY <1>2, <1>8, ReadsFirst
<1>11. QED
  BY <1>1, <1>7, <1>9, <1>10 DEF read

\* Cookies are read as the last value of each of their names.
LEMMA CookiesRead ==
  ASSUME NEW pairs \in Cookies
  PROVE  /\ pairs \in Pairs
         /\ PairsIn("cookie", CookiesText(pairs))
              = [k \in KeysOf(CookiesAsRead(pairs)) |-> LastOf(CookiesAsRead(pairs), k)]
<1> DEFINE pieces == [i \in DOMAIN pairs |-> pairs[i][1] \o <<"=">> \o pairs[i][2]]
           n == Len(pairs)
           read == CookiesAsRead(pairs)
<1>1. pairs \in Pairs /\ \A i \in DOMAIN pairs :
        /\ Lacks(pairs[i][1], {"=", ";", " ", "*", "Cookie: "}) /\ Lacks(pairs[i][2], {";", " "})
        /\ Lacks(SubSeq(pairs[i][2], Len(UpToFirst(pairs[i][2], "*")) + 1, Len(pairs[i][2])), {"="})
  BY Zenon DEF Cookies, Pairs
<1>2. /\ read \in Pairs /\ Len(read) = n /\ n \in Nat /\ DOMAIN pairs = 1..n
      /\ \A i \in 1..n : /\ pairs[i][1] \in Text /\ pairs[i][2] \in Text
                         /\ read[i] = <<pairs[i][1], UpToFirst(pairs[i][2], "*")>>
  BY <1>1, CookiesAsReadIs
<1> HIDE DEF read
<1>3. ASSUME NEW i \in 1..n
      PROVE  IsPiece("cookie", pieces[i], read[i])
  <2> DEFINE k == pairs[i][1]
             v == pairs[i][2]
  <2>1. k \in Text /\ v \in Text /\ i \in DOMAIN pairs
    BY <1>2
  <2>2. Lacks(k, {"=", ";", " ", "*", "Cookie: "})
    BY <1>1, <2>1, Zenon
  <2>3. Lacks(v, {";", " "}) /\ Lacks(SubSeq(v, Len(UpToFirst(v, "*")) + 1, Len(v)), {"="})
    BY <1>1, <2>1, Zenon
  <2>4. pieces[i] = k \o <<"=">> \o v
    BY <2>1
  <2>5. read[i] = <<k, UpToFirst(v, "*")>>
    BY <1>2
  <2> HIDE DEF k, v, pieces
  <2>6. Lacks(k, {"=", ";", " ", "*"})
    BY <2>2 DEF Lacks
  <2>7. IsPiece("cookie", k \o <<"=">> \o v, <<k, UpToFirst(v, "*")>>)
    BY <2>1, <2>3, <2>6, CookiePiece
  <2>8. QED
    BY <2>4, <2>5, <2>7, Zenon
<1>4. pieces \in Seq(Text) /\ Len(pieces) = Len(read)
  <2>1. DOMAIN pieces = 1..n
    BY <1>2
  <2>2. \A i \in 1..n : pieces[i] \in Text
    BY <1>3 DEF IsPiece
  <2>3. pieces = [i \in 1..n |-> pieces[i]]
    BY <1>2
  <2> HIDE DEF pieces
  <2>4. pieces \in [1..n -> Text]
    BY <2>2, <2>3
  <2> HIDE DEF n
  <2>5. pieces \in Seq(Text) /\ Len(pieces) = n
    BY <1>2, <2>4
  <2>6. QED
    BY <1>2, <2>5
<1> HIDE DEF pieces
<1>5. "cookie" \in Kinds /\ <<>> \in Text /\ IsFront("cookie", <<>>)
  BY DEF Kinds, IsFront
<1>6. Reads("cookie", PairsIn("cookie", <<>> \o Joined(pieces, SeparatorOf("cookie"))), read, Len(read))
  BY <1>2, <1>3, <1>4, <1>5, JoinedReads
<1>7. CookiesText(pairs) = Joined(pieces, SeparatorOf("cookie"))
  BY DEF CookiesText, SeparatorOf, pieces
<1>8. <<>> \o CookiesText(pairs) = CookiesText(pairs)
  <2>1. Joined(pieces, SeparatorOf("cookie")) \in Text
    <3>1. SeparatorOf("cookie") \in Text
      BY <1>5, SeparatorType
    <3>2. Len(pieces) \in Nat /\ Len(pieces) \in 0..Len(pieces)
      BY <1>4
    <3>3. QED
      BY <1>4, <3>1, <3>2, JoiningTurns DEF Joined
  <2>2. QED
    BY <1>7, <2>1, WithNothing
<1>9. Reads("cookie", PairsIn("cookie", CookiesText(pairs)), read, Len(read))
  BY <1>6, <1>7, <1>8, Zenon
<1>10. PairsIn("cookie", CookiesText(pairs)) = [k \in KeysOf(read) |-> LastOf(read, k)]
  BY <1>2, <1>9, ReadsLast
<1>11. QED
  BY <1>1, <1>10 DEF read

\* A text that is not empty has a first token.
LEMMA Some ==
  ASSUME NEW t \in Text, t # <<>>
  PROVE  Len(t) > 0 /\ Len(t) \in Nat /\ 1 \in DOMAIN t /\ 1 \in 1..Len(t) /\ t[1] \in Tokens
BY EmptySeq

\* What ends in something is not empty.
LEMMA SomeMore ==
  ASSUME NEW a \in Text, NEW b \in Text, b # <<>>
  PROVE  a \o b # <<>> /\ a \o b \in Text
<1>1. Len(b) > 0 /\ Len(b) \in Nat /\ Len(a) \in Nat
  BY Some
<1>2. Len(a \o b) = Len(a) + Len(b) /\ a \o b \in Text
  OBVIOUS
<1>3. Len(a \o b) # 0
  BY <1>1, <1>2
<1>4. Len(<<>>) = 0
  OBVIOUS
<1>5. QED
  BY <1>2, <1>3, <1>4, Zenon

\* A text whose first token is not "Cookie: ".
Starts(t) == t \in Text /\ (t # <<>> => t[1] # "Cookie: ")

\* How a concatenation starts.
LEMMA StartsConcat ==
  ASSUME NEW a, NEW b, Starts(a), b \in Text, a # <<>> \/ Starts(b)
  PROVE  Starts(a \o b)
<1>1. a \in Text /\ b \in Text
  BY DEF Starts
<1>2. CASE a = <<>>
  <2>1. a \o b = b
    BY <1>1, <1>2, WithNothing
  <2>2. QED
    BY <1>2, <2>1
<1>3. CASE a # <<>>
  <2> DEFINE s == a \o b
  <2>1. s \in Text /\ Len(a) \in Nat /\ Len(a) > 0 /\ \A i \in 1..Len(a) : s[i] = a[i]
    BY <1>1, <1>3
  <2>2. s[1] = a[1]
    BY <2>1
  <2> HIDE DEF s
  <2>3. Starts(s)
    BY <1>3, <2>1, <2>2 DEF Starts
  <2>4. QED
    BY <2>3 DEF s
<1>4. QED
  BY <1>2, <1>3

\* A cookie does not start with what the parser takes away.
LEMMA CookiePieceStarts ==
  ASSUME NEW k \in Text, Lacks(k, {"Cookie: "}), NEW v \in Text
  PROVE  Starts(k \o <<"=">> \o v)
<1> DEFINE q == "="
           e == <<q>>
           r == k \o e
<1>1. Starts(k)
  BY Some DEF Starts, Lacks
<1>2. Starts(e) /\ e # <<>>
  <2>1. q \in Tokens /\ q # "Cookie: "
    BY TokensAre
  <2> HIDE DEF q
  <2>2. <<q>> \in Text /\ <<q>> # <<>> /\ <<q>>[1] = q
    BY <2>1, OneToken
  <2>3. QED
    BY <2>1, <2>2, Zenon DEF Starts
<1>3. k \o <<"=">> \o v = r \o v
  OBVIOUS
<1> HIDE DEF e
<1>4. Starts(r)
  BY <1>1, <1>2, StartsConcat DEF Starts
<1>5. r # <<>>
  BY <1>2, SomeMore DEF Starts
<1> HIDE DEF r
<1>6. Starts(r \o v)
  BY <1>4, <1>5, StartsConcat
<1>7. QED
  BY <1>3, <1>6, Zenon

\* Nor does a list of cookies.
LEMMA CookiesStart ==
  ASSUME NEW pairs \in Cookies
  PROVE  Starts(CookiesText(pairs))
<1> DEFINE pieces == [i \in DOMAIN pairs |-> pairs[i][1] \o <<"=">> \o pairs[i][2]]
           n == Len(pairs)
           sep == <<";", " ">>
           J == Joining(pieces, sep)
           T == {k \in 0..n : Starts(J[k])}
<1>1. pairs \in Pairs /\ \A i \in DOMAIN pairs : Lacks(pairs[i][1], {"=", ";", " ", "*", "Cookie: "})
  BY Zenon DEF Cookies, Pairs
<1>2. n \in Nat /\ DOMAIN pairs = 1..n /\ \A i \in 1..n : pairs[i] \in Text \X Text
  <2>1. pairs \in Pairs
    BY <1>1
  <2>2. QED
    BY <2>1 DEF Pairs
<1>3. ASSUME NEW i \in 1..n
      PROVE  Starts(pieces[i])
  <2> DEFINE k == pairs[i][1]
             v == pairs[i][2]
  <2>1. k \in Text /\ v \in Text /\ i \in DOMAIN pairs
    <3>1. pairs[i] \in Text \X Text
      BY <1>2
    <3>2. QED
      BY <1>2, <3>1
  <2>2. Lacks(k, {"Cookie: "})
    BY <1>1, <2>1 DEF Lacks
  <2>3. pieces[i] = k \o <<"=">> \o v
    BY <2>1
  <2> HIDE DEF k, v, pieces
  <2>4. QED
    BY <2>1, <2>2, <2>3, CookiePieceStarts
<1>4. pieces \in Seq(Text) /\ Len(pieces) = n
  <2>1. \A i \in 1..n : pieces[i] \in Text
    BY <1>3 DEF Starts
  <2>2. pieces = [i \in 1..n |-> pieces[i]]
    BY <1>2
  <2> HIDE DEF pieces
  <2>3. pieces \in [1..n -> Text]
    BY <2>1, <2>2
  <2> HIDE DEF n
  <2>4. QED
    BY <1>2, <2>3
<1> HIDE DEF pieces, n
<1>5. Starts(sep)
  <2> DEFINE c == ";"
             d == " "
  <2>1. c \in Tokens /\ d \in Tokens /\ c # "Cookie: "
    BY TokensAre
  <2> HIDE DEF c, d
  <2>2. Starts(<<c, d>>)
    <3>1. <<c, d>> \in Text /\ <<c, d>>[1] = c
      BY <2>1, TwoTokens
    <3>2. QED
      BY <2>1, <3>1, Zenon DEF Starts
  <2>3. QED
    BY <2>2 DEF c, d
<1>6. /\ J[0] = <<>>
      /\ \A k \in 0..n : J[k] \in Text
      /\ n > 0 => J[1] = pieces[1]
      /\ \A k \in 2..n : J[k] = J[k - 1] \o sep \o pieces[k]
  <2>1. sep \in Text
    BY <1>5 DEF Starts
  <2> HIDE DEF sep
  <2>2. QED
    BY <1>4, <2>1, JoiningTurns
<1> HIDE DEF sep, J
<1>7. 0 \in T
  <2>1. Starts(<<>>)
    BY DEF Starts
  <2>2. 0 \in 0..n
    BY <1>2
  <2>3. QED
    BY <1>6, <2>1, <2>2
<1>8. ASSUME NEW k \in 0..n - 1, k \in T
      PROVE  k + 1 \in T
  <2> DEFINE q == k + 1
  <2>1. q \in 1..n /\ q - 1 = k /\ q \in 0..n /\ (k # 0 => q \in 2..n) /\ (k = 0 => q = 1 /\ n > 0)
    BY <1>2
  <2>2. Starts(J[k]) /\ Starts(pieces[q])
    BY <1>3, <1>8, <2>1
  <2> HIDE DEF q
  <2>3. Starts(J[q])
    <3>1. CASE k = 0
      BY <1>6, <2>1, <2>2, <3>1
    <3>2. CASE k # 0
      <4>1. J[q] = (J[k] \o sep) \o pieces[q]
        BY <1>6, <2>1, <3>2
      <4>2. Starts(J[k] \o sep)
        BY <1>5, <2>2, StartsConcat DEF Starts
      <4>3. Starts((J[k] \o sep) \o pieces[q])
        BY <2>2, <4>2, StartsConcat DEF Starts
      <4>4. QED
        BY <4>1, <4>3
    <3>3. QED
      BY <3>1, <3>2
  <2>4. QED
    BY <2>1, <2>3 DEF q
<1> HIDE DEF T
<1>9. n \in T
  <2>1. \A i \in 0..n : i \in T
    BY <1>2, <1>7, <1>8, Counting
  <2>2. QED
    BY <1>2, <2>1
<1>10. CookiesText(pairs) = J[n]
  BY <1>4 DEF CookiesText, Joined, J, pieces, sep
<1>11. QED
  BY <1>9, <1>10 DEF T

\* Cookie::Parse() with and without its prefix.
LEMMA CookiesParsed ==
  ASSUME NEW pairs \in Cookies, NEW t \in {CookiesText(pairs), <<"Cookie: ">> \o CookiesText(pairs)}
  PROVE  ParseCookie(t) = [k \in KeysOf(CookiesAsRead(pairs)) |-> LastOf(CookiesAsRead(pairs), k)]
<1> DEFINE s == CookiesText(pairs)
<1>1. PairsIn("cookie", s) = [k \in KeysOf(CookiesAsRead(pairs)) |-> LastOf(CookiesAsRead(pairs), k)]
  BY CookiesRead
<1>2. s \in Text /\ ~(s # <<>> /\ s[1] = "Cookie: ")
  BY CookiesStart DEF Starts
<1> HIDE DEF s
<1>3. CASE t = s
  BY <1>1, <1>2, <1>3 DEF ParseCookie
<1>4. CASE t = <<"Cookie: ">> \o s
  <2> DEFINE c == "Cookie: "
  <2>1. c \in Tokens
    BY TokensAre
  <2>2. t = <<c>> \o s
    BY <1>4
  <2> HIDE DEF c
  <2>3. t # <<>> /\ t[1] = c /\ Tail(t) = s
    <3>1. <<c>> \o s # <<>> /\ (<<c>> \o s)[1] = c /\ Tail(<<c>> \o s) = s
      BY <1>2, <2>1, Headed, Zenon
    <3>2. QED
      BY <2>2, <3>1, Zenon
  <2>4. QED
    BY <1>1, <2>3, Zenon DEF ParseCookie, c
<1>5. QED
  BY <1>3, <1>4 DEF s

-----------------------------------------------------------------------------
(* A cookie that was sent                                                    *)

\* A text whose token c stands between a and b.
IsBetween(s, a, c, b) ==
  /\ s \in Text /\ Len(s) = Len(a) + 1 + Len(b)
  /\ \A i \in 1..Len(a) : s[i] = a[i]
  /\ s[Len(a) + 1] = c
  /\ \A i \in 1..Len(b) : s[Len(a) + 1 + i] = b[i]

\* The positions of a token between two texts.
LEMMA BetweenIs ==
  ASSUME NEW a \in Text, NEW c \in Tokens, NEW b \in Text
  PROVE  IsBetween(a \o <<c>> \o b, a, c, b)
<1> DEFINE s == a \o <<c>> \o b
<1>1. s = a \o <<c>> \o b
  OBVIOUS
<1> HIDE DEF s
<1>2. IsBetween(s, a, c, b)
  BY <1>1, Between DEF IsBetween
<1>3. QED
  BY <1>1, <1>2, Zenon

\* A token lacks every set it is not in.
LEMMA LacksOne ==
  ASSUME NEW c \in Tokens, NEW X, c \notin X
  PROVE  Lacks(<<c>>, X)
BY DEF Lacks

\* Three tokens as a concatenation.
LEMMA ThreeTokens ==
  ASSUME NEW c \in Tokens, NEW d \in Tokens, NEW e \in Tokens
  PROVE  <<c, d, e>> = <<c>> \o <<d>> \o <<e>> /\ <<c, d, e>> \in Text
<1> DEFINE a == <<c>>
           b == <<e>>
           x == <<c, d, e>>
           y == a \o <<d>> \o b
<1>1. a \in Text /\ Len(a) = 1 /\ a[1] = c /\ b \in Text /\ Len(b) = 1 /\ b[1] = e
  BY OneToken
<1>2. x \in Text /\ Len(x) = 3 /\ x[1] = c /\ x[2] = d /\ x[3] = e
  OBVIOUS
<1>3. y = a \o <<d>> \o b
  OBVIOUS
<1> HIDE DEF a, b, x, y
<1>4. /\ y \in Text /\ Len(y) = Len(a) + 1 + Len(b)
      /\ \A i \in 1..Len(a) : y[i] = a[i]
      /\ y[Len(a) + 1] = d
      /\ \A i \in 1..Len(b) : y[Len(a) + 1 + i] = b[i]
  <2>1. IsBetween(y, a, d, b)
    BY <1>1, <1>3, BetweenIs, Zenon
  <2>2. QED
    BY <2>1 DEF IsBetween
<1>5. Len(y) = 3 /\ y[1] = c /\ y[2] = d /\ y[3] = e
  BY <1>1, <1>4
<1>6. x = y
  <2>1. \A i \in 1..3 : i = 1 \/ i = 2 \/ i = 3
    OBVIOUS
  <2>2. \A i \in 1..Len(x) : x[i] = y[i]
    BY <1>2, <1>5, <2>1
  <2>3. QED
    BY <1>2, <1>4, <1>5, <2>2, SeqEqual
<1>7. QED
  BY <1>2, <1>6 DEF a, b, x, y

\* Seven tokens as two of them and a rest.
InThreeParts(c, d, e, f, g, h, i) ==
  <<c, d, e, f, g, h, i>> = <<c>> \o <<d>> \o <<e, f, g, h, i>> /\ <<e, f, g, h, i>> \in Text

\* Seven tokens as a concatenation.
LEMMA SevenTokens ==
  ASSUME NEW c \in Tokens, NEW d \in Tokens, NEW e \in Tokens, NEW f \in Tokens,
         NEW g \in Tokens, NEW h \in Tokens, NEW i \in Tokens
  PROVE  InThreeParts(c, d, e, f, g, h, i)
<1> DEFINE a == <<c>>
           b == <<e, f, g, h, i>>
           x == <<c, d, e, f, g, h, i>>
           y == a \o <<d>> \o b
<1>1. a \in Text /\ Len(a) = 1 /\ a[1] = c
  BY OneToken
<1>2. b \in Text /\ Len(b) = 5 /\ b[1] = e /\ b[2] = f /\ b[3] = g /\ b[4] = h /\ b[5] = i
  OBVIOUS
<1>3. /\ x \in Text /\ Len(x) = 7
      /\ x[1] = c /\ x[2] = d /\ x[3] = e /\ x[4] = f /\ x[5] = g /\ x[6] = h /\ x[7] = i
  OBVIOUS
<1>4. y = a \o <<d>> \o b
  OBVIOUS
<1> HIDE DEF a, b, x, y
<1>5. /\ y \in Text /\ Len(y) = Len(a) + 1 + Len(b)
      /\ \A j \in 1..Len(a) : y[j] = a[j]
      /\ y[Len(a) + 1] = d
      /\ \A j \in 1..Len(b) : y[Len(a) + 1 + j] = b[j]
  <2>1. IsBetween(y, a, d, b)
    BY <1>1, <1>2, <1>4, BetweenIs, Zenon
  <2>2. QED
    BY <2>1 DEF IsBetween
<1>6. /\ Len(y) = 7
      /\ y[1] = c /\ y[2] = d /\ y[3] = e /\ y[4] = f /\ y[5] = g /\ y[6] = h /\ y[7] = i
  BY <1>1, <1>2, <1>5
<1>7. x = y
  <2>1. \A j \in 1..7 : j = 1 \/ j = 2 \/ j = 3 \/ j = 4 \/ j = 5 \/ j = 6 \/ j = 7
    OBVIOUS
  <2>2. \A j \in 1..Len(x) : x[j] = y[j]
    BY <1>3, <1>6, <2>1
  <2>3. QED
    BY <1>3, <1>5, <1>6, <2>2, SeqEqual
<1>8. QED
  BY <1>2, <1>7 DEF a, b, x, y, InThreeParts

\* m holds a cookie, and attributes of a cookie.
Holds(m, k, v) ==
  /\ m \in PairMaps /\ k \in DOMAIN m /\ m[k] = v
  /\ DOMAIN m \subseteq {k, <<"Domain">>, <<"Path">>, <<"Expires">>}

\* A text behind a semicolon.
LEMMA Another ==
  ASSUME NEW t \in Text, NEW name \in Tokens, <<name>> \in {<<"Domain">>, <<"Path">>, <<"Expires">>},
         name # "=", name \notin {";", " ", "*"},
         NEW k \in Text, k # <<name>>, NEW v, Holds(PairsIn("cookie", t), k, v),
         NEW value \in Text, Lacks(value, {";", " ", "*"})
  PROVE  Holds(PairsIn("cookie", t \o <<";">> \o (<<name>> \o <<"=">> \o value)), k, v)
<1> DEFINE semi == ";"
           m == PairsIn("cookie", t)
           p == <<name>> \o <<"=">> \o value
           n == <<name>>
<1>1. n \in Text /\ Lacks(n, {"=", ";", " ", "*"})
  <2>1. name \notin {"=", ";", " ", "*"}
    OBVIOUS
  <2>2. Lacks(n, {"=", ";", " ", "*"})
    BY <2>1, LacksOne, Zenon
  <2>3. QED
    BY <2>2, OneToken, Zenon
<1>2. IsCore("cookie", p, <<n, value>>)
  BY <1>1, CookieCore
<1>3. semi \in Tokens /\ semi \in Separators("cookie")
  BY TokensAre DEF Separators
<1>4. PairsIn("cookie", t \o <<semi>> \o p) = Enter("cookie", m, p)
  <2>1. p \in Text /\ Lacks(p, Separators("cookie"))
    BY <1>2 DEF IsCore
  <2> HIDE DEF semi, p
  <2>2. QED
    BY <1>3, <2>1, PairsAppend, Zenon
<1> HIDE DEF p, m, n
<1>5. Enter("cookie", m, p) = With(m, n, value)
  BY <1>2 DEF IsCore, Enter, AddCookie
<1>6. Holds(m, k, v) /\ k # n /\ n \in {<<"Domain">>, <<"Path">>, <<"Expires">>}
  BY DEF m, n
<1>7. /\ With(m, n, value) \in PairMaps /\ DOMAIN With(m, n, value) = DOMAIN m \cup {n}
      /\ \A x \in DOMAIN m : x # n => With(m, n, value)[x] = m[x]
  BY <1>1, <1>6, WithType DEF Holds
<1>8. Holds(With(m, n, value), k, v)
  BY <1>6, <1>7 DEF Holds
<1>9. QED
  BY <1>4, <1>5, <1>8 DEF p

\* Attribute() as pieces.
LEMMA AttributeIs ==
  ASSUME NEW t \in Text, NEW name \in Tokens, NEW value \in Text, value # <<>>
  PROVE  /\ t \o Attribute(name, value) = t \o <<";">> \o (<<name>> \o <<"=">> \o value)
         /\ t \o Attribute(name, value) \in Text
<1> DEFINE semi == ";"
           q == "="
           a == <<semi>>
           b == <<name>>
           c == <<q>>
           p == b \o c \o value
<1>1. semi \in Tokens /\ q \in Tokens
  BY TokensAre
<1>2. Attribute(name, value) = <<semi, name, q>> \o value
  BY DEF Attribute
<1> HIDE DEF semi, q
<1>3. <<semi, name, q>> = a \o b \o c
  BY <1>1, ThreeTokens
<1>4. a \in Text /\ b \in Text /\ c \in Text
  BY <1>1, OneToken
<1>5. p \in Text
  <2> HIDE DEF a, b, c
  <2>1. b \o c \in Text
    BY <1>4
  <2>2. QED
    BY <2>1
<1> HIDE DEF a, b, c
<1>6. Regroups(a, b, c, value)
  BY <1>4, AssociatesThree
<1>7. Attribute(name, value) = a \o p
  BY <1>2, <1>3, <1>6, Zenon DEF Regroups
<1> HIDE DEF p
<1>8. t \o (a \o p) = t \o a \o p
  BY <1>4, <1>5, AssociateTwo, Zenon DEF Associate
<1>9. (t \o a) \o p \in Text
  <2>1. t \o a \in Text
    BY <1>4
  <2>2. QED
    BY <1>5, <2>1
<1>10. t \o Attribute(name, value) = t \o a \o p /\ t \o Attribute(name, value) \in Text
  BY <1>7, <1>8, <1>9, Zenon
<1>11. QED
  BY <1>10 DEF a, b, c, p, semi, q

\* A domain or a path behind a cookie does not change the value of another name.
LEMMA AttributeHolds ==
  ASSUME NEW t \in Text, NEW name \in {"Domain", "Path"},
         NEW k \in Text, k # <<name>>, NEW v, Holds(PairsIn("cookie", t), k, v),
         NEW value \in Text, Lacks(value, {";", " ", "*"})
  PROVE  /\ t \o Attribute(name, value) \in Text
         /\ Holds(PairsIn("cookie", t \o Attribute(name, value)), k, v)
<1>1. CASE value = <<>>
  <2>1. t \o Attribute(name, value) = t
    BY <1>1, WithNothing DEF Attribute
  <2>2. QED
    BY <2>1
<1>2. CASE value # <<>>
  <2>1. /\ name \in Tokens /\ <<name>> \in {<<"Domain">>, <<"Path">>, <<"Expires">>}
        /\ name # "=" /\ name \notin {";", " ", "*"}
    BY TokensAssumption
  <2>2. Holds(PairsIn("cookie", t \o <<";">> \o (<<name>> \o <<"=">> \o value)), k, v)
    BY <2>1, Another, Zenon
  <2>3. /\ t \o Attribute(name, value) = t \o <<";">> \o (<<name>> \o <<"=">> \o value)
        /\ t \o Attribute(name, value) \in Text
    BY <1>2, <2>1, AttributeIs, Zenon
  <2>4. QED
    BY <2>2, <2>3, Zenon
<1>3. QED
  BY <1>1, <1>2

\* The date has spaces in it, but no equal sign.
LEMMA DateHolds ==
  ASSUME NEW t \in Text, NEW k \in Text, k # <<"Expires">>, NEW v, Holds(PairsIn("cookie", t), k, v)
  PROVE  Holds(PairsIn("cookie", t \o Attribute("Expires", DateFormat)), k, v)
<1> DEFINE name == "Expires"
           semi == ";"
           q == "="
           a == "Tue,"
           b == " "
           c == "03-Sep-2019"
           d == "11:25:23"
           e == "GMT"
           rest == <<c, b, d, b, e>>
           day == <<a>>
           space == <<b>>
           x == <<name>> \o <<q>>
           p == x \o DateFormat
           y == x \o day
           u == t \o <<semi>>
<1>1. /\ name \in Tokens /\ semi \in Tokens /\ q \in Tokens /\ a \in Tokens /\ b \in Tokens
      /\ c \in Tokens /\ d \in Tokens /\ e \in Tokens
  BY TokensAssumption
<1>2. /\ name # q /\ name \notin {";", " ", "*"} /\ <<name>> \in {<<"Domain">>, <<"Path">>, <<"Expires">>}
      /\ b \in Separators("cookie") /\ a \notin {";", " ", "*"} /\ k # <<name>>
      /\ c # "=" /\ b # "=" /\ d # "=" /\ e # "="
  BY DEF Separators
<1>3. DateFormat = <<a, b, c, b, d, b, e>>
  BY DEF DateFormat
<1> HIDE DEF a, b, c, d, e, name
<1>4. DateFormat = day \o space \o rest /\ rest \in Text
  <2>1. InThreeParts(a, b, c, b, d, b, e)
    BY <1>1, SevenTokens
  <2>2. QED
    BY <1>3, <2>1, Zenon DEF InThreeParts
<1>5. day \in Text /\ space \in Text /\ Lacks(day, {";", " ", "*"})
  BY <1>1, <1>2, OneToken, LacksOne, Zenon
<1>6. Lacks(rest, {"="})
  <2>1. /\ Len(rest) = 5 /\ DOMAIN rest = 1..5
        /\ rest[1] = c /\ rest[2] = b /\ rest[3] = d /\ rest[4] = b /\ rest[5] = e
    OBVIOUS
  <2>2. \A i \in 1..5 : i = 1 \/ i = 2 \/ i = 3 \/ i = 4 \/ i = 5
    OBVIOUS
  <2> HIDE DEF rest
  <2>3. \A i \in DOMAIN rest : rest[i] # "="
    BY <1>2, <2>1, <2>2
  <2>4. QED
    BY <2>3 DEF Lacks
<1> HIDE DEF rest, day, space, q, semi
<1>7. x \in Text /\ u \in Text /\ y \in Text
  <2>1. <<name>> \in Text /\ <<q>> \in Text /\ <<semi>> \in Text
    BY <1>1, OneToken
  <2>2. x \in Text /\ u \in Text
    BY <2>1
  <2> HIDE DEF x
  <2>3. QED
    BY <1>5, <2>2, Both, Zenon
<1>8. y = <<name>> \o <<q>> \o day
  OBVIOUS
<1> HIDE DEF x
<1>9. Regroups(x, day, space, rest)
  BY <1>4, <1>5, <1>7, AssociatesThree
<1>10. p = y \o space \o rest
  BY <1>4, <1>9, Zenon DEF Regroups
<1> HIDE DEF y, u
<1>11. Regroups(u, y, space, rest)
  BY <1>4, <1>5, <1>7, AssociatesThree
<1>12. u \o p = (u \o y) \o space \o rest
  BY <1>10, <1>11, Zenon DEF Regroups
<1>13. u \o y \in Text
  BY <1>7
<1>14. PairsIn("cookie", (u \o y) \o <<b>> \o rest) = PairsIn("cookie", u \o y)
  BY <1>1, <1>2, <1>4, <1>6, <1>13, NothingMore, Zenon
<1>15. Holds(PairsIn("cookie", t \o <<";">> \o (<<name>> \o <<"=">> \o day)), k, v)
  BY <1>1, <1>2, <1>5, Another, Zenon DEF q
<1>16. u \o y = t \o <<";">> \o (<<name>> \o <<"=">> \o day)
  BY <1>8 DEF u, semi, q
<1>17. Holds(PairsIn("cookie", u \o p), k, v)
  BY <1>12, <1>14, <1>15, <1>16, Zenon DEF space
<1>18. DateFormat \in Text /\ DateFormat # <<>>
  <2>1. day \o space \in Text
    BY <1>5, Both, Zenon
  <2>2. (day \o space) \o rest \in Text
    BY <1>4, <2>1, Both, Zenon
  <2>3. DateFormat # <<>>
    BY <1>3
  <2>4. QED
    BY <1>4, <2>2, <2>3, Zenon
<1>19. t \o Attribute(name, DateFormat) = t \o <<";">> \o (<<name>> \o <<"=">> \o DateFormat)
  BY <1>1, <1>18, AttributeIs, Zenon
<1>20. u \o p = t \o <<";">> \o (<<name>> \o <<"=">> \o DateFormat)
  BY DEF u, x, semi, q
<1>21. QED
  BY <1>17, <1>19, <1>20, Zenon DEF name

\* What starts with something is not empty.
LEMMA FirstNotEmpty ==
  ASSUME NEW a \in Text, NEW b \in Text, a # <<>>
  PROVE  a \o b # <<>>
<1>1. Len(a) > 0 /\ Len(a) \in Nat /\ Len(b) \in Nat
  BY Some
<1>2. Len(a \o b) = Len(a) + Len(b)
  OBVIOUS
<1>3. Len(a \o b) # 0
  BY <1>1, <1>2
<1>4. Len(<<>>) = 0
  OBVIOUS
<1>5. QED
  BY <1>3, <1>4, Zenon

\* A cookie written with its domain, path and date still has its value (cookie.h:55-98).
LEMMA ItemHolds ==
  ASSUME NEW item, NEW pairs \in Cookies, pairs = <<<<item.name, item.value>>>>,
         item.name \notin {<<"Domain">>, <<"Path">>, <<"Expires">>},
         \A part \in {item.value, item.domain, item.path} : part \in Text /\ Lacks(part, Separators("cookie")),
         item.expires \in {<<>>, DateFormat}
  PROVE  Holds(ParseCookie(ItemText(item)), item.name, item.value)
<1> DEFINE k == item.name
           v == item.value
           t1 == k \o <<"=">> \o v
           t2 == t1 \o Attribute("Domain", item.domain)
           t3 == t2 \o Attribute("Path", item.path)
           t4 == t3 \o Attribute("Expires", item.expires)
           M(t) == PairsIn("cookie", t)
<1>1. /\ k \in Text /\ v \in Text
      /\ Lacks(k, {"=", ";", " ", "*", "Cookie: "}) /\ Lacks(v, {";", " ", "*"})
  <2>1. pairs \in Seq(Text \X Text) /\ \A i \in DOMAIN pairs : Lacks(pairs[i][1], {"=", ";", " ", "*", "Cookie: "})
    BY Zenon DEF Cookies
  <2>2. Len(pairs) = 1 /\ 1 \in DOMAIN pairs /\ pairs[1] = <<k, v>>
    OBVIOUS
  <2>3. pairs[1] \in Text \X Text
    <3>1. pairs \in Pairs
      BY <2>1 DEF Pairs
    <3>2. \A i \in 1..Len(pairs) : pairs[i] \in Text \X Text
      BY <3>1 DEF Pairs
    <3>3. 1 \in 1..Len(pairs)
      BY <2>2
    <3>4. QED
      BY <3>2, <3>3, Zenon
  <2> HIDE DEF k, v
  <2>4. pairs[1][1] = k /\ pairs[1][2] = v /\ k \in Text /\ v \in Text
    BY <2>2, <2>3
  <2>5. Lacks(v, {";", " ", "*"})
    BY DEF Separators, v
  <2>6. QED
    BY <2>1, <2>2, <2>4, <2>5
<1>2. /\ item.domain \in Text /\ Lacks(item.domain, {";", " ", "*"})
      /\ item.path \in Text /\ Lacks(item.path, {";", " ", "*"})
  BY DEF Separators
<1>3. k # <<"Domain">> /\ k # <<"Path">> /\ k # <<"Expires">>
  OBVIOUS
<1>4. ItemText(item) = t4
  BY DEF ItemText
<1> HIDE DEF k, v
<1>5. /\ Lacks(k, {"=", ";", " ", "*"}) /\ Lacks(k, {"Cookie: "})
  BY <1>1 DEF Lacks
<1>6. t1 \in Text /\ Starts(t1) /\ Holds(M(t1), k, v)
  <2>1. IsCore("cookie", t1, <<k, v>>)
    BY <1>1, <1>5, CookieCore
  <2>2. Starts(t1)
    BY <1>1, <1>5, CookiePieceStarts
  <2> HIDE DEF t1
  <2>3. t1 \in Text /\ Lacks(t1, Separators("cookie"))
    BY <2>1 DEF IsCore
  <2>4. M(t1) = Enter("cookie", NoPairs, t1)
    BY <2>3, PairsAlone
  <2>5. Enter("cookie", NoPairs, t1) = With(NoPairs, k, v)
    BY <2>1 DEF IsCore, Enter, AddCookie
  <2>6. /\ With(NoPairs, k, v) \in PairMaps /\ DOMAIN With(NoPairs, k, v) = DOMAIN NoPairs \cup {k}
        /\ With(NoPairs, k, v)[k] = v /\ DOMAIN NoPairs = {}
    <3> DEFINE m == NoPairs
    <3>1. k \in Text /\ v \in Text /\ m \in PairMaps /\ DOMAIN m = {}
      BY <1>1, NoPairsType
    <3> HIDE DEF m
    <3>2. With(m, k, v) \in PairMaps
      BY <3>1, WithType
    <3>3. DOMAIN With(m, k, v) = DOMAIN m \cup {k} /\ With(m, k, v)[k] = v
      BY <3>1 DEF With
    <3>4. QED
      BY <3>1, <3>2, <3>3 DEF m
  <2>7. QED
    BY <2>2, <2>3, <2>4, <2>5, <2>6 DEF Holds
<1>7. t1 # <<>>
  <2>1. <<"=">> # <<>>
    OBVIOUS
  <2>2. PosEqual(t1) # 0
    <3>1. IsCore("cookie", t1, <<k, v>>)
      BY <1>1, <1>5, CookieCore
    <3> HIDE DEF t1
    <3>2. QED
      BY <3>1 DEF IsCore
  <2>3. PosEqual(t1) \in 0..Len(t1)
    BY <1>6, PosEqualIs
  <2> HIDE DEF t1
  <2>4. QED
    BY <2>2, <2>3
<1> HIDE DEF t1
<1>8. t2 \in Text /\ Holds(M(t2), k, v)
  BY <1>1, <1>2, <1>3, <1>6, AttributeHolds
<1> HIDE DEF t2
<1>9. t3 \in Text /\ Holds(M(t3), k, v)
  BY <1>1, <1>2, <1>3, <1>8, AttributeHolds
<1> HIDE DEF t3
<1>10. Holds(M(t4), k, v)
  <2>1. CASE item.expires = <<>>
    <3>1. t4 = t3
      BY <1>9, <2>1, WithNothing DEF Attribute
    <3>2. QED
      BY <1>9, <3>1
  <2>2. CASE item.expires = DateFormat
    BY <1>1, <1>3, <1>9, <2>2, DateHolds
  <2>3. QED
    BY <2>1, <2>2
<1>11. t4 # <<>> => t4[1] # "Cookie: "
  <2>1. DateFormat \in Text
    <3> DEFINE a == "Tue,"
               b == " "
               c == "03-Sep-2019"
               d == "11:25:23"
               e == "GMT"
    <3>1. a \in Tokens /\ b \in Tokens /\ c \in Tokens /\ d \in Tokens /\ e \in Tokens
      BY TokensAssumption
    <3>2. DateFormat = <<a, b, c, b, d, b, e>>
      BY DEF DateFormat
    <3> HIDE DEF a, b, c, d, e
    <3>3. QED
      BY <3>1, <3>2
  <2>2. ASSUME NEW name \in {"Domain", "Path", "Expires"}, NEW w \in Text
        PROVE  Attribute(name, w) \in Text
    <3> DEFINE semi == ";"
               q == "="
    <3>1. semi \in Tokens /\ q \in Tokens /\ name \in Tokens
      BY TokensAssumption
    <3>2. Attribute(name, w) = IF w = <<>> THEN <<>> ELSE <<semi, name, q>> \o w
      BY DEF Attribute
    <3> HIDE DEF semi, q
    <3>3. <<semi, name, q>> \in Text
      BY <3>1, ThreeTokens
    <3>4. <<semi, name, q>> \o w \in Text
      BY <3>3, Both, Zenon
    <3>5. QED
      BY <3>2, <3>4
  <2>3. /\ Attribute("Domain", item.domain) \in Text
        /\ Attribute("Path", item.path) \in Text
        /\ Attribute("Expires", item.expires) \in Text
    <3>1. item.expires \in Text
      <4>1. <<>> \in Text
        OBVIOUS
      <4>2. QED
        BY <2>1, <4>1, Zenon
    <3>2. QED
      BY <1>2, <2>2, <3>1
  <2>4. Starts(t2) /\ t2 # <<>>
    <3>1. Starts(t2)
      BY <1>6, <1>7, <2>3, StartsConcat, Zenon DEF t2
    <3>2. t2 # <<>>
      BY <1>6, <1>7, <2>3, FirstNotEmpty, Zenon DEF t2
    <3>3. QED
      BY <3>1, <3>2
  <2>5. Starts(t3) /\ t3 # <<>>
    <3>1. Starts(t3)
      BY <1>8, <2>3, <2>4, StartsConcat, Zenon DEF t3
    <3>2. t3 # <<>>
      BY <1>8, <2>3, <2>4, FirstNotEmpty, Zenon DEF t3
    <3>3. QED
      BY <3>1, <3>2
  <2>6. Starts(t4)
    BY <1>9, <2>3, <2>5, StartsConcat, Zenon DEF t4
  <2> HIDE DEF t4
  <2>7. QED
    BY <2>6 DEF Starts
<1>12. ParseCookie(t4) = M(t4)
  <2> HIDE DEF t4
  <2>1. QED
    BY <1>11 DEF ParseCookie
<1>13. QED
  BY <1>4, <1>10, <1>12, Zenon DEF k, v

-----------------------------------------------------------------------------
(* The calls                                                                 *)

\* The call is one that may be given.
InputInv == job \in Jobs /\ \E input \in Inputs[job] : given = input.given /\ text = input.text

\* What is said of a response with a code and a header.
Said(t) ==
  LET code == HttpStatusCode[t[1]] IN
    [code |-> code, class |-> CodeClass(code), body |-> HttpCodeHasBody(code),
     cacheable |-> HttpCodeIsCacheable(code),
     relayed |-> HttpHeaderIsEndToEnd(t[2]), folded |-> HttpHeaderIsCollapsible(t[2])]

\* The parsers without a loop of their own return at once.
ReadInv ==
  /\ done \in BOOLEAN
  /\ job \in {"query", "cookie", "name", "code", "date"} => pos = 1
  /\ done /\ job = "query" => result = ParseQuery(text)
  /\ done /\ job = "cookie" => result = ParseCookie(text)
  /\ done /\ job = "name" => result = FromString(text[1], text[2], text[3])
  /\ done /\ job = "code" => result = Said(text)
  /\ done /\ job = "date" => result = HttpDateToSeconds(text)

\* No action changes the call.
LEMMA InputStep ==
  ASSUME InputInv, [Next]_vars
  PROVE  InputInv'
<1>1. job' = job /\ given' = given /\ text' = text
  BY DEF Next, vars, ReadQuery, ReadCookie, ReadName, ReadCode, ReadDate, NextAttribute, ReadRequestEntry,
         CompleteRequest, Returned, Return
<1>2. QED
  BY <1>1 DEF InputInv

\* A parser without a loop returns what it computes.
LEMMA ReadStep ==
  ASSUME ReadInv, [Next]_vars
  PROVE  ReadInv'
<1>1. CASE UNCHANGED vars
  BY <1>1 DEF ReadInv, vars
<1>2. CASE ReadQuery
  BY <1>2 DEF ReadInv, ReadQuery, Return
<1>3. CASE ReadCookie
  BY <1>3 DEF ReadInv, ReadCookie, Return
<1>4. CASE ReadName
  BY <1>4 DEF ReadInv, ReadName, Return
<1>5. CASE ReadCode
  BY <1>5 DEF ReadInv, ReadCode, Return, Said
<1>6. CASE ReadDate
  BY <1>6 DEF ReadInv, ReadDate, Return
<1>7. CASE NextAttribute
  BY <1>7 DEF ReadInv, NextAttribute
<1>8. CASE ReadRequestEntry
  BY <1>8 DEF ReadInv, ReadRequestEntry
<1>9. CASE CompleteRequest
  BY <1>9 DEF ReadInv, CompleteRequest, Return
<1>10. QED
  BY <1>1, <1>2, <1>3, <1>4, <1>5, <1>6, <1>7, <1>8, <1>9 DEF Next, Returned

\* The call is one that may be given, and what the single parsers returned is what they
\* compute.
LEMMA Reading == Spec => [](InputInv /\ ReadInv)
<1>1. Init => InputInv /\ ReadInv
  BY DEF Init, InputInv, ReadInv
<1>2. InputInv /\ ReadInv /\ [Next]_vars => InputInv' /\ ReadInv'
  BY InputStep, ReadStep
<1>3. QED
  BY <1>1, <1>2, PTL DEF Spec

\* What the inputs are assumed to be.
LEMMA InputIs ==
  ASSUME InputInv
  PROVE  Takes(job, text) /\ (given # <<>> => Writes(job, given, text))
BY InputsAssumption DEF InputInv

-----------------------------------------------------------------------------
(* Pairs survive                                                             *)

\* A query or form that was written is read back.
LEMMA QuerySurvives ==
  ASSUME NEW g, NEW t, Takes("query", t), Writes("query", g, t)
  PROVE  ParseQuery(t) = [k \in KeysOf(QueryAsRead(g[1])) |-> FirstOf(QueryAsRead(g[1]), k)]
<1> DEFINE n == Len(t)
           Q(kept) == QueryText(g[1], kept)
<1>1. t \in Text
  BY DEF Takes
<1>2. /\ g[1] \in Queries
      /\ \E k \in 0..n :
              /\ Lacks(SubSeq(t, 1, k), {"="}) /\ (k = 0 \/ t[k] = "&")
              /\ \E kept \in SUBSET {"="} : SubSeq(t, k + 1, n) = Q(kept)
  BY DEF Writes
<1>3. PICK k \in 0..n, kept \in SUBSET {"="} :
        Lacks(SubSeq(t, 1, k), {"="}) /\ (k = 0 \/ t[k] = "&") /\ SubSeq(t, k + 1, n) = Q(kept)
  BY <1>2
<1> DEFINE front == SubSeq(t, 1, k)
<1>4. n \in Nat /\ k \in Nat /\ k <= n
  BY <1>1
<1>5. front \in Text /\ t = front \o Q(kept)
  <2> HIDE DEF Q, front
  <2>1. SubSeq(t, 1, k) \in Text /\ t = SubSeq(t, 1, k) \o SubSeq(t, k + 1, n)
    BY <1>1, Cut
  <2>2. QED
    BY <1>3, <2>1 DEF front
<1>6. IsFront("query", front)
  <2>1. CASE k = 0
    <3>1. Len(SubSeq(t, 1, 0)) = 0 /\ SubSeq(t, 1, 0) \in Text
      BY <1>1
    <3>2. SubSeq(t, 1, 0) = <<>>
      BY <3>1, EmptySeq
    <3>3. QED
      BY <2>1, <3>2 DEF IsFront
  <2>2. CASE k # 0
    <3> DEFINE j == k - 1
               f == SubSeq(front, 1, j)
               r == SubSeq(front, j + 1, k)
               et == "&"
    <3>1. j \in Nat /\ k = j + 1 /\ t[k] = et
      BY <1>3, <1>4, <2>2
    <3>2. Len(front) = k /\ \A i \in 1..k : front[i] = t[i]
      <4>1. 1 \in Nat /\ k \in Nat /\ 1 <= 1 /\ k <= Len(t) /\ 1 <= k
        BY <1>4, <2>2
      <4>2. /\ Len(SubSeq(t, 1, k)) = (IF 1 <= k THEN k - 1 + 1 ELSE 0)
            /\ \A i \in 1..k - 1 + 1 : SubSeq(t, 1, k)[i] = t[1 + i - 1]
        BY <1>1, <4>1, Part
      <4> HIDE DEF front
      <4>3. k - 1 + 1 = k /\ \A i \in 1..k : 1 + i - 1 = i
        BY <4>1
      <4>4. QED
        BY <4>1, <4>2, <4>3 DEF front
    <3> HIDE DEF front, et, n
    <3>3. f \in Text /\ r \in Text /\ front = f \o r
      <4>1. j \in 0..Len(front)
        BY <1>4, <3>1, <3>2
      <4> HIDE DEF j
      <4>2. SubSeq(front, 1, j) \in Text /\ SubSeq(front, j + 1, Len(front)) \in Text
            /\ front = SubSeq(front, 1, j) \o SubSeq(front, j + 1, Len(front))
        BY <1>5, <4>1, Cut
      <4>3. QED
        BY <3>2, <4>2
    <3>4. Lacks(f, {"="})
      <4>1. \A i \in 1..k : front[i] # "="
        <5>1. Lacks(front, {"="})
          BY <1>3 DEF front
        <5>2. DOMAIN front = 1..k
          BY <1>5, <3>2
        <5>3. QED
          BY <5>1, <5>2 DEF Lacks
      <4>2. Len(f) = j /\ \A i \in 1..j : f[i] = front[i]
        <5>1. 1 \in Nat /\ j \in Nat /\ 1 <= 1 /\ j <= Len(front)
          BY <3>1, <3>2
        <5>2. /\ Len(f) = (IF 1 <= j THEN j - 1 + 1 ELSE 0)
              /\ \A i \in 1..j - 1 + 1 : f[i] = front[1 + i - 1]
          BY <1>5, <5>1, Part
        <5>3. j - 1 + 1 = j /\ \A i \in 1..j : 1 + i - 1 = i
          BY <5>1
        <5> HIDE DEF f, j
        <5>4. QED
          BY <5>1, <5>2, <5>3
      <4>3. DOMAIN f = 1..j /\ \A i \in 1..j : i \in 1..k
        BY <3>1, <3>3, <4>2
      <4>4. QED
        BY <4>1, <4>2, <4>3 DEF Lacks
    <3>5. r = <<et>>
      <4>1. k \in Nat /\ 1 <= k /\ k <= Len(front)
        BY <1>4, <2>2, <3>2
      <4>2. r = SubSeq(front, k, k)
        BY <3>1
      <4>3. /\ Len(SubSeq(front, k, k)) = (IF k <= k THEN k - k + 1 ELSE 0)
            /\ \A i \in 1..k - k + 1 : SubSeq(front, k, k)[i] = front[k + i - 1]
        BY <1>5, <4>1, Part
      <4>4. k - k + 1 = 1 /\ k + 1 - 1 = k /\ 1 \in 1..1 /\ k \in 1..k
        BY <4>1
      <4> HIDE DEF r, j
      <4>5. Len(r) = 1 /\ r[1] = front[k]
        BY <4>1, <4>2, <4>3, <4>4
      <4>6. r[1] = et
        BY <3>1, <3>2, <4>4, <4>5
      <4>7. r \in Text
        BY <3>3
      <4>8. QED
        BY <4>5, <4>6, <4>7
    <3>6. \E h \in Text : Lacks(h, {"="}) /\ front = h \o <<et>>
      BY <3>3, <3>4, <3>5
    <3>7. QED
      BY <3>6 DEF IsFront, et
  <2>3. QED
    BY <2>1, <2>2
<1>7. QED
  BY <1>2, <1>5, <1>6, QueryRead, Zenon

\* Cookies that were written are read back, one with attributes too.
LEMMA CookiesSurvive ==
  ASSUME NEW g, NEW t, Writes("cookie", g, t)
  PROVE  LET pairs == CookiesAsRead(g[1])
         IN /\ \A k \in KeysOf(pairs) : Lookup(ParseCookie(t), k) = LastOf(pairs, k)
            /\ DOMAIN ParseCookie(t) \subseteq KeysOf(pairs) \cup {<<"Domain">>, <<"Path">>, <<"Expires">>}
<1> DEFINE pairs == CookiesAsRead(g[1])
<1>1. g[1] \in Cookies
  BY DEF Writes
<1>2. CASE Len(g) = 1
  <2>1. t \in {CookiesText(g[1]), <<"Cookie: ">> \o CookiesText(g[1])}
    BY <1>2 DEF Writes
  <2>2. ParseCookie(t) = [k \in KeysOf(pairs) |-> LastOf(pairs, k)]
    BY <1>1, <2>1, CookiesParsed, Zenon
  <2>3. QED
    BY <2>2 DEF Lookup
<1>3. CASE Len(g) # 1
  <2> DEFINE item == g[2]
             m == ParseCookie(t)
             k == item.name
             v == item.value
  <2>1. /\ g[1] = <<<<item.name, item.value>>>> /\ t = ItemText(item)
        /\ item.name \notin {<<"Domain">>, <<"Path">>, <<"Expires">>}
        /\ \A part \in {item.value, item.domain, item.path} : part \in Text /\ Lacks(part, Separators("cookie"))
        /\ item.expires \in {<<>>, DateFormat}
    BY <1>3 DEF Writes
  <2>2. Holds(ParseCookie(ItemText(item)), item.name, item.value)
    BY <1>1, <2>1, ItemHolds, Zenon
  <2>3. g[1] = <<<<k, v>>>> /\ Holds(m, k, v) /\ v \in Text /\ Lacks(v, Separators("cookie"))
    BY <2>1, <2>2
  <2> HIDE DEF m, k, v
  <2>4. pairs = <<<<k, v>>>>
    <3>1. Lacks(v, {Star})
      BY <2>3, Zenon DEF Separators, Lacks, Star
    <3>2. UpToFirst(v, Star) = v
      BY <2>3, <3>1, UpToFirstWhole, Zenon
    <3>3. pairs = <<<<k, UpToFirst(v, Star)>>>>
      <4> DEFINE w == UpToFirst(v, Star)
      <4>1. pairs = [i \in DOMAIN g[1] |-> <<g[1][i][1], UpToFirst(g[1][i][2], Star)>>]
        BY Zenon DEF CookiesAsRead, Star
      <4>2. DOMAIN g[1] = {1} /\ g[1][1][1] = k /\ g[1][1][2] = v
        BY <2>3
      <4>3. pairs = [i \in {1} |-> <<k, w>>]
        BY <4>1, <4>2
      <4> HIDE DEF w, pairs
      <4>4. pairs = <<<<k, w>>>>
        BY <4>3
      <4>5. QED
        BY <4>4 DEF w
    <3> HIDE DEF pairs
    <3>4. QED
      BY <3>2, <3>3, Zenon
  <2>5. pairs \in Pairs
    BY <1>1, CookiesRead, CookiesAsReadIs
  <2> HIDE DEF pairs
  <2>6. KeysOf(pairs) = {k}
    BY <2>4 DEF KeysOf
  <2>7. LastOf(pairs, k) = v
    <3>1. Reverse(pairs) \in Pairs /\ Len(Reverse(pairs)) = Len(pairs) /\
          \A i \in 1..Len(pairs) : Reverse(pairs)[i] = pairs[Len(pairs) - i + 1]
      BY <2>5, Turned
    <3>2. Len(pairs) = 1 /\ pairs[1] = <<k, v>> /\ 1 \in 1..1 /\ 1 - 1 + 1 = 1 /\ 1..1 = {1}
      BY <2>4
    <3>3. Reverse(pairs)[1] = <<k, v>> /\ Len(Reverse(pairs)) = 1
      BY <3>1, <3>2
    <3> DEFINE r == Reverse(pairs)
    <3>4. k \in KeysOf(r)
      <4>1. DOMAIN r = 1..1
        BY <3>1, <3>3 DEF Pairs
      <4> HIDE DEF r
      <4>2. r[1][1] = k /\ 1 \in DOMAIN r
        BY <3>2, <3>3, <4>1 DEF r
      <4>3. QED
        BY <4>2 DEF KeysOf
    <3> HIDE DEF r
    <3>5. PICK i \in 1..Len(r) : FirstOf(r, k) = r[i][2]
      BY <3>1, <3>4, FirstOfIs DEF r
    <3>6. FirstOf(r, k) = v
      BY <3>2, <3>3, <3>5 DEF r
    <3>7. QED
      BY <3>6 DEF LastOf, r
  <2>8. Lookup(m, k) = v
    BY <2>3 DEF Lookup, Holds
  <2>9. DOMAIN m \subseteq {k, <<"Domain">>, <<"Path">>, <<"Expires">>}
    BY <2>3 DEF Holds
  <2>10. \A x \in KeysOf(pairs) : Lookup(m, x) = LastOf(pairs, x)
    BY <2>6, <2>7, <2>8
  <2>11. DOMAIN m \subseteq KeysOf(pairs) \cup {<<"Domain">>, <<"Path">>, <<"Expires">>}
    BY <2>6, <2>9
  <2>12. QED
    BY <2>10, <2>11, Zenon DEF m, pairs
<1>4. QED
  BY <1>2, <1>3

\* PairsSurvive: every pair of a query, form or cookie arrives and nothing else does, its key as it
\* was written and its value up to a NUL, and in a cookie up to a "*" (stream.cc:212-240,
\* cookie.h:55-98).
THEOREM QueriesAndCookies == Spec => []PairsSurvive
<1>1. InputInv /\ ReadInv => PairsSurvive
  <2> SUFFICES ASSUME InputInv, ReadInv
               PROVE  PairsSurvive
    OBVIOUS
  <2>1. CASE Known /\ job = "query"
    <3>1. given # <<>> /\ done /\ Takes("query", text) /\ Writes("query", given, text)
      BY <2>1, InputIs DEF Known
    <3>2. result = ParseQuery(text)
      BY <2>1, <3>1 DEF ReadInv
    <3>3. ParseQuery(text) = [k \in KeysOf(QueryAsRead(given[1])) |-> FirstOf(QueryAsRead(given[1]), k)]
      BY <3>1, QuerySurvives, Zenon
    <3>4. QED
      BY <2>1, <3>2, <3>3 DEF PairsSurvive
  <2>2. CASE Known /\ job = "cookie"
    <3>1. given # <<>> /\ done /\ Writes("cookie", given, text)
      BY <2>2, InputIs DEF Known
    <3>2. result = ParseCookie(text)
      BY <2>2, <3>1 DEF ReadInv
    <3>3. LET pairs == CookiesAsRead(given[1])
          IN /\ \A k \in KeysOf(pairs) : Lookup(ParseCookie(text), k) = LastOf(pairs, k)
             /\ DOMAIN ParseCookie(text) \subseteq KeysOf(pairs) \cup {<<"Domain">>, <<"Path">>, <<"Expires">>}
      BY <3>1, CookiesSurvive, Zenon
    <3>4. QED
      BY <2>2, <3>2, <3>3 DEF PairsSurvive
  <2>3. QED
    BY <2>1, <2>2 DEF PairsSurvive
<1>2. QED
  BY <1>1, Reading, PTL

-----------------------------------------------------------------------------
(* Names                                                                     *)

\* The first position in a table, 0 for none.
PlaceOf(x, table) == SelectInSeq(table, LAMBDA v : v = x)

\* What the search in a table finds.
LEMMA SelectedIn ==
  ASSUME NEW table, NEW m \in Nat, Len(table) = m, NEW x
  PROVE  LET k == PlaceOf(x, table)
         IN /\ k \in 0..m
            /\ k = 0 => \A i \in 1..m : table[i] # x
            /\ k # 0 => table[k] = x
<1> DEFINE I == {i \in 1..Len(table) : table[i] = x}
           k == PlaceOf(x, table)
<1>1. k = IF I # {} THEN CHOOSE i \in I : \A j \in I : i <= j ELSE 0
  BY DEF SelectInSeq, Min, PlaceOf
<1>2. I # {} => \E i \in I : \A j \in I : i <= j
  <2>1. I \subseteq Nat
    OBVIOUS
  <2>2. QED
    BY <2>1, Least
<1>3. I = {i \in 1..m : table[i] = x}
  OBVIOUS
<1> HIDE DEF k, I
<1>4. (I = {} => k = 0) /\ (I # {} => k \in I)
  BY <1>1, <1>2
<1>5. k \in 0..m /\ (k = 0 => \A i \in 1..m : table[i] # x) /\ (k # 0 => table[k] = x)
  BY <1>3, <1>4
<1>6. QED
  BY <1>5 DEF k

\* The same for find_string().
LEMMA FoundIn ==
  ASSUME NEW table, NEW m \in Nat, Len(table) = m, NEW needle
  PROVE  LET k == find_string(needle, table)
         IN /\ k \in 0..m
            /\ k = 0 => \A i \in 1..m : <<table[i]>> # needle
            /\ k # 0 => <<table[k]>> = needle
<1> DEFINE I == {i \in 1..Len(table) : <<table[i]>> = needle}
           k == find_string(needle, table)
<1>1. k = IF I # {} THEN CHOOSE i \in I : \A j \in I : i <= j ELSE 0
  BY DEF SelectInSeq, Min, find_string
<1>2. I # {} => \E i \in I : \A j \in I : i <= j
  <2>1. I \subseteq Nat
    OBVIOUS
  <2>2. QED
    BY <2>1, Least
<1>3. I = {i \in 1..m : <<table[i]>> = needle}
  OBVIOUS
<1> HIDE DEF k, I
<1>4. (I = {} => k = 0) /\ (I # {} => k \in I)
  BY <1>1, <1>2
<1>5. k \in 0..m /\ (k = 0 => \A i \in 1..m : <<table[i]>> # needle) /\ (k # 0 => <<table[k]>> = needle)
  BY <1>3, <1>4
<1>6. QED
  BY <1>5 DEF k

\* The tables are the enumerations.
LEMMA TablesAreValues ==
  /\ Names = Values
  /\ DOMAIN Values = {"version", "verb", "header"}
  /\ \A kind \in DOMAIN Values : Len(Values[kind]) \in Nat /\ DOMAIN Values[kind] = 1..Len(Values[kind])
<1>1. kHttpVersions = HttpVersion /\ kHttpVerbs = HttpVerb
  BY DEF kHttpVersions, HttpVersion, kHttpVerbs, HttpVerb
<1>2. kHttpHeaders = HttpHeader
  BY DEF kHttpHeaders, HttpHeader
<1>3. Names = Values
  BY <1>1, <1>2 DEF Names, Values
<1>4. Len(HttpVersion) = 3 /\ DOMAIN HttpVersion = 1..3
  BY DEF HttpVersion
<1>5. Len(HttpVerb) = 6 /\ DOMAIN HttpVerb = 1..6
  BY DEF HttpVerb
<1>6. Len(HttpHeader) = 32 /\ DOMAIN HttpHeader = 1..32
  BY DEF HttpHeader
<1>7. /\ DOMAIN Values = {"version", "verb", "header"}
      /\ Values["version"] = HttpVersion /\ Values["verb"] = HttpVerb /\ Values["header"] = HttpHeader
  BY DEF Values
<1>8. QED
  BY <1>3, <1>4, <1>5, <1>6, <1>7

\* A name of an enumeration is read as its own value, any other text as the default.
LEMMA NamesRead ==
  ASSUME NEW t, Takes("name", t), NEW r, r = FromString(t[1], t[2], t[3])
  PROVE  LET kind == t[1]
             n == SelectInSeq(Values[kind], LAMBDA v : v = r)
         IN /\ r = IF \E v \in ToSet(Values[kind]) : <<v>> = t[2] THEN t[2][1] ELSE t[3]
            /\ Names[kind][n] = r
<1> DEFINE table == Values[t[1]]
           m == Len(table)
           k == find_string(t[2], table)
           n == PlaceOf(r, table)
<1>1. t[1] \in DOMAIN Values /\ t[3] \in ToSet(table)
  BY DEF Takes
<1>2. m \in Nat /\ DOMAIN table = 1..m /\ Names = Values
  BY <1>1, TablesAreValues
<1>3. r = IF k = 0 THEN t[3] ELSE table[k]
  BY <1>2 DEF FromString
<1>4. ToSet(table) = {table[i] : i \in 1..m}
  BY <1>2 DEF ToSet
<1>5. /\ k \in 0..m
      /\ k = 0 => \A i \in 1..m : <<table[i]>> # t[2]
      /\ k # 0 => <<table[k]>> = t[2]
  <2> HIDE DEF table
  <2>1. QED
    BY <1>2, FoundIn
<1>6. /\ n \in 0..m
      /\ n = 0 => \A i \in 1..m : table[i] # r
      /\ n # 0 => table[n] = r
  <2> HIDE DEF table
  <2>1. QED
    BY <1>2, SelectedIn
<1> HIDE DEF table, m, k, n
<1>7. r \in ToSet(table)
  BY <1>1, <1>2, <1>3, <1>4, <1>5
<1>8. table[n] = r
  BY <1>2, <1>4, <1>6, <1>7
<1>9. r = IF \E v \in ToSet(table) : <<v>> = t[2] THEN t[2][1] ELSE t[3]
  <2>1. CASE k = 0
    BY <1>3, <1>4, <1>5, <2>1
  <2>2. CASE k # 0
    <3>1. k \in 1..m /\ <<table[k]>> = t[2] /\ r = table[k]
      BY <1>2, <1>3, <1>5, <2>2
    <3>2. <<table[k]>>[1] = table[k]
      OBVIOUS
    <3>3. t[2][1] = table[k] /\ table[k] \in ToSet(table)
      BY <1>4, <3>1, <3>2
    <3>4. QED
      BY <3>1, <3>3
  <2>3. QED
    BY <2>1, <2>2
<1>10. QED
  BY <1>2, <1>8, <1>9, Zenon DEF table, n, PlaceOf

-----------------------------------------------------------------------------
(* Codes                                                                     *)

\* The names of a run of codes.
CodesOf(i) == {CodeRuns[i].names[k] : k \in 1..Len(CodeRuns[i].names)}

\* Where the runs begin, and how long they are.
LEMMA RunsAre ==
  /\ DOMAIN CodeRuns = 1..8
  /\ CodeRuns[1].from = 100 /\ Len(CodeRuns[1].names) = 3 /\ DOMAIN CodeRuns[1].names = 1..3
  /\ CodeRuns[2].from = 200 /\ Len(CodeRuns[2].names) = 8 /\ DOMAIN CodeRuns[2].names = 1..8
  /\ CodeRuns[3].from = 300 /\ Len(CodeRuns[3].names) = 8 /\ DOMAIN CodeRuns[3].names = 1..8
  /\ CodeRuns[4].from = 400 /\ Len(CodeRuns[4].names) = 18 /\ DOMAIN CodeRuns[4].names = 1..18
  /\ CodeRuns[5].from = 422 /\ Len(CodeRuns[5].names) = 5 /\ DOMAIN CodeRuns[5].names = 1..5
  /\ CodeRuns[6].from = 449 /\ Len(CodeRuns[6].names) = 1 /\ DOMAIN CodeRuns[6].names = 1..1
  /\ CodeRuns[7].from = 500 /\ Len(CodeRuns[7].names) = 7 /\ DOMAIN CodeRuns[7].names = 1..7
  /\ CodeRuns[8].from = 509 /\ Len(CodeRuns[8].names) = 1 /\ DOMAIN CodeRuns[8].names = 1..1
BY DEF CodeRuns

\* No run names a code twice.
LEMMA RunsDiffer ==
  \A i \in 1..8 : \A k, l \in 1..Len(CodeRuns[i].names) : CodeRuns[i].names[k] = CodeRuns[i].names[l] => k = l
<1>1. \A k, l \in 1..3 : CodeRuns[1].names[k] = CodeRuns[1].names[l] => k = l
  BY DEF CodeRuns
<1>2. \A k, l \in 1..8 : CodeRuns[2].names[k] = CodeRuns[2].names[l] => k = l
  BY DEF CodeRuns
<1>3. \A k, l \in 1..8 : CodeRuns[3].names[k] = CodeRuns[3].names[l] => k = l
  BY DEF CodeRuns
<1>4. \A k, l \in 1..18 : CodeRuns[4].names[k] = CodeRuns[4].names[l] => k = l
  BY DEF CodeRuns
<1>5. \A k, l \in 1..5 : CodeRuns[5].names[k] = CodeRuns[5].names[l] => k = l
  BY DEF CodeRuns
<1>6. \A k, l \in 1..1 : CodeRuns[6].names[k] = CodeRuns[6].names[l] => k = l
  BY DEF CodeRuns
<1>7. \A k, l \in 1..7 : CodeRuns[7].names[k] = CodeRuns[7].names[l] => k = l
  BY DEF CodeRuns
<1>8. \A k, l \in 1..1 : CodeRuns[8].names[k] = CodeRuns[8].names[l] => k = l
  BY DEF CodeRuns
<1>9. SUFFICES ASSUME NEW i \in 1..8
               PROVE  \A k, l \in 1..Len(CodeRuns[i].names) : CodeRuns[i].names[k] = CodeRuns[i].names[l] => k = l
  OBVIOUS
<1>10. i = 1 \/ i = 2 \/ i = 3 \/ i = 4 \/ i = 5 \/ i = 6 \/ i = 7 \/ i = 8
  OBVIOUS
<1>11. CASE i = 1
  BY <1>1, <1>11, RunsAre
<1>12. CASE i = 2
  BY <1>2, <1>12, RunsAre
<1>13. CASE i = 3
  BY <1>3, <1>13, RunsAre
<1>14. CASE i = 4
  BY <1>4, <1>14, RunsAre
<1>15. CASE i = 5
  BY <1>5, <1>15, RunsAre
<1>16. CASE i = 6
  BY <1>6, <1>16, RunsAre
<1>17. CASE i = 7
  BY <1>7, <1>17, RunsAre
<1>18. CASE i = 8
  BY <1>8, <1>18, RunsAre
<1>19. QED
  BY <1>10, <1>11, <1>12, <1>13, <1>14, <1>15, <1>16, <1>17, <1>18

\* Two runs have no name in common.
Apart(i, j) ==
  \A k \in 1..Len(CodeRuns[i].names), l \in 1..Len(CodeRuns[j].names) : CodeRuns[i].names[k] # CodeRuns[j].names[l]

\* No two runs name the same code.
LEMMA RunsApart == \A i, j \in 1..8 : i # j => Apart(i, j)
<1>1. /\ \A k \in 1..3, l \in 1..8 : CodeRuns[1].names[k] # CodeRuns[2].names[l]
  BY DEF CodeRuns
<1>2. /\ \A k \in 1..3, l \in 1..8 : CodeRuns[1].names[k] # CodeRuns[3].names[l]
      /\ \A k \in 1..8, l \in 1..8 : CodeRuns[2].names[k] # CodeRuns[3].names[l]
  BY DEF CodeRuns
<1>3. /\ \A k \in 1..3, l \in 1..18 : CodeRuns[1].names[k] # CodeRuns[4].names[l]
      /\ \A k \in 1..8, l \in 1..18 : CodeRuns[2].names[k] # CodeRuns[4].names[l]
      /\ \A k \in 1..8, l \in 1..18 : CodeRuns[3].names[k] # CodeRuns[4].names[l]
  BY DEF CodeRuns
<1>4. /\ \A k \in 1..3, l \in 1..5 : CodeRuns[1].names[k] # CodeRuns[5].names[l]
      /\ \A k \in 1..8, l \in 1..5 : CodeRuns[2].names[k] # CodeRuns[5].names[l]
      /\ \A k \in 1..8, l \in 1..5 : CodeRuns[3].names[k] # CodeRuns[5].names[l]
      /\ \A k \in 1..18, l \in 1..5 : CodeRuns[4].names[k] # CodeRuns[5].names[l]
  BY DEF CodeRuns
<1>5. /\ \A k \in 1..3, l \in 1..1 : CodeRuns[1].names[k] # CodeRuns[6].names[l]
      /\ \A k \in 1..8, l \in 1..1 : CodeRuns[2].names[k] # CodeRuns[6].names[l]
      /\ \A k \in 1..8, l \in 1..1 : CodeRuns[3].names[k] # CodeRuns[6].names[l]
      /\ \A k \in 1..18, l \in 1..1 : CodeRuns[4].names[k] # CodeRuns[6].names[l]
      /\ \A k \in 1..5, l \in 1..1 : CodeRuns[5].names[k] # CodeRuns[6].names[l]
  BY DEF CodeRuns
<1>6. /\ \A k \in 1..3, l \in 1..7 : CodeRuns[1].names[k] # CodeRuns[7].names[l]
      /\ \A k \in 1..8, l \in 1..7 : CodeRuns[2].names[k] # CodeRuns[7].names[l]
      /\ \A k \in 1..8, l \in 1..7 : CodeRuns[3].names[k] # CodeRuns[7].names[l]
      /\ \A k \in 1..18, l \in 1..7 : CodeRuns[4].names[k] # CodeRuns[7].names[l]
      /\ \A k \in 1..5, l \in 1..7 : CodeRuns[5].names[k] # CodeRuns[7].names[l]
      /\ \A k \in 1..1, l \in 1..7 : CodeRuns[6].names[k] # CodeRuns[7].names[l]
  BY DEF CodeRuns
<1>7. /\ \A k \in 1..3, l \in 1..1 : CodeRuns[1].names[k] # CodeRuns[8].names[l]
      /\ \A k \in 1..8, l \in 1..1 : CodeRuns[2].names[k] # CodeRuns[8].names[l]
      /\ \A k \in 1..8, l \in 1..1 : CodeRuns[3].names[k] # CodeRuns[8].names[l]
      /\ \A k \in 1..18, l \in 1..1 : CodeRuns[4].names[k] # CodeRuns[8].names[l]
      /\ \A k \in 1..5, l \in 1..1 : CodeRuns[5].names[k] # CodeRuns[8].names[l]
      /\ \A k \in 1..1, l \in 1..1 : CodeRuns[6].names[k] # CodeRuns[8].names[l]
      /\ \A k \in 1..7, l \in 1..1 : CodeRuns[7].names[k] # CodeRuns[8].names[l]
  BY DEF CodeRuns
<1>8. \A x, y \in 1..8 : Apart(x, y) => Apart(y, x)
  BY DEF Apart
<1>9. Len(CodeRuns[1].names) = 3 /\ Len(CodeRuns[2].names) = 8 /\ Len(CodeRuns[3].names) = 8 /\ Len(CodeRuns[4].names) = 18 /\ Len(CodeRuns[5].names) = 5 /\ Len(CodeRuns[6].names) = 1 /\ Len(CodeRuns[7].names) = 7 /\ Len(CodeRuns[8].names) = 1
  BY RunsAre
<1>10. Apart(1, 2)
  <2>1. Apart(1, 2)
    <3>1. Len(CodeRuns[1].names) = 3 /\ Len(CodeRuns[2].names) = 8
      BY <1>9
    <3>2. \A k \in 1..3, l \in 1..8 : CodeRuns[1].names[k] # CodeRuns[2].names[l]
      BY <1>1
    <3>3. QED
      BY <3>1, <3>2 DEF Apart
  <2>2. QED
    BY <2>1
<1>11. Apart(1, 3) /\ Apart(2, 3)
  <2>1. Apart(1, 3)
    <3>1. Len(CodeRuns[1].names) = 3 /\ Len(CodeRuns[3].names) = 8
      BY <1>9
    <3>2. \A k \in 1..3, l \in 1..8 : CodeRuns[1].names[k] # CodeRuns[3].names[l]
      BY <1>2
    <3>3. QED
      BY <3>1, <3>2 DEF Apart
  <2>2. Apart(2, 3)
    <3>1. Len(CodeRuns[2].names) = 8 /\ Len(CodeRuns[3].names) = 8
      BY <1>9
    <3>2. \A k \in 1..8, l \in 1..8 : CodeRuns[2].names[k] # CodeRuns[3].names[l]
      BY <1>2
    <3>3. QED
      BY <3>1, <3>2 DEF Apart
  <2>3. QED
    BY <2>1, <2>2
<1>12. Apart(1, 4) /\ Apart(2, 4) /\ Apart(3, 4)
  <2>1. Apart(1, 4)
    <3>1. Len(CodeRuns[1].names) = 3 /\ Len(CodeRuns[4].names) = 18
      BY <1>9
    <3>2. \A k \in 1..3, l \in 1..18 : CodeRuns[1].names[k] # CodeRuns[4].names[l]
      BY <1>3, Zenon
    <3>3. QED
      BY <3>1, <3>2 DEF Apart
  <2>2. Apart(2, 4)
    <3>1. Len(CodeRuns[2].names) = 8 /\ Len(CodeRuns[4].names) = 18
      BY <1>9
    <3>2. \A k \in 1..8, l \in 1..18 : CodeRuns[2].names[k] # CodeRuns[4].names[l]
      BY <1>3, Zenon
    <3>3. QED
      BY <3>1, <3>2 DEF Apart
  <2>3. Apart(3, 4)
    <3>1. Len(CodeRuns[3].names) = 8 /\ Len(CodeRuns[4].names) = 18
      BY <1>9
    <3>2. \A k \in 1..8, l \in 1..18 : CodeRuns[3].names[k] # CodeRuns[4].names[l]
      BY <1>3, Zenon
    <3>3. QED
      BY <3>1, <3>2 DEF Apart
  <2>4. QED
    BY <2>1, <2>2, <2>3
<1>13. Apart(1, 5) /\ Apart(2, 5) /\ Apart(3, 5) /\ Apart(4, 5)
  <2>1. Apart(1, 5)
    <3>1. Len(CodeRuns[1].names) = 3 /\ Len(CodeRuns[5].names) = 5
      BY <1>9
    <3>2. \A k \in 1..3, l \in 1..5 : CodeRuns[1].names[k] # CodeRuns[5].names[l]
      BY <1>4, Zenon
    <3>3. QED
      BY <3>1, <3>2 DEF Apart
  <2>2. Apart(2, 5)
    <3>1. Len(CodeRuns[2].names) = 8 /\ Len(CodeRuns[5].names) = 5
      BY <1>9
    <3>2. \A k \in 1..8, l \in 1..5 : CodeRuns[2].names[k] # CodeRuns[5].names[l]
      BY <1>4, Zenon
    <3>3. QED
      BY <3>1, <3>2 DEF Apart
  <2>3. Apart(3, 5)
    <3>1. Len(CodeRuns[3].names) = 8 /\ Len(CodeRuns[5].names) = 5
      BY <1>9
    <3>2. \A k \in 1..8, l \in 1..5 : CodeRuns[3].names[k] # CodeRuns[5].names[l]
      BY <1>4, Zenon
    <3>3. QED
      BY <3>1, <3>2 DEF Apart
  <2>4. Apart(4, 5)
    <3>1. Len(CodeRuns[4].names) = 18 /\ Len(CodeRuns[5].names) = 5
      BY <1>9
    <3>2. \A k \in 1..18, l \in 1..5 : CodeRuns[4].names[k] # CodeRuns[5].names[l]
      BY <1>4, Zenon
    <3>3. QED
      BY <3>1, <3>2 DEF Apart
  <2>5. QED
    BY <2>1, <2>2, <2>3, <2>4
<1>14. Apart(1, 6) /\ Apart(2, 6) /\ Apart(3, 6) /\ Apart(4, 6) /\ Apart(5, 6)
  <2>1. Apart(1, 6)
    <3>1. Len(CodeRuns[1].names) = 3 /\ Len(CodeRuns[6].names) = 1
      BY <1>9
    <3>2. \A k \in 1..3, l \in 1..1 : CodeRuns[1].names[k] # CodeRuns[6].names[l]
      BY <1>5
    <3>3. QED
      BY <3>1, <3>2 DEF Apart
  <2>2. Apart(2, 6)
    <3>1. Len(CodeRuns[2].names) = 8 /\ Len(CodeRuns[6].names) = 1
      BY <1>9
    <3>2. \A k \in 1..8, l \in 1..1 : CodeRuns[2].names[k] # CodeRuns[6].names[l]
      BY <1>5
    <3>3. QED
      BY <3>1, <3>2 DEF Apart
  <2>3. Apart(3, 6)
    <3>1. Len(CodeRuns[3].names) = 8 /\ Len(CodeRuns[6].names) = 1
      BY <1>9
    <3>2. \A k \in 1..8, l \in 1..1 : CodeRuns[3].names[k] # CodeRuns[6].names[l]
      BY <1>5
    <3>3. QED
      BY <3>1, <3>2 DEF Apart
  <2>4. Apart(4, 6)
    <3>1. Len(CodeRuns[4].names) = 18 /\ Len(CodeRuns[6].names) = 1
      BY <1>9
    <3>2. \A k \in 1..18, l \in 1..1 : CodeRuns[4].names[k] # CodeRuns[6].names[l]
      BY <1>5
    <3>3. QED
      BY <3>1, <3>2 DEF Apart
  <2>5. Apart(5, 6)
    <3>1. Len(CodeRuns[5].names) = 5 /\ Len(CodeRuns[6].names) = 1
      BY <1>9
    <3>2. \A k \in 1..5, l \in 1..1 : CodeRuns[5].names[k] # CodeRuns[6].names[l]
      BY <1>5
    <3>3. QED
      BY <3>1, <3>2 DEF Apart
  <2>6. QED
    BY <2>1, <2>2, <2>3, <2>4, <2>5
<1>15. Apart(1, 7) /\ Apart(2, 7) /\ Apart(3, 7) /\ Apart(4, 7) /\ Apart(5, 7) /\ Apart(6, 7)
  <2>1. Apart(1, 7)
    <3>1. Len(CodeRuns[1].names) = 3 /\ Len(CodeRuns[7].names) = 7
      BY <1>9
    <3>2. \A k \in 1..3, l \in 1..7 : CodeRuns[1].names[k] # CodeRuns[7].names[l]
      BY <1>6, Zenon
    <3>3. QED
      BY <3>1, <3>2 DEF Apart
  <2>2. Apart(2, 7)
    <3>1. Len(CodeRuns[2].names) = 8 /\ Len(CodeRuns[7].names) = 7
      BY <1>9
    <3>2. \A k \in 1..8, l \in 1..7 : CodeRuns[2].names[k] # CodeRuns[7].names[l]
      BY <1>6, Zenon
    <3>3. QED
      BY <3>1, <3>2 DEF Apart
  <2>3. Apart(3, 7)
    <3>1. Len(CodeRuns[3].names) = 8 /\ Len(CodeRuns[7].names) = 7
      BY <1>9
    <3>2. \A k \in 1..8, l \in 1..7 : CodeRuns[3].names[k] # CodeRuns[7].names[l]
      BY <1>6, Zenon
    <3>3. QED
      BY <3>1, <3>2 DEF Apart
  <2>4. Apart(4, 7)
    <3>1. Len(CodeRuns[4].names) = 18 /\ Len(CodeRuns[7].names) = 7
      BY <1>9
    <3>2. \A k \in 1..18, l \in 1..7 : CodeRuns[4].names[k] # CodeRuns[7].names[l]
      BY <1>6, Zenon
    <3>3. QED
      BY <3>1, <3>2 DEF Apart
  <2>5. Apart(5, 7)
    <3>1. Len(CodeRuns[5].names) = 5 /\ Len(CodeRuns[7].names) = 7
      BY <1>9
    <3>2. \A k \in 1..5, l \in 1..7 : CodeRuns[5].names[k] # CodeRuns[7].names[l]
      BY <1>6, Zenon
    <3>3. QED
      BY <3>1, <3>2 DEF Apart
  <2>6. Apart(6, 7)
    <3>1. Len(CodeRuns[6].names) = 1 /\ Len(CodeRuns[7].names) = 7
      BY <1>9
    <3>2. \A k \in 1..1, l \in 1..7 : CodeRuns[6].names[k] # CodeRuns[7].names[l]
      BY <1>6, Zenon
    <3>3. QED
      BY <3>1, <3>2 DEF Apart
  <2>7. QED
    BY <2>1, <2>2, <2>3, <2>4, <2>5, <2>6
<1>16. Apart(1, 8) /\ Apart(2, 8) /\ Apart(3, 8) /\ Apart(4, 8) /\ Apart(5, 8) /\ Apart(6, 8) /\ Apart(7, 8)
  <2>1. Apart(1, 8)
    <3>1. Len(CodeRuns[1].names) = 3 /\ Len(CodeRuns[8].names) = 1
      BY <1>9
    <3>2. \A k \in 1..3, l \in 1..1 : CodeRuns[1].names[k] # CodeRuns[8].names[l]
      BY <1>7
    <3>3. QED
      BY <3>1, <3>2 DEF Apart
  <2>2. Apart(2, 8)
    <3>1. Len(CodeRuns[2].names) = 8 /\ Len(CodeRuns[8].names) = 1
      BY <1>9
    <3>2. \A k \in 1..8, l \in 1..1 : CodeRuns[2].names[k] # CodeRuns[8].names[l]
      BY <1>7
    <3>3. QED
      BY <3>1, <3>2 DEF Apart
  <2>3. Apart(3, 8)
    <3>1. Len(CodeRuns[3].names) = 8 /\ Len(CodeRuns[8].names) = 1
      BY <1>9
    <3>2. \A k \in 1..8, l \in 1..1 : CodeRuns[3].names[k] # CodeRuns[8].names[l]
      BY <1>7
    <3>3. QED
      BY <3>1, <3>2 DEF Apart
  <2>4. Apart(4, 8)
    <3>1. Len(CodeRuns[4].names) = 18 /\ Len(CodeRuns[8].names) = 1
      BY <1>9
    <3>2. \A k \in 1..18, l \in 1..1 : CodeRuns[4].names[k] # CodeRuns[8].names[l]
      BY <1>7
    <3>3. QED
      BY <3>1, <3>2 DEF Apart
  <2>5. Apart(5, 8)
    <3>1. Len(CodeRuns[5].names) = 5 /\ Len(CodeRuns[8].names) = 1
      BY <1>9
    <3>2. \A k \in 1..5, l \in 1..1 : CodeRuns[5].names[k] # CodeRuns[8].names[l]
      BY <1>7
    <3>3. QED
      BY <3>1, <3>2 DEF Apart
  <2>6. Apart(6, 8)
    <3>1. Len(CodeRuns[6].names) = 1 /\ Len(CodeRuns[8].names) = 1
      BY <1>9
    <3>2. \A k \in 1..1, l \in 1..1 : CodeRuns[6].names[k] # CodeRuns[8].names[l]
      BY <1>7
    <3>3. QED
      BY <3>1, <3>2 DEF Apart
  <2>7. Apart(7, 8)
    <3>1. Len(CodeRuns[7].names) = 7 /\ Len(CodeRuns[8].names) = 1
      BY <1>9
    <3>2. \A k \in 1..7, l \in 1..1 : CodeRuns[7].names[k] # CodeRuns[8].names[l]
      BY <1>7
    <3>3. QED
      BY <3>1, <3>2 DEF Apart
  <2>8. QED
    BY <2>1, <2>2, <2>3, <2>4, <2>5, <2>6, <2>7
<1>17. SUFFICES ASSUME NEW i \in 1..8, NEW j \in 1..8, i < j
               PROVE  Apart(i, j)
  <2>1. ASSUME \A x, y \in 1..8 : x < y => Apart(x, y)
        PROVE  \A x, y \in 1..8 : x # y => Apart(x, y)
    <3>1. \A x, y \in 1..8 : x # y => x < y \/ y < x
      OBVIOUS
    <3>2. QED
      BY <1>8, <2>1, <3>1
  <2>2. QED
    BY <2>1
<1>18. i \in 1..7 /\ j \in 2..8
  BY <1>17
<1>19. CASE j = 2
  <2>1. i = 1
    BY <1>19, <1>17
  <2>2. QED
    BY <2>1, <1>10, <1>19
<1>20. CASE j = 3
  <2>1. i = 1 \/ i = 2
    BY <1>20, <1>17
  <2>2. QED
    BY <2>1, <1>11, <1>20
<1>21. CASE j = 4
  <2>1. i = 1 \/ i = 2 \/ i = 3
    BY <1>21, <1>17
  <2>2. QED
    BY <2>1, <1>12, <1>21
<1>22. CASE j = 5
  <2>1. i = 1 \/ i = 2 \/ i = 3 \/ i = 4
    BY <1>22, <1>17
  <2>2. QED
    BY <2>1, <1>13, <1>22
<1>23. CASE j = 6
  <2>1. i = 1 \/ i = 2 \/ i = 3 \/ i = 4 \/ i = 5
    BY <1>23, <1>17
  <2>2. QED
    BY <2>1, <1>14, <1>23
<1>24. CASE j = 7
  <2>1. i = 1 \/ i = 2 \/ i = 3 \/ i = 4 \/ i = 5 \/ i = 6
    BY <1>24, <1>17
  <2>2. QED
    BY <2>1, <1>15, <1>24
<1>25. CASE j = 8
  <2>1. i = 1 \/ i = 2 \/ i = 3 \/ i = 4 \/ i = 5 \/ i = 6 \/ i = 7
    BY <1>25, <1>17
  <2>2. QED
    BY <2>1, <1>16, <1>25
<1>26. j = 2 \/ j = 3 \/ j = 4 \/ j = 5 \/ j = 6 \/ j = 7 \/ j = 8
  BY <1>18
<1>27. QED
  BY <1>19, <1>20, <1>21, <1>22, <1>23, <1>24, <1>25, <1>26

\* A run by its index.
LEMMA RunSets ==
  \A i \in 1..8 : /\ Len(CodeRuns[i].names) \in Nat
                  /\ ToSet(CodeRuns[i].names) = CodesOf(i)
<1>1. \A i \in 1..8 : Len(CodeRuns[i].names) \in Nat /\ DOMAIN CodeRuns[i].names = 1..Len(CodeRuns[i].names)
  <2>1. SUFFICES ASSUME NEW i \in 1..8
                 PROVE  Len(CodeRuns[i].names) \in Nat /\ DOMAIN CodeRuns[i].names = 1..Len(CodeRuns[i].names)
    OBVIOUS
  <2>2. i = 1 \/ i = 2 \/ i = 3 \/ i = 4 \/ i = 5 \/ i = 6 \/ i = 7 \/ i = 8
    OBVIOUS
  <2>3. CASE i = 1
    BY <2>3, RunsAre
  <2>4. CASE i = 2
    BY <2>4, RunsAre
  <2>5. CASE i = 3
    BY <2>5, RunsAre
  <2>6. CASE i = 4
    BY <2>6, RunsAre
  <2>7. CASE i = 5
    BY <2>7, RunsAre
  <2>8. CASE i = 6
    BY <2>8, RunsAre
  <2>9. CASE i = 7
    BY <2>9, RunsAre
  <2>10. CASE i = 8
    BY <2>10, RunsAre
  <2>11. QED
    BY <2>2, <2>3, <2>4, <2>5, <2>6, <2>7, <2>8, <2>9, <2>10
<1>2. QED
  BY <1>1 DEF ToSet, CodesOf

\* Where a run begins and ends; the next begins behind it.
LEMMA RunsInOrder ==
  /\ \A i \in 1..8 : CodeRuns[i].from \in Int /\ 100 <= CodeRuns[i].from /\ CodeRuns[i].from + Len(CodeRuns[i].names) <= 510
  /\ \A i, j \in 1..8 : i < j => CodeRuns[i].from + Len(CodeRuns[i].names) <= CodeRuns[j].from
<1> DEFINE f(i) == CodeRuns[i].from
           e(i) == CodeRuns[i].from + Len(CodeRuns[i].names)
<1>1. /\ f(1) = 100 /\ e(1) = 103 /\ f(2) = 200 /\ e(2) = 208 /\ f(3) = 300 /\ e(3) = 308
      /\ f(4) = 400 /\ e(4) = 418 /\ f(5) = 422 /\ e(5) = 427 /\ f(6) = 449 /\ e(6) = 450
      /\ f(7) = 500 /\ e(7) = 507 /\ f(8) = 509 /\ e(8) = 510
  <2>1. /\ f(1) = 100 /\ f(2) = 200 /\ f(3) = 300 /\ f(4) = 400 /\ f(5) = 422 /\ f(6) = 449 /\ f(7) = 500
        /\ f(8) = 509
    BY RunsAre
  <2>2. /\ Len(CodeRuns[1].names) = 3 /\ Len(CodeRuns[2].names) = 8 /\ Len(CodeRuns[3].names) = 8
        /\ Len(CodeRuns[4].names) = 18 /\ Len(CodeRuns[5].names) = 5 /\ Len(CodeRuns[6].names) = 1
        /\ Len(CodeRuns[7].names) = 7 /\ Len(CodeRuns[8].names) = 1
    BY RunsAre
  <2>3. QED
    BY <2>1, <2>2, SMT
<1> HIDE DEF f, e
<1>2. \A i \in 1..8 : f(i) \in Int /\ 100 <= f(i) /\ e(i) <= 510
  <2>1. SUFFICES ASSUME NEW i \in 1..8
                 PROVE  f(i) \in Int /\ 100 <= f(i) /\ e(i) <= 510
    OBVIOUS
  <2>2. i = 1 \/ i = 2 \/ i = 3 \/ i = 4 \/ i = 5 \/ i = 6 \/ i = 7 \/ i = 8
    OBVIOUS
  <2>3. QED
    BY <1>1, <2>2, SMT
<1>3. \A i, j \in 1..8 : i < j => e(i) <= f(j)
  <2>1. SUFFICES ASSUME NEW i \in 1..8, NEW j \in 1..8, i < j
                 PROVE  e(i) <= f(j)
    OBVIOUS
  <2>2. j = 2 \/ j = 3 \/ j = 4 \/ j = 5 \/ j = 6 \/ j = 7 \/ j = 8
    BY <2>1
  <2>3. i = 1 \/ i = 2 \/ i = 3 \/ i = 4 \/ i = 5 \/ i = 6 \/ i = 7
    BY <2>1
  <2>4. QED
    BY <1>1, <2>1, <2>2, <2>3, SMT
<1>4. QED
  BY <1>2, <1>3 DEF f, e

\* Every code is counted on from the first of its run.
LEMMA CodeIs ==
  ASSUME NEW i \in 1..8, NEW k \in 1..Len(CodeRuns[i].names)
  PROVE  /\ CodeRuns[i].names[k] \in DOMAIN HttpStatusCode
         /\ HttpStatusCode[CodeRuns[i].names[k]] = CodeRuns[i].from + k - 1
<1> DEFINE n == CodeRuns[i].names[k]
           r == CHOOSE x \in DOMAIN CodeRuns : n \in ToSet(CodeRuns[x].names)
           all == UNION {ToSet(CodeRuns[x].names) : x \in DOMAIN CodeRuns}
           at == PlaceOf(n, CodeRuns[r].names)
<1>1. DOMAIN CodeRuns = 1..8
  BY RunsAre
<1>2. n \in CodesOf(i)
  BY DEF CodesOf
<1>3. r = i
  <2>1. r \in 1..8 /\ n \in CodesOf(r)
    <3>1. \E x \in 1..8 : n \in ToSet(CodeRuns[x].names)
      BY <1>2, RunSets
    <3>2. r \in 1..8 /\ n \in ToSet(CodeRuns[r].names)
      <4> HIDE DEF n
      <4>1. QED
        BY <1>1, <3>1
    <3>3. QED
      BY <3>2, RunSets
  <2> HIDE DEF n, r
  <2>2. PICK l \in 1..Len(CodeRuns[r].names) : n = CodeRuns[r].names[l]
    BY <2>1 DEF CodesOf
  <2>3. ASSUME r # i
        PROVE  FALSE
    <3>1. Apart(i, r)
      BY <2>1, <2>3, RunsApart
    <3>2. CodeRuns[i].names[k] # CodeRuns[r].names[l]
      BY <2>1, <3>1 DEF Apart
    <3>3. QED
      BY <2>2, <3>2 DEF n
  <2>4. QED
    BY <2>3
<1>4. n \in all
  <2>1. i \in DOMAIN CodeRuns /\ n \in ToSet(CodeRuns[i].names)
    BY <1>1, <1>2, RunSets
  <2>2. QED
    BY <2>1
<1>5. at = k
  <2>1. Len(CodeRuns[i].names) \in Nat
    BY RunSets
  <2>2. LET p == PlaceOf(n, CodeRuns[i].names)
        IN /\ p \in 0..Len(CodeRuns[i].names)
           /\ p = 0 => \A x \in 1..Len(CodeRuns[i].names) : CodeRuns[i].names[x] # n
           /\ p # 0 => CodeRuns[i].names[p] = n
    <3> HIDE DEF n
    <3>1. QED
      BY <2>1, SelectedIn
  <2>3. PlaceOf(n, CodeRuns[i].names) # 0
    BY <2>2
  <2>4. PlaceOf(n, CodeRuns[i].names) \in 1..Len(CodeRuns[i].names)
    BY <2>1, <2>2, <2>3
  <2>5. PlaceOf(n, CodeRuns[i].names) = k
    <3>1. CodeRuns[i].names[PlaceOf(n, CodeRuns[i].names)] = CodeRuns[i].names[k]
      BY <2>2, <2>3
    <3> HIDE DEF n
    <3>2. QED
      BY <2>4, <3>1, RunsDiffer
  <2> HIDE DEF n, r
  <2>6. QED
    BY <1>3, <2>5
<1>6. HttpStatusCode = [x \in all |->
        CodeRuns[CHOOSE y \in DOMAIN CodeRuns : x \in ToSet(CodeRuns[y].names)].from
          + PlaceOf(x, CodeRuns[CHOOSE y \in DOMAIN CodeRuns : x \in ToSet(CodeRuns[y].names)].names) - 1]
  BY Zenon DEF HttpStatusCode, PlaceOf
<1>7. n \in DOMAIN HttpStatusCode /\ HttpStatusCode[n] = CodeRuns[r].from + at - 1
  <2> HIDE DEF all, n
  <2>1. QED
    BY <1>4, <1>6
<1> HIDE DEF r, at
<1>8. QED
  BY <1>3, <1>5, <1>7

\* Every status code is in one of the runs of the table.
LEMMA EveryCode ==
  ASSUME NEW n \in DOMAIN HttpStatusCode
  PROVE  \E i \in 1..8 : \E k \in 1..Len(CodeRuns[i].names) : n = CodeRuns[i].names[k]
<1> DEFINE all == UNION {ToSet(CodeRuns[x].names) : x \in DOMAIN CodeRuns}
<1>1. DOMAIN HttpStatusCode = all
  BY DEF HttpStatusCode
<1>2. PICK x \in 1..8 : n \in ToSet(CodeRuns[x].names)
  BY <1>1, RunsAre
<1>3. n \in CodesOf(x)
  BY <1>2, RunSets
<1>4. QED
  BY <1>3 DEF CodesOf

\* The first code of a run, its number of codes, and the name of its k-th one.
FirstCode(i) == CodeRuns[i].from
Size(i) == Len(CodeRuns[i].names)
CodeName(i, k) == CodeRuns[i].names[k]

\* Where the runs of codes begin, and how many are in each.
LEMMA RunFacts ==
  /\ FirstCode(1) = 100 /\ Size(1) = 3 /\ FirstCode(2) = 200 /\ Size(2) = 8
  /\ FirstCode(3) = 300 /\ Size(3) = 8 /\ FirstCode(4) = 400 /\ Size(4) = 18
  /\ FirstCode(7) = 500 /\ Size(7) = 7
BY RunsAre DEF FirstCode, Size

\* The codes of a run count up from its first one.
LEMMA RunCodes ==
  \A i \in 1..8 :
    /\ FirstCode(i) \in Int /\ 100 <= FirstCode(i) /\ Size(i) \in Nat /\ FirstCode(i) + Size(i) <= 510
    /\ \A k \in 1..Size(i) : /\ CodeName(i, k) \in DOMAIN HttpStatusCode
                             /\ HttpStatusCode[CodeName(i, k)] = FirstCode(i) + k - 1
<1>1. \A i \in 1..8 : FirstCode(i) \in Int /\ 100 <= FirstCode(i) /\ FirstCode(i) + Size(i) <= 510
  BY RunsInOrder DEF FirstCode, Size
<1>2. \A i \in 1..8 : Size(i) \in Nat
  BY RunSets DEF Size
<1>3. \A i \in 1..8 : \A k \in 1..Size(i) : /\ CodeName(i, k) \in DOMAIN HttpStatusCode
                                            /\ HttpStatusCode[CodeName(i, k)] = FirstCode(i) + k - 1
  BY CodeIs, Zenon DEF FirstCode, Size, CodeName
<1>4. QED
  BY <1>1, <1>2, <1>3

\* A run ends before the next one begins.
LEMMA RunsApartFromEachOther == \A i, j \in 1..8 : i < j => FirstCode(i) + Size(i) <= FirstCode(j)
BY RunsInOrder DEF FirstCode, Size

\* Every status code has a place in a run.
LEMMA EveryCodeIs ==
  \A n \in DOMAIN HttpStatusCode : \E i \in 1..8 : \E k \in 1..Size(i) : n = CodeName(i, k)
BY EveryCode DEF Size, CodeName

\* No two names have one code.
LEMMA CodesDiffer ==
  \A n, m \in DOMAIN HttpStatusCode : n # m => HttpStatusCode[n] # HttpStatusCode[m]
<1>1. SUFFICES ASSUME NEW n \in DOMAIN HttpStatusCode, NEW m \in DOMAIN HttpStatusCode,
                      HttpStatusCode[n] = HttpStatusCode[m]
               PROVE  n = m
  OBVIOUS
<1>2. PICK i \in 1..8 : \E k \in 1..Size(i) : n = CodeName(i, k)
  BY EveryCodeIs
<1>3. PICK k \in 1..Size(i) : n = CodeName(i, k)
  BY <1>2
<1>4. PICK j \in 1..8 : \E l \in 1..Size(j) : m = CodeName(j, l)
  BY EveryCodeIs
<1>5. PICK l \in 1..Size(j) : m = CodeName(j, l)
  BY <1>4
<1>6. FirstCode(i) + k - 1 = FirstCode(j) + l - 1
  <2>1. HttpStatusCode[n] = FirstCode(i) + k - 1
    BY <1>3, RunCodes
  <2>2. HttpStatusCode[m] = FirstCode(j) + l - 1
    BY <1>5, RunCodes
  <2>3. QED
    BY <1>1, <2>1, <2>2
<1>7. FirstCode(i) \in Int /\ FirstCode(j) \in Int /\ Size(i) \in Nat /\ Size(j) \in Nat
  BY RunCodes
<1>8. (i < j => FirstCode(i) + Size(i) <= FirstCode(j)) /\ (j < i => FirstCode(j) + Size(j) <= FirstCode(i))
  BY RunsApartFromEachOther
<1>9. i = j
  BY <1>6, <1>7, <1>8, SMT
<1>10. k = l
  BY <1>6, <1>7, <1>9, SMT
<1>11. QED
  BY <1>3, <1>5, <1>9, <1>10

\* Some codes by their names.
LEMMA CodesNamed ==
  /\ HttpStatusCode["OK"] = 200 /\ HttpStatusCode["UNAUTHORIZED"] = 401
  /\ HttpStatusCode["PARTIAL_CONTENT"] = 206 /\ HttpStatusCode["MULTIPLE_CHOICES"] = 300
  /\ HttpStatusCode["MOVED_PERMANENTLY"] = 301 /\ HttpStatusCode["GONE"] = 410
  /\ HttpStatusCode["NO_CONTENT"] = 204 /\ HttpStatusCode["NOT_MODIFIED"] = 304
<1>1. /\ CodeName(2, 1) = "OK" /\ CodeName(2, 5) = "NO_CONTENT" /\ CodeName(2, 7) = "PARTIAL_CONTENT"
      /\ CodeName(3, 1) = "MULTIPLE_CHOICES" /\ CodeName(3, 2) = "MOVED_PERMANENTLY"
      /\ CodeName(3, 5) = "NOT_MODIFIED"
      /\ CodeName(4, 2) = "UNAUTHORIZED" /\ CodeName(4, 11) = "GONE"
  BY DEF CodeRuns, CodeName
<1>2. /\ HttpStatusCode[CodeName(2, 1)] = 200 + 1 - 1 /\ HttpStatusCode[CodeName(2, 5)] = 200 + 5 - 1
      /\ HttpStatusCode[CodeName(2, 7)] = 200 + 7 - 1
  BY RunFacts, RunCodes
<1>3. /\ HttpStatusCode[CodeName(3, 1)] = 300 + 1 - 1 /\ HttpStatusCode[CodeName(3, 2)] = 300 + 2 - 1
      /\ HttpStatusCode[CodeName(3, 5)] = 300 + 5 - 1
  BY RunFacts, RunCodes
<1>4. HttpStatusCode[CodeName(4, 2)] = 400 + 2 - 1 /\ HttpStatusCode[CodeName(4, 11)] = 400 + 11 - 1
  BY RunFacts, RunCodes
<1>5. QED
  BY <1>1, <1>2, <1>3, <1>4, SMT

\* The codes of the RFC are among them.
LEMMA RfcCodes == Rfc2616Codes \subseteq {HttpStatusCode[n] : n \in DOMAIN HttpStatusCode}
<1> DEFINE S == {HttpStatusCode[n] : n \in DOMAIN HttpStatusCode}
<1>1. \A i \in 1..8 : \A k \in 1..Size(i) : FirstCode(i) + k - 1 \in S
  <2>1. SUFFICES ASSUME NEW i \in 1..8, NEW k \in 1..Size(i)
                 PROVE  FirstCode(i) + k - 1 \in S
    OBVIOUS
  <2>2. CodeName(i, k) \in DOMAIN HttpStatusCode /\ HttpStatusCode[CodeName(i, k)] = FirstCode(i) + k - 1
    BY RunCodes
  <2>3. QED
    BY <2>2
<1> HIDE DEF S
<1>2. \A k \in 1..3 : 100 + k - 1 \in S
  BY <1>1, RunFacts
<1>3. \A k \in 1..8 : 200 + k - 1 \in S
  BY <1>1, RunFacts
<1>4. \A k \in 1..8 : 300 + k - 1 \in S
  BY <1>1, RunFacts
<1>5. \A k \in 1..18 : 400 + k - 1 \in S
  BY <1>1, RunFacts
<1>6. \A k \in 1..7 : 500 + k - 1 \in S
  BY <1>1, RunFacts
<1>7. SUFFICES ASSUME NEW c \in Rfc2616Codes
               PROVE  c \in S
  BY DEF S
<1>8. \/ c \in 100..101 \/ c \in 200..206 \/ c \in 300..307 \/ c \in 400..417 \/ c \in 500..505
  BY SMT DEF Rfc2616Codes
<1>9. CASE c \in 100..101
  <2>1. c - 99 \in 1..3 /\ c = 100 + (c - 99) - 1
    BY <1>9, SMT
  <2>2. QED
    BY <1>2, <2>1
<1>10. CASE c \in 200..206
  <2>1. c - 199 \in 1..8 /\ c = 200 + (c - 199) - 1
    BY <1>10, SMT
  <2>2. QED
    BY <1>3, <2>1
<1>11. CASE c \in 300..307
  <2>1. c - 299 \in 1..8 /\ c = 300 + (c - 299) - 1
    BY <1>11, SMT
  <2>2. QED
    BY <1>4, <2>1
<1>12. CASE c \in 400..417
  <2>1. c - 399 \in 1..18 /\ c = 400 + (c - 399) - 1
    BY <1>12, SMT
  <2>2. QED
    BY <1>5, <2>1
<1>13. CASE c \in 500..505
  <2>1. c - 499 \in 1..7 /\ c = 500 + (c - 499) - 1
    BY <1>13, SMT
  <2>2. QED
    BY <1>6, <2>1
<1>14. QED
  BY <1>8, <1>9, <1>10, <1>11, <1>12, <1>13

\* What is said of a code: no other name has its number, and its class, body and caching agree.
LEMMA CodesSaid ==
  ASSUME NEW t, Takes("code", t), NEW r, r = Said(t)
  PROVE  /\ \A n \in DOMAIN HttpStatusCode \ {t[1]} : HttpStatusCode[n] # r.code
         /\ r.class \in 1..5
         /\ ~r.body <=> r.code \in 100..199 \cup {204, 304}
         /\ r.cacheable => r.body
         /\ t[2] = "Connection" => ~r.relayed
         /\ t[2] = "Set-Cookie" => r.relayed /\ ~r.folded
<1> DEFINE c == HttpStatusCode[t[1]]
<1>1. t[1] \in DOMAIN HttpStatusCode
  BY DEF Takes
<1>2. /\ r.code = c /\ r.class = CodeClass(c) /\ r.body = HttpCodeHasBody(c)
      /\ r.cacheable = HttpCodeIsCacheable(c)
      /\ r.relayed = HttpHeaderIsEndToEnd(t[2]) /\ r.folded = HttpHeaderIsCollapsible(t[2])
  BY DEF Said
<1>3. c \in 100..509
  <2>1. PICK i \in 1..8 : \E k \in 1..Size(i) : t[1] = CodeName(i, k)
    BY <1>1, EveryCodeIs
  <2>2. PICK k \in 1..Size(i) : t[1] = CodeName(i, k)
    BY <2>1
  <2>3. c = FirstCode(i) + k - 1
    BY <2>2, RunCodes
  <2>4. FirstCode(i) \in Int /\ 100 <= FirstCode(i) /\ FirstCode(i) + Size(i) <= 510 /\ Size(i) \in Nat
    BY RunCodes
  <2>5. FirstCode(i) + k - 1 \in 100..509
    <3> DEFINE a == FirstCode(i)
               p == Size(i)
    <3>1. a \in Int /\ 100 <= a /\ a + p <= 510 /\ p \in Nat /\ k \in 1..p
      BY <2>4
    <3> HIDE DEF a, p
    <3>2. k \in Int /\ 1 <= k /\ k <= p /\ a \in Int /\ 100 <= a
      BY <3>1
    <3>3. a + k - 1 \in Int /\ 100 <= a + k - 1 /\ a + k - 1 <= 509
      BY <3>1, <3>2
    <3>4. a + k - 1 \in 100..509
      BY <3>3
    <3>5. QED
      BY <3>4 DEF a
  <2>6. QED
    BY <2>3, <2>5
<1>4. \A n \in DOMAIN HttpStatusCode \ {t[1]} : HttpStatusCode[n] # c
  BY <1>1, CodesDiffer
<1> HIDE DEF c
<1>5. CodeClass(c) \in 1..5 /\ (CodeClass(c) = 1 <=> c \in 100..199)
  BY <1>3, SMT DEF CodeClass
<1>6. {HttpStatusCode[n] : n \in {"NO_CONTENT", "NOT_MODIFIED"}} = {204, 304}
  BY CodesNamed
<1>7. HttpCodeHasBody(c) <=> c \notin 100..199 \cup {204, 304}
  BY <1>5, <1>6 DEF HttpCodeHasBody
<1>8. HttpCodeIsCacheable(c) <=> c \in {200, 401, 206, 300, 301, 410}
  BY CodesNamed DEF HttpCodeIsCacheable
<1>9. HttpCodeIsCacheable(c) => HttpCodeHasBody(c)
  BY <1>7, <1>8, SMT
<1>10. t[2] = "Connection" => ~HttpHeaderIsEndToEnd(t[2])
  BY DEF HttpHeaderIsEndToEnd
<1>11. t[2] = "Set-Cookie" => HttpHeaderIsEndToEnd(t[2]) /\ ~HttpHeaderIsCollapsible(t[2])
  BY DEF HttpHeaderIsEndToEnd, HttpHeaderIsCollapsible
<1>12. QED
  <2>1. (~r.body) <=> r.code \in 100..199 \cup {204, 304}
    BY <1>2, <1>7, Zenon
  <2>2. (r.cacheable => r.body) /\ (t[2] = "Connection" => ~r.relayed)
        /\ (t[2] = "Set-Cookie" => r.relayed /\ ~r.folded)
    BY <1>2, <1>9, <1>10, <1>11, Zenon
  <2>3. QED
    BY <1>2, <1>4, <1>5, <2>1, <2>2

\* Every name of an enumeration is read as its own value, and what is said of a code fits its
\* number (http.h:14-139, http.cc:21-175).
THEOREM NamesAndCodes == Spec => []NamesInStep
<1>1. InputInv /\ ReadInv => NamesInStep
  <2>1. SUFFICES ASSUME InputInv, ReadInv
                 PROVE  NamesInStep
    OBVIOUS
  <2>2. Takes(job, text)
    BY <2>1, InputIs
  <2>3. done /\ job = "name" =>
          LET kind == text[1]
              n == SelectInSeq(Values[kind], LAMBDA v : v = result)
          IN /\ result = IF \E v \in ToSet(Values[kind]) : <<v>> = text[2] THEN text[2][1] ELSE text[3]
             /\ Names[kind][n] = result
    <3>1. SUFFICES ASSUME done, job = "name"
                   PROVE  LET kind == text[1]
                              n == SelectInSeq(Values[kind], LAMBDA v : v = result)
                          IN /\ result = IF \E v \in ToSet(Values[kind]) : <<v>> = text[2]
                                           THEN text[2][1] ELSE text[3]
                             /\ Names[kind][n] = result
      OBVIOUS
    <3>2. Takes("name", text) /\ result = FromString(text[1], text[2], text[3])
      BY <2>1, <2>2, <3>1 DEF ReadInv
    <3>3. result = FromString(text[1], text[2], text[3])
      BY <3>2
    <3>4. QED
      BY <3>2, <3>3, NamesRead
  <2>4. done /\ job = "code" =>
          /\ \A n \in DOMAIN HttpStatusCode \ {text[1]} : HttpStatusCode[n] # result.code
          /\ result.class \in 1..5
          /\ ~result.body <=> result.code \in 100..199 \cup {204, 304}
          /\ result.cacheable => result.body
          /\ text[2] = "Connection" => ~result.relayed
          /\ text[2] = "Set-Cookie" => result.relayed /\ ~result.folded
    <3>1. SUFFICES ASSUME done, job = "code"
                   PROVE  /\ \A n \in DOMAIN HttpStatusCode \ {text[1]} : HttpStatusCode[n] # result.code
                          /\ result.class \in 1..5
                          /\ ~result.body <=> result.code \in 100..199 \cup {204, 304}
                          /\ result.cacheable => result.body
                          /\ text[2] = "Connection" => ~result.relayed
                          /\ text[2] = "Set-Cookie" => result.relayed /\ ~result.folded
      OBVIOUS
    <3>2. Takes("code", text) /\ result = Said(text)
      BY <2>1, <2>2, <3>1 DEF ReadInv
    <3>3. result = Said(text)
      BY <3>2
    <3>4. QED
      BY <3>2, <3>3, CodesSaid
  <2>5. QED
    BY <2>3, <2>4, RfcCodes, Zenon DEF NamesInStep
<1>2. QED
  BY <1>1, Reading, PTL

-----------------------------------------------------------------------------
(* Dates                                                                     *)

\* A leap year has a 29th of February.
IsLeap(y) == y % 4 = 0 /\ (y % 100 # 0 \/ y % 400 = 0)

\* The leap years from 1970 to the year before this one.
LeapsBefore(year) == Cardinality({y \in 1970..year - 1 : IsLeap(y)})

\* The leap years before a year, by division.
LEMMA Leaps ==
  ASSUME NEW year \in Nat, year >= 1970
  PROVE  LeapsBefore(year) = (year - 1) \div 4 - (year - 1) \div 100 + (year - 1) \div 400 - 477
<1> DEFINE S(i) == {y \in 1970..1969 + i : IsLeap(y)}
           f(y) == y \div 4 - y \div 100 + y \div 400
           T == {i \in Nat : IsFiniteSet(S(i)) /\ Cardinality(S(i)) = f(1969 + i) - 477}
           n == year - 1970
<1>1. n \in Nat /\ 1969 + n = year - 1
  BY SMT
<1>2. 0 \in T
  <2>1. S(0) = {}
    BY SMT
  <2>2. f(1969 + 0) - 477 = 0
    BY SMT
  <2> HIDE DEF S, f
  <2>3. QED
    BY <2>1, <2>2, FS_EmptySet
<1>3. ASSUME NEW i \in 0..n - 1, i \in T
      PROVE  i + 1 \in T
  <2> DEFINE y == 1970 + i
  <2>1. i \in Nat /\ y \in Nat /\ y = 1969 + (i + 1) /\ 1969 + i = y - 1
    BY SMT
  <2>2. IsFiniteSet(S(i)) /\ Cardinality(S(i)) = f(1969 + i) - 477
    BY <1>3
  <2>3. y \notin S(i)
    BY SMT
  <2>4. S(i + 1) = IF IsLeap(y) THEN S(i) \cup {y} ELSE S(i)
    <3>1. \A z : z \in 1970..1969 + (i + 1) <=> z \in 1970..1969 + i \/ z = y
      BY <2>1, SMT
    <3>2. /\ \A z : z \in S(i + 1) <=> z \in 1970..1969 + (i + 1) /\ IsLeap(z)
          /\ \A z : z \in S(i) <=> z \in 1970..1969 + i /\ IsLeap(z)
      OBVIOUS
    <3> HIDE DEF y, S
    <3>3. CASE IsLeap(y)
      <4>1. \A z : z \in S(i + 1) <=> z \in S(i) \/ z = y
        BY <3>1, <3>2, <3>3
      <4>2. S(i + 1) = S(i) \cup {y}
        BY <4>1
      <4>3. QED
        BY <3>3, <4>2
    <3>4. CASE ~IsLeap(y)
      <4>1. \A z : z \in S(i + 1) <=> z \in S(i)
        BY <3>1, <3>2, <3>4
      <4>2. S(i + 1) = S(i)
        BY <4>1 DEF S
      <4>3. QED
        BY <3>4, <4>2
    <3>5. QED
      BY <3>3, <3>4
  <2>5. f(y) = f(y - 1) + (IF IsLeap(y) THEN 1 ELSE 0)
    <3> HIDE DEF y
    <3>1. y \div 4 = (y - 1) \div 4 + (IF y % 4 = 0 THEN 1 ELSE 0)
      BY <2>1, SMT
    <3>2. y \div 100 = (y - 1) \div 100 + (IF y % 100 = 0 THEN 1 ELSE 0)
      BY <2>1, SMT
    <3>3. y \div 400 = (y - 1) \div 400 + (IF y % 400 = 0 THEN 1 ELSE 0)
      BY <2>1, SMT
    <3>4. (y % 400 = 0 => y % 100 = 0) /\ (y % 100 = 0 => y % 4 = 0)
      BY <2>1, SMT
    <3>5. (y - 1) \div 4 \in Int /\ (y - 1) \div 100 \in Int /\ (y - 1) \div 400 \in Int
      BY <2>1, SMT
    <3>6. QED
      BY <3>1, <3>2, <3>3, <3>4, <3>5, SMT DEF IsLeap
  <2>6. f(y - 1) \in Int
    BY <2>1, SMT
  <2> HIDE DEF S, f, y
  <2>7. IsFiniteSet(S(i + 1)) /\ Cardinality(S(i + 1)) = Cardinality(S(i)) + (IF IsLeap(y) THEN 1 ELSE 0)
    <3>1. CASE IsLeap(y)
      <4>1. /\ IsFiniteSet(S(i) \cup {y})
            /\ Cardinality(S(i) \cup {y}) = IF y \in S(i) THEN Cardinality(S(i)) ELSE Cardinality(S(i)) + 1
        BY <2>2, FS_AddElement
      <4>2. QED
        BY <2>3, <2>4, <3>1, <4>1
    <3>2. CASE ~IsLeap(y)
      <4>1. Cardinality(S(i)) \in Int
        BY <2>1, <2>2, <2>6
      <4>2. QED
        BY <2>2, <2>4, <3>2, <4>1
    <3>3. QED
      BY <3>1, <3>2
  <2>8. Cardinality(S(i + 1)) = f(y) - 477
    <3>1. Cardinality(S(i)) = f(y - 1) - 477
      BY <2>1, <2>2
    <3>2. QED
      BY <2>5, <2>6, <2>7, <3>1, SMT
  <2>9. QED
    BY <2>1, <2>7, <2>8
<1>4. n \in T
  <2> HIDE DEF T, n
  <2>1. \A i \in 0..n : i \in T
    BY <1>1, <1>2, <1>3, Counting
  <2>2. QED
    BY <1>1, <2>1
<1>5. Cardinality(S(n)) = f(1969 + n) - 477
  <2> HIDE DEF S, f, n
  <2>1. QED
    BY <1>4
<1>6. S(n) = {y \in 1970..year - 1 : IsLeap(y)}
  <2> HIDE DEF n
  <2>1. QED
    BY <1>1
<1>7. f(1969 + n) = (year - 1) \div 4 - (year - 1) \div 100 + (year - 1) \div 400
  <2> HIDE DEF n
  <2>1. QED
    BY <1>1
<1> HIDE DEF S, f, n
<1>8. QED
  BY <1>5, <1>6, <1>7 DEF LeapsBefore

\* The month is read by the letters that tell it.
LEMMA MonthRead ==
  ASSUME NEW mon \in 0..11, NEW month \in {MonthNames[mon + 1], MonthCapitals[mon + 1]},
         month # <<"J", "a", "n">>
  PROVE  tm_mon(month) = mon
<1>1. \/ mon = 0 \/ mon = 1 \/ mon = 2 \/ mon = 3 \/ mon = 4 \/ mon = 5 \/ mon = 6 \/ mon = 7 \/ mon = 8 \/ mon = 9
      \/ mon = 10 \/ mon = 11
  OBVIOUS
<1>2. CASE mon = 0
  <2>1. MonthNames[1] = <<"J", "a", "n">> /\ MonthCapitals[1] = <<"J", "A", "N">> /\ mon + 1 = 1
    BY <1>2 DEF MonthNames, MonthCapitals
  <2>2. month # <<"J", "a", "n">>
    OBVIOUS
  <2>3. tm_mon(<<"J", "A", "N">>) = 0
    BY DEF tm_mon
  <2>4. month = <<"J", "a", "n">> \/ month = <<"J", "A", "N">>
    BY <2>1, Zenon
  <2>5. QED
    BY <1>2, <2>2, <2>3, <2>4, Zenon
<1>3. CASE mon = 1
  <2>1. MonthNames[2] = <<"F", "e", "b">> /\ MonthCapitals[2] = <<"F", "E", "B">> /\ mon + 1 = 2
    BY <1>3 DEF MonthNames, MonthCapitals
  <2>2. tm_mon(<<"F", "e", "b">>) = 1
    BY DEF tm_mon
  <2>3. tm_mon(<<"F", "E", "B">>) = 1
    BY DEF tm_mon
  <2>4. month = <<"F", "e", "b">> \/ month = <<"F", "E", "B">>
    BY <2>1, Zenon
  <2>5. QED
    BY <1>3, <2>2, <2>3, <2>4, Zenon
<1>4. CASE mon = 2
  <2>1. MonthNames[3] = <<"M", "a", "r">> /\ MonthCapitals[3] = <<"M", "A", "R">> /\ mon + 1 = 3
    BY <1>4 DEF MonthNames, MonthCapitals
  <2>2. tm_mon(<<"M", "a", "r">>) = 2
    BY DEF tm_mon
  <2>3. tm_mon(<<"M", "A", "R">>) = 2
    BY DEF tm_mon
  <2>4. month = <<"M", "a", "r">> \/ month = <<"M", "A", "R">>
    BY <2>1, Zenon
  <2>5. QED
    BY <1>4, <2>2, <2>3, <2>4, Zenon
<1>5. CASE mon = 3
  <2>1. MonthNames[4] = <<"A", "p", "r">> /\ MonthCapitals[4] = <<"A", "P", "R">> /\ mon + 1 = 4
    BY <1>5 DEF MonthNames, MonthCapitals
  <2>2. tm_mon(<<"A", "p", "r">>) = 3
    BY DEF tm_mon
  <2>3. tm_mon(<<"A", "P", "R">>) = 3
    BY DEF tm_mon
  <2>4. month = <<"A", "p", "r">> \/ month = <<"A", "P", "R">>
    BY <2>1, Zenon
  <2>5. QED
    BY <1>5, <2>2, <2>3, <2>4, Zenon
<1>6. CASE mon = 4
  <2>1. MonthNames[5] = <<"M", "a", "y">> /\ MonthCapitals[5] = <<"M", "A", "Y">> /\ mon + 1 = 5
    BY <1>6 DEF MonthNames, MonthCapitals
  <2>2. tm_mon(<<"M", "a", "y">>) = 4
    BY DEF tm_mon
  <2>3. tm_mon(<<"M", "A", "Y">>) = 4
    BY DEF tm_mon
  <2>4. month = <<"M", "a", "y">> \/ month = <<"M", "A", "Y">>
    BY <2>1, Zenon
  <2>5. QED
    BY <1>6, <2>2, <2>3, <2>4, Zenon
<1>7. CASE mon = 5
  <2>1. MonthNames[6] = <<"J", "u", "n">> /\ MonthCapitals[6] = <<"J", "U", "N">> /\ mon + 1 = 6
    BY <1>7 DEF MonthNames, MonthCapitals
  <2>2. tm_mon(<<"J", "u", "n">>) = 5
    BY DEF tm_mon
  <2>3. tm_mon(<<"J", "U", "N">>) = 5
    BY DEF tm_mon
  <2>4. month = <<"J", "u", "n">> \/ month = <<"J", "U", "N">>
    BY <2>1, Zenon
  <2>5. QED
    BY <1>7, <2>2, <2>3, <2>4, Zenon
<1>8. CASE mon = 6
  <2>1. MonthNames[7] = <<"J", "u", "l">> /\ MonthCapitals[7] = <<"J", "U", "L">> /\ mon + 1 = 7
    BY <1>8 DEF MonthNames, MonthCapitals
  <2>2. tm_mon(<<"J", "u", "l">>) = 6
    BY DEF tm_mon
  <2>3. tm_mon(<<"J", "U", "L">>) = 6
    BY DEF tm_mon
  <2>4. month = <<"J", "u", "l">> \/ month = <<"J", "U", "L">>
    BY <2>1, Zenon
  <2>5. QED
    BY <1>8, <2>2, <2>3, <2>4, Zenon
<1>9. CASE mon = 7
  <2>1. MonthNames[8] = <<"A", "u", "g">> /\ MonthCapitals[8] = <<"A", "U", "G">> /\ mon + 1 = 8
    BY <1>9 DEF MonthNames, MonthCapitals
  <2>2. tm_mon(<<"A", "u", "g">>) = 7
    BY DEF tm_mon
  <2>3. tm_mon(<<"A", "U", "G">>) = 7
    BY DEF tm_mon
  <2>4. month = <<"A", "u", "g">> \/ month = <<"A", "U", "G">>
    BY <2>1, Zenon
  <2>5. QED
    BY <1>9, <2>2, <2>3, <2>4, Zenon
<1>10. CASE mon = 8
  <2>1. MonthNames[9] = <<"S", "e", "p">> /\ MonthCapitals[9] = <<"S", "E", "P">> /\ mon + 1 = 9
    BY <1>10 DEF MonthNames, MonthCapitals
  <2>2. tm_mon(<<"S", "e", "p">>) = 8
    BY DEF tm_mon
  <2>3. tm_mon(<<"S", "E", "P">>) = 8
    BY DEF tm_mon
  <2>4. month = <<"S", "e", "p">> \/ month = <<"S", "E", "P">>
    BY <2>1, Zenon
  <2>5. QED
    BY <1>10, <2>2, <2>3, <2>4, Zenon
<1>11. CASE mon = 9
  <2>1. MonthNames[10] = <<"O", "c", "t">> /\ MonthCapitals[10] = <<"O", "C", "T">> /\ mon + 1 = 10
    BY <1>11 DEF MonthNames, MonthCapitals
  <2>2. tm_mon(<<"O", "c", "t">>) = 9
    BY DEF tm_mon
  <2>3. tm_mon(<<"O", "C", "T">>) = 9
    BY DEF tm_mon
  <2>4. month = <<"O", "c", "t">> \/ month = <<"O", "C", "T">>
    BY <2>1, Zenon
  <2>5. QED
    BY <1>11, <2>2, <2>3, <2>4, Zenon
<1>12. CASE mon = 10
  <2>1. MonthNames[11] = <<"N", "o", "v">> /\ MonthCapitals[11] = <<"N", "O", "V">> /\ mon + 1 = 11
    BY <1>12 DEF MonthNames, MonthCapitals
  <2>2. tm_mon(<<"N", "o", "v">>) = 10
    BY DEF tm_mon
  <2>3. tm_mon(<<"N", "O", "V">>) = 10
    BY DEF tm_mon
  <2>4. month = <<"N", "o", "v">> \/ month = <<"N", "O", "V">>
    BY <2>1, Zenon
  <2>5. QED
    BY <1>12, <2>2, <2>3, <2>4, Zenon
<1>13. CASE mon = 11
  <2>1. MonthNames[12] = <<"D", "e", "c">> /\ MonthCapitals[12] = <<"D", "E", "C">> /\ mon + 1 = 12
    BY <1>13 DEF MonthNames, MonthCapitals
  <2>2. tm_mon(<<"D", "e", "c">>) = 11
    BY DEF tm_mon
  <2>3. tm_mon(<<"D", "E", "C">>) = 11
    BY DEF tm_mon
  <2>4. month = <<"D", "e", "c">> \/ month = <<"D", "E", "C">>
    BY <2>1, Zenon
  <2>5. QED
    BY <1>13, <2>2, <2>3, <2>4, Zenon
<1>14. QED
  BY <1>1, <1>2, <1>3, <1>4, <1>5, <1>6, <1>7, <1>8, <1>9, <1>10, <1>11, <1>12, <1>13

\* The days before each month in a year that is no leap year.
BeforeMonth == <<0, 31, 59, 90, 120, 151, 181, 212, 243, 273, 304, 334>>

\* The days that the C library counts.
DaysTo(year, mon, mday) ==
  365 * (year - 1970) + LeapsBefore(year) + BeforeMonth[mon + 1]
    + (IF mon > 1 /\ IsLeap(year) THEN 1 ELSE 0) + mday - 1

\* They are those of the calendar.
LEMMA DaysOfMonth ==
  ASSUME NEW year \in Nat, year >= 1970, NEW mon \in 0..11, NEW mday \in Int
  PROVE  DaysTo(year, mon, mday) = DayNumber(year, mon, mday)
<1> DEFINE a == (year - 1) \div 4
           b == (year - 1) \div 100
           c == (year - 1) \div 400
           leap == IF IsLeap(year) THEN 1 ELSE 0
           m == (153 * ((mon + 10) % 12) + 2) \div 5
<1>1. a \in Int /\ b \in Int /\ c \in Int /\ LeapsBefore(year) = a - b + c - 477
  BY Leaps, SMT
<1>2. leap \in {0, 1} /\ (IsLeap(year) <=> leap = 1)
  OBVIOUS
<1>3. year \div 4 - year \div 100 + year \div 400 = a - b + c + leap
  <2>1. year \div 4 = a + (IF year % 4 = 0 THEN 1 ELSE 0)
    BY SMT
  <2>2. year \div 100 = b + (IF year % 100 = 0 THEN 1 ELSE 0)
    BY SMT
  <2>3. year \div 400 = c + (IF year % 400 = 0 THEN 1 ELSE 0)
    BY SMT
  <2>4. (year % 400 = 0 => year % 100 = 0) /\ (year % 100 = 0 => year % 4 = 0)
    BY SMT
  <2> HIDE DEF a, b, c
  <2>5. QED
    BY <1>1, <2>1, <2>2, <2>3, <2>4, SMT DEF IsLeap
<1>4. /\ BeforeMonth[mon + 1] \in Int /\ m \in Int
      /\ mon < 2 => BeforeMonth[mon + 1] = m - 306
      /\ mon >= 2 => BeforeMonth[mon + 1] = m + 59
  <2>1. \/ mon = 0 \/ mon = 1 \/ mon = 2 \/ mon = 3 \/ mon = 4 \/ mon = 5 \/ mon = 6 \/ mon = 7 \/ mon = 8
        \/ mon = 9 \/ mon = 10 \/ mon = 11
    OBVIOUS
  <2>2. QED
    BY <2>1, SMT DEF BeforeMonth
<1>5. DayNumber(year, mon, mday) =
        IF mon < 2 THEN 365 * (year - 1) + a - b + c + m + mday - 1 - 719468
        ELSE 365 * year + (a - b + c + leap) + m + mday - 1 - 719468
  <2>1. CASE mon < 2
    BY <2>1, SMT DEF DayNumber
  <2>2. CASE ~(mon < 2)
    <3>1. DayNumber(year, mon, mday) =
            365 * year + year \div 4 - year \div 100 + year \div 400 + m + mday - 1 - 719468
      BY <2>2, SMT DEF DayNumber
    <3>2. year \div 4 \in Int /\ year \div 100 \in Int /\ year \div 400 \in Int
      BY SMT
    <3> HIDE DEF a, b, c, m
    <3>3. QED
      BY <1>1, <1>2, <1>3, <1>4, <2>2, <3>1, <3>2, SMT
  <2>3. QED
    BY <2>1, <2>2
<1> HIDE DEF a, b, c, m
<1>6. CASE mon < 2
  BY <1>1, <1>4, <1>5, <1>6, SMT DEF DaysTo
<1>7. CASE ~(mon < 2)
  BY <1>1, <1>2, <1>4, <1>5, <1>7, SMT DEF DaysTo
<1>8. QED
  BY <1>6, <1>7

\* A date of Greenwich that was written is converted to its second.
LEMMA ConvertsDate ==
  ASSUME NEW g, NEW t, Writes("date", g, t), g[1].east = 0, t[7][1] \in {"UT", "GMT"},
         t[2] # <<"J", "a", "n">>
  PROVE  HttpDateToSeconds(t) = <<Instant(g[1])>>
<1> DEFINE d == g[1]
           now == Instant(d)
<1>1. /\ d \in [mday : Int, mon : 0..11, year : Nat, hour : Int, min : Int, sec : Int, east : Int]
      /\ d.year >= 1970
      /\ Len(t) = 7
      /\ <<t[1], t[3], t[4], t[5], t[6]>> = <<d.mday, d.year, d.hour, d.min, d.sec>>
      /\ t[2] \in {MonthNames[d.mon + 1], MonthCapitals[d.mon + 1]}
  BY DEF Writes
<1>2. t[1] = d.mday /\ t[3] = d.year /\ t[4] = d.hour /\ t[5] = d.min /\ t[6] = d.sec
  <2> HIDE DEF d
  <2>1. QED
    BY <1>1
<1>3. tm_mon(t[2]) = d.mon
  <2>1. d.mon \in 0..11
    BY <1>1
  <2> DEFINE mo == d.mon
  <2>2. mo \in 0..11 /\ t[2] \in {MonthNames[mo + 1], MonthCapitals[mo + 1]} /\ t[2] # <<"J", "a", "n">>
    BY <1>1, <2>1
  <2> HIDE DEF mo
  <2>3. tm_mon(t[2]) = mo
    BY <2>2, MonthRead
  <2>4. QED
    BY <2>3 DEF mo
<1>4. now \in Int /\ mktime(t[1], tm_mon(t[2]), t[3], t[4], t[5], t[6]) = now + Timezone
  <2> DEFINE y == d.year
             mo == d.mon
             da == d.mday
             h == d.hour
             mi == d.min
             s == d.sec
  <2>1. y \in Nat /\ mo \in 0..11 /\ da \in Int /\ h \in Int /\ mi \in Int /\ s \in Int /\ y >= 1970
    BY <1>1
  <2>2. now = ((DayNumber(y, mo, da) * 24 + h) * 60 + mi - 0) * 60 + s
    <3>1. d.mday = da /\ d.mon = mo /\ d.year = y /\ d.hour = h /\ d.min = mi /\ d.sec = s /\ d.east = 0
      OBVIOUS
    <3> HIDE DEF y, mo, da, h, mi, s, d
    <3>2. QED
      BY <3>1 DEF Instant
  <2>3. mktime(t[1], tm_mon(t[2]), t[3], t[4], t[5], t[6]) = mktime(da, mo, y, h, mi, s)
    BY <1>2, <1>3
  <2> HIDE DEF y, mo, da, h, mi, s, d, now
  <2> DEFINE days == DaysTo(y, mo, da)
             dn == DayNumber(y, mo, da)
  <2>4. mktime(da, mo, y, h, mi, s) = ((days * 24 + h) * 60 + mi) * 60 + s + Timezone
    BY SMT DEF mktime, DaysTo, LeapsBefore, IsLeap, BeforeMonth
  <2>5. days = dn
    BY <2>1, DaysOfMonth
  <2>6. dn \in Int
    BY <2>1, SMT DEF DayNumber
  <2>7. now = ((dn * 24 + h) * 60 + mi - 0) * 60 + s
    BY <2>2
  <2> HIDE DEF days, dn
  <2>8. ((dn * 24 + h) * 60 + mi - 0) * 60 + s \in Int
        /\ ((dn * 24 + h) * 60 + mi - 0) * 60 + s + Timezone = ((dn * 24 + h) * 60 + mi) * 60 + s + Timezone
    BY <2>1, <2>6, TimezoneAssumption, SMT
  <2>9. QED
    BY <2>3, <2>4, <2>5, <2>7, <2>8
<1>5. /\ t[7][1] \notin {"+", "-"} /\ t[7][1] \in DOMAIN kTimeZoneOffsets
      /\ kTimeZoneOffsets[t[7][1]] = 0
  <2> DEFINE z == t[7][1]
  <2>1. z = "UT" \/ z = "GMT"
    OBVIOUS
  <2> HIDE DEF z
  <2>2. z \notin {"+", "-"} /\ z \in DOMAIN kTimeZoneOffsets /\ kTimeZoneOffsets[z] = 0
    BY <2>1 DEF kTimeZoneOffsets
  <2>3. QED
    BY <2>2 DEF z
<1>6. now + Timezone + 0 * 3600 - Timezone = now
  <2> HIDE DEF now
  <2>1. QED
    BY <1>4, TimezoneAssumption, SMT
<1>7. HttpDateToSeconds(t) = <<now + Timezone + 0 * 3600 - Timezone>>
  <2> HIDE DEF now, d
  <2>1. QED
    BY <1>1, <1>4, <1>5 DEF HttpDateToSeconds
<1>8. QED
  BY <1>6, <1>7

\* A date of Greenwich is converted to its own second, whatever the time zone of the process, for
\* every year from 1970 on (http.cc:294-336).
THEOREM DatesOfGreenwich == Spec => []GmtDates
<1>1. InputInv /\ ReadInv => GmtDates
  <2>1. SUFFICES ASSUME InputInv, ReadInv, Known, job = "date", given[1].east = 0,
                        text[7][1] \in {"UT", "GMT"}, text[2] # <<"J", "a", "n">>
                 PROVE  result = <<Instant(given[1])>>
    BY Zenon DEF GmtDates
  <2>2. Writes("date", given, text)
    BY <2>1, InputIs DEF Known
  <2>3. HttpDateToSeconds(text) = <<Instant(given[1])>>
    BY <2>1, <2>2, ConvertsDate, Zenon
  <2>4. result = HttpDateToSeconds(text)
    BY <2>1 DEF ReadInv, Known
  <2>5. QED
    BY <2>3, <2>4
<1>2. QED
  BY <1>1, Reading, PTL

-----------------------------------------------------------------------------
(* The environment                                                           *)

\* The names of the environment are tokens.
LEMMA NamesAreTokens ==
  /\ "HTTP_" \in Tokens /\ "HOST" \in Tokens /\ "COOKIE" \in Tokens /\ "QUERY_STRING" \in Tokens
  /\ "REQUEST_METHOD" \in Tokens /\ "REQUEST_URI" \in Tokens /\ "=" \in Tokens
BY TokensAssumption

\* An entry whose name is one token, or two.
LEMMA EntryOfOne ==
  ASSUME NEW name \in Tokens, name # "=", NEW v \in Text
  PROVE  IsPairText(<<name, "=">> \o v, <<name>>, v)
<1> DEFINE c == "="
<1>1. c \in Tokens /\ c = "="
  BY NamesAreTokens
<1>2. Lacks(<<name>>, {c}) /\ <<name>> \in Text
  <2> HIDE DEF c
  <2>1. name \notin {c}
    BY <1>1
  <2>2. QED
    BY <2>1, LacksOne, OneToken
<1>3. <<name, c>> = <<name>> \o <<c>>
  <2> HIDE DEF c
  <2>1. QED
    BY <1>1, TwoTokens
<1>4. IsPairText(<<name>> \o <<c>> \o v, <<name>>, v)
  BY <1>2, KeyValue
<1>5. QED
  BY <1>3, <1>4, Zenon

\* An entry whose key has two tokens.
LEMMA EntryOfTwo ==
  ASSUME NEW a \in Tokens, NEW name \in Tokens, a # "=", name # "=", NEW v \in Text
  PROVE  IsPairText(<<a, name, "=">> \o v, <<a, name>>, v)
<1> DEFINE c == "="
<1>1. c \in Tokens /\ c = "="
  BY NamesAreTokens
<1>2. Lacks(<<a, name>>, {c}) /\ <<a, name>> \in Text
  <2> HIDE DEF c
  <2>1. a # c /\ name # c
    BY <1>1
  <2>2. <<a, name>> \in Text /\ \A i \in 1..2 : <<a, name>>[i] # c
    BY <2>1
  <2>3. DOMAIN <<a, name>> = 1..2
    OBVIOUS
  <2>4. QED
    BY <2>2, <2>3, Zenon DEF Lacks
<1>3. <<a, name, c>> = <<a, name>> \o <<c>>
  <2> HIDE DEF c
  <2>1. <<a, name, c>> = <<a>> \o <<name>> \o <<c>>
    BY <1>1, ThreeTokens
  <2>2. <<a, name>> = <<a>> \o <<name>>
    BY TwoTokens
  <2>3. QED
    BY <2>1, <2>2, Zenon
<1>4. IsPairText(<<a, name>> \o <<c>> \o v, <<a, name>>, v)
  BY <1>2, KeyValue
<1>5. QED
  BY <1>3, <1>4, Zenon

\* An entry whose value is one token.
LEMMA EntryOfMethod ==
  ASSUME NEW name \in Tokens, name # "=", NEW m \in Tokens
  PROVE  IsPairText(<<name, "=", m>>, <<name>>, <<m>>)
<1> DEFINE c == "="
<1>1. c \in Tokens /\ c = "="
  BY NamesAreTokens
<1>2. <<m>> \in Text
  BY OneToken
<1>3. <<name, c, m>> = <<name, c>> \o <<m>>
  <2> HIDE DEF c
  <2>1. <<name, c, m>> = <<name>> \o <<c>> \o <<m>>
    BY <1>1, ThreeTokens
  <2>2. <<name, c>> = <<name>> \o <<c>>
    BY <1>1, TwoTokens
  <2>3. QED
    BY <2>1, <2>2, Zenon
<1>4. IsPairText(<<name, c>> \o <<m>>, <<name>>, <<m>>)
  BY <1>2, EntryOfOne, Zenon
<1>5. QED
  BY <1>3, <1>4, Zenon

\* The parameters of the environment, and their names and values.
QueryEntry(s) == <<"QUERY_STRING", "=">> \o QueryText(s.query, {"="})
MethodEntry(s) == <<"REQUEST_METHOD", "=", s.method>>
UriEntry(s) == <<"REQUEST_URI", "=">> \o s.uri
HostEntry(s) == <<"HTTP_", "HOST", "=">> \o s.host
CookieEntry(s) == <<"HTTP_", "COOKIE", "=">> \o CookiesText(s.cookies)

\* The five entries of a request's environment.
LEMMA EnvironmentIs ==
  ASSUME NEW s
  PROVE  Environment(s) = {QueryEntry(s), MethodEntry(s), UriEntry(s), HostEntry(s), CookieEntry(s)}
BY Zenon DEF Environment, QueryEntry, MethodEntry, UriEntry, HostEntry, CookieEntry

\* The parts of what a client sends.
LEMMA SentIs ==
  ASSUME NEW s \in Sent
  PROVE  /\ s.uri \in Text /\ s.host \in Text /\ s.method \in Tokens
         /\ s.query \in Queries /\ s.cookies \in Cookies /\ s.form \in Queries
BY Zenon DEF Sent

\* A query is written as a text.
LEMMA QueriesAreTexts ==
  ASSUME NEW pairs \in Queries, NEW kept \in SUBSET {"="}
  PROVE  QueryText(pairs, kept) \in Text
<1>1. <<>> \in Text /\ IsFront("query", <<>>)
  BY DEF IsFront
<1>2. QED
  BY <1>1, QueryRead

\* The key and the value of each of the five entries.
LEMMA EntriesOf ==
  ASSUME NEW s \in Sent
  PROVE  /\ IsPairText(QueryEntry(s), <<"QUERY_STRING">>, QueryText(s.query, {"="}))
         /\ IsPairText(MethodEntry(s), <<"REQUEST_METHOD">>, <<s.method>>)
         /\ IsPairText(UriEntry(s), <<"REQUEST_URI">>, s.uri)
         /\ IsPairText(HostEntry(s), <<"HTTP_", "HOST">>, s.host)
         /\ IsPairText(CookieEntry(s), <<"HTTP_", "COOKIE">>, CookiesText(s.cookies))
<1>1. /\ s.uri \in Text /\ s.host \in Text /\ s.method \in Tokens
      /\ QueryText(s.query, {"="}) \in Text /\ CookiesText(s.cookies) \in Text
  <2>1. /\ s.uri \in Text /\ s.host \in Text /\ s.method \in Tokens
        /\ s.query \in Queries /\ s.cookies \in Cookies
    BY SentIs
  <2>2. QueryText(s.query, {"="}) \in Text
    <3>1. {"="} \in SUBSET {"="}
      OBVIOUS
    <3>2. QED
      BY <2>1, <3>1, QueriesAreTexts, Zenon
  <2>3. CookiesText(s.cookies) \in Text
    BY <2>1, CookiesStart, Zenon DEF Starts
  <2>4. QED
    BY <2>1, <2>2, <2>3
<1>2. /\ "QUERY_STRING" # "=" /\ "REQUEST_METHOD" # "=" /\ "REQUEST_URI" # "=" /\ "HTTP_" # "="
      /\ "HOST" # "=" /\ "COOKIE" # "="
  OBVIOUS
<1>3. IsPairText(QueryEntry(s), <<"QUERY_STRING">>, QueryText(s.query, {"="}))
  BY <1>1, <1>2, NamesAreTokens, EntryOfOne, Zenon DEF QueryEntry
<1>4. IsPairText(MethodEntry(s), <<"REQUEST_METHOD">>, <<s.method>>)
  BY <1>1, <1>2, NamesAreTokens, EntryOfMethod, Zenon DEF MethodEntry
<1>5. IsPairText(UriEntry(s), <<"REQUEST_URI">>, s.uri)
  BY <1>1, <1>2, NamesAreTokens, EntryOfOne, Zenon DEF UriEntry
<1>6. IsPairText(HostEntry(s), <<"HTTP_", "HOST">>, s.host)
  BY <1>1, <1>2, NamesAreTokens, EntryOfTwo, Zenon DEF HostEntry
<1>7. IsPairText(CookieEntry(s), <<"HTTP_", "COOKIE">>, CookiesText(s.cookies))
  BY <1>1, <1>2, NamesAreTokens, EntryOfTwo, Zenon DEF CookieEntry
<1>8. QED
  BY <1>3, <1>4, <1>5, <1>6, <1>7

\* The loop leaves these parts of the request as they are.
Blanks(r) ==
  /\ DOMAIN r = {"header", "query_string", "method", "url", "host", "cookie", "query", "form", "ok"}
  /\ r.query = NoPairs /\ r.form = NoPairs

\* The keys of the environment that are headers, and the header they name.
NamesHeader(key) == key \notin {<<"QUERY_STRING">>, <<"REQUEST_METHOD">>, <<"REQUEST_URI">>}
HeaderKey(key) == IF key # <<>> /\ key[1] = "HTTP_" THEN Tail(key) ELSE key

\* What an entry changes, part by part.
EntryRead(n, r, e) ==
  LET key == Before(e)
      v == After(e)
      taken == ~Skipped(e)
  IN /\ Blanks(n)
     /\ n.query_string = IF taken /\ key = <<"QUERY_STRING">> THEN v ELSE r.query_string
     /\ n.method = IF taken /\ key = <<"REQUEST_METHOD">> THEN FromString("verb", v, r.method) ELSE r.method
     /\ n.url = IF taken /\ key = <<"REQUEST_URI">> THEN v ELSE r.url
     /\ n.header = IF taken /\ NamesHeader(key) THEN With(r.header, HeaderKey(key), v) ELSE r.header

\* What an entry changes of a request that is being read.
LEMMA ReadEntryIs ==
  ASSUME NEW r, Blanks(r), NEW e
  PROVE  EntryRead(ReadEntry(r, e), r, e)
<1> DEFINE key == Before(e)
           v == After(e)
           n == ReadEntry(r, e)
           a == <<"QUERY_STRING">>
           b == <<"REQUEST_METHOD">>
           c == <<"REQUEST_URI">>
           h == "HTTP_"
<1>1. a # b /\ a # c /\ b # c /\ a # <<>> /\ b # <<>> /\ c # <<>> /\ a[1] # h /\ b[1] # h /\ c[1] # h
  OBVIOUS
<1>2. n = IF Skipped(e) THEN r
          ELSE IF key # <<>> /\ key[1] = h THEN [r EXCEPT !.header = With(@, Tail(key), v)]
          ELSE IF key = a THEN [r EXCEPT !.query_string = v]
          ELSE IF key = b THEN [r EXCEPT !.method = FromString("verb", v, @)]
          ELSE IF key = c THEN [r EXCEPT !.url = v]
          ELSE [r EXCEPT !.header = With(@, key, v)]
  BY Zenon DEF ReadEntry
<1>3. NamesHeader(key) <=> key # a /\ key # b /\ key # c
  BY Zenon DEF NamesHeader
<1>4. HeaderKey(key) = IF key # <<>> /\ key[1] = h THEN Tail(key) ELSE key
  BY Zenon DEF HeaderKey
<1> DEFINE Goal == /\ Blanks(n)
                   /\ n.query_string = IF ~Skipped(e) /\ key = a THEN v ELSE r.query_string
                   /\ n.method = IF ~Skipped(e) /\ key = b THEN FromString("verb", v, r.method) ELSE r.method
                   /\ n.url = IF ~Skipped(e) /\ key = c THEN v ELSE r.url
                   /\ n.header = IF ~Skipped(e) /\ NamesHeader(key) THEN With(r.header, HeaderKey(key), v) ELSE r.header
<1>5. Goal
  <2> HIDE DEF key, v, n, a, b, c, h
  <2>1. CASE Skipped(e)
    BY <1>2, <2>1
  <2>2. CASE ~Skipped(e) /\ key # <<>> /\ key[1] = h
    <3>1. n = [r EXCEPT !.header = With(r.header, Tail(key), v)]
      BY <1>2, <2>2
    <3>2. n.header = With(r.header, Tail(key), v) /\ n.query_string = r.query_string /\ n.method = r.method /\ n.url = r.url /\ Blanks(n)
      BY <3>1 DEF Blanks
    <3>3. key # a /\ key # b /\ key # c
      BY <1>1, <2>2
    <3>4. QED
      BY <1>3, <1>4, <2>2, <3>2, <3>3
  <2>3. CASE ~Skipped(e) /\ ~(key # <<>> /\ key[1] = h) /\ key = a
    <3>1. n = [r EXCEPT !.query_string = v]
      BY <1>2, <2>3
    <3>2. n.query_string = v /\ n.header = r.header /\ n.method = r.method /\ n.url = r.url /\ Blanks(n)
      BY <3>1 DEF Blanks
    <3>3. QED
      BY <1>1, <1>3, <1>4, <2>3, <3>2
  <2>4. CASE ~Skipped(e) /\ ~(key # <<>> /\ key[1] = h) /\ key = b
    <3>1. n = [r EXCEPT !.method = FromString("verb", v, r.method)]
      BY <1>1, <1>2, <2>4
    <3>2. n.method = FromString("verb", v, r.method) /\ n.header = r.header /\ n.query_string = r.query_string /\ n.url = r.url /\ Blanks(n)
      BY <3>1 DEF Blanks
    <3>3. QED
      BY <1>1, <1>3, <1>4, <2>4, <3>2
  <2>5. CASE ~Skipped(e) /\ ~(key # <<>> /\ key[1] = h) /\ key = c
    <3>1. n = [r EXCEPT !.url = v]
      BY <1>1, <1>2, <2>5
    <3>2. n.url = v /\ n.header = r.header /\ n.query_string = r.query_string /\ n.method = r.method /\ Blanks(n)
      BY <3>1 DEF Blanks
    <3>3. QED
      BY <1>1, <1>3, <1>4, <2>5, <3>2
  <2>6. CASE ~Skipped(e) /\ ~(key # <<>> /\ key[1] = h) /\ key # a /\ key # b /\ key # c
    <3>1. n = [r EXCEPT !.header = With(r.header, key, v)]
      BY <1>2, <2>6
    <3>2. n.header = With(r.header, key, v) /\ n.query_string = r.query_string /\ n.method = r.method /\ n.url = r.url /\ Blanks(n)
      BY <3>1 DEF Blanks
    <3>3. QED
      BY <1>1, <1>3, <1>4, <2>6, <3>2
  <2>7. QED
    BY <2>1, <2>2, <2>3, <2>4, <2>5, <2>6, Zenon
<1>6. QED
  BY <1>5, Zenon DEF EntryRead

\* The key of a header is HOST or COOKIE only for the two names that such a key may have.
LEMMA HeaderKeyIs ==
  ASSUME NEW key \in Text, NEW x \in Tokens, HeaderKey(key) = <<x>>
  PROVE  key \in {<<x>>, <<"HTTP_", x>>}
<1> DEFINE h == "HTTP_"
           p == <<h, x>>
<1>1. CASE key # <<>> /\ key[1] = h
  <2>1. Tail(key) = <<x>>
    BY <1>1 DEF HeaderKey
  <2>2. Tail(key) \in Text /\ Len(Tail(key)) = Len(key) - 1 /\ \A i \in 1..Len(Tail(key)) : Tail(key)[i] = key[i + 1]
    BY <1>1
  <2>3. Len(<<x>>) = 1 /\ <<x>>[1] = x
    OBVIOUS
  <2>4. Len(key) = 2 /\ key[2] = x
    <3> DEFINE m == Tail(key)
               L == Len(key)
    <3>1. m = <<x>> /\ Len(m) = L - 1 /\ L \in Nat /\ \A i \in 1..Len(m) : m[i] = key[i + 1]
      BY <2>1, <2>2
    <3> HIDE DEF m, L
    <3>2. Len(m) = 1 /\ m[1] = x
      BY <2>3, <3>1, Zenon
    <3>3. L = 2 /\ m[1] = key[1 + 1]
      BY <3>1, <3>2
    <3>4. QED
      BY <3>2, <3>3 DEF L
  <2>5. p \in Seq(Tokens) /\ Len(p) = 2 /\ p[1] = h /\ p[2] = x
    BY NamesAreTokens
  <2> HIDE DEF p, h
  <2>6. \A i \in 1..2 : key[i] = p[i]
    BY <1>1, <2>4, <2>5
  <2>7. key = p
    BY <2>4, <2>5, <2>6, SeqEqual
  <2>8. QED
    BY <2>7, Zenon DEF p, h
<1>2. CASE ~(key # <<>> /\ key[1] = h)
  BY <1>2 DEF HeaderKey
<1>3. QED
  BY <1>1, <1>2

\* The key of a header in the environment.
LEMMA HeaderKeyOf ==
  ASSUME NEW x \in Tokens
  PROVE  HeaderKey(<<"HTTP_", x>>) = <<x>> /\ NamesHeader(<<"HTTP_", x>>)
<1> DEFINE h == "HTTP_"
           p == <<h, x>>
<1>1. p # <<>> /\ p[1] = h /\ Tail(p) = <<x>>
  OBVIOUS
<1>2. p # <<"QUERY_STRING">> /\ p # <<"REQUEST_METHOD">> /\ p # <<"REQUEST_URI">>
  OBVIOUS
<1>3. QED
  BY <1>1, <1>2, Zenon DEF HeaderKey, NamesHeader

\* The lookups in a map into which a pair was entered.
LooksUp(n, m, k, v) == \A x : Lookup(n, x) = IF x = k THEN v ELSE Lookup(m, x)

\* Looking up a key after a pair was entered.
LEMMA LookupWith ==
  ASSUME NEW m \in PairMaps, NEW k \in Text, NEW v \in Text
  PROVE  LooksUp(With(m, k, v), m, k, v)
<1> DEFINE n == With(m, k, v)
<1>1. /\ DOMAIN n = DOMAIN m \cup {k} /\ n[k] = v
      /\ \A y \in DOMAIN m : y # k => n[y] = m[y]
  BY WithType
<1> HIDE DEF n
<1>2. \A x : Lookup(n, x) = IF x = k THEN v ELSE Lookup(m, x)
  BY <1>1 DEF Lookup
<1>3. QED
  BY <1>2, Zenon DEF n, LooksUp

\* A part of the request that one entry gives its final value.
Field(value, none, final, read) == value \in {none, final} /\ (read => value = final)

\* No other entry of the environment has the name.
OnlyEntry(e, entry, key) == PosEqual(e) # 0 /\ Before(e) = key => e = entry

\* A field that only one entry sets has its value once that entry is read, whatever else is.
LEMMA FieldStep ==
  ASSUME NEW e, NEW entry, NEW key, NEW final, IsPairText(entry, key, final), OnlyEntry(e, entry, key),
         NEW value, NEW E, Field(value, <<>>, final, entry \in E), NEW next,
         next = IF ~Skipped(e) /\ Before(e) = key THEN After(e) ELSE value
  PROVE  Field(next, <<>>, final, entry \in E \cup {e})
<1>1. PosEqual(entry) # 0 /\ Before(entry) = key /\ After(entry) = final
  BY DEF IsPairText
<1>2. CASE e = entry
  <2>1. CASE final = <<>>
    BY <1>1, <1>2, <2>1, Zenon DEF Field, Skipped
  <2>2. CASE final # <<>>
    BY <1>1, <1>2, <2>2, Zenon DEF Field, Skipped
  <2>3. QED
    BY <2>1, <2>2
<1>3. CASE e # entry
  <2>1. next = value
    BY <1>3, Zenon DEF OnlyEntry, Skipped
  <2>2. entry \in E \cup {e} <=> entry \in E
    BY <1>3
  <2>3. QED
    BY <2>1, <2>2, Zenon DEF Field
<1>4. QED
  BY <1>2, <1>3

\* The names of the entries are different.
LEMMA Only ==
  ASSUME NEW s \in Sent, NEW e, e \in Environment(s) \/ IsOther(e)
  PROVE  /\ OnlyEntry(e, QueryEntry(s), <<"QUERY_STRING">>)
         /\ OnlyEntry(e, MethodEntry(s), <<"REQUEST_METHOD">>)
         /\ OnlyEntry(e, UriEntry(s), <<"REQUEST_URI">>)
         /\ OnlyEntry(e, HostEntry(s), <<"HTTP_", "HOST">>)
         /\ OnlyEntry(e, CookieEntry(s), <<"HTTP_", "COOKIE">>)
         /\ PosEqual(e) # 0 => Before(e) # <<"HOST">> /\ Before(e) # <<"COOKIE">>
<1> DEFINE q == <<"QUERY_STRING">>
           m == <<"REQUEST_METHOD">>
           u == <<"REQUEST_URI">>
           h == <<"HTTP_", "HOST">>
           c == <<"HTTP_", "COOKIE">>
           x == <<"HOST">>
           y == <<"COOKIE">>
<1>1. /\ q # m /\ q # u /\ q # h /\ q # c /\ q # x /\ q # y
      /\ m # u /\ m # h /\ m # c /\ m # x /\ m # y
      /\ u # h /\ u # c /\ u # x /\ u # y
      /\ h # c /\ h # x /\ h # y
      /\ c # x /\ c # y
  OBVIOUS
<1>2. /\ Before(QueryEntry(s)) = q /\ Before(MethodEntry(s)) = m /\ Before(UriEntry(s)) = u
      /\ Before(HostEntry(s)) = h /\ Before(CookieEntry(s)) = c
  BY EntriesOf, Zenon DEF IsPairText
<1>3. e \in Environment(s) => \/ e = QueryEntry(s) \/ e = MethodEntry(s) \/ e = UriEntry(s)
                              \/ e = HostEntry(s) \/ e = CookieEntry(s)
  BY EnvironmentIs, Zenon
<1>4. IsOther(e) => PosEqual(e) = 0 \/ Before(e) \notin {q, m, u, x, y, h, c}
  BY Zenon DEF IsOther
<1> HIDE DEF q, m, u, h, c, x, y
<1>5. CASE e = QueryEntry(s)
  BY <1>1, <1>2, <1>5, Zenon DEF OnlyEntry, q, m, u, h, c, x, y
<1>6. CASE e = MethodEntry(s)
  BY <1>1, <1>2, <1>6, Zenon DEF OnlyEntry, q, m, u, h, c, x, y
<1>7. CASE e = UriEntry(s)
  BY <1>1, <1>2, <1>7, Zenon DEF OnlyEntry, q, m, u, h, c, x, y
<1>8. CASE e = HostEntry(s)
  BY <1>1, <1>2, <1>8, Zenon DEF OnlyEntry, q, m, u, h, c, x, y
<1>9. CASE e = CookieEntry(s)
  BY <1>1, <1>2, <1>9, Zenon DEF OnlyEntry, q, m, u, h, c, x, y
<1>10. CASE IsOther(e)
  BY <1>4, <1>10, Zenon DEF OnlyEntry, q, m, u, h, c, x, y
<1>11. QED
  BY <1>3, <1>5, <1>6, <1>7, <1>8, <1>9, <1>10

\* The method is one of the verbs, or stays the first of them.
MethodOf(s) == IF s.method \in ToSet(HttpVerb) THEN s.method ELSE "GET"

\* The method is read as its verb, and an unknown one as GET.
LEMMA VerbRead ==
  ASSUME NEW s, NEW old, old \in {"GET", MethodOf(s)}
  PROVE  FromString("verb", <<s.method>>, old) = MethodOf(s)
<1> DEFINE k == find_string(<<s.method>>, HttpVerb)
           w == s.method
<1>1. Names["verb"] = HttpVerb /\ Values["verb"] = HttpVerb /\ Len(HttpVerb) = 6 /\ DOMAIN HttpVerb = 1..6
  BY TablesAreValues DEF Values, HttpVerb
<1>2. /\ k \in 0..6
      /\ k = 0 => \A i \in 1..6 : <<HttpVerb[i]>> # <<w>>
      /\ k # 0 => <<HttpVerb[k]>> = <<w>>
  <2> DEFINE needle == <<s.method>>
             table == HttpVerb
             p == find_string(needle, table)
  <2>1. Len(table) = 6 /\ 6 \in Nat
    BY <1>1
  <2> HIDE DEF needle, table
  <2>2. /\ p \in 0..6
        /\ p = 0 => \A i \in 1..6 : <<table[i]>> # needle
        /\ p # 0 => <<table[p]>> = needle
    BY <2>1, FoundIn
  <2>3. QED
    BY <2>2, Zenon DEF needle, table
<1>3. FromString("verb", <<w>>, old) = IF k = 0 THEN old ELSE HttpVerb[k]
  BY <1>1 DEF FromString
<1>4. ToSet(HttpVerb) = {HttpVerb[i] : i \in 1..6}
  BY <1>1, Zenon DEF ToSet
<1> HIDE DEF k, w
<1>5. k # 0 => HttpVerb[k] = w
  BY <1>2
<1>6. k = 0 => w \notin ToSet(HttpVerb)
  BY <1>2, <1>4
<1>7. k # 0 => w \in ToSet(HttpVerb)
  BY <1>2, <1>4, <1>5
<1>8. CASE k = 0
  <2>1. MethodOf(s) = "GET"
    BY <1>6, <1>8, Zenon DEF MethodOf, w
  <2>2. QED
    BY <1>3, <1>8, <2>1, Zenon DEF w
<1>9. CASE k # 0
  <2>1. MethodOf(s) = w
    BY <1>7, <1>9, Zenon DEF MethodOf, w
  <2>2. QED
    BY <1>3, <1>5, <1>9, <2>1, Zenon DEF w
<1>10. QED
  BY <1>8, <1>9

\* What the entries E make of the request.
ReadSoFar(r, s, E) ==
  /\ Blanks(r)
  /\ r.header \in PairMaps /\ \A n \in DOMAIN r.header : r.header[n] # <<>>
  /\ Field(r.query_string, <<>>, QueryText(s.query, {"="}), QueryEntry(s) \in E)
  /\ Field(r.method, "GET", MethodOf(s), MethodEntry(s) \in E)
  /\ Field(r.url, <<>>, s.uri, UriEntry(s) \in E)
  /\ Field(Lookup(r.header, <<"HOST">>), <<>>, s.host, HostEntry(s) \in E)
  /\ Field(Lookup(r.header, <<"COOKIE">>), <<>>, CookiesText(s.cookies), CookieEntry(s) \in E)

\* Another header, or none.
LEMMA HeaderRead ==
  ASSUME NEW m \in PairMaps, \A n \in DOMAIN m : m[n] # <<>>, NEW e \in Text, ~Skipped(e),
         NEW next, next = With(m, HeaderKey(Before(e)), After(e))
  PROVE  /\ next \in PairMaps /\ \A n \in DOMAIN next : next[n] # <<>>
         /\ \A x : Lookup(next, x) = IF x = HeaderKey(Before(e)) THEN After(e) ELSE Lookup(m, x)
<1> DEFINE key == Before(e)
           v == After(e)
           k == HeaderKey(key)
<1>1. key \in Text /\ v \in Text
  BY PosEqualIs DEF Before, After
<1>2. v # <<>>
  BY Zenon DEF Skipped
<1>3. k \in Text
  <2> HIDE DEF key
  <2>1. CASE key # <<>>
    <3>1. Tail(key) \in Text
      BY <1>1, <2>1
    <3>2. QED
      BY <1>1, <3>1, Zenon DEF HeaderKey
  <2>2. CASE key = <<>>
    BY <1>1, <2>2, Zenon DEF HeaderKey
  <2>3. QED
    BY <2>1, <2>2
<1>4. next = With(m, k, v)
  OBVIOUS
<1> HIDE DEF key, v, k
<1>5. /\ next \in PairMaps /\ DOMAIN next = DOMAIN m \cup {k} /\ next[k] = v
      /\ \A x \in DOMAIN m : x # k => next[x] = m[x]
  <2>1. /\ With(m, k, v) \in PairMaps /\ DOMAIN With(m, k, v) = DOMAIN m \cup {k}
        /\ With(m, k, v)[k] = v
        /\ \A x \in DOMAIN m : x # k => With(m, k, v)[x] = m[x]
    BY <1>1, <1>3, WithType, Zenon
  <2>2. QED
    BY <1>4, <2>1, Zenon
<1>6. \A n \in DOMAIN next : next[n] # <<>>
  BY <1>2, <1>5
<1>7. \A x : Lookup(next, x) = IF x = k THEN v ELSE Lookup(m, x)
  BY <1>5 DEF Lookup
<1>8. QED
  BY <1>5, <1>6, <1>7, Zenon DEF k, key, v

\* A header that only one name stands for.
LEMMA HeaderField ==
  ASSUME NEW m \in PairMaps, NEW e \in Text, NEW next, NEW x \in Tokens,
         PosEqual(e) # 0 => Before(e) # <<x>>,
         next = IF ~Skipped(e) /\ NamesHeader(Before(e)) THEN With(m, HeaderKey(Before(e)), After(e)) ELSE m
  PROVE  Lookup(next, <<x>>) = IF ~Skipped(e) /\ Before(e) = <<"HTTP_", x>> THEN After(e) ELSE Lookup(m, <<x>>)
<1> DEFINE key == Before(e)
           v == After(e)
           k == HeaderKey(key)
           h == <<"HTTP_", x>>
           c == <<x>>
<1>1. key \in Text /\ v \in Text
  BY PosEqualIs DEF Before, After
<1>2. HeaderKey(h) = c /\ NamesHeader(h)
  BY HeaderKeyOf
<1>3. ~Skipped(e) => key # c
  BY Zenon DEF Skipped
<1>4. k = c => key \in {c, h}
  BY <1>1, HeaderKeyIs, Zenon
<1>5. k \in Text
  <2> HIDE DEF key
  <2>1. CASE key # <<>>
    <3>1. Tail(key) \in Text
      BY <1>1, <2>1
    <3>2. QED
      BY <1>1, <3>1, Zenon DEF HeaderKey
  <2>2. CASE key = <<>>
    BY <1>1, <2>2, Zenon DEF HeaderKey
  <2>3. QED
    BY <2>1, <2>2
<1>6. next = IF ~Skipped(e) /\ NamesHeader(key) THEN With(m, k, v) ELSE m
  BY Zenon
<1> HIDE DEF v, k, h, c
<1>7. Lookup(With(m, k, v), c) = IF c = k THEN v ELSE Lookup(m, c)
  <2>1. LooksUp(With(m, k, v), m, k, v)
    BY <1>1, <1>5, LookupWith, Zenon
  <2>2. QED
    BY <2>1, Zenon DEF LooksUp
<1>8. CASE ~Skipped(e) /\ key = h
  <2>1. k = c /\ NamesHeader(key)
    BY <1>2, <1>8, Zenon DEF k
  <2>2. Lookup(next, c) = v
    BY <1>6, <1>7, <1>8, <2>1, Zenon
  <2>3. QED
    BY <1>8, <2>2, Zenon DEF c, h, v
<1>9. CASE ~(~Skipped(e) /\ key = h)
  <2>1. Lookup(next, c) = Lookup(m, c)
    <3>1. CASE Skipped(e)
      BY <1>6, <3>1, Zenon
    <3>2. CASE ~Skipped(e)
      <4>1. c # k
        BY <1>3, <1>4, <1>9, <3>2, Zenon
      <4>2. QED
        BY <1>6, <1>7, <4>1, Zenon
    <3>3. QED
      BY <3>1, <3>2
  <2>2. QED
    BY <1>9, <2>1, Zenon DEF c, h, v
<1>10. QED
  BY <1>8, <1>9

\* One entry more.
LEMMA MethodStep ==
  ASSUME NEW s \in Sent, NEW e, OnlyEntry(e, MethodEntry(s), <<"REQUEST_METHOD">>), NEW old, NEW E,
         Field(old, "GET", MethodOf(s), MethodEntry(s) \in E), NEW next,
         next = IF ~Skipped(e) /\ Before(e) = <<"REQUEST_METHOD">> THEN FromString("verb", After(e), old) ELSE old
  PROVE  Field(next, "GET", MethodOf(s), MethodEntry(s) \in E \cup {e})
<1> DEFINE entry == MethodEntry(s)
           key == <<"REQUEST_METHOD">>
           final == MethodOf(s)
<1>1. PosEqual(entry) # 0 /\ Before(entry) = key /\ After(entry) = <<s.method>>
  BY EntriesOf, Zenon DEF IsPairText
<1>2. <<s.method>> # <<>>
  OBVIOUS
<1>3. ~Skipped(entry)
  BY <1>1, <1>2, Zenon DEF Skipped
<1>4. CASE e = entry
  <2>1. next = FromString("verb", <<s.method>>, old)
    BY <1>1, <1>3, <1>4, Zenon
  <2>2. old \in {"GET", MethodOf(s)}
    BY Zenon DEF Field
  <2>3. FromString("verb", <<s.method>>, old) = final
    BY <2>2, VerbRead, Zenon
  <2>4. QED
    BY <2>1, <2>3, Zenon DEF Field
<1>5. CASE e # entry
  <2>1. next = old
    BY <1>5, Zenon DEF OnlyEntry, Skipped
  <2>2. entry \in E \cup {e} <=> entry \in E
    BY <1>5
  <2>3. QED
    BY <2>1, <2>2, Zenon DEF Field
<1>6. QED
  BY <1>4, <1>5

\* One entry more is read: the five fields are right for one entry more.
LEMMA ReadsOn ==
  ASSUME NEW s \in Sent, NEW e \in Text, e \in Environment(s) \/ IsOther(e), NEW r, NEW E, ReadSoFar(r, s, E)
  PROVE  ReadSoFar(ReadEntry(r, e), s, E \cup {e})
<1> DEFINE n == ReadEntry(r, e)
           q == <<"QUERY_STRING">>
           u == <<"REQUEST_URI">>
           hh == <<"HTTP_", "HOST">>
           hc == <<"HTTP_", "COOKIE">>
           x == "HOST"
           y == "COOKIE"
           a == n.query_string
           b == n.method
           c == n.url
           m == n.header
<1>1. /\ Blanks(r)
      /\ r.header \in PairMaps /\ \A k \in DOMAIN r.header : r.header[k] # <<>>
      /\ Field(r.query_string, <<>>, QueryText(s.query, {"="}), QueryEntry(s) \in E)
      /\ Field(r.method, "GET", MethodOf(s), MethodEntry(s) \in E)
      /\ Field(r.url, <<>>, s.uri, UriEntry(s) \in E)
      /\ Field(Lookup(r.header, <<x>>), <<>>, s.host, HostEntry(s) \in E)
      /\ Field(Lookup(r.header, <<y>>), <<>>, CookiesText(s.cookies), CookieEntry(s) \in E)
  BY Zenon DEF ReadSoFar
<1>2. EntryRead(n, r, e)
  BY <1>1, ReadEntryIs, Zenon
<1>3. /\ Blanks(n)
      /\ a = IF ~Skipped(e) /\ Before(e) = q THEN After(e) ELSE r.query_string
      /\ b = IF ~Skipped(e) /\ Before(e) = <<"REQUEST_METHOD">> THEN FromString("verb", After(e), r.method) ELSE r.method
      /\ c = IF ~Skipped(e) /\ Before(e) = u THEN After(e) ELSE r.url
      /\ m = IF ~Skipped(e) /\ NamesHeader(Before(e)) THEN With(r.header, HeaderKey(Before(e)), After(e)) ELSE r.header
  BY <1>2, Zenon DEF EntryRead
<1>4. /\ OnlyEntry(e, QueryEntry(s), q)
      /\ OnlyEntry(e, MethodEntry(s), <<"REQUEST_METHOD">>)
      /\ OnlyEntry(e, UriEntry(s), u)
      /\ OnlyEntry(e, HostEntry(s), hh)
      /\ OnlyEntry(e, CookieEntry(s), hc)
      /\ PosEqual(e) # 0 => Before(e) # <<x>>
      /\ PosEqual(e) # 0 => Before(e) # <<y>>
  <2>1. /\ OnlyEntry(e, QueryEntry(s), q)
        /\ OnlyEntry(e, MethodEntry(s), <<"REQUEST_METHOD">>)
        /\ OnlyEntry(e, UriEntry(s), u)
        /\ OnlyEntry(e, HostEntry(s), hh)
        /\ OnlyEntry(e, CookieEntry(s), hc)
        /\ PosEqual(e) # 0 => Before(e) # <<x>> /\ Before(e) # <<y>>
    BY Only, Zenon
  <2>2. QED
    BY <2>1, Zenon
<1>5. /\ IsPairText(QueryEntry(s), q, QueryText(s.query, {"="}))
      /\ IsPairText(UriEntry(s), u, s.uri)
      /\ IsPairText(HostEntry(s), hh, s.host)
      /\ IsPairText(CookieEntry(s), hc, CookiesText(s.cookies))
  BY EntriesOf, Zenon
<1>6. x \in Tokens /\ y \in Tokens
  BY NamesAreTokens
<1> HIDE DEF n, q, u, hh, hc, x, y, a, b, c, m
<1>7. m \in PairMaps /\ \A k \in DOMAIN m : m[k] # <<>>
  <2>1. CASE ~Skipped(e) /\ NamesHeader(Before(e))
    <3>1. m = With(r.header, HeaderKey(Before(e)), After(e))
      BY <1>3, <2>1, Zenon
    <3>2. QED
      BY <1>1, <2>1, <3>1, HeaderRead, Zenon
  <2>2. CASE ~(~Skipped(e) /\ NamesHeader(Before(e)))
    <3>1. m = r.header
      BY <1>3, <2>2, Zenon
    <3>2. QED
      BY <1>1, <3>1, Zenon
  <2>3. QED
    BY <2>1, <2>2
<1>8. Field(a, <<>>, QueryText(s.query, {"="}), QueryEntry(s) \in E \cup {e})
  BY <1>1, <1>3, <1>4, <1>5, FieldStep, Zenon
<1>9. Field(b, "GET", MethodOf(s), MethodEntry(s) \in E \cup {e})
  BY <1>1, <1>3, <1>4, MethodStep, Zenon
<1>10. Field(c, <<>>, s.uri, UriEntry(s) \in E \cup {e})
  BY <1>1, <1>3, <1>4, <1>5, FieldStep, Zenon
<1>11. Field(Lookup(m, <<x>>), <<>>, s.host, HostEntry(s) \in E \cup {e})
  <2>1. Lookup(m, <<x>>) = IF ~Skipped(e) /\ Before(e) = <<"HTTP_", x>> THEN After(e) ELSE Lookup(r.header, <<x>>)
    BY <1>1, <1>3, <1>4, <1>6, HeaderField, Zenon
  <2>2. hh = <<"HTTP_", x>>
    BY Zenon DEF hh, x
  <2>3. Lookup(m, <<x>>) = IF ~Skipped(e) /\ Before(e) = hh THEN After(e) ELSE Lookup(r.header, <<x>>)
    BY <2>1, <2>2, Zenon
  <2>4. QED
    BY <1>1, <1>4, <1>5, <2>3, FieldStep, Zenon
<1>12. Field(Lookup(m, <<y>>), <<>>, CookiesText(s.cookies), CookieEntry(s) \in E \cup {e})
  <2>1. Lookup(m, <<y>>) = IF ~Skipped(e) /\ Before(e) = <<"HTTP_", y>> THEN After(e) ELSE Lookup(r.header, <<y>>)
    BY <1>1, <1>3, <1>4, <1>6, HeaderField, Zenon
  <2>2. hc = <<"HTTP_", y>>
    BY Zenon DEF hc, y
  <2>3. Lookup(m, <<y>>) = IF ~Skipped(e) /\ Before(e) = hc THEN After(e) ELSE Lookup(r.header, <<y>>)
    BY <2>1, <2>2, Zenon
  <2>4. QED
    BY <1>1, <1>4, <1>5, <2>3, FieldStep, Zenon
<1>13. QED
  BY <1>3, <1>7, <1>8, <1>9, <1>10, <1>11, <1>12, Zenon DEF ReadSoFar, a, b, c, m, x, y, n

\* The first n entries of the environment.
EntriesTo(n) == {text[1][i] : i \in 1..n}

\* The request is what the entries before the position say, and what follows the loop in the end.
RequestInv ==
  job = "request" =>
    /\ pos \in 1..Len(text[1]) + 1
    /\ ~done /\ given # <<>> => ReadSoFar(result, given[1], EntriesTo(pos - 1))
    /\ done /\ given # <<>> =>
         \E r : ReadSoFar(r, given[1], EntriesTo(Len(text[1]))) /\ result = Complete(r, text[2])

\* A new request has read nothing.
LEMMA NothingRead ==
  ASSUME NEW s
  PROVE  ReadSoFar(NewRequest, s, {})
<1> DEFINE r == NewRequest
<1>1. /\ DOMAIN r = {"header", "query_string", "method", "url", "host", "cookie", "query", "form", "ok"}
      /\ r.query = NoPairs /\ r.form = NoPairs /\ r.header = NoPairs
      /\ r.query_string = <<>> /\ r.method = "GET" /\ r.url = <<>>
  BY DEF NewRequest
<1>2. NoPairs \in PairMaps /\ DOMAIN NoPairs = {}
  BY NoPairsType
<1> HIDE DEF r
<1>3. Blanks(r)
  BY <1>1, Zenon DEF Blanks
<1>4. \A n \in DOMAIN r.header : r.header[n] # <<>>
  BY <1>1, <1>2
<1>5. \A x : Lookup(r.header, x) = <<>>
  BY <1>1, <1>2 DEF Lookup
<1>6. \A v, f, x : Field(v, v, f, x \in {})
  BY Zenon DEF Field
<1>7. /\ Field(r.query_string, <<>>, QueryText(s.query, {"="}), QueryEntry(s) \in {})
      /\ Field(r.method, "GET", MethodOf(s), MethodEntry(s) \in {})
      /\ Field(r.url, <<>>, s.uri, UriEntry(s) \in {})
      /\ Field(Lookup(r.header, <<"HOST">>), <<>>, s.host, HostEntry(s) \in {})
      /\ Field(Lookup(r.header, <<"COOKIE">>), <<>>, CookiesText(s.cookies), CookieEntry(s) \in {})
  BY <1>1, <1>5, <1>6, Zenon
<1>8. ReadSoFar(r, s, {})
  BY <1>1, <1>2, <1>3, <1>4, <1>7, Zenon DEF ReadSoFar
<1>9. QED
  BY <1>8, Zenon DEF r

\* What the input says of a request.
LEMMA RequestIs ==
  ASSUME InputInv, job = "request"
  PROVE  /\ text[1] \in Seq(Text) /\ text[2] \in Text /\ Len(text[1]) \in Nat
         /\ given # <<>> => /\ given[1] \in Sent
                            /\ text[2] = QueryText(given[1].form, {})
                            /\ Environment(given[1]) \subseteq ToSet(text[1])
                            /\ \A i \in 1..Len(text[1]) : text[1][i] \in Environment(given[1]) \/ IsOther(text[1][i])
<1>1. Takes(job, text) /\ (given # <<>> => Writes(job, given, text))
  BY InputIs, Zenon
<1>2. text \in Seq(Text) \X Text
  BY <1>1 DEF Takes
<1>3. text[1] \in Seq(Text) /\ text[2] \in Text
  BY <1>2
<1>4. given # <<>> => /\ given[1] \in Sent
                      /\ text[2] = QueryText(given[1].form, {})
                      /\ Environment(given[1]) \subseteq ToSet(text[1])
                      /\ \A i \in DOMAIN text[1] : text[1][i] \in Environment(given[1]) \/ IsOther(text[1][i])
  BY <1>1 DEF Writes
<1>5. DOMAIN text[1] = 1..Len(text[1]) /\ Len(text[1]) \in Nat
  BY <1>3
<1>6. QED
  BY <1>3, <1>4, <1>5, Zenon

\* RequestInv holds before the first entry.
LEMMA RequestStarts ==
  ASSUME Init
  PROVE  RequestInv
<1>1. SUFFICES ASSUME job = "request"
               PROVE  /\ pos \in 1..Len(text[1]) + 1
                      /\ ~done /\ given # <<>> => ReadSoFar(result, given[1], EntriesTo(pos - 1))
                      /\ done /\ given # <<>> =>
                           \E r : ReadSoFar(r, given[1], EntriesTo(Len(text[1]))) /\ result = Complete(r, text[2])
  BY Zenon DEF RequestInv
<1>2. InputInv
  BY DEF Init, InputInv
<1>3. Len(text[1]) \in Nat
  BY <1>1, <1>2, RequestIs
<1>4. result = NewRequest /\ pos = 1 /\ done = FALSE
  BY <1>1 DEF Init, Blank
<1>5. EntriesTo(pos - 1) = {}
  BY <1>4 DEF EntriesTo
<1>6. pos \in 1..Len(text[1]) + 1
  BY <1>3, <1>4
<1>7. ReadSoFar(result, given[1], EntriesTo(pos - 1))
  BY <1>4, <1>5, NothingRead, Zenon
<1>8. QED
  BY <1>4, <1>6, <1>7, Zenon

\* Reading an entry keeps RequestInv.
LEMMA RequestEntryStep ==
  ASSUME InputInv, RequestInv, ReadRequestEntry
  PROVE  RequestInv'
<1>1. /\ job = "request" /\ ~done /\ pos <= Len(text[1]) /\ result' = ReadEntry(result, text[1][pos]) /\ pos' = pos + 1
      /\ job' = job /\ given' = given /\ text' = text /\ done' = done
  BY DEF ReadRequestEntry
<1>2. /\ text[1] \in Seq(Text) /\ Len(text[1]) \in Nat
      /\ given # <<>> => /\ given[1] \in Sent
                         /\ \A i \in 1..Len(text[1]) : text[1][i] \in Environment(given[1]) \/ IsOther(text[1][i])
  BY <1>1, RequestIs, Zenon
<1>3. /\ pos \in 1..Len(text[1]) + 1
      /\ given # <<>> => ReadSoFar(result, given[1], EntriesTo(pos - 1))
  BY <1>1, Zenon DEF RequestInv
<1>4. pos \in 1..Len(text[1]) /\ pos' \in 1..Len(text[1]) + 1 /\ pos' - 1 = pos
  BY <1>1, <1>2, <1>3
<1>5. EntriesTo(pos) = EntriesTo(pos - 1) \cup {text[1][pos]}
  <2>1. 1..pos = 1..pos - 1 \cup {pos}
    BY <1>4
  <2>2. QED
    BY <2>1 DEF EntriesTo
<1>6. ASSUME given # <<>>
      PROVE  ReadSoFar(result', given[1], EntriesTo(pos))
  <2>1. text[1][pos] \in Text
    BY <1>2, <1>4
  <2>2. text[1][pos] \in Environment(given[1]) \/ IsOther(text[1][pos])
    BY <1>2, <1>4, <1>6, Zenon
  <2>3. ReadSoFar(ReadEntry(result, text[1][pos]), given[1], EntriesTo(pos - 1) \cup {text[1][pos]})
    BY <1>2, <1>3, <1>6, <2>1, <2>2, ReadsOn, Zenon
  <2>4. QED
    BY <1>1, <1>5, <2>3, Zenon
<1>7. EntriesTo(pos)' = EntriesTo(pos') /\ Len(text'[1]) = Len(text[1])
  BY <1>1 DEF EntriesTo
<1>8. EntriesTo(pos - 1)' = EntriesTo(pos)
  BY <1>1, <1>4 DEF EntriesTo
<1>9. QED
  BY <1>1, <1>4, <1>6, <1>8, Zenon DEF RequestInv

\* Completing the request keeps RequestInv.
LEMMA RequestCompleteStep ==
  ASSUME InputInv, RequestInv, CompleteRequest
  PROVE  RequestInv'
<1>1. /\ job = "request" /\ ~done /\ pos > Len(text[1]) /\ result' = Complete(result, text[2]) /\ pos' = pos
      /\ job' = job /\ given' = given /\ text' = text /\ done' = TRUE
  BY DEF CompleteRequest, Return
<1>2. Len(text[1]) \in Nat
  BY <1>1, RequestIs, Zenon
<1>3. /\ pos \in 1..Len(text[1]) + 1
      /\ given # <<>> => ReadSoFar(result, given[1], EntriesTo(pos - 1))
  BY <1>1, Zenon DEF RequestInv
<1>4. pos - 1 = Len(text[1])
  BY <1>1, <1>2, <1>3
<1>5. EntriesTo(Len(text[1]))' = EntriesTo(Len(text[1]))
  BY <1>1 DEF EntriesTo
<1>6. given # <<>> => ReadSoFar(result, given[1], EntriesTo(Len(text[1])))
  BY <1>3, <1>4, Zenon
<1>7. QED
  BY <1>1, <1>3, <1>5, <1>6, Zenon DEF RequestInv

\* So does every step, as no other action is enabled for a request.
LEMMA RequestStep ==
  ASSUME InputInv, RequestInv, [Next]_vars
  PROVE  RequestInv'
<1>1. CASE UNCHANGED vars \/ Returned
  <2>1. UNCHANGED <<job, given, text, pos, result, done>>
    BY <1>1 DEF vars, Returned
  <2>2. EntriesTo(pos - 1)' = EntriesTo(pos - 1) /\ EntriesTo(Len(text[1]))' = EntriesTo(Len(text[1]))
    BY <2>1 DEF EntriesTo
  <2>3. QED
    BY <2>1, <2>2, Zenon DEF RequestInv
<1>2. CASE ReadRequestEntry
  BY <1>2, RequestEntryStep, Zenon
<1>3. CASE CompleteRequest
  BY <1>3, RequestCompleteStep, Zenon
<1>4. CASE ReadQuery \/ ReadCookie \/ ReadName \/ ReadCode \/ ReadDate \/ NextAttribute
  <2>1. job # "request" /\ job' = job
    BY <1>4 DEF ReadQuery, ReadCookie, ReadName, ReadCode, ReadDate, NextAttribute, Return
  <2>2. QED
    BY <2>1, Zenon DEF RequestInv
<1>5. QED
  BY <1>1, <1>2, <1>3, <1>4, Zenon DEF Next

\* RequestInv is an invariant.
LEMMA Requesting == Spec => []RequestInv
<1>1. Init => InputInv /\ RequestInv
  BY RequestStarts DEF Init, InputInv
<1>2. InputInv /\ RequestInv /\ [Next]_vars => InputInv' /\ RequestInv'
  BY InputStep, RequestStep, Zenon
<1>3. QED
  BY <1>1, <1>2, PTL DEF Spec

\* The first value of each key.
Firsts(pairs) == [k \in KeysOf(pairs) |-> FirstOf(pairs, k)]

\* The request of what was sent.
IsRequestOf(c, s) ==
  /\ c.ok <=> s.query = <<>> \/ (s.uri # <<>> /\ s.host # <<>>)
  /\ c.url = s.uri /\ c.host = s.host /\ c.method = MethodOf(s)
  /\ c.cookie = [k \in KeysOf(CookiesAsRead(s.cookies)) |-> LastOf(CookiesAsRead(s.cookies), k)]
  /\ c.query = Firsts(QueryAsRead(s.query))
  /\ s.method = "POST" => c.form = Firsts(QueryAsRead(s.form))
  /\ \A n \in DOMAIN c.header : c.header[n] # <<>>

\* An empty text has no parameters.
LEMMA EmptyParsed == ParseQuery(<<>>) = NoPairs
<1>1. <<>> \in Text /\ Lacks(<<>>, {"="})
  BY DEF Lacks
<1>2. QED
  BY <1>1, NothingIn, Zenon DEF ParseQuery

\* A query that was sent is parsed as the first values of its keys.
LEMMA QueryParsed ==
  ASSUME NEW pairs \in Queries, NEW kept \in SUBSET {"="}
  PROVE  ParseQuery(QueryText(pairs, kept)) = Firsts(QueryAsRead(pairs)) /\ QueryText(pairs, kept) \in Text
<1>1. <<>> \in Text /\ IsFront("query", <<>>)
  BY DEF IsFront
<1>2. /\ QueryText(pairs, kept) \in Text
      /\ ParseQuery(<<>> \o QueryText(pairs, kept)) = Firsts(QueryAsRead(pairs))
  BY <1>1, QueryRead, Zenon DEF Firsts
<1>3. <<>> \o QueryText(pairs, kept) = QueryText(pairs, kept)
  BY <1>2, WithNothing, Zenon
<1>4. QED
  BY <1>2, <1>3, Zenon

\* A query without a pair has no text, and no other has none.
LEMMA QueryEmpty ==
  ASSUME NEW pairs \in Queries, NEW kept \in SUBSET {"="}
  PROVE  QueryText(pairs, kept) = <<>> <=> pairs = <<>>
<1> DEFINE read == QueryAsRead(pairs)
<1>1. pairs \in Pairs
  BY DEF Queries, Pairs
<1>2. ASSUME pairs = <<>>
      PROVE  QueryText(pairs, kept) = <<>>
  <2> DEFINE pieces == [i \in DOMAIN pairs |->
                          Encoded(pairs[i][1], {}) \o <<"=">> \o Encoded(pairs[i][2], kept)]
  <2>1. DOMAIN pairs = {} /\ DOMAIN pieces = {}
    BY <1>2
  <2>2. QueryText(pairs, kept) = Joined(pieces, <<"&">>)
    BY Zenon DEF QueryText
  <2>3. pieces = <<>>
    BY <2>1
  <2> HIDE DEF pieces
  <2>4. pieces \in Seq(Text) /\ Len(pieces) = 0
    BY <2>3
  <2>5. SeparatorOf("query") \in Text /\ SeparatorOf("query") = <<"&">>
    BY SeparatorType DEF Kinds, SeparatorOf
  <2>6. Joining(pieces, SeparatorOf("query"))[0] = <<>>
    BY <2>4, <2>5, JoiningTurns
  <2>7. QED
    BY <2>2, <2>4, <2>5, <2>6 DEF Joined
<1>3. ASSUME pairs # <<>>
      PROVE  QueryText(pairs, kept) # <<>>
  <2>1. read \in Pairs /\ Len(read) = Len(pairs) /\ Len(pairs) \in Nat
    BY <1>1, QueryAsReadIs
  <2>2. Len(pairs) # 0
    BY <1>1, <1>3 DEF Pairs
  <2> HIDE DEF read
  <2>3. 1 \in DOMAIN read
    BY <2>1, <2>2 DEF Pairs
  <2>4. read[1][1] \in DOMAIN Firsts(read)
    BY <2>3 DEF Firsts, KeysOf
  <2>5. ParseQuery(QueryText(pairs, kept)) = Firsts(read)
    BY QueryParsed, Zenon DEF read
  <2>6. ParseQuery(<<>>) = NoPairs /\ DOMAIN NoPairs = {}
    BY EmptyParsed, NoPairsType
  <2>7. DOMAIN Firsts(read) # {}
    BY <2>4, Zenon
  <2>8. QED
    BY <2>5, <2>6, <2>7, Zenon
<1>4. QED
  BY <1>2, <1>3, Zenon

\* What follows the loop, part by part.
LEMMA CompleteIs ==
  ASSUME NEW r, Blanks(r), NEW body
  PROVE  LET c == Complete(r, body)
             h == Lookup(r.header, <<"HOST">>)
         IN /\ c.header = r.header /\ c.method = r.method /\ c.url = r.url /\ c.host = h
            /\ c.cookie = ParseCookie(Lookup(r.header, <<"COOKIE">>))
            /\ c.query = ParseQuery(r.query_string)
            /\ r.method = "POST" => c.form = ParseQuery(body)
            /\ c.ok = (r.query_string = <<>> \/ (r.url # <<>> /\ h # <<>> /\ DOMAIN r.header # {}))
<1> DEFINE h == Lookup(r.header, <<"HOST">>)
           k == ParseCookie(Lookup(r.header, <<"COOKIE">>))
           q == IF r.query_string = <<>> THEN r.query ELSE ParseQuery(r.query_string)
           f == IF r.method = "POST" /\ body # <<>> THEN ParseQuery(body) ELSE r.form
           o == r.query_string = <<>> \/ (r.url # <<>> /\ h # <<>> /\ DOMAIN r.header # {})
           c == Complete(r, body)
<1>1. c = [r EXCEPT !.host = h, !.cookie = k, !.query = q, !.form = f, !.ok = o]
  BY DEF Complete
<1>2. q = ParseQuery(r.query_string)
  BY EmptyParsed, Zenon DEF Blanks
<1>3. r.method = "POST" => f = ParseQuery(body)
  BY EmptyParsed, Zenon DEF Blanks
<1> HIDE DEF h, k, q, f, o, c
<1>4. c.header = r.header /\ c.method = r.method /\ c.url = r.url /\ c.host = h /\ c.cookie = k /\ c.query = q /\ c.form = f /\ c.ok = o
  BY <1>1 DEF Blanks
<1>5. QED
  BY <1>2, <1>3, <1>4, Zenon DEF h, k, o, c

\* A request whose environment was read is what the client sent.
LEMMA Completed ==
  ASSUME NEW s \in Sent, NEW r, NEW E, ReadSoFar(r, s, E), Environment(s) \subseteq E
  PROVE  IsRequestOf(Complete(r, QueryText(s.form, {})), s)
<1> DEFINE c == Complete(r, QueryText(s.form, {}))
           t == Lookup(r.header, <<"COOKIE">>)
           h == Lookup(r.header, <<"HOST">>)
<1>1. /\ QueryEntry(s) \in E /\ MethodEntry(s) \in E /\ UriEntry(s) \in E /\ HostEntry(s) \in E /\ CookieEntry(s) \in E
  BY EnvironmentIs
<1>2. /\ Blanks(r) /\ r.query_string = QueryText(s.query, {"="}) /\ r.method = MethodOf(s) /\ r.url = s.uri
      /\ h = s.host /\ t = CookiesText(s.cookies) /\ \A n \in DOMAIN r.header : r.header[n] # <<>>
  BY <1>1, Zenon DEF ReadSoFar, Field
<1>3. /\ c.header = r.header /\ c.method = r.method /\ c.url = r.url /\ c.host = h
      /\ c.cookie = ParseCookie(t)
      /\ c.query = ParseQuery(r.query_string)
      /\ r.method = "POST" => c.form = ParseQuery(QueryText(s.form, {}))
      /\ c.ok = (r.query_string = <<>> \/ (r.url # <<>> /\ h # <<>> /\ DOMAIN r.header # {}))
  BY <1>2, CompleteIs, Zenon
<1>4. s.query \in Queries /\ s.cookies \in Cookies /\ s.form \in Queries
  BY SentIs
<1>5. {"="} \in SUBSET {"="} /\ {} \in SUBSET {"="}
  OBVIOUS
<1>6. c.query = Firsts(QueryAsRead(s.query))
  BY <1>2, <1>3, <1>4, <1>5, QueryParsed, Zenon
<1>7. c.cookie = [k \in KeysOf(CookiesAsRead(s.cookies)) |-> LastOf(CookiesAsRead(s.cookies), k)]
  <2> DEFINE u == CookiesText(s.cookies)
  <2>1. u \in {CookiesText(s.cookies), <<"Cookie: ">> \o CookiesText(s.cookies)}
    BY Zenon
  <2>2. ParseCookie(u) = [k \in KeysOf(CookiesAsRead(s.cookies)) |-> LastOf(CookiesAsRead(s.cookies), k)]
    BY <1>4, <2>1, CookiesParsed, Zenon
  <2>3. QED
    BY <1>2, <1>3, <2>2, Zenon
<1>8. s.method = "POST" => MethodOf(s) = "POST"
  <2>1. "POST" \in ToSet(HttpVerb)
    <3>1. HttpVerb[2] = "POST" /\ 2 \in DOMAIN HttpVerb
      BY DEF HttpVerb
    <3>2. QED
      BY <3>1, Zenon DEF ToSet
  <2>2. QED
    BY <2>1, Zenon DEF MethodOf
<1>9. s.method = "POST" => c.form = Firsts(QueryAsRead(s.form))
  BY <1>2, <1>3, <1>4, <1>8, <1>5, QueryParsed, Zenon
<1>10. c.ok <=> s.query = <<>> \/ (s.uri # <<>> /\ s.host # <<>>)
  <2>1. h # <<>> => DOMAIN r.header # {}
    BY DEF Lookup
  <2>2. QueryText(s.query, {"="}) = <<>> <=> s.query = <<>>
    BY <1>4, <1>5, QueryEmpty, Zenon
  <2>3. QED
    BY <1>2, <1>3, <2>1, <2>2, Zenon
<1>11. QED
  BY <1>2, <1>3, <1>6, <1>7, <1>9, <1>10, Zenon DEF IsRequestOf

-----------------------------------------------------------------------------
(* Numbers                                                                   *)

\* What numbers are written with.
Figures == {"-"} \cup {Digits[i] : i \in 1..10}

\* A digit has its value and is no sign.
LEMMA DigitIs ==
  ASSUME NEW j \in 0..9
  PROVE  /\ IsDigit(Digits[j + 1]) /\ DigitOf(Digits[j + 1]) = j
         /\ Digits[j + 1] # "+" /\ Digits[j + 1] # "-"
<1> DEFINE D == Digits
           c == D[j + 1]
           p == PlaceOf(c, D)
<1>1. /\ Len(D) = 10 /\ 10 \in Nat
      /\ \A a, b \in 1..10 : D[a] = D[b] => a = b
      /\ \A a \in 1..10 : D[a] # "+" /\ D[a] # "-"
  BY DEF Digits
<1>2. j + 1 \in 1..10
  OBVIOUS
<1>3. IsDigit(c)
  <2>1. \E i \in 1..Len(D) : D[i] = c
    BY <1>1, <1>2, Zenon
  <2>2. QED
    BY <2>1, Zenon DEF IsDigit, Contains
<1> HIDE DEF D, c
<1>4. /\ p \in 0..10
      /\ p = 0 => \A i \in 1..10 : D[i] # c
      /\ p # 0 => D[p] = c
  BY <1>1, SelectedIn
<1>5. DigitOf(c) = p - 1
  BY Zenon DEF DigitOf, PlaceOf, D
<1>6. p = j + 1
  <2> HIDE DEF p
  <2>1. D[j + 1] = c
    BY DEF c
  <2>2. p # 0
    BY <1>2, <1>4, <2>1
  <2>3. p \in 1..10 /\ D[p] = D[j + 1]
    BY <1>4, <2>1, <2>2
  <2>4. QED
    BY <1>1, <1>2, <2>3, Zenon
<1>7. DigitOf(c) = j
  BY <1>5, <1>6
<1>8. c # "+" /\ c # "-"
  BY <1>1, <1>2 DEF c
<1>9. QED
  BY <1>3, <1>7, <1>8, Zenon DEF c, D

\* One digit, or two.
IsNumeral(d, n) ==
  /\ d # <<>> /\ Len(d) \in Nat /\ Len(d) # 0 /\ DOMAIN d = 1..Len(d) /\ d \in Seq(Figures)
  /\ \A i \in 1..Len(d) : IsDigit(d[i])
  /\ d[1] # "+" /\ d[1] # "-"
  /\ DigitSums(d)[Len(d)] = n

\* A digit is a numeral.
LEMMA OneDigit ==
  ASSUME NEW j \in 0..9
  PROVE  IsNumeral(<<Digits[j + 1]>>, j)
<1> DEFINE c == Digits[j + 1]
           d == <<c>>
           g == DigitSums(d)
           f == [i \in 0..1 |-> IF i = 0 THEN 0 ELSE j]
<1>1. IsDigit(c) /\ DigitOf(c) = j /\ c # "+" /\ c # "-"
  BY DigitIs, Zenon
<1>2. Len(d) = 1 /\ d[1] = c /\ DOMAIN d = 1..1 /\ d # <<>>
  OBVIOUS
<1>3. c \in Figures
  BY DEF Figures
<1>4. d \in Seq(Figures)
  BY <1>3
<1>5. g = CHOOSE h : h = [i \in 0..Len(d) |-> IF i = 0 THEN 0 ELSE h[i - 1] * 10 + DigitOf(d[i])]
  BY DEF DigitSums
<1> HIDE DEF c, d, g
<1>6. f = [i \in 0..1 |-> IF i = 0 THEN 0 ELSE f[i - 1] * 10 + DigitOf(d[i])]
  BY <1>1, <1>2
<1>7. f = [i \in 0..Len(d) |-> IF i = 0 THEN 0 ELSE f[i - 1] * 10 + DigitOf(d[i])]
  BY <1>2, <1>6
<1> HIDE DEF f
<1>8. g = [i \in 0..Len(d) |-> IF i = 0 THEN 0 ELSE g[i - 1] * 10 + DigitOf(d[i])]
  BY <1>5, <1>7, Zenon
<1>9. g[0] = 0 /\ g[1] = g[0] * 10 + DigitOf(d[1])
  BY <1>2, <1>8
<1>10. g[1] = j
  BY <1>1, <1>2, <1>9
<1>11. IsNumeral(d, j)
  BY <1>1, <1>2, <1>4, <1>10 DEF IsNumeral, g
<1>12. QED
  BY <1>11, Zenon DEF c, d

\* Two digits are a numeral.
LEMMA TwoDigits ==
  ASSUME NEW k \in 0..9, NEW j \in 0..9
  PROVE  IsNumeral(<<Digits[k + 1]>> \o <<Digits[j + 1]>>, k * 10 + j)
<1> DEFINE a == Digits[k + 1]
           b == Digits[j + 1]
           d == <<a>> \o <<b>>
           g == DigitSums(d)
           f == [i \in 0..2 |-> IF i = 0 THEN 0 ELSE IF i = 1 THEN k ELSE k * 10 + j]
<1>1. IsDigit(a) /\ DigitOf(a) = k /\ a # "+" /\ a # "-" /\ IsDigit(b) /\ DigitOf(b) = j
  BY DigitIs, Zenon
<1>2. a \in Figures /\ b \in Figures
  BY DEF Figures
<1>3. Len(d) = 2 /\ d[1] = a /\ d[2] = b /\ DOMAIN d = 1..2 /\ d # <<>> /\ d \in Seq(Figures)
  <2> HIDE DEF a, b
  <2>1. <<a>> \in Seq(Figures) /\ <<b>> \in Seq(Figures) /\ Len(<<a>>) = 1 /\ Len(<<b>>) = 1 /\ <<a>>[1] = a /\ <<b>>[1] = b
    BY <1>2
  <2>2. /\ d \in Seq(Figures) /\ Len(d) = Len(<<a>>) + Len(<<b>>)
        /\ \A i \in 1..Len(<<a>>) + Len(<<b>>) : d[i] = IF i <= Len(<<a>>) THEN <<a>>[i] ELSE <<b>>[i - Len(<<a>>)]
    BY <2>1, ConcatProperties
  <2>3. Len(d) = 2 /\ d[1] = a /\ d[2] = b
    BY <2>1, <2>2
  <2>4. QED
    BY <2>2, <2>3
<1>4. g = CHOOSE h : h = [i \in 0..Len(d) |-> IF i = 0 THEN 0 ELSE h[i - 1] * 10 + DigitOf(d[i])]
  BY DEF DigitSums
<1> HIDE DEF a, b, d, g
<1>5. f = [i \in 0..2 |-> IF i = 0 THEN 0 ELSE f[i - 1] * 10 + DigitOf(d[i])]
  <2>1. f[0] = 0 /\ f[1] = k /\ f[2] = k * 10 + j /\ DigitOf(d[1]) = k /\ DigitOf(d[2]) = j
    BY <1>1, <1>3
  <2>2. 0..2 = {0, 1, 2}
    OBVIOUS
  <2>3. f = [i \in {0, 1, 2} |-> f[i]]
    BY <2>2
  <2> HIDE DEF f
  <2>4. \A i \in {0, 1, 2} : f[i] = IF i = 0 THEN 0 ELSE f[i - 1] * 10 + DigitOf(d[i])
    BY <2>1
  <2>5. QED
    BY <2>2, <2>3, <2>4
<1>6. f = [i \in 0..Len(d) |-> IF i = 0 THEN 0 ELSE f[i - 1] * 10 + DigitOf(d[i])]
  BY <1>3, <1>5
<1> HIDE DEF f
<1>7. g = [i \in 0..Len(d) |-> IF i = 0 THEN 0 ELSE g[i - 1] * 10 + DigitOf(d[i])]
  BY <1>4, <1>6, Zenon
<1>8. g[0] = 0 /\ g[1] = g[0] * 10 + DigitOf(d[1]) /\ g[2] = g[1] * 10 + DigitOf(d[2])
  BY <1>3, <1>7
<1>9. g[2] = k * 10 + j
  BY <1>1, <1>3, <1>8
<1>10. IsNumeral(d, k * 10 + j)
  <2>1. \A i \in 1..2 : IsDigit(d[i])
    BY <1>1, <1>3
  <2>2. QED
    BY <1>1, <1>3, <1>9, <2>1 DEF IsNumeral, g
<1>11. QED
  BY <1>10, Zenon DEF a, b, d

\* A sign before a sequence.
LEMMA Signed ==
  ASSUME NEW S, NEW c \in S, NEW b \in Seq(S)
  PROVE  <<c>> \o b # <<>> /\ (<<c>> \o b)[1] = c /\ Tail(<<c>> \o b) = b
<1> DEFINE s == <<c>> \o b
           r == Tail(s)
<1>1. <<c>> \in Seq(S) /\ Len(<<c>>) = 1 /\ <<c>>[1] = c /\ Len(b) \in Nat
  OBVIOUS
<1>2. /\ s \in Seq(S) /\ Len(s) = Len(<<c>>) + Len(b)
      /\ \A i \in 1..Len(<<c>>) + Len(b) : s[i] = IF i <= Len(<<c>>) THEN <<c>>[i] ELSE b[i - Len(<<c>>)]
  BY <1>1, ConcatProperties
<1> HIDE DEF s
<1>3. Len(s) = 1 + Len(b) /\ s[1] = c /\ \A i \in 1..Len(b) : s[1 + i] = b[i]
  <2>1. \A i \in 1..Len(b) : 1 + i \in 1..1 + Len(b) /\ ~(1 + i <= 1) /\ 1 + i - 1 = i
    BY <1>1
  <2>2. QED
    BY <1>1, <1>2, <2>1
<1>4. s # <<>>
  BY <1>1, <1>2, <1>3
<1>5. r \in Seq(S) /\ Len(r) = Len(b) /\ \A i \in 1..Len(b) : r[i] = s[1 + i]
  BY <1>1, <1>2, <1>3, <1>4
<1> HIDE DEF r
<1>6. r = b
  <2>1. \A i \in 1..Len(r) : r[i] = b[i]
    BY <1>3, <1>5
  <2>2. QED
    BY <1>5, <2>1, SeqEqual
<1>7. QED
  BY <1>3, <1>4, <1>6, Zenon DEF s, r

\* A numeral is read as its number, and with a minus as the negated one.
LEMMA NumeralRead ==
  ASSUME NEW d, NEW n \in Int, IsNumeral(d, n), NEW default
  PROVE  IntOf(d, default) = n /\ IntOf(<<"-">> \o d, default) = -n
<1> DEFINE c == "-"
           p == "+"
           s == <<c>> \o d
<1>1. c \in Figures /\ c # p
  BY DEF Figures
<1>2. /\ d # <<>> /\ Len(d) \in Nat /\ DOMAIN d = 1..Len(d) /\ d \in Seq(Figures)
      /\ \A i \in 1..Len(d) : IsDigit(d[i])
      /\ d[1] # p /\ d[1] # c
      /\ DigitSums(d)[Len(d)] = n
  BY Zenon DEF IsNumeral
<1>3. s # <<>> /\ s[1] = c /\ Tail(s) = d
  <2> HIDE DEF c
  <2>1. QED
    BY <1>1, <1>2, Signed, Zenon
<1>4. \A v : Unsigned(v) = IF v # <<>> /\ v[1] \in {p, c} THEN Tail(v) ELSE v
  BY Zenon DEF Unsigned
<1>5. \A v : IntOf(v, default) =
        IF Unsigned(v) = <<>> \/ \E i \in DOMAIN Unsigned(v) : ~IsDigit(Unsigned(v)[i]) THEN default
        ELSE IF v[1] = c THEN -(DigitSums(Unsigned(v))[Len(Unsigned(v))]) ELSE DigitSums(Unsigned(v))[Len(Unsigned(v))]
  BY Zenon DEF IntOf
<1> HIDE DEF c, p, s
<1>6. Unsigned(d) = d /\ Unsigned(s) = d
  BY <1>2, <1>3, <1>4
<1>7. IntOf(d, default) = n
  BY <1>2, <1>5, <1>6
<1>8. IntOf(s, default) = -n
  BY <1>2, <1>3, <1>5, <1>6
<1>9. QED
  BY <1>7, <1>8, Zenon DEF s, c

\* A number that was written is read back.
LEMMA DecimalRead ==
  ASSUME NEW n \in -12..12, NEW default
  PROVE  IntOf(Decimal(n), default) = n
<1> DEFINE size == IF n < 0 THEN -n ELSE n
           unit == <<Digits[(size % 10) + 1]>>
           digits == IF size < 10 THEN unit ELSE <<Digits[(size \div 10) + 1]>> \o unit
<1>1. Decimal(n) = IF n < 0 THEN <<"-">> \o digits ELSE digits
  BY DEF Decimal
<1>2. size \in 0..12 /\ size \in Int
  OBVIOUS
<1>3. IsNumeral(digits, size)
  <2> HIDE DEF size
  <2>1. CASE size < 10
    <3>1. size % 10 = size /\ size \in 0..9
      BY <1>2, <2>1
    <3>2. digits = <<Digits[size + 1]>>
      BY <2>1, <3>1
    <3> HIDE DEF digits
    <3>3. QED
      BY <3>1, <3>2, OneDigit, Zenon
  <2>2. CASE ~(size < 10)
    <3> DEFINE k == size \div 10
               j == size % 10
    <3>1. size = 10 \/ size = 11 \/ size = 12
      BY <1>2, <2>2
    <3>2. k = 1 /\ j = size - 10
      BY <3>1
    <3>3. k \in 0..9 /\ j \in 0..9 /\ k * 10 + j = size
      BY <3>1, <3>2
    <3>4. digits = <<Digits[k + 1]>> \o <<Digits[j + 1]>>
      BY <2>2
    <3> HIDE DEF k, j, digits
    <3>5. IsNumeral(<<Digits[k + 1]>> \o <<Digits[j + 1]>>, k * 10 + j)
      BY <3>3, TwoDigits, Zenon
    <3>6. QED
      BY <3>3, <3>4, <3>5, Zenon
  <2>3. QED
    BY <2>1, <2>2
<1> DEFINE negative == <<"-">> \o digits
<1> HIDE DEF digits
<1>4. IntOf(digits, default) = size /\ IntOf(negative, default) = -size
  <2> HIDE DEF size
  <2>1. QED
    BY <1>2, <1>3, NumeralRead, Zenon DEF negative
<1>5. Decimal(n) = IF n < 0 THEN negative ELSE digits
  BY <1>1 DEF negative
<1> HIDE DEF negative
<1>6. QED
  BY <1>4, <1>5

\* A number is not written as nothing.
LEMMA DecimalWritten ==
  ASSUME NEW n \in -12..12
  PROVE  Decimal(n) # <<>>
<1>1. IntOf(Decimal(n), 99) = n
  BY DecimalRead
<1>2. IntOf(<<>>, 99) = 99
  <2>1. Unsigned(<<>>) = <<>>
    BY DEF Unsigned
  <2>2. QED
    BY <2>1 DEF IntOf
<1>3. n # 99
  OBVIOUS
<1>4. QED
  BY <1>1, <1>2, <1>3, Zenon

\* What get() and the typed getters return.
LEMMA Gets ==
  ASSUME NEW c, NEW s, IsRequestOf(c, s),
         NEW query, query = QueryAsRead(s.query), NEW form, form = QueryAsRead(s.form)
  PROVE  /\ \A k \in KeysOf(query) : Lookup(c.query, k) = FirstOf(query, k)
         /\ \A k \in KeysOf(query) : FirstOf(query, k) # <<>> => Get(c, k) = FirstOf(query, k)
         /\ s.method = "POST" =>
              \A k \in KeysOf(form) \ KeysOf(query) :
                Lookup(c.form, k) = FirstOf(form, k) /\ Get(c, k) = FirstOf(form, k)
<1>1. c.query = Firsts(query) /\ (s.method = "POST" => c.form = Firsts(form))
  BY Zenon DEF IsRequestOf
<1>2. \A q, k : k \in KeysOf(q) => Lookup(Firsts(q), k) = FirstOf(q, k)
  BY DEF Lookup, Firsts
<1>3. \A q, k : k \notin KeysOf(q) => Lookup(Firsts(q), k) = <<>>
  BY DEF Lookup, Firsts
<1>4. \A k : Get(c, k) = IF Lookup(c.query, k) # <<>> THEN Lookup(c.query, k) ELSE Lookup(c.form, k)
  BY Zenon DEF Get
<1>5. \A k \in KeysOf(query) : Lookup(c.query, k) = FirstOf(query, k)
  BY <1>1, <1>2, Zenon
<1>6. \A k \in KeysOf(query) : FirstOf(query, k) # <<>> => Get(c, k) = FirstOf(query, k)
  BY <1>4, <1>5, Zenon
<1>7. ASSUME s.method = "POST", NEW k \in KeysOf(form) \ KeysOf(query)
      PROVE  Lookup(c.form, k) = FirstOf(form, k) /\ Get(c, k) = FirstOf(form, k)
  <2>1. k \in KeysOf(form) /\ k \notin KeysOf(query)
    BY <1>7
  <2>2. Lookup(c.form, k) = FirstOf(form, k)
    BY <1>1, <1>2, <1>7, <2>1, Zenon
  <2>3. Lookup(c.query, k) = <<>>
    BY <1>1, <1>3, <2>1, Zenon
  <2>4. QED
    BY <1>4, <2>2, <2>3, Zenon
<1>8. QED
  BY <1>5, <1>6, <1>7, Zenon

\* RequestFromEnv: a request is read as what arrives of what the client sent, whatever the order of
\* the environment, and refused exactly if it has a query but no address or no host
\* (stream.cc:97-279).
THEOREM RequestsFromTheServer == Spec => []RequestFromEnv
<1>1. InputInv /\ RequestInv => RequestFromEnv
  <2> SUFFICES ASSUME InputInv, RequestInv, Known, job = "request"
               PROVE  LET sent == given[1]
        query == QueryAsRead(sent.query)
        form == QueryAsRead(sent.form)
        cookies == CookiesAsRead(sent.cookies)
    IN /\ result.ok <=> sent.query = <<>> \/ (sent.uri # <<>> /\ sent.host # <<>>)
       /\ result.url = sent.uri /\ result.host = sent.host
       /\ result.method = IF sent.method \in ToSet(HttpVerb) THEN sent.method ELSE "GET"
       /\ result.cookie = [k \in KeysOf(cookies) |-> LastOf(cookies, k)]
       /\ \A k \in KeysOf(query) : FirstOf(query, k) # <<>> => Get(result, k) = FirstOf(query, k)
       /\ sent.method = "POST" =>
            \A k \in KeysOf(form) \ KeysOf(query) : Get(result, k) = FirstOf(form, k)
       /\ \A k \in KeysOf(query) : \A n \in -12..12 :
            FirstOf(query, k) = Decimal(n) =>
              GetInt(result, k, 99) = n /\ IntIn(result.query, k, 99) = n
       /\ sent.method = "POST" =>
            \A k \in KeysOf(form) \ KeysOf(query) : \A n \in -12..12 :
              FirstOf(form, k) = Decimal(n) =>
                GetInt(result, k, 99) = n /\ IntIn(result.form, k, 99) = n
       /\ \A n \in DOMAIN result.header : result.header[n] # <<>>
    BY Zenon DEF RequestFromEnv
  <2> DEFINE s == given[1]
             c == result
             query == QueryAsRead(s.query)
             form == QueryAsRead(s.form)
             cookies == CookiesAsRead(s.cookies)
  <2>1. done /\ given # <<>>
    BY DEF Known
  <2>2. s \in Sent /\ text[2] = QueryText(s.form, {}) /\ Environment(s) \subseteq EntriesTo(Len(text[1]))
    <3>1. /\ text[1] \in Seq(Text) /\ s \in Sent /\ text[2] = QueryText(s.form, {})
          /\ Environment(s) \subseteq ToSet(text[1])
      BY <2>1, RequestIs, Zenon
    <3>2. ToSet(text[1]) = EntriesTo(Len(text[1]))
      BY <3>1 DEF ToSet, EntriesTo
    <3>3. QED
      BY <3>1, <3>2, Zenon
  <2>3. PICK r : ReadSoFar(r, s, EntriesTo(Len(text[1]))) /\ c = Complete(r, text[2])
    BY <2>1, Zenon DEF RequestInv
  <2>4. IsRequestOf(c, s)
    BY <2>2, <2>3, Completed, Zenon
  <2>5. /\ c.ok <=> s.query = <<>> \/ (s.uri # <<>> /\ s.host # <<>>)
        /\ c.url = s.uri /\ c.host = s.host
        /\ c.method = IF s.method \in ToSet(HttpVerb) THEN s.method ELSE "GET"
        /\ c.cookie = [k \in KeysOf(cookies) |-> LastOf(cookies, k)]
        /\ \A n \in DOMAIN c.header : c.header[n] # <<>>
    BY <2>4, Zenon DEF IsRequestOf, MethodOf
  <2>6. query = QueryAsRead(s.query) /\ form = QueryAsRead(s.form)
    OBVIOUS
  <2> HIDE DEF s, c, query, form, cookies
  <2>7. /\ \A k \in KeysOf(query) : Lookup(c.query, k) = FirstOf(query, k)
        /\ \A k \in KeysOf(query) : FirstOf(query, k) # <<>> => Get(c, k) = FirstOf(query, k)
        /\ s.method = "POST" =>
             \A k \in KeysOf(form) \ KeysOf(query) :
               Lookup(c.form, k) = FirstOf(form, k) /\ Get(c, k) = FirstOf(form, k)
    BY <2>4, <2>6, Gets
  <2>8. ASSUME NEW k \in KeysOf(query), NEW n \in -12..12, FirstOf(query, k) = Decimal(n)
        PROVE  GetInt(c, k, 99) = n /\ IntIn(c.query, k, 99) = n
    <3>1. Lookup(c.query, k) = Decimal(n) /\ Get(c, k) = Decimal(n)
      BY <2>7, <2>8, DecimalWritten, Zenon
    <3>2. IntOf(Decimal(n), 99) = n
      BY DecimalRead
    <3>3. QED
      BY <3>1, <3>2, Zenon DEF GetInt, IntIn
  <2>9. ASSUME s.method = "POST", NEW k \in KeysOf(form) \ KeysOf(query), NEW n \in -12..12,
               FirstOf(form, k) = Decimal(n)
        PROVE  GetInt(c, k, 99) = n /\ IntIn(c.form, k, 99) = n
    <3>1. Lookup(c.form, k) = Decimal(n) /\ Get(c, k) = Decimal(n)
      BY <2>7, <2>9, Zenon
    <3>2. IntOf(Decimal(n), 99) = n
      BY DecimalRead
    <3>3. QED
      BY <3>1, <3>2, Zenon DEF GetInt, IntIn
  <2>10. QED
    BY <2>5, <2>7, <2>8, <2>9, Zenon DEF s, c, query, form, cookies
<1>2. QED
  BY <1>1, Reading, Requesting, PTL

-----------------------------------------------------------------------------
(* Attributes                                                                *)

\* The first of some positions, or the one behind n.
First(S, n) == IF S = {} THEN n + 1 ELSE CHOOSE j \in S : \A k \in S : j <= k

\* The first member of a set from a position on, or the position behind the text.
LEMMA FirstIs ==
  ASSUME NEW n \in Nat, NEW i \in Nat, i <= n + 1, NEW S, S \subseteq i..n
  PROVE  /\ First(S, n) \in i..n + 1
         /\ First(S, n) # n + 1 => First(S, n) \in S
         /\ \A j \in S : First(S, n) <= j
<1> DEFINE c == CHOOSE j \in S : \A k \in S : j <= k
<1>1. CASE S = {}
  BY <1>1 DEF First
<1>2. CASE S # {}
  <2>1. S \subseteq Nat
    OBVIOUS
  <2>2. \E j \in S : \A k \in S : j <= k
    BY <1>2, <2>1, Least
  <2>3. c \in S /\ \A k \in S : c <= k
    BY <2>2
  <2>4. First(S, n) = c
    BY <1>2 DEF First
  <2> HIDE DEF c
  <2>5. QED
    BY <2>3, <2>4
<1>3. QED
  BY <1>1, <1>2

\* Where the first member is, if those before it are known not to be members.
LEMMA FirstAt ==
  ASSUME NEW n \in Nat, NEW i \in Nat, NEW S, S \subseteq i..n, NEW e \in i..n + 1,
         e \in S \/ e = n + 1, \A j \in i..e - 1 : j \notin S
  PROVE  First(S, n) = e
<1> DEFINE f == First(S, n)
<1>1. f \in i..n + 1 /\ (f # n + 1 => f \in S) /\ \A j \in S : f <= j
  <2>1. i <= n + 1
    OBVIOUS
  <2>2. QED
    BY <2>1, FirstIs, Zenon
<1> HIDE DEF f
<1>2. f = e
  BY <1>1
<1>3. QED
  BY <1>2 DEF f

\* The positions that the loop looks for.
StartFrom(p) == First({j \in p..Len(text) : text[j] # " "}, Len(text))
EndFrom(p) == First({j \in p..Len(text) : IsEndOfAttributeName(j)}, Len(text))
BareEnd(p) == First({j \in p..Len(text) : text[j] \in {" ", ","}}, Len(text))

\* The three searches of a turn are searches for a first member of a set.
LEMMA UpToIs ==
  ASSUME NEW p
  PROVE  /\ UpTo(p, LAMBDA j : text[j] # " ") = StartFrom(p)
         /\ UpTo(p, IsEndOfAttributeName) = EndFrom(p)
         /\ UpTo(p, LAMBDA j : text[j] \in {" ", ","}) = BareEnd(p)
BY Zenon DEF UpTo, StartFrom, EndFrom, BareEnd, First

\* A quoted value that goes on at i, where it went on to the two results.
Found == [value : Text, next : Nat]

QuotedAt(i, first, second) ==
  IF text[i] = "\"" THEN [value |-> <<>>, next |-> i + 1]
  ELSE IF text[i] = "\\" /\ i < Len(text) THEN [value |-> <<text[i + 1]>> \o second.value, next |-> second.next]
  ELSE [value |-> <<text[i]>> \o first.value, next |-> first.next]

\* The recursion is that of a count from the end of the text.
LEMMA QuotedTurns ==
  ASSUME text \in Text
  PROVE  /\ \A i \in Nat : i > Len(text) => QuotedFrom[i] = [value |-> <<>>, next |-> i]
         /\ \A i \in 1..Len(text) : QuotedFrom[i] = QuotedAt(i, QuotedFrom[i + 1], QuotedFrom[i + 2])
         /\ \A i \in 1..Len(text) + 1 : QuotedFrom[i] \in Found /\ QuotedFrom[i].next \in i..Len(text) + 1
<1> DEFINE n == Len(text)
           none(i) == [value |-> <<>>, next |-> i]
           step == [p \in (Found \X Found) \X (1..n) |->
                      <<QuotedAt(n + 1 - p[2], p[1][1], p[1][2]), p[1][1]>>]
           base == <<none(n + 1), none(n + 2)>>
<1>1. n \in Nat /\ \A i \in 1..n : text[i] \in Tokens
  OBVIOUS
<1>2. \A i \in Nat : none(i) \in Found
  BY DEF Found
<1>3. ASSUME NEW i \in 1..n, NEW a \in Found, NEW b \in Found
      PROVE  QuotedAt(i, a, b) \in Found
  <2>1. a.value \in Text /\ a.next \in Nat /\ b.value \in Text /\ b.next \in Nat
    BY DEF Found
  <2>2. ASSUME i < n
        PROVE  <<text[i + 1]>> \o b.value \in Text
    <3>1. text[i + 1] \in Tokens
      BY <1>1, <2>2
    <3>2. QED
      BY <2>1, <3>1, Headed, Zenon
  <2>3. <<text[i]>> \o a.value \in Text
    BY <1>1, <2>1, Headed, Zenon
  <2>4. i + 1 \in Nat /\ <<>> \in Text
    OBVIOUS
  <2> DEFINE x == <<text[i + 1]>> \o b.value
             y == <<text[i]>> \o a.value
  <2>5. \A v \in Text, m \in Nat : [value |-> v, next |-> m] \in Found
    BY DEF Found
  <2>6. QuotedAt(i, a, b) = IF text[i] = "\"" THEN [value |-> <<>>, next |-> i + 1]
                            ELSE IF text[i] = "\\" /\ i < n THEN [value |-> x, next |-> b.next]
                            ELSE [value |-> y, next |-> a.next]
    BY Zenon DEF QuotedAt
  <2>7. /\ i < n => x \in Text
        /\ y \in Text
    BY <2>2, <2>3
  <2> HIDE DEF x, y, n
  <2>8. CASE text[i] = "\""
    BY <2>5, <2>4, <2>6, <2>8, Zenon
  <2>9. CASE text[i] # "\"" /\ text[i] = "\\" /\ i < n
    BY <2>5, <2>1, <2>6, <2>7, <2>9, Zenon
  <2>10. CASE text[i] # "\"" /\ ~(text[i] = "\\" /\ i < n)
    BY <2>5, <2>1, <2>6, <2>7, <2>10, Zenon
  <2>11. QED
    BY <2>8, <2>9, <2>10
<1>4. step \in [(Found \X Found) \X (1..n) -> Found \X Found]
  <2>1. ASSUME NEW p \in (Found \X Found) \X (1..n)
        PROVE  <<QuotedAt(n + 1 - p[2], p[1][1], p[1][2]), p[1][1]>> \in Found \X Found
    <3>1. p[1] \in Found \X Found /\ p[2] \in 1..n
      BY <2>1
    <3>2. p[1][1] \in Found /\ p[1][2] \in Found /\ n + 1 - p[2] \in 1..n
      BY <1>1, <3>1
    <3>3. QuotedAt(n + 1 - p[2], p[1][1], p[1][2]) \in Found
      BY <1>3, <3>2, Zenon
    <3>4. QED
      BY <3>2, <3>3
  <2>2. QED
    BY <2>1, Zenon
<1>5. \A c \in Found \X Found, k \in 1..n : step[<<c, k>>] = <<QuotedAt(n + 1 - k, c[1], c[2]), c[1]>>
  OBVIOUS
<1>6. base \in Found \X Found
  <2>1. none(n + 1) \in Found /\ none(n + 2) \in Found
    <3>1. n + 1 \in Nat /\ n + 2 \in Nat
      BY <1>1
    <3>2. QED
      BY <1>2, <3>1, Zenon
  <2>2. QED
    BY <2>1
<1> DEFINE V == Found \X Found
<1>7. \E h : Iterates(h, V, n, base, step)
  <2> HIDE DEF step, base, n, V
  <2>1. step \in [V \X (1..n) -> V] /\ base \in V
    BY <1>4, <1>6, Zenon DEF V
  <2>2. QED
    BY <1>1, <2>1, IterationExists, Zenon
<1> HIDE DEF step
<1>8. PICK h : h \in [0..n -> V] /\ h[0] = base /\ \A k \in 1..n : h[k] = step[<<h[k - 1], k>>]
  BY <1>7, Zenon DEF Iterates
<1>9. \A k \in 0..n : h[k] \in V /\ h[k][1] \in Found /\ h[k][2] \in Found
  <2> HIDE DEF n
  <2>1. \A k \in 0..n : h[k] \in V
    BY <1>8
  <2>2. QED
    BY <2>1 DEF V
<1>10. \A k \in 1..n : h[k][1] = QuotedAt(n + 1 - k, h[k - 1][1], h[k - 1][2]) /\ h[k][2] = h[k - 1][1]
  <2> TAKE k \in 1..n
  <2>1. k - 1 \in 0..n
    BY <1>1
  <2>2. h[k] = step[<<h[k - 1], k>>] /\ h[k - 1] \in Found \X Found
    BY <1>8, <1>9, <2>1, Zenon DEF V
  <2>3. h[k] = <<QuotedAt(n + 1 - k, h[k - 1][1], h[k - 1][2]), h[k - 1][1]>>
    BY <1>5, <2>2, Zenon
  <2>4. QED
    BY <2>3
<1> DEFINE f == [i \in Nat \ {0} |-> IF i > n THEN none(i) ELSE h[n + 1 - i][1]]
<1>11. h[0][1] = none(n + 1) /\ h[0][2] = none(n + 2)
  BY <1>8
<1>12. \A i \in Nat : i > n => f[i] = none(i)
  BY <1>1
<1>13. \A i \in 1..n : f[i] = h[n + 1 - i][1]
  BY <1>1
<1> HIDE DEF f, none, n
<1>14. \A i \in 1..n + 1 : f[i] = h[n + 1 - i][1] /\ f[i + 1] = h[n + 1 - i][2]
  <2> TAKE i \in 1..n + 1
  <2>1. CASE i = n + 1
    <3>1. n + 1 - i = 0 /\ n + 1 \in Nat /\ n + 1 > n /\ n + 2 \in Nat /\ n + 2 > n /\ i + 1 = n + 2
      BY <1>1, <2>1
    <3>2. QED
      BY <1>11, <1>12, <2>1, <3>1, Zenon
  <2>2. CASE i # n + 1
    <3> DEFINE k == n + 1 - i
    <3>1. i \in 1..n /\ k \in 1..n /\ n + 1 - (i + 1) = k - 1
      BY <1>1, <2>2
    <3>2. f[i] = h[k][1] /\ h[k][2] = h[k - 1][1]
      BY <1>10, <1>13, <3>1, Zenon
    <3> HIDE DEF k
    <3>3. f[i + 1] = h[k - 1][1]
      <4>1. CASE i = n
        <5>1. i + 1 = n + 1 /\ k - 1 = 0 /\ n + 1 \in Nat /\ n + 1 > n
          BY <1>1, <4>1 DEF k
        <5>2. QED
          BY <1>11, <1>12, <5>1, Zenon
      <4>2. CASE i # n
        <5>1. i + 1 \in 1..n
          BY <1>1, <3>1, <4>2
        <5>2. f[i + 1] = h[n + 1 - (i + 1)][1]
          BY <1>13, <5>1, Zenon
        <5>3. QED
          BY <3>1, <5>2, Zenon
      <4>3. QED
        BY <4>1, <4>2
    <3>4. QED
      BY <3>2, <3>3, Zenon DEF k
  <2>3. QED
    BY <2>1, <2>2
<1>15. \A i \in 1..n : f[i] = QuotedAt(i, f[i + 1], f[i + 2])
  <2> TAKE i \in 1..n
  <2> DEFINE k == n + 1 - i
  <2>1. k \in 1..n /\ n + 1 - k = i /\ i + 1 \in 1..n + 1 /\ n + 1 - (i + 1) = k - 1 /\ i + 1 + 1 = i + 2
    BY <1>1
  <2> HIDE DEF k
  <2>2. f[i + 1] = h[k - 1][1] /\ f[i + 2] = h[k - 1][2]
    BY <1>14, <2>1, Zenon
  <2>3. h[k][1] = QuotedAt(i, h[k - 1][1], h[k - 1][2])
    BY <1>10, <2>1, Zenon
  <2>4. f[i] = h[k][1]
    BY <1>13, Zenon DEF k
  <2>5. QED
    BY <2>2, <2>3, <2>4, Zenon
<1> DEFINE Body(g, i) ==
      IF i > Len(text) THEN [value |-> <<>>, next |-> i]
      ELSE IF text[i] = "\"" THEN [value |-> <<>>, next |-> i + 1]
      ELSE LET at == IF text[i] = "\\" /\ i < Len(text) THEN i + 1 ELSE i
               rest == g[at + 1]
           IN [value |-> <<text[at]>> \o rest.value, next |-> rest.next]
<1>16. \A g : \A i \in 1..n : Body(g, i) = QuotedAt(i, g[i + 1], g[i + 2])
  <2> TAKE g
  <2> TAKE i \in 1..n
  <2>1. ~(i > Len(text)) /\ i + 1 + 1 = i + 2
    BY <1>1 DEF n
  <2>2. QED
    BY <2>1, Zenon DEF QuotedAt
<1>17. \A g : \A i \in Nat : i > n => Body(g, i) = none(i)
  BY Zenon DEF none, n
<1>18. QuotedFrom = CHOOSE g : g = [i \in Nat \ {0} |-> Body(g, i)]
  BY Zenon DEF QuotedFrom
<1> HIDE DEF Body
<1>19. f = [i \in Nat \ {0} |-> Body(f, i)]
  <2>1. ASSUME NEW i \in Nat \ {0}
        PROVE  f[i] = Body(f, i)
    <3>1. CASE i > n
      BY <1>12, <1>17, <3>1, Zenon
    <3>2. CASE ~(i > n)
      <4>1. i \in 1..n
        BY <1>1, <3>2
      <4>2. QED
        BY <1>15, <1>16, <4>1, Zenon
    <3>3. QED
      BY <3>1, <3>2
  <2>2. f = [i \in Nat \ {0} |-> f[i]]
    BY DEF f
  <2>3. QED
    BY <2>1, <2>2, Zenon
<1> DEFINE Q == QuotedFrom
<1>20. Q = [i \in Nat \ {0} |-> Body(Q, i)]
  BY <1>18, <1>19, Zenon
<1>21. \A i \in Nat \ {0} : Q[i] = Body(Q, i)
  <2> HIDE DEF Q
  <2>1. QED
    BY <1>20
<1>22. \A i \in Nat : i > n => Q[i] = none(i)
  <2>1. \A i \in Nat : i > n => i \in Nat \ {0}
    BY <1>1
  <2>2. QED
    BY <1>17, <1>21, <2>1, Zenon
<1>23. \A i \in 1..n : Q[i] = QuotedAt(i, Q[i + 1], Q[i + 2])
  <2>1. \A i \in 1..n : i \in Nat \ {0}
    OBVIOUS
  <2>2. QED
    BY <1>16, <1>21, <2>1, Zenon
<1> DEFINE Good(i) == Q[i] \in Found /\ (i <= n + 1 => Q[i].next \in i..n + 1)
           T == {k \in 0..n : Good(n + 1 - k) /\ Good(n + 2 - k)}
<1> HIDE DEF Q
<1>24. 0 \in T
  <2>1. n + 1 \in Nat /\ n + 2 \in Nat /\ n + 1 > n /\ n + 2 > n /\ n + 1 - 0 = n + 1 /\ n + 2 - 0 = n + 2
        /\ ~(n + 2 <= n + 1) /\ n + 1 \in n + 1..n + 1 /\ 0 \in 0..n
    BY <1>1
  <2>2. Q[n + 1] = none(n + 1) /\ Q[n + 2] = none(n + 2)
    BY <1>22, <2>1, Zenon
  <2>3. none(n + 1).next = n + 1
    BY DEF none
  <2>4. none(n + 1) \in Found /\ none(n + 2) \in Found
    BY <1>2, <2>1, Zenon
  <2>5. Good(n + 1 - 0) /\ Good(n + 2 - 0)
    BY <2>1, <2>2, <2>3, <2>4, Zenon
  <2>6. QED
    BY <2>1, <2>5
<1>25. ASSUME NEW k \in 0..n - 1, k \in T
       PROVE  k + 1 \in T
  <2> DEFINE i == n - k
  <2>1. /\ i \in 1..n /\ i \in Int /\ n + 1 - k = i + 1 /\ n + 2 - k = i + 2 /\ n + 1 - (k + 1) = i /\ n + 2 - (k + 1) = i + 1
        /\ k + 1 \in 0..n /\ i + 1 <= n + 1 /\ (i < n => i + 2 <= n + 1)
    BY <1>1
  <2> HIDE DEF i
  <2>2. Good(i + 1) /\ Good(i + 2)
    <3>1. Good(n + 1 - k) /\ Good(n + 2 - k)
      BY <1>25
    <3>2. QED
      BY <2>1, <3>1, Zenon
  <2>3. Q[i] = QuotedAt(i, Q[i + 1], Q[i + 2])
    BY <1>23, <2>1, Zenon
  <2>4. Q[i] \in Found
    BY <1>3, <2>1, <2>2, <2>3, Zenon
  <2>5. Q[i].next = i + 1 \/ Q[i].next = Q[i + 1].next \/ (i < n /\ Q[i].next = Q[i + 2].next)
    <3> DEFINE x == <<text[i + 1]>> \o Q[i + 2].value
               y == <<text[i]>> \o Q[i + 1].value
    <3>1. Q[i] = IF text[i] = "\"" THEN [value |-> <<>>, next |-> i + 1]
                 ELSE IF text[i] = "\\" /\ i < n THEN [value |-> x, next |-> Q[i + 2].next]
                 ELSE [value |-> y, next |-> Q[i + 1].next]
      BY <2>3, Zenon DEF QuotedAt, n
    <3> DEFINE a == Q[i + 1].next
               b == Q[i + 2].next
    <3> HIDE DEF x, y, a, b
    <3>2. Q[i] = IF text[i] = "\"" THEN [value |-> <<>>, next |-> i + 1]
                 ELSE IF text[i] = "\\" /\ i < n THEN [value |-> x, next |-> b]
                 ELSE [value |-> y, next |-> a]
      BY <3>1, Zenon DEF a, b
    <3> DEFINE r == Q[i]
    <3> HIDE DEF r
    <3>3. \A v, m : r = [value |-> v, next |-> m] => r.next = m
      OBVIOUS
    <3>4. CASE text[i] = "\""
      <4>1. r = [value |-> <<>>, next |-> i + 1]
        BY <3>2, <3>4, Zenon DEF r
      <4>2. QED
        BY <3>3, <4>1, Zenon DEF r
    <3>5. CASE text[i] # "\"" /\ text[i] = "\\" /\ i < n
      <4>1. r = [value |-> x, next |-> b]
        BY <3>2, <3>5, Zenon DEF r
      <4>2. QED
        BY <3>3, <3>5, <4>1, Zenon DEF b, r
    <3>6. CASE text[i] # "\"" /\ ~(text[i] = "\\" /\ i < n)
      <4>1. r = [value |-> y, next |-> a]
        BY <3>2, <3>6, Zenon DEF r
      <4>2. QED
        BY <3>3, <4>1, Zenon DEF a, r
    <3>7. QED
      BY <3>4, <3>5, <3>6
  <2>6. Q[i].next \in i..n + 1
    BY <1>1, <2>1, <2>2, <2>5
  <2>7. Good(i)
    BY <2>4, <2>6, Zenon
  <2>8. Good(n + 1 - (k + 1)) /\ Good(n + 2 - (k + 1))
    BY <2>1, <2>2, <2>7, Zenon
  <2>9. QED
    BY <2>1, <2>8
<1>26. \A i \in 1..n + 1 : Q[i] \in Found /\ Q[i].next \in i..n + 1
  <2> HIDE DEF T
  <2>1. \A k \in 0..n : k \in T
    BY <1>1, <1>24, <1>25, Counting
  <2> TAKE i \in 1..n + 1
  <2> DEFINE k == n + 1 - i
  <2>2. k \in 0..n /\ n + 1 - k = i /\ i <= n + 1
    BY <1>1
  <2> HIDE DEF k
  <2>3. Good(n + 1 - k)
    BY <2>1, <2>2 DEF T
  <2>4. QED
    BY <2>2, <2>3, Zenon
<1>27. QED
  BY <1>22, <1>23, <1>26, Zenon DEF Q, n, none

\* Where a turn of the loop gets to.
LEMMA StartIs ==
  ASSUME text \in Text, NEW p \in 1..Len(text) + 1
  PROVE  /\ StartFrom(p) \in p..Len(text) + 1
         /\ EndFrom(p) \in p..Len(text) + 1
         /\ BareEnd(p) \in p..Len(text) + 1
<1> DEFINE n == Len(text)
           A == {j \in p..n : text[j] # " "}
           B == {j \in p..n : IsEndOfAttributeName(j)}
           C == {j \in p..n : text[j] \in {" ", ","}}
<1>1. n \in Nat /\ p \in Nat /\ p <= n + 1
  OBVIOUS
<1>2. A \subseteq p..n /\ B \subseteq p..n /\ C \subseteq p..n
  OBVIOUS
<1> HIDE DEF n, A, B, C
<1>3. First(A, n) \in p..n + 1 /\ First(B, n) \in p..n + 1 /\ First(C, n) \in p..n + 1
  BY <1>1, <1>2, FirstIs, Zenon
<1>4. QED
  BY <1>3, Zenon DEF StartFrom, EndFrom, BareEnd, n, A, B, C

\* Reading a value never goes back, nor beyond the end of the text.
LEMMA ValueFromIs ==
  ASSUME text \in Text, NEW i \in 1..Len(text) + 1
  PROVE  ValueFrom(i).next \in i..Len(text) + 1
<1> DEFINE n == Len(text)
<1>1. n \in Nat /\ i \in Nat /\ i >= 1 /\ i <= n + 1
  OBVIOUS
<1>2. ValueFrom(i) = IF i > n \/ text[i] # "=" THEN [value |-> <<>>, next |-> i]
                     ELSE IF i < n /\ text[i + 1] = "\"" THEN QuotedFrom[i + 2]
                     ELSE BareFrom(i + 1)
  BY Zenon DEF ValueFrom
<1>3. BareFrom(i + 1) = [value |-> SubSeq(text, i + 1, BareEnd(i + 1) - 1), next |-> BareEnd(i + 1)]
  BY UpToIs, Zenon DEF BareFrom
<1>4. \A v, m, r : r = [value |-> v, next |-> m] => r.next = m
  OBVIOUS
<1>5. CASE i > n \/ text[i] # "="
  <2>1. ValueFrom(i).next = i
    BY <1>2, <1>4, <1>5, Zenon
  <2>2. QED
    BY <1>1, <2>1
<1>6. CASE ~(i > n \/ text[i] # "=") /\ i < n /\ text[i + 1] = "\""
  <2>1. ValueFrom(i) = QuotedFrom[i + 2]
    BY <1>2, <1>6, Zenon
  <2>2. i + 2 \in 1..n + 1
    <3>1. i < n
      BY <1>6, Zenon
    <3> HIDE DEF n
    <3>2. QED
      BY <1>1, <3>1
  <2>3. QuotedFrom[i + 2].next \in i + 2..n + 1
    BY <2>2, QuotedTurns, Zenon
  <2> DEFINE x == QuotedFrom[i + 2].next
  <2>4. x \in i + 2..n + 1
    BY <2>3
  <2> HIDE DEF x
  <2>5. x \in i..n + 1
    BY <1>1, <2>4
  <2>6. QED
    BY <2>1, <2>5, Zenon DEF x
<1>7. CASE ~(i > n \/ text[i] # "=") /\ ~(i < n /\ text[i + 1] = "\"")
  <2>1. ValueFrom(i) = BareFrom(i + 1)
    BY <1>2, <1>7, Zenon
  <2> DEFINE x == BareEnd(i + 1)
  <2>2. ValueFrom(i).next = x
    <3> DEFINE v == SubSeq(text, i + 1, BareEnd(i + 1) - 1)
               r == ValueFrom(i)
    <3>1. r = [value |-> v, next |-> x]
      BY <1>3, <2>1, Zenon
    <3> HIDE DEF v, r, x
    <3>2. r.next = x
      BY <3>1
    <3>3. QED
      BY <3>2, Zenon DEF r
  <2>3. i + 1 \in 1..n + 1
    <3>1. ~(i > n)
      BY <1>7, Zenon
    <3> HIDE DEF n
    <3>2. QED
      BY <1>1, <3>1
  <2>4. x \in i + 1..n + 1
    BY <2>3, StartIs, Zenon
  <2> HIDE DEF x
  <2>5. x \in i..n + 1
    BY <1>1, <2>4
  <2>6. QED
    BY <2>2, <2>5, Zenon
<1>8. QED
  BY <1>5, <1>6, <1>7

\* The attributes' loop never runs past its text.
AttributesPos == job = "attributes" => pos \in 1..Len(text) + 1

\* The texts that are read as attributes.
LEMMA AttributesAre ==
  ASSUME InputInv, job = "attributes"
  PROVE  text \in Text /\ (given # <<>> => Writes("attributes", given, text))
<1>1. Takes(job, text) /\ (given # <<>> => Writes(job, given, text))
  BY InputIs, Zenon
<1>2. QED
  BY <1>1 DEF Takes

\* What a turn of the loop does (http.cc:179-259).
LEMMA TurnIs ==
  ASSUME NextAttribute
  PROVE  /\ job = "attributes" /\ ~done /\ job' = job /\ given' = given /\ text' = text
         /\ \/ /\ StartFrom(pos) > Len(text)
               /\ done' = TRUE /\ pos' = pos /\ result' = result
            \/ /\ ~(StartFrom(pos) > Len(text))
               /\ done' = done
               /\ result' = Append(result, <<SubSeq(text, StartFrom(pos), EndFrom(StartFrom(pos)) - 1),
                                             ValueFrom(EndFrom(StartFrom(pos))).value>>)
               /\ pos' = NextPos(ValueFrom(EndFrom(StartFrom(pos))).next)
<1> DEFINE start == UpTo(pos, LAMBDA j : text[j] # " ")
           end == UpTo(start, IsEndOfAttributeName)
           found == ValueFrom(end)
<1>1. start = StartFrom(pos) /\ end = EndFrom(start)
  BY UpToIs
<1>2. /\ job = "attributes" /\ ~done /\ job' = job /\ given' = given /\ text' = text
      /\ IF start > Len(text)
          THEN done' = TRUE /\ UNCHANGED <<pos, result>>
          ELSE /\ result' = Append(result, <<SubSeq(text, start, end - 1), found.value>>)
               /\ pos' = NextPos(found.next)
               /\ UNCHANGED done
  BY DEF NextAttribute
<1> HIDE DEF start, end
<1>3. CASE start > Len(text)
  BY <1>1, <1>2, <1>3
<1>4. CASE ~(start > Len(text))
  BY <1>1, <1>2, <1>4, Zenon
<1>5. QED
  BY <1>3, <1>4

\* Every turn keeps the position within the text.
LEMMA AttributesPosStep ==
  ASSUME InputInv, AttributesPos, [Next]_vars
  PROVE  AttributesPos'
<1>1. CASE NextAttribute
  <2>1. job = "attributes" /\ text' = text /\ text \in Text /\ pos \in 1..Len(text) + 1 /\ Len(text) \in Nat
    <3>1. job = "attributes" /\ text' = text
      BY <1>1, TurnIs, Zenon
    <3>2. text \in Text
      BY <3>1, AttributesAre, Zenon
    <3>3. QED
      BY <3>1, <3>2 DEF AttributesPos
  <2> DEFINE s == StartFrom(pos)
             e == EndFrom(s)
             f == ValueFrom(e).next
             n == Len(text)
  <2>2. pos' = pos \/ (~(s > n) /\ pos' = NextPos(f))
    BY <1>1, TurnIs, Zenon
  <2>3. s \in pos..n + 1
    BY <2>1, StartIs, Zenon
  <2>4. s \in 1..n + 1
    <3> HIDE DEF s
    <3>1. QED
      BY <2>1, <2>3
  <2>5. e \in s..n + 1
    BY <2>1, <2>4, StartIs, Zenon
  <2>6. e \in 1..n + 1
    <3> HIDE DEF s, e
    <3>1. QED
      BY <2>1, <2>4, <2>5
  <2>7. f \in e..n + 1
    BY <2>1, <2>6, ValueFromIs, Zenon
  <2>8. NextPos(f) = f \/ (f <= n /\ NextPos(f) = f + 1)
    BY Zenon DEF NextPos
  <2> HIDE DEF s, e, f, n
  <2>9. pos' \in 1..n + 1
    BY <2>1, <2>2, <2>6, <2>7, <2>8 DEF n
  <2>10. QED
    BY <2>1, <2>9 DEF AttributesPos, n
<1>2. CASE ReadQuery \/ ReadCookie \/ ReadName \/ ReadCode \/ ReadDate \/ ReadRequestEntry \/ CompleteRequest
  <2>1. job # "attributes" /\ job' = job
    BY <1>2 DEF ReadQuery, ReadCookie, ReadName, ReadCode, ReadDate, ReadRequestEntry, CompleteRequest, Return
  <2>2. QED
    BY <2>1, Zenon DEF AttributesPos
<1>3. CASE UNCHANGED vars \/ Returned
  BY <1>3 DEF AttributesPos, vars, Returned
<1>4. QED
  BY <1>1, <1>2, <1>3, Zenon DEF Next

\* The position stays within the text.
LEMMA AttributesPosHolds == Spec => []AttributesPos
<1>1. Init => InputInv /\ AttributesPos
  <2> SUFFICES ASSUME Init
               PROVE  InputInv /\ AttributesPos
    OBVIOUS
  <2>1. InputInv /\ pos = 1
    BY DEF Init, InputInv
  <2>2. job = "attributes" => Len(text) \in Nat
    BY <2>1, AttributesAre
  <2>3. QED
    BY <2>1, <2>2 DEF AttributesPos
<1>2. InputInv /\ AttributesPos /\ [Next]_vars => InputInv' /\ AttributesPos'
  BY InputStep, AttributesPosStep, Zenon
<1>3. QED
  BY <1>1, <1>2, PTL DEF Spec

\* TypeOK: the state of every job keeps to its kind of value and the position to the text
\* (the loops of stream.cc:212-279, cookie.h:55-98 and http.cc:179-259).
THEOREM Types == Spec => []TypeOK
<1>1. InputInv /\ ReadInv /\ RequestInv /\ AttributesPos => TypeOK
  BY Zenon DEF InputInv, ReadInv, RequestInv, AttributesPos, TypeOK
<1>2. QED
  BY <1>1, Reading, Requesting, AttributesPosHolds, PTL

\* w stands in the text behind o.
At(o, w) == o + Len(w) <= Len(text) /\ \A i \in 1..Len(w) : text[o + i] = w[i]

\* Where a concatenation stands, its parts stand one behind the other.
LEMMA AtBoth ==
  ASSUME text \in Text, NEW o \in Nat, NEW a \in Text, NEW b \in Text, At(o, a \o b)
  PROVE  At(o, a) /\ At(o + Len(a), b)
<1> DEFINE m == Len(a)
           l == Len(b)
           w == a \o b
           n == Len(text)
<1>1. m \in Nat /\ l \in Nat /\ n \in Nat /\ m = Len(a) /\ l = Len(b)
  OBVIOUS
<1>2. /\ Len(w) = Len(a) + Len(b)
      /\ \A i \in 1..Len(a) + Len(b) : w[i] = IF i <= Len(a) THEN a[i] ELSE b[i - Len(a)]
  BY ConcatProperties
<1>3. o + Len(w) <= n /\ \A i \in 1..Len(w) : text[o + i] = w[i]
  BY Zenon DEF At
<1> HIDE DEF m, l, w, n
<1>4. o + m <= n /\ \A i \in 1..m : text[o + i] = a[i]
  BY <1>1, <1>2, <1>3
<1>5. \A i \in 1..l : text[o + m + i] = b[i]
  <2> TAKE i \in 1..l
  <2>1. m + i \in 1..m + l /\ ~(m + i <= m) /\ m + i - m = i /\ o + (m + i) = o + m + i
    BY <1>1
  <2>2. w[m + i] = b[i]
    BY <1>1, <1>2, <2>1
  <2>3. text[o + (m + i)] = w[m + i]
    BY <1>1, <1>2, <1>3, <2>1
  <2>4. QED
    BY <2>1, <2>2, <2>3
<1>6. o + m + l <= n
  BY <1>1, <1>2, <1>3
<1>7. QED
  BY <1>1, <1>4, <1>5, <1>6 DEF At, n

\* What is read of the text is what stands there.
LEMMA AtIs ==
  ASSUME text \in Text, NEW o \in Nat, NEW w \in Text, At(o, w)
  PROVE  SubSeq(text, o + 1, o + Len(w)) = w
<1> DEFINE m == Len(w)
           a == o + 1
           e == o + m
           x == SubSeq(text, a, e)
<1>1. m \in Nat /\ a \in Nat /\ e \in Nat /\ 1 <= a /\ e <= Len(text) /\ m = Len(w)
  BY DEF At
<1>2. e - a + 1 = m /\ \A i \in 1..m : a + i - 1 = o + i
  BY <1>1
<1>3. /\ x \in Text
      /\ Len(x) = IF a <= e THEN e - a + 1 ELSE 0
      /\ \A i \in 1..e - a + 1 : x[i] = text[a + i - 1]
  <2> HIDE DEF a, e
  <2>1. QED
    BY <1>1, Part
<1>4. \A i \in 1..m : text[o + i] = w[i]
  BY DEF At
<1>5. Len(x) = m
  <2>1. (IF a <= e THEN e - a + 1 ELSE 0) = m
    BY <1>1
  <2> HIDE DEF x
  <2>2. QED
    BY <1>3, <2>1
<1>6. \A i \in 1..m : x[i] = w[i]
  <2> HIDE DEF x, a, e, m
  <2>1. QED
    BY <1>2, <1>3, <1>4
<1> HIDE DEF x
<1>7. x = w
  BY <1>1, <1>3, <1>5, <1>6, SeqEqual
<1>8. QED
  BY <1>7 DEF x

\* A token that stands in the text.
LEMMA AtOne ==
  ASSUME text \in Text, NEW o \in Nat, NEW c, At(o, <<c>>)
  PROVE  o + 1 <= Len(text) /\ text[o + 1] = c
<1>1. Len(<<c>>) = 1 /\ <<c>>[1] = c
  OBVIOUS
<1>2. QED
  BY <1>1 DEF At

\* With the whole of what grows from piece to piece every beginning of it stands there.
Grows(f, n) == \A k \in 1..n : \E g \in Text : f[k] = f[k - 1] \o g

\* Where the last of growing texts stands, each of them does.
LEMMA AtEvery ==
  ASSUME text \in Text, NEW o \in Nat, NEW n \in Nat, NEW f, \A k \in 0..n : f[k] \in Text, Grows(f, n), At(o, f[n])
  PROVE  \A k \in 0..n : At(o, f[k])
<1> DEFINE T == {m \in 0..n : At(o, f[n - m])}
<1>1. 0 \in T
  <2>1. n - 0 = n /\ 0 \in 0..n
    OBVIOUS
  <2>2. At(o, f[n - 0])
    BY <2>1
  <2>3. QED
    BY <2>1, <2>2
<1>2. ASSUME NEW m \in 0..n - 1, m \in T
      PROVE  m + 1 \in T
  <2> DEFINE k == n - m
  <2>1. k \in 1..n /\ k - 1 \in 0..n /\ k \in 0..n /\ n - (m + 1) = k - 1 /\ m + 1 \in 0..n
    OBVIOUS
  <2>2. At(o, f[k])
    BY <1>2
  <2> HIDE DEF k
  <2>3. PICK g \in Text : f[k] = f[k - 1] \o g
    BY <2>1, Zenon DEF Grows
  <2>4. f[k - 1] \in Text
    BY <2>1
  <2>5. At(o, f[k - 1])
    <3> DEFINE a == f[k - 1]
    <3>1. At(o, a \o g) /\ a \in Text
      BY <2>2, <2>3, <2>4, Zenon
    <3> HIDE DEF a
    <3>2. At(o, a)
      BY <3>1, AtBoth, Zenon
    <3>3. QED
      BY <3>2, Zenon DEF a
  <2>6. QED
    BY <2>1, <2>5
<1> HIDE DEF T
<1>3. \A m \in 0..n : m \in T
  BY <1>1, <1>2, Counting
<1> TAKE k \in 0..n
<1> DEFINE m == n - k
<1>4. m \in 0..n /\ n - m = k
  OBVIOUS
<1> HIDE DEF m
<1>5. At(o, f[n - m])
  BY <1>3, <1>4 DEF T
<1>6. QED
  BY <1>4, <1>5, Zenon

-----------------------------------------------------------------------------
(* Quoted values                                                             *)

\* What is written for a token of a quoted value.
Escape(c) == IF c \in {"\"", "\\"} THEN <<"\\", c>> ELSE <<c>>

\* A token is escaped as a text.
LEMMA EscapeType ==
  ASSUME NEW c \in Tokens
  PROVE  Escape(c) \in Text
<1> DEFINE b == "\\"
<1>1. b \in Tokens
  BY TokensAre
<1>2. Escape(c) = IF c \in {"\"", b} THEN <<b, c>> ELSE <<c>>
  BY Zenon DEF Escape
<1> HIDE DEF b
<1>3. <<b, c>> \in Text /\ <<c>> \in Text
  BY <1>1
<1>4. QED
  BY <1>2, <1>3, Zenon

\* The growth of an escaped text, token by token.
LEMMA EscapingTurns ==
  ASSUME NEW v \in Text
  PROVE  /\ Escaping(v)[0] = <<>>
         /\ \A k \in 0..Len(v) : Escaping(v)[k] \in Text
         /\ \A k \in 1..Len(v) : Escaping(v)[k] = Escaping(v)[k - 1] \o Escape(v[k])
<1> DEFINE n == Len(v)
           Turn(t, k) == t \o Escape(v[k])
           step == [p \in Text \X (1..n) |-> Turn(p[1], p[2])]
<1>1. n \in Nat /\ <<>> \in Text
  OBVIOUS
<1>2. \A t \in Text, k \in 1..n : Turn(t, k) \in Text
  <2> SUFFICES ASSUME NEW t \in Text, NEW k \in 1..n
               PROVE  Turn(t, k) \in Text
    BY Zenon
  <2>1. v[k] \in Tokens
    OBVIOUS
  <2>2. Escape(v[k]) \in Text
    BY <2>1, EscapeType, Zenon
  <2>3. QED
    BY <2>2, Both, Zenon
<1> HIDE DEF Turn
<1>3. step \in [Text \X (1..n) -> Text]
  BY <1>2
<1>4. \A t \in Text, k \in 1..n : step[<<t, k>>] = Turn(t, k)
  OBVIOUS
<1> HIDE DEF step, n
<1>5. \E f : Iterates(f, Text, n, <<>>, step)
  BY <1>1, <1>3, IterationExists, Zenon
<1>6. PICK f \in [0..n -> Text] : f[0] = <<>> /\ \A i \in 1..n : f[i] = step[<<f[i - 1], i>>]
  BY <1>5, Zenon DEF Iterates
<1>7. f = [i \in 0..n |-> IF i = 0 THEN <<>> ELSE Turn(f[i - 1], i)]
  <2>1. ASSUME NEW i \in 0..n, i # 0
        PROVE  f[i] = Turn(f[i - 1], i)
    <3>1. i \in 1..n /\ i - 1 \in 0..n
      BY <1>1, <2>1
    <3>2. f[i - 1] \in Text
      BY <1>6, <3>1
    <3>3. QED
      BY <1>4, <1>6, <3>1, <3>2, Zenon
  <2>2. QED
    BY <1>6, <2>1
<1> DEFINE g == Escaping(v)
<1>8. g = CHOOSE h : h = [i \in 0..n |-> IF i = 0 THEN <<>> ELSE Turn(h[i - 1], i)]
  BY Zenon DEF Escaping, Escape, n, Turn
<1> HIDE DEF g
<1>9. g = [i \in 0..n |-> IF i = 0 THEN <<>> ELSE Turn(g[i - 1], i)]
  BY <1>7, <1>8, Zenon
<1>10. g[0] = <<>> /\ \A i \in 1..n : g[i] = Turn(g[i - 1], i)
  BY <1>1, <1>9
<1>11. \A i \in 0..n : g[i] \in Text
  <2> DEFINE T == {i \in 0..n : g[i] \in Text}
  <2>1. 0 \in T
    <3>1. 0 \in 0..n
      BY <1>1
    <3>2. g[0] \in Text
      BY <1>1, <1>10, Zenon
    <3>3. QED
      BY <3>1, <3>2
  <2>2. ASSUME NEW i \in 0..n - 1, i \in T
        PROVE  i + 1 \in T
    <3>1. i + 1 \in 1..n /\ i + 1 - 1 = i /\ g[i] \in Text
      BY <1>1, <2>2
    <3>2. g[i + 1] = Turn(g[i], i + 1)
      BY <1>10, <3>1
    <3>3. Turn(g[i], i + 1) \in Text
      BY <1>2, <3>1, Zenon
    <3>4. i + 1 \in 0..n
      BY <1>1
    <3>5. QED
      BY <3>2, <3>3, <3>4
  <2> HIDE DEF T
  <2>3. \A i \in 0..n : i \in T
    BY <1>1, <2>1, <2>2, Counting
  <2>4. QED
    BY <2>3 DEF T
<1>12. QED
  BY <1>10, <1>11, Zenon DEF g, n, Turn

\* What is left of a value from its k-th token on.
RestFrom(v, k) == SubSeq(v, k, Len(v))

\* What is left of a text from a position on.
LEMMA RestIs ==
  ASSUME NEW v \in Text
  PROVE  /\ RestFrom(v, 1) = v /\ RestFrom(v, Len(v) + 1) = <<>>
         /\ \A k \in 1..Len(v) : RestFrom(v, k) = <<v[k]>> \o RestFrom(v, k + 1)
<1> DEFINE n == Len(v)
<1>1. n \in Nat /\ Len(v) = n
  OBVIOUS
<1>2. RestFrom(v, 1) = v
  <2> DEFINE x == SubSeq(v, 1, n)
  <2>1. x \in Text /\ Len(x) = n /\ \A i \in 1..n : x[i] = v[i]
    <3>1. 1 \in Nat /\ 1 <= 1 /\ n <= Len(v)
      BY <1>1
    <3>2. /\ x \in Text
          /\ Len(x) = IF 1 <= n THEN n - 1 + 1 ELSE 0
          /\ \A i \in 1..n - 1 + 1 : x[i] = v[1 + i - 1]
      <4> HIDE DEF n
      <4>1. QED
        BY <1>1, <3>1, Part
    <3>3. n - 1 + 1 = n /\ \A i \in 1..n : 1 + i - 1 = i
      BY <1>1
    <3> HIDE DEF x, n
    <3>4. QED
      BY <1>1, <3>2, <3>3
  <2> HIDE DEF x
  <2>2. x = v
    BY <1>1, <2>1, SeqEqual
  <2>3. QED
    BY <2>2 DEF x, RestFrom
<1>3. RestFrom(v, n + 1) = <<>>
  <2> DEFINE x == SubSeq(v, n + 1, n)
  <2>1. x \in Text /\ Len(x) = 0
    BY <1>1
  <2> HIDE DEF x
  <2>2. x = <<>>
    BY <2>1, EmptySeq
  <2>3. QED
    BY <2>2 DEF x, RestFrom
<1>4. ASSUME NEW k \in 1..n
      PROVE  RestFrom(v, k) = <<v[k]>> \o RestFrom(v, k + 1)
  <2> DEFINE c == v[k]
             x == SubSeq(v, k, n)
             y == SubSeq(v, k + 1, n)
             s == <<c>> \o y
  <2>1. c \in Tokens /\ k \in Nat /\ 1 <= k /\ k <= n /\ n <= Len(v)
    BY <1>1
  <2>2. x \in Text /\ Len(x) = n - k + 1 /\ \A i \in 1..n - k + 1 : x[i] = v[k + i - 1]
    <3>1. /\ x \in Text
          /\ Len(x) = IF k <= n THEN n - k + 1 ELSE 0
          /\ \A i \in 1..n - k + 1 : x[i] = v[k + i - 1]
      <4> HIDE DEF n
      <4>1. QED
        BY <1>1, <2>1, Part
    <3> HIDE DEF x, n
    <3>2. QED
      BY <2>1, <3>1
  <2>3. y \in Text /\ Len(y) = n - k /\ \A i \in 1..n - k : y[i] = v[k + i]
    <3> DEFINE m == k + 1
    <3>1. m \in Nat /\ 1 <= m
      BY <2>1
    <3>2. /\ SubSeq(v, m, n) \in Text
          /\ Len(SubSeq(v, m, n)) = IF m <= n THEN n - m + 1 ELSE 0
          /\ \A i \in 1..n - m + 1 : SubSeq(v, m, n)[i] = v[m + i - 1]
      <4> HIDE DEF n, m
      <4>1. QED
        BY <1>1, <2>1, <3>1, Part
    <3>3. n - m + 1 = n - k /\ (IF m <= n THEN n - m + 1 ELSE 0) = n - k /\ \A i \in 1..n - k : m + i - 1 = k + i
      BY <1>1, <2>1
    <3>4. y = SubSeq(v, m, n)
      OBVIOUS
    <3> HIDE DEF y, m, n
    <3>5. QED
      BY <3>2, <3>3, <3>4
  <2> HIDE DEF y
  <2>4. s \in Text /\ s[1] = c /\ Tail(s) = y /\ s # <<>>
    BY <2>1, <2>3, Headed
  <2>5. Len(s) = 1 + Len(y) /\ \A i \in 1..Len(y) : s[1 + i] = y[i]
    <3>1. Len(Tail(s)) = Len(s) - 1 /\ \A i \in 1..Len(Tail(s)) : Tail(s)[i] = s[i + 1]
      BY <2>4
    <3>2. Len(s) \in Nat /\ Len(y) \in Nat
      BY <2>3, <2>4
    <3> HIDE DEF s
    <3>3. Len(y) = Len(s) - 1 /\ \A i \in 1..Len(y) : y[i] = s[i + 1]
      BY <2>4, <3>1, Zenon
    <3>4. QED
      BY <3>2, <3>3
  <2> HIDE DEF x, s, n, c
  <2>6. \A i \in 1..Len(x) : x[i] = s[i]
    <3> TAKE i \in 1..Len(x)
    <3>1. CASE i = 1
      <4>1. k + 1 - 1 = k /\ 1 \in 1..n - k + 1
        BY <1>1, <2>1
      <4>2. QED
        BY <2>2, <2>4, <3>1, <4>1 DEF c
    <3>2. CASE i # 1
      <4>1. i - 1 \in 1..n - k /\ 1 + (i - 1) = i /\ k + (i - 1) = k + i - 1 /\ i \in 1..n - k + 1
        BY <1>1, <2>1, <2>2, <3>2
      <4>2. x[i] = v[k + i - 1] /\ y[i - 1] = v[k + (i - 1)] /\ s[1 + (i - 1)] = y[i - 1]
        BY <2>2, <2>3, <2>5, <4>1
      <4>3. QED
        BY <4>1, <4>2
    <3>3. QED
      BY <3>1, <3>2
  <2>7. Len(x) = Len(s)
    BY <1>1, <2>1, <2>2, <2>3, <2>5
  <2>8. x = s
    BY <2>2, <2>4, <2>6, <2>7, SeqEqual
  <2>9. QED
    BY <2>8, Zenon DEF RestFrom, x, s, y, c, n
<1>5. QED
  BY <1>2, <1>3, <1>4, Zenon DEF n

\* The tokens whose notation has a backslash.
Quote == "\""
\* The token that escapes (opaque to the provers, as the quotation mark is).
Backslash == "\\"

\* The quotation mark and the backslash are two tokens.
LEMMA QuotesAre == Quote \in Tokens /\ Backslash \in Tokens /\ Quote # Backslash
<1>1. Quote \in Tokens /\ Backslash \in Tokens
  BY TokensAre, Zenon DEF Quote, Backslash
<1>2. Quote # Backslash
  BY Zenon DEF Quote, Backslash
<1>3. QED
  BY <1>1, <1>2

\* A value in quotation marks is read to the second of them.
IsQuotedAt(o, v, e) == QuotedFrom[o + 1] = [value |-> v, next |-> e]

\* An escaped text before a quotation mark is read as itself, from its end to its beginning.
LEMMA QuotedRead ==
  ASSUME text \in Text, NEW o \in Nat, NEW v \in Text,
         At(o, Escaping(v)[Len(v)]), At(o + Len(Escaping(v)[Len(v)]), <<Quote>>)
  PROVE  IsQuotedAt(o, v, o + Len(Escaping(v)[Len(v)]) + 2)
<1> DEFINE n == Len(v)
           f == Escaping(v)
           e == o + Len(f[n]) + 2
           Q == QuotedFrom
           b == Backslash
           q == Quote
           T == {m \in 0..n : IsQuotedAt(o + Len(f[n - m]), RestFrom(v, n - m + 1), e)}
           N == Len(text)
<1>1. n \in Nat /\ (\A k \in 1..n : v[k] \in Tokens) /\ N \in Nat
  OBVIOUS
<1>2. /\ f[0] = <<>> /\ (\A k \in 0..n : f[k] \in Text)
      /\ \A k \in 1..n : f[k] = f[k - 1] \o Escape(v[k])
  BY EscapingTurns, Zenon
<1>3. /\ \A i \in 1..N : Q[i] = QuotedAt(i, Q[i + 1], Q[i + 2])
  BY QuotedTurns, Zenon
<1>4. \A k \in 0..n : At(o, f[k])
  <2>1. \A k \in 1..n : Escape(v[k]) \in Text
    BY <1>1, EscapeType, Zenon
  <2>2. Grows(f, n)
    BY <1>2, <2>1, Zenon DEF Grows
  <2> HIDE DEF f, n
  <2>3. At(o, f[n])
    BY Zenon DEF f, n
  <2>4. QED
    BY <1>1, <1>2, <2>2, <2>3, AtEvery, Zenon
<1>5. \A k \in 0..n : Len(f[k]) \in Nat /\ o + Len(f[k]) \in Nat
  <2> HIDE DEF f, n
  <2>1. \A k \in 0..n : Len(f[k]) \in Nat
    BY <1>2
  <2>2. QED
    BY <2>1
<1>6. 0 \in T
  <2> DEFINE i == o + Len(f[n]) + 1
  <2>1. At(o + Len(f[n]), <<q>>)
    OBVIOUS
  <2>2. i <= N /\ text[i] = q
    <3> DEFINE p == o + Len(f[n])
    <3>1. p \in Nat /\ At(p, <<q>>)
      BY <1>1, <1>5, <2>1
    <3> HIDE DEF p, q
    <3>2. p + 1 <= Len(text) /\ text[p + 1] = q
      BY <3>1, AtOne, Zenon
    <3>3. QED
      BY <3>2, Zenon DEF p
  <2>3. i \in 1..N
    <3>1. o + Len(f[n]) \in Nat
      BY <1>1, <1>5
    <3> HIDE DEF N, f, n
    <3>2. QED
      BY <1>1, <2>2, <3>1
  <2>4. Q[i] = QuotedAt(i, Q[i + 1], Q[i + 2])
    BY <1>3, <2>3, Zenon
  <2>5. Q[i] = [value |-> <<>>, next |-> i + 1]
    BY <2>2, <2>4, Zenon DEF QuotedAt, Quote
  <2>6. i + 1 = e
    <3>1. Len(f[n]) \in Nat
      BY <1>1, <1>5
    <3> HIDE DEF f, n
    <3>2. QED
      BY <3>1
  <2>7. RestFrom(v, n + 1) = <<>>
    BY RestIs, Zenon
  <2>8. IsQuotedAt(o + Len(f[n]), <<>>, e)
    BY <2>5, <2>6, Zenon DEF IsQuotedAt
  <2>9. n - 0 = n /\ n - 0 + 1 = n + 1 /\ 0 \in 0..n
    BY <1>1
  <2>10. IsQuotedAt(o + Len(f[n - 0]), RestFrom(v, n - 0 + 1), e)
    BY <2>7, <2>8, <2>9, Zenon
  <2>11. QED
    BY <2>9, <2>10, Zenon
<1>7. ASSUME NEW m \in 0..n - 1, m \in T
      PROVE  m + 1 \in T
  <2> DEFINE k == n - m
             c == v[k]
             p == o + Len(f[k - 1])
             r == RestFrom(v, k + 1)
  <2>1. /\ k \in 1..n /\ k - 1 \in 0..n /\ k \in 0..n /\ n - (m + 1) = k - 1 /\ n - (m + 1) + 1 = k
        /\ m + 1 \in 0..n /\ n - m + 1 = k + 1
    BY <1>1
  <2>2. IsQuotedAt(o + Len(f[k]), r, e)
    <3>1. IsQuotedAt(o + Len(f[n - m]), RestFrom(v, n - m + 1), e)
      BY <1>7
    <3>2. QED
      BY <2>1, <3>1, Zenon
  <2> HIDE DEF k, T, e, N, n
  <2>3. c \in Tokens
    BY <1>1, <2>1, Zenon
  <2>4. p \in Nat
    BY <1>5, <2>1, Zenon
  <2>5. f[k] = f[k - 1] \o Escape(c) /\ f[k - 1] \in Text /\ Escape(c) \in Text /\ Len(f[k]) = Len(f[k - 1]) + Len(Escape(c))
    <3>1. f[k] = f[k - 1] \o Escape(c) /\ f[k - 1] \in Text
      BY <1>2, <2>1, Zenon
    <3>2. Escape(c) \in Text
      BY <2>3, EscapeType, Zenon
    <3> DEFINE x == f[k - 1]
               y == Escape(c)
    <3>3. Len(x \o y) = Len(x) + Len(y)
      <4>1. x \in Text /\ y \in Text
        BY <3>1, <3>2
      <4> HIDE DEF x, y
      <4>2. QED
        BY <4>1
    <3>4. QED
      BY <3>1, <3>2, <3>3, Zenon
  <2>6. At(p, Escape(c))
    <3>1. At(o, f[k - 1] \o Escape(c))
      BY <1>4, <2>1, <2>5, Zenon
    <3>2. QED
      BY <2>5, <3>1, AtBoth, Zenon
  <2>7. RestFrom(v, k) = <<c>> \o r
    BY <2>1, RestIs, Zenon DEF n
  <2> DEFINE x == QuotedFrom[p + 1]
  <2>8. x = [value |-> <<c>> \o r, next |-> e]
    <3>1. Escape(c) = IF c \in {q, b} THEN <<b, c>> ELSE <<c>>
      BY Zenon DEF Escape, Quote, Backslash
    <3>2. p + Len(Escape(c)) = o + Len(f[k])
      <4>1. Len(f[k - 1]) \in Nat /\ Len(Escape(c)) \in Nat
        <5>1. Len(f[k - 1]) \in Nat
          BY <1>5, <2>1, Zenon
        <5>2. Len(Escape(c)) \in Nat
          BY <2>5
        <5>3. QED
          BY <5>1, <5>2
      <4> DEFINE u == Len(f[k - 1])
                 w == Len(Escape(c))
                 z == Len(f[k])
      <4>2. z = u + w /\ u \in Nat /\ w \in Nat
        BY <2>5, <4>1, Zenon
      <4> HIDE DEF u, w, z
      <4>3. o + u + w = o + z
        BY <4>2
      <4>4. QED
        BY <4>3, Zenon DEF u, w, z
    <3>3. QuotedFrom[o + Len(f[k]) + 1] = [value |-> r, next |-> e]
      BY <2>2, Zenon DEF IsQuotedAt
    <3> DEFINE t == [value |-> r, next |-> e]
    <3>4. t.value = r /\ t.next = e
      OBVIOUS
    <3>5. b # q
      BY QuotesAre
    <3> HIDE DEF p, c, b, q, r, x
    <3>6. CASE c \in {q, b}
      <4>1. Len(<<b, c>>) = 2 /\ <<b, c>>[1] = b /\ <<b, c>>[2] = c
        OBVIOUS
      <4>2. At(p, <<b, c>>) /\ Escape(c) = <<b, c>>
        BY <2>6, <3>1, <3>6, Zenon
      <4>3. p + 2 <= N /\ text[p + 1] = b /\ text[p + 2] = c
        BY <4>1, <4>2 DEF At, N
      <4>4. p + 1 \in 1..N /\ p + 1 < N /\ p + 1 + 1 = p + 2 /\ p + 1 + 2 = p + 2 + 1
        BY <1>1, <2>4, <4>3
      <4>5. x = QuotedAt(p + 1, Q[p + 1 + 1], Q[p + 1 + 2])
        BY <1>3, <4>4, Zenon DEF x
      <4>6. Q[p + 1 + 2] = t
        BY <3>2, <3>3, <4>1, <4>2, <4>4, Zenon
      <4>7. x = [value |-> <<text[p + 1 + 1]>> \o Q[p + 1 + 2].value, next |-> Q[p + 1 + 2].next]
        BY <3>5, <4>3, <4>4, <4>5, Zenon DEF QuotedAt, b, q, N, Quote, Backslash
      <4> HIDE DEF t
      <4>8. QED
        BY <3>4, <4>3, <4>4, <4>6, <4>7, Zenon
    <3>7. CASE c \notin {q, b}
      <4>1. Len(<<c>>) = 1
        OBVIOUS
      <4>2. At(p, <<c>>) /\ Escape(c) = <<c>>
        BY <2>6, <3>1, <3>7, Zenon
      <4>3. p + 1 <= N /\ text[p + 1] = c
        BY <2>4, <4>2, AtOne, Zenon DEF N
      <4>4. p + 1 \in 1..N /\ c # q /\ c # b
        BY <1>1, <2>4, <3>7, <4>3
      <4>5. x = QuotedAt(p + 1, Q[p + 1 + 1], Q[p + 1 + 2])
        BY <1>3, <4>4, Zenon DEF x
      <4>6. Q[p + 1 + 1] = t
        BY <3>2, <3>3, <4>1, <4>2, Zenon
      <4>7. x = [value |-> <<text[p + 1]>> \o Q[p + 1 + 1].value, next |-> Q[p + 1 + 1].next]
        BY <4>3, <4>4, <4>5, Zenon DEF QuotedAt, b, q, Quote, Backslash
      <4> HIDE DEF t
      <4>8. QED
        BY <3>4, <4>3, <4>6, <4>7, Zenon
    <3>8. QED
      BY <3>6, <3>7
  <2>9. IsQuotedAt(p, RestFrom(v, k), e)
    BY <2>7, <2>8, Zenon DEF IsQuotedAt
  <2>10. IsQuotedAt(o + Len(f[n - (m + 1)]), RestFrom(v, n - (m + 1) + 1), e)
    BY <2>1, <2>9, Zenon
  <2>11. QED
    BY <2>1, <2>10, Zenon DEF T
<1> HIDE DEF T
<1>8. n \in T
  <2>1. \A m \in 0..n : m \in T
    <3> HIDE DEF n
    <3>1. QED
      BY <1>1, <1>6, <1>7, Counting
  <2>2. n \in 0..n
    BY <1>1
  <2>3. QED
    BY <2>1, <2>2, Zenon
<1>9. IsQuotedAt(o + Len(f[n - n]), RestFrom(v, n - n + 1), e)
  BY <1>8, Zenon DEF T
<1>10. n - n = 0 /\ n - n + 1 = 1 /\ Len(<<>>) = 0 /\ o + 0 = o
  BY <1>1
<1>11. RestFrom(v, 1) = v
  BY RestIs, Zenon
<1>12. IsQuotedAt(o, v, e)
  BY <1>2, <1>9, <1>10, <1>11, Zenon
<1>13. QED
  BY <1>12, Zenon

\* A name, and what may follow it.
NameEnds(p) == p = Len(text) \/ (p + 1 < Len(text) /\ text[p + 1] = "=" /\ text[p + 2] \notin {" ", "="})

\* The name that stands behind o ends where its text does.
IsNameAt(o, name) ==
  /\ o + 1 <= Len(text) /\ text[o + 1] # " "
  /\ EndFrom(o + 1) = o + Len(name) + 1
  /\ SubSeq(text, o + 1, o + Len(name)) = name

\* A name that stands in the text, with the end of a name behind it, is read whole.
LEMMA NameRead ==
  ASSUME text \in Text, NEW o \in Nat, NEW name, IsAttributeName(name), At(o, name), NameEnds(o + Len(name))
  PROVE  IsNameAt(o, name)
<1> DEFINE m == Len(name)
           n == Len(text)
           e == o + m + 1
           S == {j \in o + 1..n : IsEndOfAttributeName(j)}
           eq == "="
           sp == " "
<1>1. /\ name \in Text /\ name # <<>> /\ Lacks(name, {sp})
      /\ \A i \in 1..m - 1 : name[i] = eq => name[i + 1] = eq
  BY Zenon DEF IsAttributeName
<1>2. m \in Nat /\ m # 0 /\ n \in Nat /\ DOMAIN name = 1..m
  <2>1. name \in Text /\ name # <<>>
    BY <1>1
  <2>2. QED
    BY <2>1
<1>3. \A i \in 1..m : name[i] # sp
  BY <1>1, <1>2, Zenon DEF Lacks
<1>4. o + m <= n /\ \A i \in 1..m : text[o + i] = name[i]
  BY Zenon DEF At
<1>5. o + m = n \/ (o + m + 1 < n /\ text[o + m + 1] = eq /\ text[o + m + 2] \notin {sp, eq})
  BY Zenon DEF NameEnds
<1>6. \A j : IsEndOfAttributeName(j) <=> text[j] = sp \/ (text[j] = eq /\ j < n /\ text[j + 1] \notin {sp, eq})
  BY Zenon DEF IsEndOfAttributeName
<1> HIDE DEF eq, sp, m, n
<1>7. e \in o + 1..n + 1
  BY <1>2, <1>4
<1>8. ASSUME NEW j \in o + 1..e - 1
      PROVE  ~IsEndOfAttributeName(j)
  <2> DEFINE i == j - o
  <2>1. i \in 1..m /\ j = o + i
    BY <1>2
  <2>2. text[j] = name[i] /\ text[j] # sp
    BY <1>3, <1>4, <2>1
  <2>3. ASSUME text[j] = eq
        PROVE  j = n \/ text[j + 1] = eq
    <3>1. CASE i < m
      <4>1. i \in 1..m - 1 /\ i + 1 \in 1..m /\ j + 1 = o + (i + 1)
        BY <1>2, <2>1, <3>1
      <4>2. name[i + 1] = eq
        BY <1>1, <2>2, <2>3, <4>1
      <4>3. QED
        BY <1>4, <4>1, <4>2
    <3>2. CASE ~(i < m)
      <4>1. j = o + m
        BY <1>2, <2>1, <3>2
      <4>2. QED
        BY <1>5, <4>1
    <3>3. QED
      BY <3>1, <3>2
  <2>4. n \in Int /\ (j = n => ~(j < n))
    BY <1>2
  <2>5. QED
    BY <1>6, <2>2, <2>3, <2>4, Zenon
<1>9. IsEndOfAttributeName(e) \/ e = n + 1
  <2>1. CASE o + m = n
    BY <2>1
  <2>2. CASE o + m # n
    <3>1. e < n /\ text[e] = eq /\ text[e + 1] \notin {sp, eq}
      <4>1. e + 1 = o + m + 2
        BY <1>2
      <4>2. QED
        BY <1>5, <2>2, <4>1, Zenon
    <3>2. QED
      BY <1>6, <3>1, Zenon
  <2>3. QED
    BY <2>1, <2>2
<1>10. e \in S \/ e = n + 1
  BY <1>2, <1>7, <1>9
<1>11. \A j \in o + 1..e - 1 : j \notin S
  BY <1>8
<1>12. First(S, n) = e
  <2>1. S \subseteq o + 1..n /\ o + 1 \in Nat
    OBVIOUS
  <2> HIDE DEF S, e
  <2>2. QED
    BY <1>2, <1>7, <1>10, <1>11, <2>1, FirstAt, Zenon
<1>13. EndFrom(o + 1) = e
  BY <1>12, Zenon DEF EndFrom, S, n
<1>14. SubSeq(text, o + 1, o + m) = name
  BY <1>1, AtIs, Zenon DEF m
<1>15. o + 1 <= n /\ text[o + 1] # sp
  BY <1>2, <1>3, <1>4
<1>16. QED
  BY <1>13, <1>14, <1>15, Zenon DEF IsNameAt, m, n, sp

\* A value, and what may follow it.
ValueText(v) == IF IsBare(v) THEN v ELSE Quoted(v)
Behind(p) == p = Len(text) \/ (p + 1 <= Len(text) /\ text[p + 1] \in {" ", ","})
IsValueAt(o, v, e) == ValueFrom(o + 1) = [value |-> v, next |-> e]

QuotedText(v) == Escaping(v)[Len(v)]

\* The parts of a quoted value.
LEMMA QuotedIs ==
  ASSUME NEW v \in Text
  PROVE  /\ QuotedText(v) \in Text
         /\ Quoted(v) = <<Quote>> \o QuotedText(v) \o <<Quote>>
         /\ Quoted(v) \in Text /\ Len(Quoted(v)) = Len(QuotedText(v)) + 2
<1> DEFINE x == QuotedText(v)
           w == <<Quote>> \o x
           r == w \o <<Quote>>
<1>1. x \in Text
  <2>1. Len(v) \in 0..Len(v)
    OBVIOUS
  <2>2. QED
    BY <2>1, EscapingTurns, Zenon DEF QuotedText
<1>2. Quoted(v) = r
  BY Zenon DEF Quoted, QuotedText, Quote
<1>3. <<Quote>> \in Text /\ Len(<<Quote>>) = 1
  BY QuotesAre
<1> HIDE DEF x
<1>4. w \in Text /\ Len(w) = 1 + Len(x)
  BY <1>1, <1>3
<1> HIDE DEF w
<1>5. r \in Text /\ Len(r) = Len(w) + 1
  BY <1>3, <1>4
<1>6. Len(r) = Len(x) + 2
  <2>1. Len(x) \in Nat
    BY <1>1
  <2> HIDE DEF r
  <2>2. QED
    BY <1>4, <1>5, <2>1
<1>7. QED
  BY <1>1, <1>2, <1>5, <1>6, Zenon DEF r, w, x

\* A bare value that stands behind "=" is read whole.
LEMMA BareRead ==
  ASSUME text \in Text, NEW o \in Nat, NEW v \in Text, IsBare(v), o + 1 <= Len(text), text[o + 1] = "=",
         At(o + 1, v), Behind(o + 1 + Len(v))
  PROVE  IsValueAt(o, v, o + 1 + Len(v) + 1) /\ text[o + 2] \notin {" ", "="} /\ Len(v) > 0
<1> DEFINE m == Len(v)
           n == Len(text)
           p == o + 2
           e == o + 1 + m + 1
           S == {j \in p..n : text[j] \in {" ", ","}}
           sp == " "
           co == ","
           eq == "="
<1>1. /\ v # <<>> /\ v[1] # eq
      /\ \A i \in DOMAIN v : v[i] # Quote /\ v[i] # sp /\ v[i] # co
  BY Zenon DEF IsBare, Lacks, Quote
<1>2. m \in Nat /\ n \in Nat /\ DOMAIN v = 1..m
  OBVIOUS
<1>3. m # 0
  <2>1. v \in Text /\ v # <<>>
    BY <1>1, Zenon
  <2>2. QED
    BY <2>1
<1>4. o + 1 + m <= n /\ \A i \in 1..m : text[o + 1 + i] = v[i]
  BY Zenon DEF At
<1>5. o + 1 + m = n \/ (e <= n /\ text[e] \in {sp, co})
  BY Zenon DEF Behind
<1>6. text[p] = v[1] /\ p <= n /\ p = o + 1 + 1 /\ p \in Nat /\ o + 1 < n
  <2>1. 1 \in 1..m /\ o + 1 + 1 = p
    BY <1>2, <1>3
  <2>2. text[p] = v[1]
    BY <1>4, <2>1, Zenon
  <2> HIDE DEF m, n
  <2>3. QED
    BY <1>2, <1>3, <1>4, <2>2
<1>7. text[p] # Quote /\ text[p] # sp /\ text[p] # eq
  <2>1. 1 \in DOMAIN v
    BY <1>2, <1>3
  <2>2. QED
    BY <1>1, <1>6, <2>1, Zenon
<1>8. ValueFrom(o + 1) = BareFrom(p)
  <2>1. ~(o + 1 > n) /\ text[o + 1] = eq
    BY <1>2
  <2>2. ValueFrom(o + 1) = IF o + 1 > n \/ text[o + 1] # eq THEN [value |-> <<>>, next |-> o + 1]
                           ELSE IF o + 1 < n /\ text[o + 1 + 1] = Quote THEN QuotedFrom[o + 1 + 2]
                           ELSE BareFrom(o + 1 + 1)
    BY Zenon DEF ValueFrom, Quote
  <2>3. QED
    BY <1>6, <1>7, <2>1, <2>2, Zenon
<1> HIDE DEF m, n, sp, co, eq
<1>9. BareEnd(p) = e
  <2>1. e \in p..n + 1 /\ (e \in S \/ e = n + 1)
    <3>1. e \in p..n + 1
      BY <1>2, <1>3, <1>4
    <3>2. CASE o + 1 + m = n
      BY <3>1, <3>2
    <3>3. CASE o + 1 + m # n
      <4>1. e \in p..n /\ text[e] \in {sp, co}
        BY <1>2, <1>5, <3>1, <3>3
      <4>2. e \in S
        BY <4>1, Zenon DEF sp, co
      <4>3. QED
        BY <3>1, <4>2
    <3>4. QED
      BY <3>2, <3>3
  <2>2. \A j \in p..e - 1 : j \notin S
    <3> SUFFICES ASSUME NEW j \in p..e - 1
                 PROVE  text[j] # sp /\ text[j] # co
      BY Zenon DEF sp, co
    <3> DEFINE i == j - (o + 1)
    <3>1. i \in 1..m /\ j = o + 1 + i
      BY <1>2
    <3> HIDE DEF i
    <3>2. text[j] = v[i] /\ i \in DOMAIN v
      BY <1>2, <1>4, <3>1
    <3>3. QED
      BY <1>1, <3>2, Zenon
  <2>3. S \subseteq p..n
    OBVIOUS
  <2> HIDE DEF S, e
  <2>4. First(S, n) = e
    BY <1>2, <1>6, <2>1, <2>2, <2>3, FirstAt, Zenon
  <2>5. QED
    BY <2>4, Zenon DEF BareEnd, S, n
<1>10. SubSeq(text, p, e - 1) = v
  <2>1. o + 1 \in Nat
    OBVIOUS
  <2>2. SubSeq(text, o + 1 + 1, o + 1 + m) = v
    BY <2>1, AtIs, Zenon DEF m
  <2>3. e - 1 = o + 1 + m
    BY <1>2
  <2>4. QED
    BY <1>6, <2>2, <2>3, Zenon
<1>11. BareFrom(p) = [value |-> SubSeq(text, p, BareEnd(p) - 1), next |-> BareEnd(p)]
  BY UpToIs, Zenon DEF BareFrom
<1>12. ValueFrom(o + 1) = [value |-> v, next |-> e]
  BY <1>8, <1>9, <1>10, <1>11, Zenon
<1>13. m > 0
  BY <1>2, <1>3
<1>14. QED
  BY <1>7, <1>12, <1>13, Zenon DEF IsValueAt, m, sp, eq

\* A quoted value that stands behind "=" is read as what was quoted.
LEMMA QuotedValueRead ==
  ASSUME text \in Text, NEW o \in Nat, NEW v \in Text, o + 1 <= Len(text), text[o + 1] = "=", At(o + 1, Quoted(v))
  PROVE  IsValueAt(o, v, o + 1 + Len(Quoted(v)) + 1) /\ text[o + 2] = Quote /\ Len(Quoted(v)) > 0
<1> DEFINE x == QuotedText(v)
           m == Len(x)
           n == Len(text)
           p == o + 2
           eq == "="
<1>1. x \in Text /\ Quoted(v) = <<Quote>> \o x \o <<Quote>> /\ Len(Quoted(v)) = m + 2
  BY QuotedIs, Zenon
<1>2. m \in Nat /\ n \in Nat /\ p \in Nat /\ o + 1 \in Nat /\ o + 1 + 1 = p /\ <<Quote>> \in Text /\ Len(<<Quote>>) = 1
      /\ ~(o + 1 > n)
  BY <1>1, QuotesAre
<1>3. At(o + 1, <<Quote>> \o x) /\ At(o + 1 + Len(<<Quote>> \o x), <<Quote>>)
  <2> DEFINE w == <<Quote>> \o x
  <2>1. w \in Text /\ At(o + 1, w \o <<Quote>>)
    BY <1>1, <1>2, Both, Zenon
  <2> HIDE DEF w
  <2>2. At(o + 1, w) /\ At(o + 1 + Len(w), <<Quote>>)
    BY <1>2, <2>1, AtBoth, Zenon
  <2>3. QED
    BY <2>2, Zenon DEF w
<1>4. At(o + 1, <<Quote>>) /\ At(o + 1 + 1, x)
  <2>1. At(o + 1, <<Quote>>) /\ At(o + 1 + Len(<<Quote>>), x)
    BY <1>1, <1>2, <1>3, AtBoth, Zenon
  <2>2. QED
    BY <1>2, <2>1, Zenon
<1>5. Len(<<Quote>> \o x) = 1 + m
  <2> HIDE DEF x
  <2>1. Len(<<Quote>> \o x) = Len(<<Quote>>) + Len(x)
    BY <1>1, <1>2
  <2>2. QED
    BY <1>2, <2>1, Zenon
<1>6. At(p, x) /\ At(p + m, <<Quote>>)
  <2>1. o + 1 + (1 + m) = p + m
    BY <1>2
  <2>2. QED
    BY <1>2, <1>3, <1>4, <1>5, <2>1, Zenon
<1>7. IsQuotedAt(p, v, p + m + 2)
  BY <1>2, <1>6, QuotedRead, Zenon DEF QuotedText
<1>8. p <= n /\ text[p] = Quote
  BY <1>2, <1>4, AtOne, Zenon
<1>9. ValueFrom(o + 1) = IF o + 1 > n \/ text[o + 1] # eq THEN [value |-> <<>>, next |-> o + 1]
                         ELSE IF o + 1 < n /\ text[o + 1 + 1] = Quote THEN QuotedFrom[o + 1 + 2]
                         ELSE BareFrom(o + 1 + 1)
  BY Zenon DEF ValueFrom, Quote
<1>10. o + 1 < n /\ o + 1 + 2 = p + 1 /\ p + m + 2 = o + 1 + (m + 2) + 1 /\ m + 2 > 0
  <2> HIDE DEF m, n
  <2>1. QED
    BY <1>2, <1>8
<1>11. ValueFrom(o + 1) = QuotedFrom[p + 1]
  BY <1>2, <1>8, <1>9, <1>10, Zenon
<1>12. IsValueAt(o, v, p + m + 2)
  BY <1>7, <1>11, Zenon DEF IsValueAt, IsQuotedAt
<1>13. QED
  BY <1>1, <1>8, <1>10, <1>12, Zenon

\* An attribute stands behind o up to e: a name and a value, or at the end a name alone.
Stands(o, a, e) ==
  \/ At(o, AttributeText(a)) /\ e = o + Len(AttributeText(a)) /\ Behind(e)
  \/ At(o, a[1]) /\ a[2] = <<>> /\ e = o + Len(a[1]) /\ e = Len(text)

\* A turn from o reads this attribute and ends behind it.
IsTurnOf(o, a, e) ==
  /\ o + 1 <= Len(text) /\ text[o + 1] # " " /\ e \in o + 1..Len(text)
  /\ SubSeq(text, o + 1, EndFrom(o + 1) - 1) = a[1]
  /\ ValueFrom(EndFrom(o + 1)).value = a[2]
  /\ ValueFrom(EndFrom(o + 1)).next = e + 1

\* The parts of an attribute that is written.
LEMMA AttributeTextIs ==
  ASSUME NEW a \in Text \X Text
  PROVE  /\ ValueText(a[2]) \in Text /\ Len(ValueText(a[2])) \in Nat /\ Len(a[1]) \in Nat
         /\ AttributeText(a) = a[1] \o <<"=">> \o ValueText(a[2])
         /\ AttributeText(a) \in Text
         /\ Len(AttributeText(a)) = Len(a[1]) + 1 + Len(ValueText(a[2]))
<1> DEFINE c == "="
           k == a[1]
           v == a[2]
           w == ValueText(v)
           s == k \o <<c>> \o w
<1>1. k \in Text /\ v \in Text /\ c \in Tokens
  BY NamesAreTokens
<1>2. w \in Text
  BY <1>1, QuotedIs, Zenon DEF ValueText
<1>3. AttributeText(a) = s
  BY Zenon DEF AttributeText, ValueText
<1> HIDE DEF c, k, v, w
<1>4. s \in Text /\ Len(s) = Len(k) + 1 + Len(w) /\ Len(k) \in Nat /\ Len(w) \in Nat
  <2>1. s = k \o <<c>> \o w
    OBVIOUS
  <2> HIDE DEF s
  <2>2. QED
    BY <1>1, <1>2, <2>1, Between
<1>5. QED
  BY <1>2, <1>3, <1>4, Zenon DEF s, k, v, w, c

\* A name with a value.
LEMMA WholeRead ==
  ASSUME text \in Text, NEW o \in Nat, NEW a \in Text \X Text, IsAttributeName(a[1]),
         At(o, AttributeText(a)), Behind(o + Len(AttributeText(a)))
  PROVE  IsTurnOf(o, a, o + Len(AttributeText(a)))
<1> DEFINE c == "="
           k == a[1]
           v == a[2]
           w == ValueText(v)
           m == Len(k)
           l == Len(w)
           n == Len(text)
           p == o + m
           e == o + Len(AttributeText(a))
<1>1. k \in Text /\ v \in Text /\ c \in Tokens /\ <<c>> \in Text /\ Len(<<c>>) = 1
  BY NamesAreTokens
<1>2. /\ w \in Text /\ l \in Nat /\ m \in Nat
      /\ AttributeText(a) = k \o <<c>> \o w
      /\ Len(AttributeText(a)) = m + 1 + l
  BY AttributeTextIs, Zenon
<1>3. p \in Nat /\ n \in Nat /\ p + 1 \in Nat
  <2> HIDE DEF m
  <2>1. QED
    BY <1>2
<1>4. At(o, k) /\ At(p, <<c>>) /\ At(p + 1, w)
  <2> DEFINE x == k \o <<c>>
  <2>1. x \in Text /\ Len(x) = m + 1
    <3> HIDE DEF c, k
    <3>1. QED
      BY <1>1
  <2>2. At(o, x \o w)
    BY <1>2, Zenon
  <2>3. At(o, x) /\ At(o + Len(x), w)
    <3> HIDE DEF x
    <3>1. QED
      BY <1>2, <2>1, <2>2, AtBoth, Zenon
  <2>4. At(o, k) /\ At(p, <<c>>)
    BY <1>1, <2>3, AtBoth, Zenon
  <2>5. o + (m + 1) = p + 1
    <3> HIDE DEF m
    <3>1. QED
      BY <1>2
  <2>6. QED
    BY <2>1, <2>3, <2>4, <2>5, Zenon
<1>5. p + 1 <= n /\ text[p + 1] = c
  BY <1>3, <1>4, AtOne, Zenon
<1>6. e = p + 1 + l
  <2> HIDE DEF m, l
  <2>1. o + (m + 1 + l) = o + m + 1 + l
    BY <1>2
  <2>2. QED
    BY <1>2, <2>1, Zenon
<1>7. Behind(p + 1 + l)
  BY <1>6, Zenon
<1>8. IsValueAt(p, v, p + 1 + l + 1) /\ text[p + 2] \notin {" ", c} /\ l > 0
  <2>1. CASE IsBare(v)
    <3>1. w = v
      BY <2>1, Zenon DEF ValueText
    <3>2. At(p + 1, v) /\ Behind(p + 1 + Len(v))
      BY <1>4, <1>7, <3>1, Zenon
    <3>3. IsValueAt(p, v, p + 1 + Len(v) + 1) /\ text[p + 2] \notin {" ", "="} /\ Len(v) > 0
      BY <1>1, <1>3, <1>5, <2>1, <3>2, BareRead, Zenon
    <3>4. QED
      BY <3>1, <3>3, Zenon
  <2>2. CASE ~IsBare(v)
    <3>1. w = Quoted(v)
      BY <2>2, Zenon DEF ValueText
    <3>2. At(p + 1, Quoted(v))
      BY <1>4, <3>1, Zenon
    <3>3. IsValueAt(p, v, p + 1 + Len(Quoted(v)) + 1) /\ text[p + 2] = Quote /\ Len(Quoted(v)) > 0
      BY <1>1, <1>3, <1>5, <3>2, QuotedValueRead, Zenon
    <3>4. Quote # " " /\ Quote # "="
      BY Zenon DEF Quote
    <3>5. QED
      BY <3>1, <3>3, <3>4, Zenon
  <2>3. QED
    BY <2>1, <2>2
<1>9. p + 1 + l <= n
  BY <1>4, Zenon DEF At
<1>10. p + 1 < n
  <2> HIDE DEF p, l, n
  <2>1. l > 0
    BY <1>8
  <2>2. QED
    BY <1>2, <1>3, <1>9, <2>1
<1>11. NameEnds(p)
  BY <1>5, <1>8, <1>10, Zenon DEF NameEnds
<1>12. IsNameAt(o, k)
  BY <1>4, <1>11, NameRead, Zenon
<1>13. o + 1 <= n /\ text[o + 1] # " " /\ EndFrom(o + 1) = p + 1 /\ SubSeq(text, o + 1, p) = k
  BY <1>12, Zenon DEF IsNameAt
<1>14. p + 1 - 1 = p /\ e \in o + 1..n
  <2> HIDE DEF m, l, n, e
  <2>1. QED
    BY <1>2, <1>3, <1>6, <1>9
<1>15. ValueFrom(p + 1) = [value |-> v, next |-> e + 1]
  BY <1>6, <1>8, Zenon DEF IsValueAt
<1>16. ValueFrom(p + 1).value = v /\ ValueFrom(p + 1).next = e + 1
  <2> DEFINE r == ValueFrom(p + 1)
             f == e + 1
  <2>1. r = [value |-> v, next |-> f]
    BY <1>15
  <2> HIDE DEF r, f, v
  <2>2. r.value = v /\ r.next = f
    BY <2>1
  <2>3. QED
    BY <2>2, Zenon DEF r, f
<1>17. EndFrom(o + 1) - 1 = p /\ e \in o + 1..n
  <2> DEFINE f == EndFrom(o + 1)
  <2>1. f = p + 1 /\ p \in Nat
    BY <1>3, <1>13, Zenon
  <2> HIDE DEF f, p
  <2>2. f - 1 = p
    BY <2>1
  <2>3. QED
    BY <1>14, <2>2, Zenon DEF f
<1>18. /\ SubSeq(text, o + 1, EndFrom(o + 1) - 1) = k
       /\ ValueFrom(EndFrom(o + 1)).value = v
       /\ ValueFrom(EndFrom(o + 1)).next = e + 1
  <2> HIDE DEF p, k, v, e
  <2>1. QED
    BY <1>13, <1>16, <1>17, Zenon
<1>19. QED
  BY <1>13, <1>17, <1>18, Zenon DEF IsTurnOf

\* A name alone.
LEMMA NameAloneRead ==
  ASSUME text \in Text, NEW o \in Nat, NEW a, IsAttributeName(a[1]), At(o, a[1]), a[2] = <<>>,
         o + Len(a[1]) = Len(text)
  PROVE  IsTurnOf(o, a, Len(text))
<1> DEFINE k == a[1]
           n == Len(text)
<1>1. NameEnds(o + Len(k))
  BY Zenon DEF NameEnds
<1>2. IsNameAt(o, k)
  BY <1>1, NameRead, Zenon
<1>3. o + 1 <= n /\ text[o + 1] # " " /\ EndFrom(o + 1) = n + 1 /\ SubSeq(text, o + 1, n) = k
  BY <1>2, Zenon DEF IsNameAt
<1>4. n \in Nat /\ n + 1 > n /\ n + 1 - 1 = n
  OBVIOUS
<1>5. ValueFrom(n + 1) = [value |-> <<>>, next |-> n + 1]
  BY <1>4, Zenon DEF ValueFrom
<1> DEFINE r == ValueFrom(n + 1)
<1>6. r.value = <<>> /\ r.next = n + 1
  <2> HIDE DEF r
  <2>1. r = [value |-> <<>>, next |-> n + 1]
    BY <1>5 DEF r
  <2> HIDE DEF n
  <2>2. QED
    BY <2>1
<1>7. n \in o + 1..n
  <2>1. o + 1 <= n /\ n \in Nat
    BY <1>3, <1>4, Zenon
  <2> HIDE DEF n
  <2>2. QED
    BY <2>1
<1>8. EndFrom(o + 1) - 1 = n
  <2> DEFINE f == EndFrom(o + 1)
  <2>1. f = n + 1 /\ n \in Nat
    BY <1>3, <1>4, Zenon
  <2> HIDE DEF f, n
  <2>2. f - 1 = n
    BY <2>1
  <2>3. QED
    BY <2>2, Zenon DEF f
<1>9. /\ SubSeq(text, o + 1, EndFrom(o + 1) - 1) = k
      /\ ValueFrom(EndFrom(o + 1)).value = <<>>
      /\ ValueFrom(EndFrom(o + 1)).next = n + 1
  <2> HIDE DEF n, k
  <2>1. QED
    BY <1>3, <1>6, <1>8, Zenon DEF r
<1>10. QED
  BY <1>3, <1>7, <1>9, Zenon DEF IsTurnOf

\* An attribute that stands in the text is what a turn from there reads, and the turn ends
\* behind it.
LEMMA AttributeRead ==
  ASSUME text \in Text, NEW o \in Nat, NEW a \in Text \X Text, IsAttributeName(a[1]), NEW e, Stands(o, a, e)
  PROVE  IsTurnOf(o, a, e)
<1>1. CASE At(o, AttributeText(a)) /\ e = o + Len(AttributeText(a)) /\ Behind(e)
  BY <1>1, WholeRead, Zenon
<1>2. CASE At(o, a[1]) /\ a[2] = <<>> /\ e = o + Len(a[1]) /\ e = Len(text)
  BY <1>2, NameAloneRead, Zenon
<1>3. QED
  BY <1>1, <1>2 DEF Stands

\* Behind an attribute that ends at e the next one begins.
Follows(e, o) ==
  \/ o = e + 2 /\ text[e + 1] = "," /\ text[e + 2] = " "
  \/ o = e + 1 /\ text[e + 1] = " "

\* The first m attributes stand in the text, each behind its offs and up to its ends.
Laid(list, offs, ends, m) ==
  /\ \A k \in 1..m : offs[k] \in Nat /\ ends[k] \in Nat /\ Stands(offs[k], list[k], ends[k])
  /\ m > 0 => offs[1] = 0
  /\ \A k \in 2..m : Follows(ends[k - 1], offs[k])

\* Where each attribute of a list stands: from offs to ends, a gap between them.
Placed(list, offs, ends) ==
  /\ Laid(list, offs, ends, Len(list))
  /\ Len(text) = IF Len(list) = 0 THEN 0 ELSE ends[Len(list)]

\* Where the loop is behind the first k.
LoopAt(ends, k) == IF k = 0 THEN 1 ELSE NextPos(ends[k] + 1)

\* The token at a position is a space.
IsSpace(j) == text[j] = " "
\* Nothing but spaces stands at these positions.
Spaces(p, o) == \A j \in p..o : text[j] = " "

\* A turn skips the spaces before an attribute.
LEMMA StartAt ==
  ASSUME text \in Text, NEW p \in Nat, NEW o \in Nat, p <= o + 1, o + 1 <= Len(text), ~IsSpace(o + 1), Spaces(p, o)
  PROVE  StartFrom(p) = o + 1
<1> DEFINE n == Len(text)
           S == {j \in p..n : text[j] # " "}
           e == o + 1
           b == " "
<1>1. n \in Nat
  OBVIOUS
<1>2. e <= n /\ p <= e /\ text[e] # b /\ \A j \in p..o : text[j] = b
  BY Zenon DEF Spaces, IsSpace
<1> HIDE DEF b, n
<1>3. e \in p..n + 1 /\ e \in p..n /\ e - 1 = o
  BY <1>1, <1>2
<1> HIDE DEF e
<1>4. S \subseteq p..n
  BY Zenon
<1>5. e \in S /\ \A j \in p..e - 1 : j \notin S
  BY <1>2, <1>3, Zenon DEF b
<1> HIDE DEF S
<1>6. First(S, n) = e
  BY <1>1, <1>3, <1>4, <1>5, FirstAt, Zenon
<1>7. QED
  BY <1>6, Zenon DEF StartFrom, S, n, e, b

\* Behind the text no attribute begins.
LEMMA StartBehind ==
  ASSUME text \in Text
  PROVE  StartFrom(Len(text) + 1) > Len(text)
<1> DEFINE n == Len(text)
           p == n + 1
<1>1. n \in Nat /\ p \in 1..n + 1
  OBVIOUS
<1>2. StartFrom(p) \in p..n + 1
  BY <1>1, StartIs, Zenon
<1> HIDE DEF n
<1>3. StartFrom(p) > n
  BY <1>1, <1>2
<1>4. QED
  BY <1>3, Zenon DEF n

\* Behind the last attribute nothing is left.
LEMMA LoopEnds ==
  ASSUME text \in Text, NEW list \in Pairs, NEW offs, NEW ends, Placed(list, offs, ends)
  PROVE  StartFrom(LoopAt(ends, Len(list))) > Len(text)
<1> DEFINE n == Len(text)
           m == Len(list)
<1>1. n \in Nat /\ m \in Nat
  BY DEF Pairs
<1>2. n = IF m = 0 THEN 0 ELSE ends[m]
  BY Zenon DEF Placed
<1>3. LoopAt(ends, m) = n + 1
  <2>1. CASE m = 0
    <3>1. n = 0
      BY <1>2, <2>1, Zenon
    <3>2. n + 1 = 1
      BY <3>1
    <3>3. QED
      BY <2>1, <3>2, Zenon DEF LoopAt
  <2>2. CASE m # 0
    <3>1. LoopAt(ends, m) = NextPos(n + 1)
      BY <1>2, <2>2, Zenon DEF LoopAt
    <3>2. ~(n + 1 <= n)
      BY <1>1
    <3>3. NextPos(n + 1) = n + 1
      BY <3>2, Zenon DEF NextPos
    <3>4. QED
      BY <3>1, <3>3, Zenon
  <2>3. QED
    BY <2>1, <2>2
<1>4. StartFrom(n + 1) > n
  BY StartBehind, Zenon
<1>5. QED
  BY <1>3, <1>4, Zenon

\* The loop goes on to the next attribute.
LEMMA LoopGoesOn ==
  ASSUME text \in Text, NEW list \in Pairs, NEW offs, NEW ends, Laid(list, offs, ends, Len(list)),
         NEW k \in 0..Len(list) - 1, \A i \in 1..Len(list) : IsAttributeName(list[i][1])
  PROVE  /\ IsTurnOf(offs[k + 1], list[k + 1], ends[k + 1])
         /\ StartFrom(LoopAt(ends, k)) = offs[k + 1] + 1
<1> DEFINE n == Len(text)
           m == Len(list)
           q == k + 1
           o == offs[q]
           e == ends[k]
           c == ","
           b == " "
<1>1. /\ n \in Nat /\ m \in Nat /\ q \in 1..m /\ k \in Nat /\ list[q] \in Text \X Text
      /\ (k # 0 => k \in 1..m /\ q \in 2..m /\ q - 1 = k) /\ m > 0 /\ (k = 0 => q = 1)
  <2>1. list \in Seq(Text \X Text)
    BY DEF Pairs
  <2>2. m \in Nat /\ k \in 0..m - 1
    BY <2>1
  <2> HIDE DEF m
  <2>3. q \in 1..m /\ k \in Nat /\ (k # 0 => k \in 1..m /\ q \in 2..m /\ q - 1 = k) /\ m > 0
        /\ (k = 0 => q = 1)
    BY <2>2
  <2> HIDE DEF q
  <2>4. list[q] \in Text \X Text
    BY <2>1, <2>3, ElementOfSeq DEF m
  <2>5. QED
    BY <2>2, <2>3, <2>4
<1> HIDE DEF q
<1>2. o \in Nat /\ ends[q] \in Nat /\ Stands(o, list[q], ends[q]) /\ IsAttributeName(list[q][1])
  BY <1>1, Zenon DEF Laid
<1>3. IsTurnOf(o, list[q], ends[q])
  <2> DEFINE a == list[q]
  <2> HIDE DEF a, o
  <2>1. a \in Text \X Text /\ IsAttributeName(a[1]) /\ o \in Nat /\ Stands(o, a, ends[q])
    BY <1>1, <1>2, Zenon DEF a
  <2>2. IsTurnOf(o, a, ends[q])
    BY <2>1, AttributeRead, Zenon
  <2>3. QED
    BY <2>2, Zenon DEF a
<1>4. o + 1 <= n /\ text[o + 1] # b
  BY <1>3, Zenon DEF IsTurnOf
<1>5. StartFrom(LoopAt(ends, k)) = o + 1
  <2>1. CASE k = 0
    <3>1. o = 0 /\ LoopAt(ends, k) = 1
      BY <1>1, <2>1, Zenon DEF Laid, LoopAt
    <3>2. 1 \in Nat /\ 1 <= o + 1 /\ \A j \in 1..o : j # j
      BY <3>1
    <3>3. Spaces(1, o)
      BY <3>2, Zenon DEF Spaces
    <3>4. StartFrom(1) = o + 1
      BY <1>2, <1>4, <3>2, <3>3, StartAt, Zenon DEF IsSpace
    <3>5. QED
      BY <3>1, <3>4, Zenon
  <2>2. CASE k # 0
    <3>1. LoopAt(ends, k) = NextPos(e + 1) /\ e \in Nat /\ Follows(e, o)
      <4>1. q \in 2..m /\ q - 1 = k /\ k \in 1..m
        BY <1>1, <2>2, Zenon
      <4>2. Follows(ends[q - 1], offs[q]) /\ e \in Nat
        BY <4>1, Zenon DEF Laid
      <4>3. Follows(e, o)
        BY <4>1, <4>2, Zenon
      <4>4. QED
        BY <2>2, <4>2, <4>3, Zenon DEF LoopAt
    <3> HIDE DEF o, e, n
    <3>2. NextPos(e + 1) = IF e + 1 <= n /\ text[e + 1] = c THEN e + 1 + 1 ELSE e + 1
      BY Zenon DEF NextPos, n
    <3>3. CASE o = e + 2 /\ text[e + 1] = c /\ text[e + 2] = b
      <4>1. o = e + 2 /\ e \in Nat /\ n \in Nat /\ o + 1 <= n
        BY <1>1, <1>4, <3>1, <3>3, Zenon
      <4>2. e + 1 <= n /\ e + 1 + 1 = o /\ e + 2 = o /\ o <= o + 1 /\ o \in Nat /\ \A j \in o..o : j = o
        BY <4>1
      <4>3. NextPos(e + 1) = o
        BY <3>2, <3>3, <4>2, Zenon
      <4>4. Spaces(o, o)
        BY <3>3, <4>2, Zenon DEF Spaces
      <4>5. StartFrom(o) = o + 1
        BY <1>4, <4>2, <4>4, StartAt, Zenon DEF n, IsSpace
      <4>6. QED
        BY <3>1, <4>3, <4>5, Zenon
    <3>4. CASE o = e + 1 /\ text[e + 1] = b
      <4>1. o = e + 1 /\ e \in Nat
        BY <3>1, <3>4, Zenon
      <4>2. o <= o + 1 /\ o \in Nat /\ \A j \in o..o : j = o
        BY <4>1
      <4>3. NextPos(e + 1) = o
        BY <3>2, <3>4, Zenon
      <4>4. Spaces(o, o)
        BY <3>4, <4>2, Zenon DEF Spaces
      <4>5. StartFrom(o) = o + 1
        BY <1>4, <4>2, <4>4, StartAt, Zenon DEF n, IsSpace
      <4>6. QED
        BY <3>1, <4>3, <4>5, Zenon
    <3>5. QED
      BY <3>1, <3>3, <3>4, Zenon DEF Follows
  <2>3. QED
    BY <2>1, <2>2
<1>6. QED
  BY <1>3, <1>5, Zenon DEF q

\* The first k attributes of a list that stands in the text are read.
Progress(list, offs, ends, k) ==
  /\ Placed(list, offs, ends)
  /\ result = SubSeq(list, 1, k) /\ pos = LoopAt(ends, k) /\ (done => k = Len(list))

\* Every name of the list can be written as the name of an attribute.
Named(list) == \A i \in 1..Len(list) : IsAttributeName(list[i][1])

\* The first k attributes of the list are read, and the loop is behind the k-th.
AttributesInv ==
  job = "attributes" /\ given # <<>> =>
    \E list \in Pairs : \E offs, ends : \E k \in 0..Len(list) :
      given[1] = list /\ Named(list) /\ Progress(list, offs, ends, k)

\* One attribute more of a list.
LEMMA Prefix ==
  ASSUME NEW list \in Pairs, NEW k \in 0..Len(list) - 1
  PROVE  Append(SubSeq(list, 1, k), <<list[k + 1][1], list[k + 1][2]>>) = SubSeq(list, 1, k + 1)
<1> DEFINE P == Text \X Text
           n == Len(list)
           q == k + 1
           a == list[q]
           x == SubSeq(list, 1, k)
           y == SubSeq(list, 1, q)
           z == Append(x, a)
<1>1. list \in Seq(P) /\ n \in Nat /\ n = Len(list) /\ k \in 0..n - 1
  BY DEF Pairs
<1> HIDE DEF P, n
<1>2. /\ q \in 1..n /\ k \in Int /\ 1 \in Int /\ q \in Int /\ (IF 1 <= k THEN k - 1 + 1 ELSE 0) = k /\ k - 1 + 1 = k
      /\ (IF 1 <= q THEN q - 1 + 1 ELSE 0) = q /\ q - 1 + 1 = q /\ \A i \in 1..k : i \in 1..q /\ i \in 1..n
      /\ k \in Nat
  BY <1>1
<1>3. \A i \in 1..n : list[i] \in P
  BY <1>1, ElementOfSeq
<1>4. \A i \in 1..q : i \in 1..n /\ 1 + i - 1 = i /\ (i # q => i \in 1..k)
  BY <1>2
<1>5. a \in P
  BY <1>2, <1>3, Zenon
<1>6. a = <<a[1], a[2]>>
  <2> HIDE DEF a
  <2>1. QED
    BY <1>5 DEF P
<1> HIDE DEF q, a
<1>7. /\ x \in Seq(P) /\ Len(x) = k /\ \A i \in 1..k : x[i] = list[1 + i - 1]
  BY <1>2, <1>3, SubSeqProperties
<1>8. /\ y \in Seq(P) /\ Len(y) = q /\ \A i \in 1..q : y[i] = list[1 + i - 1]
  BY <1>2, <1>3, <1>4, SubSeqProperties
<1> HIDE DEF x
<1>9. z \in Seq(P) /\ Len(z) = k + 1 /\ (\A i \in 1..k : z[i] = x[i]) /\ z[k + 1] = a
  BY <1>5, <1>7, AppendProperties
<1> HIDE DEF y, z
<1>10. k + 1 = q /\ a = list[q]
  BY DEF q, a
<1>11. \A i \in 1..q : z[i] = y[i]
  BY <1>4, <1>7, <1>8, <1>9, <1>10
<1>12. z = y
  BY <1>8, <1>9, <1>10, <1>11, SeqEqual
<1>13. QED
  BY <1>6, <1>12, Zenon DEF x, y, z, a, q

\* A turn of the loop in a list of which k attributes are read.
LEMMA AttributesTurn ==
  ASSUME text \in Text, NextAttribute, NEW list \in Pairs, NEW offs, NEW ends, NEW k \in 0..Len(list),
         Named(list), Progress(list, offs, ends, k)
  PROVE  \E j \in 0..Len(list) :
           /\ result' = SubSeq(list, 1, j) /\ pos' = LoopAt(ends, j) /\ (done' => j = Len(list))
<1> DEFINE n == Len(list)
           s == StartFrom(pos)
           f == ValueFrom(EndFrom(s))
           q == k + 1
           a == list[q]
<1>1. Placed(list, offs, ends) /\ result = SubSeq(list, 1, k) /\ pos = LoopAt(ends, k) /\ (done => k = n)
  BY Zenon DEF Progress
<1>2. /\ job = "attributes" /\ ~done
      /\ \/ /\ s > Len(text)
            /\ done' = TRUE /\ pos' = pos /\ result' = result
         \/ /\ ~(s > Len(text))
            /\ done' = done
            /\ result' = Append(result, <<SubSeq(text, s, EndFrom(s) - 1), f.value>>)
            /\ pos' = NextPos(f.next)
  BY TurnIs, Zenon
<1>3. CASE k = n
  <2>1. s > Len(text)
    BY <1>1, <1>3, LoopEnds, Zenon
  <2>2. QED
    BY <1>1, <1>2, <1>3, <2>1, Zenon
<1>4. CASE k # n
  <2>1. k \in 0..n - 1 /\ q \in 0..n /\ q # 0
    <3>1. n \in Nat /\ k \in 0..n
      BY DEF Pairs
    <3> HIDE DEF n
    <3>2. QED
      BY <1>4, <3>1
  <2> DEFINE o == offs[q]
             e == ends[q]
  <2>2. IsTurnOf(o, a, e) /\ s = o + 1
    <3>1. Laid(list, offs, ends, n) /\ \A i \in 1..n : IsAttributeName(list[i][1])
      BY <1>1, Zenon DEF Placed, Named
    <3>2. IsTurnOf(offs[k + 1], list[k + 1], ends[k + 1]) /\ StartFrom(LoopAt(ends, k)) = offs[k + 1] + 1
      BY <2>1, <3>1, LoopGoesOn, Zenon
    <3>3. QED
      BY <1>1, <3>2, Zenon
  <2>3. /\ s <= Len(text) /\ SubSeq(text, s, EndFrom(s) - 1) = a[1]
        /\ f.value = a[2] /\ f.next = e + 1
    BY <2>2, Zenon DEF IsTurnOf
  <2>4. ~(s > Len(text))
    <3>1. s \in Int
      <4>1. o \in Nat
        <5>1. q \in 1..n
          BY <2>1
        <5>2. QED
          BY <1>1, <5>1, Zenon DEF Placed, Laid
      <4> HIDE DEF o, s
      <4>2. QED
        BY <2>2, <4>1
    <3> HIDE DEF s
    <3>2. QED
      BY <2>3, <3>1
  <2>5. result' = Append(SubSeq(list, 1, k), <<a[1], a[2]>>) /\ pos' = NextPos(e + 1) /\ done' = done
    BY <1>1, <1>2, <2>3, <2>4, Zenon
  <2>6. result' = SubSeq(list, 1, q)
    BY <2>1, <2>5, Prefix, Zenon
  <2>7. pos' = LoopAt(ends, q)
    BY <2>1, <2>5, Zenon DEF LoopAt
  <2>8. QED
    BY <1>2, <2>1, <2>5, <2>6, <2>7, Zenon
<1>5. QED
  BY <1>3, <1>4

\* Nothing but the text decides where the attributes stand.
LEMMA SameText ==
  ASSUME text' = text, NEW list, NEW offs, NEW ends, NEW k
  PROVE  (Placed(list, offs, ends)' <=> Placed(list, offs, ends)) /\ LoopAt(ends, k)' = LoopAt(ends, k)
<1>1. \A p, w : At(p, w)' <=> At(p, w)
  BY Zenon DEF At
<1>2. \A p : Behind(p)' <=> Behind(p)
  BY Zenon DEF Behind
<1>3. \A p, a, e : Stands(p, a, e)' <=> Stands(p, a, e)
  BY <1>1, <1>2, Zenon DEF Stands
<1>4. \A e, p : Follows(e, p)' <=> Follows(e, p)
  BY Zenon DEF Follows
<1>5. \A m : Laid(list, offs, ends, m)' <=> Laid(list, offs, ends, m)
  BY <1>3, <1>4, Zenon DEF Laid
<1>6. Placed(list, offs, ends)' <=> Placed(list, offs, ends)
  BY <1>5, Zenon DEF Placed
<1>7. LoopAt(ends, k)' = LoopAt(ends, k)
  BY Zenon DEF LoopAt, NextPos
<1>8. QED
  BY <1>6, <1>7

\* AttributesInv is inductive: a turn reads the next attribute of the list.
LEMMA AttributesStep == InputInv /\ AttributesInv /\ [Next]_vars => AttributesInv'
<1> SUFFICES ASSUME InputInv, AttributesInv, [Next]_vars
             PROVE  AttributesInv'
  OBVIOUS
<1>1. CASE NextAttribute
  <2>1. job = "attributes" /\ job' = job /\ given' = given /\ text' = text
    BY <1>1, TurnIs, Zenon
  <2>2. text \in Text
    BY <2>1, AttributesAre, Zenon
  <2> SUFFICES ASSUME given # <<>>
               PROVE  \E list \in Pairs : \E offs, ends : \E k \in 0..Len(list) :
                        given'[1] = list /\ Named(list) /\ Progress(list, offs, ends, k)'
    BY <2>1, Zenon DEF AttributesInv
  <2>3. PICK list \in Pairs : \E offs, ends : \E k \in 0..Len(list) :
               given[1] = list /\ Named(list) /\ Progress(list, offs, ends, k)
    BY <2>1, Zenon DEF AttributesInv
  <2>4. PICK offs, ends : \E k \in 0..Len(list) :
               given[1] = list /\ Named(list) /\ Progress(list, offs, ends, k)
    BY <2>3, Zenon
  <2>5. PICK k \in 0..Len(list) : given[1] = list /\ Named(list) /\ Progress(list, offs, ends, k)
    BY <2>4, Zenon
  <2>6. PICK j \in 0..Len(list) :
          result' = SubSeq(list, 1, j) /\ pos' = LoopAt(ends, j) /\ (done' => j = Len(list))
    BY <1>1, <2>2, <2>5, AttributesTurn, Zenon
  <2>7. Placed(list, offs, ends)' /\ LoopAt(ends, j)' = LoopAt(ends, j)
    BY <2>1, <2>5, SameText, Zenon DEF Progress
  <2>8. Progress(list, offs, ends, j)'
    BY <2>6, <2>7, Zenon DEF Progress
  <2>9. given'[1] = list
    BY <2>1, <2>5, Zenon
  <2>10. QED
    BY <2>5, <2>8, <2>9, Zenon
<1>2. CASE ReadQuery \/ ReadCookie \/ ReadName \/ ReadCode \/ ReadDate \/ ReadRequestEntry \/ CompleteRequest
  <2>1. job # "attributes" /\ job' = job
    BY <1>2 DEF ReadQuery, ReadCookie, ReadName, ReadCode, ReadDate, ReadRequestEntry, CompleteRequest, Return
  <2>2. QED
    BY <2>1, Zenon DEF AttributesInv
<1>3. CASE UNCHANGED vars \/ Returned
  <2>1. job' = job /\ given' = given /\ text' = text /\ pos' = pos /\ result' = result /\ done' = done
    BY <1>3, Zenon DEF vars, Returned
  <2>2. \A list, offs, ends, k : Progress(list, offs, ends, k) => Progress(list, offs, ends, k)'
    <3> SUFFICES ASSUME NEW list, NEW offs, NEW ends, NEW k, Progress(list, offs, ends, k)
                 PROVE  Progress(list, offs, ends, k)'
      BY Zenon
    <3>1. Placed(list, offs, ends)' /\ LoopAt(ends, k)' = LoopAt(ends, k)
      BY <2>1, SameText, Zenon DEF Progress
    <3>2. QED
      BY <2>1, <3>1, Zenon DEF Progress
  <2>3. QED
    BY <2>1, <2>2, Zenon DEF AttributesInv
<1>4. QED
  BY <1>1, <1>2, <1>3, Zenon DEF Next

-----------------------------------------------------------------------------
(* Where the attributes of a list that is written stand                      *)

\* What separates two attributes.
Gap == <<",", " ">>

\* What stands between two attributes.
LEMMA GapIs ==
  /\ <<",">> \in Text /\ <<" ">> \in Text /\ Len(<<",">>) = 1 /\ Len(<<" ">>) = 1
  /\ Gap = <<",">> \o <<" ">> /\ Gap \in Text /\ Len(Gap) = 2
<1> DEFINE c == ","
           b == " "
<1>1. c \in Tokens /\ b \in Tokens
  BY TokensAre, Zenon
<1>2. Gap = <<c, b>>
  BY DEF Gap
<1> HIDE DEF c, b
<1>3. <<c, b>> = <<c>> \o <<b>> /\ <<c>> \in Text /\ <<b>> \in Text /\ <<c, b>> \in Text
  BY <1>1, TwoTokens, Zenon
<1>4. Len(<<c>>) = 1 /\ Len(<<b>>) = 1 /\ Len(<<c, b>>) = 2
  OBVIOUS
<1>5. QED
  BY <1>2, <1>3, <1>4, Zenon DEF c, b

\* The length of a concatenation.
LEMMA Lengths ==
  ASSUME NEW a \in Text, NEW b \in Text
  PROVE  a \o b \in Text /\ Len(a \o b) = Len(a) + Len(b) /\ Len(a) \in Nat /\ Len(b) \in Nat
OBVIOUS

\* Two pieces that are joined.
IsGapAt(w, t) ==
  /\ At(0, w) /\ At(Len(w) + 2, t)
  /\ Follows(Len(w), Len(w) + 2) /\ Behind(Len(w))
  /\ Len(w \o Gap \o t) = Len(w) + 2 + Len(t)

\* A comma and a space stand between what is before and behind a gap.
LEMMA GapStands ==
  ASSUME text \in Text, NEW w \in Text, NEW t \in Text, At(0, w \o Gap \o t)
  PROVE  IsGapAt(w, t)
<1> DEFINE l == Len(w)
           x == w \o Gap
           y == x \o t
           n == Len(text)
<1>1. /\ Gap \in Text /\ Len(Gap) = 2 /\ Gap = <<",">> \o <<" ">> /\ <<",">> \in Text /\ <<" ">> \in Text
      /\ Len(<<",">>) = 1
  BY GapIs, Zenon
<1>2. x \in Text /\ Len(x) = l + 2 /\ l \in Nat /\ Len(t) \in Nat /\ n \in Nat
  <2>1. x \in Text /\ Len(x) = l + Len(Gap) /\ l \in Nat
    BY <1>1, Lengths, Zenon
  <2>2. n \in Nat /\ Len(t) \in Nat
    OBVIOUS
  <2>3. QED
    BY <1>1, <2>1, <2>2, Zenon
<1>3. Len(y) = l + 2 + Len(t)
  <2>1. Len(y) = Len(x) + Len(t)
    BY <1>2, Lengths, Zenon
  <2>2. QED
    BY <1>2, <2>1, Zenon
<1>4. At(0, x) /\ At(0 + Len(x), t)
  <2>1. At(0, x \o t) /\ 0 \in Nat
    BY Zenon
  <2> HIDE DEF x
  <2>2. QED
    BY <1>2, <2>1, AtBoth, Zenon
<1>5. At(0, w) /\ At(0 + l, Gap)
  <2>1. 0 \in Nat
    OBVIOUS
  <2>2. QED
    BY <1>1, <1>4, <2>1, AtBoth, Zenon
<1>6. 0 + l = l /\ 0 + (l + 2) = l + 2 /\ l + 1 + 1 = l + 2 /\ l + 1 \in Nat
  <2> HIDE DEF l
  <2>1. QED
    BY <1>2
<1>7. At(l, Gap) /\ At(l + 2, t)
  <2>1. At(l, Gap)
    BY <1>5, <1>6, Zenon
  <2>2. At(0 + (l + 2), t)
    BY <1>2, <1>4, Zenon
  <2>3. QED
    BY <1>6, <2>1, <2>2, Zenon
<1>8. At(l, <<",">>) /\ At(l + 1, <<" ">>)
  <2>1. At(l, <<",">> \o <<" ">>)
    BY <1>1, <1>7, Zenon
  <2>2. At(l, <<",">>) /\ At(l + Len(<<",">>), <<" ">>)
    BY <1>1, <1>2, <2>1, AtBoth, Zenon
  <2>3. QED
    BY <1>1, <2>2, Zenon
<1>9. l + 1 <= n /\ text[l + 1] = ","
  BY <1>2, <1>8, AtOne, Zenon
<1>10. text[l + 2] = " "
  <2>1. text[l + 1 + 1] = " "
    BY <1>6, <1>8, AtOne, Zenon
  <2>2. QED
    BY <1>6, <2>1, Zenon
<1>11. Follows(l, l + 2) /\ Behind(l)
  BY <1>9, <1>10, Zenon DEF Follows, Behind
<1>12. QED
  BY <1>3, <1>5, <1>7, <1>11, Zenon DEF IsGapAt

\* The pieces.
Joins(list) == Joining([i \in DOMAIN list |-> AttributeText(list[i])], Gap)

\* The texts that grow to the list that is written, one attribute at a time.
IsJoins(list, f) ==
  /\ f[0] = <<>> /\ \A k \in 0..Len(list) : f[k] \in Text
  /\ Len(list) > 0 => f[1] = AttributeText(list[1])
  /\ \A k \in 2..Len(list) : f[k] = f[k - 1] \o Gap \o AttributeText(list[k])

\* The growth of a list that is written.
LEMMA JoinsAre ==
  ASSUME NEW list \in Pairs
  PROVE  IsJoins(list, Joins(list)) /\ \A k \in 1..Len(list) : AttributeText(list[k]) \in Text
<1> DEFINE P == Text \X Text
           n == Len(list)
           pieces == [i \in DOMAIN list |-> AttributeText(list[i])]
           f == Joining(pieces, Gap)
<1>1. n \in Nat /\ DOMAIN list = 1..n /\ \A i \in 1..n : list[i] \in P
  <2>1. list \in Seq(P)
    BY DEF Pairs
  <2> HIDE DEF P
  <2>2. QED
    BY <2>1
<1>2. ASSUME NEW i \in 1..n
      PROVE  AttributeText(list[i]) \in Text
  <2>1. list[i] \in Text \X Text
    BY <1>1
  <2>2. QED
    BY <2>1, AttributeTextIs, Zenon
<1>3. pieces = [i \in 1..n |-> AttributeText(list[i])]
  BY <1>1
<1> HIDE DEF n
<1>4. /\ pieces \in Seq(Text) /\ Len(pieces) = n
      /\ \A i \in 1..n : pieces[i] = AttributeText(list[i])
  <2> DEFINE T == Text
             p == [i \in 1..n |-> AttributeText(list[i])]
  <2>1. \A i \in 1..n : AttributeText(list[i]) \in T
    BY <1>2
  <2> HIDE DEF T
  <2>2. p \in Seq(T) /\ Len(p) = n /\ \A i \in 1..n : p[i] = AttributeText(list[i])
    BY <1>1, <2>1
  <2>3. QED
    BY <1>3, <2>2, Zenon DEF T
<1> HIDE DEF pieces
<1>5. Gap \in Text
  BY GapIs, Zenon
<1>6. /\ f[0] = <<>> /\ \A k \in 0..n : f[k] \in Text
      /\ n > 0 => f[1] = pieces[1]
      /\ \A k \in 2..n : f[k] = f[k - 1] \o Gap \o pieces[k]
  BY <1>4, <1>5, JoiningTurns, Zenon
<1> HIDE DEF f
<1>7. n > 0 => 1 \in 1..n
  BY <1>1
<1>8. \A k \in 2..n : k \in 1..n
  BY <1>1
<1>9. IsJoins(list, f)
  BY <1>4, <1>6, <1>7, <1>8, Zenon DEF IsJoins, n
<1>10. QED
  BY <1>2, <1>9, Zenon DEF f, Joins, pieces, n

\* Each of the growing texts is the beginning of the next one.
LEMMA JoinsGrow ==
  ASSUME NEW list \in Pairs
  PROVE  Grows(Joins(list), Len(list))
<1> DEFINE n == Len(list)
           f == Joins(list)
<1>1. /\ f[0] = <<>> /\ \A k \in 0..n : f[k] \in Text
      /\ n > 0 => f[1] = AttributeText(list[1])
      /\ \A k \in 2..n : f[k] = f[k - 1] \o Gap \o AttributeText(list[k])
  BY JoinsAre, Zenon DEF IsJoins
<1>2. \A k \in 1..n : AttributeText(list[k]) \in Text
  BY JoinsAre, Zenon
<1> HIDE DEF f
<1>3. n \in Nat
  BY DEF Pairs
<1> HIDE DEF n
<1>4. ASSUME NEW k \in 1..n
      PROVE  \E g \in Text : f[k] = f[k - 1] \o g
  <2> DEFINE t == AttributeText(list[k])
             w == f[k - 1]
  <2>1. t \in Text
    BY <1>2
  <2>2. CASE k = 1
    <3>1. n > 0 /\ 1 - 1 = 0
      BY <1>3, <2>2
    <3>2. f[k] = t /\ w = <<>>
      BY <1>1, <2>2, <3>1, Zenon
    <3>3. <<>> \o t = t
      BY <2>1, WithNothing, Zenon
    <3>4. QED
      BY <2>1, <3>2, <3>3, Zenon
  <2>3. CASE k # 1
    <3>1. k \in 2..n /\ k - 1 \in 0..n
      BY <1>3, <2>3
    <3>2. w \in Text /\ Gap \in Text /\ f[k] = w \o Gap \o t
      BY <1>1, <3>1, GapIs, Zenon
    <3> DEFINE g == Gap
               r == g \o t
    <3>3. r \in Text /\ w \o r = w \o g \o t
      <4> HIDE DEF t, w, g
      <4>1. r \in Text
        BY <2>1, <3>2, Associates, Zenon DEF g
      <4>2. w \o r = w \o g \o t
        BY <2>1, <3>2, Associates, Zenon DEF g
      <4>3. QED
        BY <4>1, <4>2
    <3> HIDE DEF r
    <3>4. QED
      BY <3>2, <3>3, Zenon
  <2>4. QED
    BY <2>2, <2>3
<1>5. QED
  BY <1>4, Zenon DEF Grows, f, n

\* Where each attribute of a written list ends, and where it begins.
EndsOf(list) == [k \in 0..Len(list) |-> Len(Joins(list)[k])]
OffsOf(list) == [k \in 1..Len(list) |-> IF k = 1 THEN 0 ELSE Len(Joins(list)[k - 1]) + 2]

\* The joined attributes of a list stand in the text, and something may follow them.
LEMMA JoinedLaid ==
  ASSUME text \in Text, NEW list \in Pairs, At(0, Joins(list)[Len(list)]),
         Len(list) > 0 => Behind(Len(Joins(list)[Len(list)]))
  PROVE  Laid(list, OffsOf(list), EndsOf(list), Len(list))
<1> DEFINE n == Len(list)
           f == Joins(list)
           offs == OffsOf(list)
           ends == EndsOf(list)
           Piece(k) == AttributeText(list[k])
<1>1. n \in Nat
  BY DEF Pairs
<1>2. /\ f[0] = <<>> /\ \A k \in 0..n : f[k] \in Text
      /\ n > 0 => f[1] = Piece(1)
      /\ \A k \in 2..n : f[k] = f[k - 1] \o Gap \o Piece(k)
  BY JoinsAre, Zenon DEF IsJoins
<1>3. \A k \in 1..n : Piece(k) \in Text
  BY JoinsAre, Zenon
<1>4. \A k \in 0..n : At(0, f[k])
  <2>1. Grows(f, n) /\ 0 \in Nat /\ At(0, f[n])
    BY JoinsGrow, Zenon
  <2> HIDE DEF f, n
  <2>2. QED
    BY <1>1, <1>2, <2>1, AtEvery, Zenon
<1>5. /\ \A k \in 0..n : ends[k] = Len(f[k])
      /\ \A k \in 1..n : offs[k] = IF k = 1 THEN 0 ELSE Len(f[k - 1]) + 2
  BY Zenon DEF EndsOf, OffsOf
<1>6. n > 0 => Behind(ends[n])
  <2>1. n \in 0..n
    BY <1>1
  <2>2. QED
    BY <1>5, <2>1, Zenon
<1> HIDE DEF f, n, offs, ends, Piece
<1>7. ASSUME NEW k \in 2..n
      PROVE  /\ offs[k] = ends[k - 1] + 2 /\ Follows(ends[k - 1], offs[k]) /\ Behind(ends[k - 1])
             /\ At(offs[k], Piece(k)) /\ ends[k] = offs[k] + Len(Piece(k))
  <2> DEFINE w == f[k - 1]
             t == Piece(k)
  <2>1. k \in 1..n /\ k \in 0..n /\ k - 1 \in 0..n /\ k # 1
    BY <1>1
  <2>2. w \in Text /\ t \in Text /\ f[k] = w \o Gap \o t
    BY <1>2, <1>3, <2>1, Zenon
  <2>3. At(0, w \o Gap \o t)
    BY <1>4, <2>1, <2>2, Zenon
  <2> HIDE DEF w, t
  <2>4. IsGapAt(w, t)
    BY <2>2, <2>3, GapStands, Zenon
  <2>5. /\ At(Len(w) + 2, t) /\ Follows(Len(w), Len(w) + 2) /\ Behind(Len(w))
        /\ Len(f[k]) = Len(w) + 2 + Len(t)
    BY <2>2, <2>4, Zenon DEF IsGapAt
  <2>6. ends[k - 1] = Len(w) /\ ends[k] = Len(f[k]) /\ offs[k] = Len(w) + 2
    BY <1>5, <2>1, Zenon DEF w
  <2>7. QED
    BY <2>5, <2>6, Zenon DEF t
<1>8. ASSUME NEW k \in 1..n
      PROVE  offs[k] \in Nat /\ ends[k] \in Nat /\ At(offs[k], Piece(k)) /\ ends[k] = offs[k] + Len(Piece(k))
  <2>1. ends[k] \in Nat
    <3>1. k \in 0..n
      BY <1>1
    <3> DEFINE w == f[k]
    <3>2. w \in Text
      BY <1>2, <3>1
    <3> HIDE DEF w
    <3>3. Len(w) \in Nat
      BY <3>2
    <3>4. QED
      BY <1>5, <3>1, <3>3, Zenon DEF w
  <2>2. CASE k = 1
    <3>1. n > 0 /\ 1 \in 0..n /\ 0 \in Nat
      BY <1>1, <2>2
    <3>2. offs[k] = 0 /\ ends[k] = Len(Piece(k)) /\ At(0, Piece(k))
      BY <1>2, <1>4, <1>5, <2>2, <3>1, Zenon
    <3>3. ends[k] = 0 + ends[k]
      BY <2>1
    <3>4. QED
      BY <2>1, <3>1, <3>2, <3>3, Zenon
  <2>3. CASE k # 1
    <3>1. k \in 2..n /\ k - 1 \in 0..n
      BY <1>1, <2>3
    <3>2. At(offs[k], Piece(k)) /\ ends[k] = offs[k] + Len(Piece(k)) /\ offs[k] = ends[k - 1] + 2
      BY <1>7, <3>1, Zenon
    <3>3. offs[k] \in Nat
      <4> DEFINE w == f[k - 1]
      <4>1. w \in Text /\ ends[k - 1] = Len(w)
        BY <1>2, <1>5, <3>1, Zenon
      <4> HIDE DEF w
      <4>2. QED
        BY <3>2, <4>1
    <3>4. QED
      BY <2>1, <3>2, <3>3
  <2>4. QED
    BY <2>2, <2>3
<1>9. \A k \in 1..n : Behind(ends[k])
  <2> TAKE k \in 1..n
  <2>1. CASE k = n
    <3>1. n > 0
      BY <1>1, <2>1
    <3>2. QED
      BY <1>6, <2>1, <3>1, Zenon
  <2>2. CASE k # n
    <3> DEFINE j == k + 1
    <3>1. j \in 2..n /\ j - 1 = k
      BY <1>1, <2>2
    <3> HIDE DEF j
    <3>2. Behind(ends[j - 1])
      BY <1>7, <3>1, Zenon
    <3>3. QED
      BY <3>1, <3>2, Zenon
  <2>3. QED
    BY <2>1, <2>2
<1>10. \A k \in 1..n : Stands(offs[k], list[k], ends[k])
  BY <1>8, <1>9, Zenon DEF Stands, Piece
<1>11. n > 0 => offs[1] = 0
  <2>1. n > 0 => 1 \in 1..n
    BY <1>1
  <2>2. QED
    BY <1>5, <2>1, Zenon
<1>12. Laid(list, offs, ends, n)
  BY <1>7, <1>8, <1>10, <1>11, Zenon DEF Laid
<1>13. QED
  BY <1>12, Zenon DEF offs, ends, n

\* A written list is the last of the growing texts.
LEMMA JoinedText ==
  ASSUME NEW list
  PROVE  AttributesText(list) = Joins(list)[Len([i \in DOMAIN list |-> AttributeText(list[i])])]
BY Zenon DEF AttributesText, Joined, Joins, Gap

\* There is one of them for each attribute.
LEMMA AttributesTextIs ==
  ASSUME NEW list \in Pairs
  PROVE  AttributesText(list) = Joins(list)[Len(list)]
<1> DEFINE n == Len(list)
           p == [i \in DOMAIN list |-> AttributeText(list[i])]
<1>1. n \in Nat /\ DOMAIN list = 1..n
  BY DEF Pairs
<1> HIDE DEF n
<1>2. Len(p) = n
  BY <1>1
<1>3. QED
  BY <1>2, JoinedText, Zenon DEF n, p

\* A text stands in itself.
LEMMA AtItself ==
  ASSUME text \in Text
  PROVE  At(0, text)
<1> DEFINE n == Len(text)
<1>1. n \in Nat
  OBVIOUS
<1> HIDE DEF n
<1>2. 0 + n <= n /\ \A i \in 1..n : 0 + i = i
  BY <1>1
<1>3. QED
  BY <1>2, Zenon DEF At, n

\* In a list that is written each attribute has its place, with a gap before the next one.
LEMMA ListPlaced ==
  ASSUME text \in Text, NEW list \in Pairs, text = AttributesText(list)
  PROVE  Placed(list, OffsOf(list), EndsOf(list))
<1> DEFINE n == Len(list)
           f == Joins(list)
<1>1. n \in Nat
  BY DEF Pairs
<1>2. text = f[n] /\ n \in Nat
  BY <1>1, AttributesTextIs, Zenon
<1>3. n \in 0..n /\ EndsOf(list)[n] = Len(text)
  <2>1. n \in 0..n
    BY <1>2
  <2>2. QED
    BY <1>2, <2>1, Zenon DEF EndsOf
<1>4. Behind(Len(text))
  BY Zenon DEF Behind
<1>5. Laid(list, OffsOf(list), EndsOf(list), n)
  BY <1>2, <1>4, AtItself, JoinedLaid, Zenon
<1>6. n = 0 => Len(text) = 0
  <2>1. n = 0 => text = <<>>
    BY <1>2, JoinsAre, Zenon DEF IsJoins
  <2>2. Len(<<>>) = 0
    OBVIOUS
  <2>3. QED
    BY <2>1, <2>2, Zenon
<1>7. QED
  BY <1>3, <1>5, <1>6, Zenon DEF Placed

\* The list without its last attribute.
LEMMA FrontIs ==
  ASSUME NEW list \in Pairs, Len(list) > 1
  PROVE  /\ Front(list) \in Pairs /\ Len(Front(list)) = Len(list) - 1
         /\ \A i \in 1..Len(list) - 1 : Front(list)[i] = list[i]
         /\ Last(list) = list[Len(list)] /\ list[Len(list)] \in Text \X Text /\ Len(list) \in Nat
<1> DEFINE P == Text \X Text
           n == Len(list)
           m == n - 1
           x == SubSeq(list, 1, m)
<1>1. list \in Seq(P) /\ n \in Nat /\ n = Len(list) /\ n > 1
  BY DEF Pairs
<1> HIDE DEF P, n
<1>2. /\ 1 \in Int /\ m \in Int /\ m - 1 + 1 = m /\ (IF 1 <= m THEN m - 1 + 1 ELSE 0) = m /\ n \in 1..n
      /\ \A i \in 1..m : i \in 1..n /\ 1 + i - 1 = i
  BY <1>1
<1> HIDE DEF m
<1>3. \A i \in 1..n : list[i] \in P
  BY <1>1, ElementOfSeq
<1>4. /\ x \in Seq(P) /\ Len(x) = m /\ \A i \in 1..m : x[i] = list[1 + i - 1]
  BY <1>2, <1>3, SubSeqProperties
<1>5. \A i \in 1..m : x[i] = list[i]
  BY <1>2, <1>4, Zenon
<1>6. Front(list) = x /\ Last(list) = list[n]
  BY Zenon DEF Front, Last, m, n
<1>7. list[n] \in P
  BY <1>2, <1>3
<1>8. QED
  BY <1>1, <1>4, <1>5, <1>6, <1>7, Zenon DEF P, n, m, Pairs

\* A space as a text.
Space == <<" ">>

\* A list whose last attribute is a name alone, behind a space.
LEMMA ShortPlaced ==
  ASSUME text \in Text, NEW list \in Pairs, Len(list) > 1, Last(list)[2] = <<>>,
         text = AttributesText(Front(list)) \o Space \o Last(list)[1]
  PROVE  \E offs, ends : Placed(list, offs, ends)
<1> DEFINE n == Len(list)
           m == n - 1
           l == Front(list)
           a == list[n]
           name == a[1]
           w == Joins(l)[m]
           s == Len(text)
           p == Len(w) + 1
           offs == [k \in 1..n |-> IF k = n THEN p ELSE OffsOf(l)[k]]
           ends == [k \in 1..n |-> IF k = n THEN s ELSE EndsOf(l)[k]]
<1>1. /\ l \in Pairs /\ Len(l) = m /\ (\A i \in 1..m : l[i] = list[i])
      /\ Last(list) = a /\ a \in Text \X Text /\ n \in Nat
  BY FrontIs, Zenon
<1>2. m \in Nat /\ m > 0 /\ m \in 0..m /\ m \in 1..n /\ m # n /\ n # 0 /\ n \in 1..n /\ 1 \in 1..n /\ 1 # n
  <2>1. n \in Nat /\ n > 1
    BY <1>1, Zenon
  <2> HIDE DEF n
  <2>2. QED
    BY <2>1
<1>3. name \in Text /\ a[2] = <<>>
  <2>1. a \in Text \X Text /\ a[2] = <<>>
    BY <1>1, Zenon
  <2> HIDE DEF a
  <2>2. QED
    BY <2>1
<1>4. w \in Text
  <2>1. IsJoins(l, Joins(l))
    BY <1>1, JoinsAre, Zenon
  <2>2. QED
    BY <1>1, <1>2, <2>1, Zenon DEF IsJoins
<1>5. text = w \o Space \o name
  BY <1>1, AttributesTextIs, Zenon
<1>6. Space \in Text /\ Len(Space) = 1
  BY GapIs, Zenon DEF Space
<1>7. Len(w) \in Nat /\ p \in Nat /\ Len(name) \in Nat /\ s \in Nat /\ 0 + Len(w) = Len(w) /\ 0 + p = p
  <2> HIDE DEF w, name
  <2>1. Len(w) \in Nat /\ Len(name) \in Nat /\ s \in Nat
    BY <1>3, <1>4, Lengths
  <2> DEFINE u == Len(w)
  <2>2. u \in Nat
    BY <2>1
  <2> HIDE DEF u
  <2>3. u + 1 \in Nat /\ 0 + u = u /\ 0 + (u + 1) = u + 1
    BY <2>2
  <2>4. QED
    BY <2>1, <2>3, Zenon DEF u
<1> DEFINE b == Space
           x == w \o b
<1>8. x \in Text /\ Len(x) = p /\ s = p + Len(name)
  <2>1. x \in Text /\ Len(x) = Len(w) + Len(b)
    BY <1>4, <1>6, Lengths, Zenon
  <2>2. Len(x \o name) = Len(x) + Len(name)
    BY <1>3, <2>1, Lengths, Zenon
  <2>3. QED
    BY <1>5, <1>6, <2>1, <2>2, Zenon
<1>9. At(0, x) /\ At(p, name)
  <2>1. At(0, x \o name) /\ 0 \in Nat
    BY <1>5, AtItself, Zenon
  <2> HIDE DEF x
  <2>2. At(0, x) /\ At(0 + Len(x), name)
    BY <1>3, <1>8, <2>1, AtBoth, Zenon
  <2>3. QED
    BY <1>7, <1>8, <2>2, Zenon
<1>10. At(0, w) /\ At(Len(w), b)
  <2>1. 0 \in Nat
    OBVIOUS
  <2>2. At(0, w) /\ At(0 + Len(w), b)
    BY <1>4, <1>6, <1>9, <2>1, AtBoth, Zenon
  <2>3. QED
    BY <1>7, <2>2, Zenon
<1>11. Len(w) + 1 <= s /\ text[Len(w) + 1] = " "
  BY <1>7, <1>10, AtOne, Zenon DEF Space
<1>12. Behind(Len(w))
  BY <1>11, Zenon DEF Behind
<1>13. Laid(l, OffsOf(l), EndsOf(l), m)
  BY <1>1, <1>10, <1>12, JoinedLaid, Zenon
<1>14. EndsOf(l)[m] = Len(w)
  BY <1>1, <1>2, Zenon DEF EndsOf
<1>15. \A k \in 1..n : k # n => k \in 1..m
  <2>1. n \in Nat
    BY <1>1, Zenon
  <2> HIDE DEF n
  <2>2. QED
    BY <2>1
<1> HIDE DEF a, w, l, m, n
<1>16. \A k \in 1..n : offs[k] = (IF k = n THEN p ELSE OffsOf(l)[k]) /\ ends[k] = IF k = n THEN s ELSE EndsOf(l)[k]
  BY Zenon
<1> HIDE DEF offs, ends
<1>17. ASSUME NEW k \in 1..n
       PROVE  offs[k] \in Nat /\ ends[k] \in Nat /\ Stands(offs[k], list[k], ends[k])
  <2>1. CASE k = n
    <3>1. offs[k] = p /\ ends[k] = s
      BY <1>16, <2>1, Zenon
    <3>2. Stands(p, a, s)
      BY <1>3, <1>8, <1>9, Zenon DEF Stands
    <3>3. QED
      BY <1>7, <2>1, <3>1, <3>2, Zenon DEF a
  <2>2. CASE k # n
    <3>1. k \in 1..m
      BY <1>15, <2>2, Zenon
    <3>2. offs[k] = OffsOf(l)[k] /\ ends[k] = EndsOf(l)[k] /\ l[k] = list[k]
      BY <1>1, <1>16, <2>2, <3>1, Zenon
    <3>3. OffsOf(l)[k] \in Nat /\ EndsOf(l)[k] \in Nat /\ Stands(OffsOf(l)[k], l[k], EndsOf(l)[k])
      BY <1>13, <3>1, Zenon DEF Laid
    <3>4. QED
      BY <3>2, <3>3, Zenon
  <2>3. QED
    BY <2>1, <2>2
<1>18. offs[1] = 0
  <2>1. OffsOf(l)[1] = 0
    BY <1>2, <1>13, Zenon DEF Laid
  <2>2. QED
    BY <1>2, <1>16, <2>1, Zenon
<1>19. ASSUME NEW k \in 2..n
       PROVE  Follows(ends[k - 1], offs[k])
  <2>1. k \in 1..n /\ k - 1 \in 1..n /\ k - 1 # n /\ (k = n => k - 1 = m) /\ (k # n => k \in 2..m)
    <3>1. n \in Nat
      BY <1>1, Zenon
    <3>2. QED
      BY <3>1 DEF m
  <2>2. ends[k - 1] = EndsOf(l)[k - 1]
    BY <1>16, <2>1, Zenon
  <2>3. CASE k = n
    <3>1. ends[k - 1] = Len(w) /\ offs[k] = p
      BY <1>14, <1>16, <2>1, <2>2, <2>3, Zenon
    <3>2. Follows(Len(w), p)
      BY <1>11, Zenon DEF Follows
    <3>3. QED
      BY <3>1, <3>2, Zenon
  <2>4. CASE k # n
    <3>1. Follows(EndsOf(l)[k - 1], OffsOf(l)[k])
      BY <1>13, <2>1, <2>4, Zenon DEF Laid
    <3>2. offs[k] = OffsOf(l)[k]
      BY <1>16, <2>1, <2>4, Zenon
    <3>3. QED
      BY <2>2, <3>1, <3>2, Zenon
  <2>5. QED
    BY <2>3, <2>4
<1>20. ends[n] = s
  BY <1>2, <1>16, Zenon
<1>21. Placed(list, offs, ends)
  BY <1>2, <1>17, <1>18, <1>19, <1>20, Zenon DEF Placed, Laid, n
<1>22. QED
  BY <1>21, Zenon

\* Every list that is written has its places, the short forms too.
LEMMA WrittenPlaced ==
  ASSUME InputInv, job = "attributes", given # <<>>
  PROVE  given[1] \in Pairs /\ Named(given[1]) /\ \E offs, ends : Placed(given[1], offs, ends)
<1> DEFINE list == given[1]
<1>1. text \in Text /\ Writes("attributes", given, text)
  BY AttributesAre, Zenon
<1>2. /\ list \in Pairs /\ (\A i \in DOMAIN list : IsAttributeName(list[i][1]))
      /\ \/ text = AttributesText(list)
         \/ /\ Len(list) > 1 /\ Last(list)[2] = <<>>
            /\ text = AttributesText(Front(list)) \o Space \o Last(list)[1]
  BY <1>1, Zenon DEF Writes, Pairs, Space
<1> HIDE DEF list
<1>3. DOMAIN list = 1..Len(list)
  <2>1. list \in Pairs
    BY <1>2, Zenon
  <2>2. QED
    BY <2>1 DEF Pairs
<1>4. \E offs, ends : Placed(list, offs, ends)
  BY <1>1, <1>2, ListPlaced, ShortPlaced, Zenon
<1>5. QED
  BY <1>2, <1>3, <1>4, Zenon DEF Named, list

\* AttributesInv holds before the first turn.
LEMMA AttributesBegin == Init => InputInv /\ AttributesInv
<1> SUFFICES ASSUME Init
             PROVE  InputInv /\ AttributesInv
  OBVIOUS
<1>1. InputInv /\ pos = 1 /\ done = FALSE /\ result = Blank(job)
  BY DEF Init, InputInv
<1>2. ASSUME job = "attributes", given # <<>>
      PROVE  \E list \in Pairs : \E offs, ends : \E k \in 0..Len(list) :
               given[1] = list /\ Named(list) /\ Progress(list, offs, ends, k)
  <2>1. given[1] \in Pairs /\ Named(given[1]) /\ \E offs, ends : Placed(given[1], offs, ends)
    BY <1>1, <1>2, WrittenPlaced, Zenon
  <2>2. PICK list \in Pairs : list = given[1]
    BY <2>1, Zenon
  <2>3. PICK offs, ends : Placed(list, offs, ends)
    BY <2>1, <2>2, Zenon
  <2>4. result = <<>>
    BY <1>1, <1>2 DEF Blank
  <2>5. SubSeq(list, 1, 0) = <<>>
    <3>1. 1 \in Int /\ 0 \in Int /\ 0 < 1
      OBVIOUS
    <3>2. QED
      BY <3>1, SubSeqEmpty, Zenon
  <2>6. 0 \in 0..Len(list)
    BY DEF Pairs
  <2>7. LoopAt(ends, 0) = 1
    BY Zenon DEF LoopAt
  <2>8. Progress(list, offs, ends, 0)
    BY <1>1, <2>3, <2>4, <2>5, <2>7, Zenon DEF Progress
  <2>9. QED
    BY <2>1, <2>2, <2>6, <2>8, Zenon
<1>3. QED
  BY <1>1, <1>2, Zenon DEF AttributesInv

\* AttributesInv is an invariant.
LEMMA AttributesProgress == Spec => []AttributesInv
<1>1. InputInv /\ AttributesInv /\ [Next]_vars => InputInv' /\ AttributesInv'
  BY InputStep, AttributesStep, Zenon
<1>2. QED
  BY <1>1, AttributesBegin, PTL DEF Spec

\* The first attribute of a name is the one that is found.
LEMMA AttributeFound ==
  ASSUME NEW list \in Pairs, NEW k \in KeysOf(list)
  PROVE  HttpHasAttribute(list, k) = FirstOf(list, k)
<1> DEFINE I == {i \in 1..Len(list) : list[i][1] = k}
           x == SelectInSeq(list, LAMBDA a : a[1] = k)
<1>1. PICK i \in 1..Len(list) :
        /\ list[i][1] = k /\ \A j \in 1..i - 1 : list[j][1] # k
        /\ FirstOf(list, k) = list[i][2]
  BY FirstOfIs, Zenon
<1>2. x = IF I # {} THEN CHOOSE c \in I : \A j \in I : c <= j ELSE 0
  BY DEF SelectInSeq, Min
<1>3. i \in I /\ I \subseteq Nat
  BY <1>1
<1>4. \A j \in I : i <= j
  <2>1. \A j \in 1..Len(list) : j \in 1..i - 1 \/ i <= j
    BY DEF Pairs
  <2>2. QED
    BY <1>1, <2>1, Zenon
<1> DEFINE c == CHOOSE c \in I : \A j \in I : c <= j
<1>5. c \in I /\ c <= i
  BY <1>3, <1>4
<1>6. x = c
  BY <1>2, <1>3
<1> HIDE DEF I, c, x
<1>7. c = i
  <2>1. i <= c
    BY <1>4, <1>5
  <2>2. QED
    BY <1>3, <1>5, <2>1
<1>8. HttpHasAttribute(list, k) = list[x][2]
  BY Zenon DEF HttpHasAttribute, x
<1>9. QED
  BY <1>1, <1>6, <1>7, <1>8, Zenon

\* Attributes by their places.
LEMMA AttributeAt ==
  ASSUME NEW list \in Pairs
  PROVE  /\ \A i \in DOMAIN list : HttpHasNthAttribute(list, i - 1) = list[i]
         /\ HttpHasNthAttribute(list, Len(list)) = <<>>
<1> DEFINE n == Len(list)
<1>1. n \in Nat /\ DOMAIN list = 1..n
  BY DEF Pairs
<1> HIDE DEF n
<1>2. n >= n /\ \A i \in 1..n : ~(i - 1 >= n) /\ i - 1 + 1 = i
  BY <1>1
<1>3. QED
  BY <1>1, <1>2, Zenon DEF HttpHasNthAttribute, n

\* AttributesSurvive: lists of attributes are read back (http.cc:179-259).
THEOREM AttributesReadBack == Spec => []AttributesSurvive
<1>1. AttributesInv => AttributesSurvive
  <2> SUFFICES ASSUME AttributesInv, Known, job = "attributes"
               PROVE  /\ result = given[1]
                      /\ \A k \in KeysOf(result) : HttpHasAttribute(result, k) = FirstOf(given[1], k)
                      /\ \A i \in DOMAIN given[1] : HttpHasNthAttribute(result, i - 1) = given[1][i]
                      /\ HttpHasNthAttribute(result, Len(given[1])) = <<>>
    BY Zenon DEF AttributesSurvive
  <2>1. PICK list \in Pairs : \E offs, ends : \E k \in 0..Len(list) :
               given[1] = list /\ Named(list) /\ Progress(list, offs, ends, k)
    BY Zenon DEF AttributesInv, Known
  <2>2. PICK k : given[1] = list /\ result = SubSeq(list, 1, k) /\ (done => k = Len(list))
    BY <2>1, Zenon DEF Progress
  <2>3. SubSeq(list, 1, Len(list)) = list
    <3> DEFINE P == Text \X Text
    <3>1. list \in Seq(P)
      BY DEF Pairs
    <3> HIDE DEF P
    <3>2. QED
      BY <3>1, SubSeqFull
  <2>4. result = list /\ given[1] = list
    BY <2>2, <2>3, Zenon DEF Known
  <2>5. /\ \A q \in KeysOf(list) : HttpHasAttribute(list, q) = FirstOf(list, q)
        /\ \A i \in DOMAIN list : HttpHasNthAttribute(list, i - 1) = list[i]
        /\ HttpHasNthAttribute(list, Len(list)) = <<>>
    BY AttributeFound, AttributeAt, Zenon
  <2>6. QED
    BY <2>4, <2>5, Zenon
<1>2. QED
  BY <1>1, AttributesProgress, PTL

===============================================================================
