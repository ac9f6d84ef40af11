--------------------------- MODULE MCStrategyGraph ---------------------------
(* Lists of strategies for StrategyGraph: every small graph, in several orders. *)
EXTENDS StrategyGraph

CONSTANTS a, b, c, d, x

Strategy(n, depends) == [name |-> n, depends |-> depends]

\* Three strategies with any dependencies on one another and on themselves, each
\* declared in any order.
AnyThree ==
  LET Lists == SetToAllKPermutations({a, b, c}) IN
  {<<Strategy(a, p), Strategy(b, q), Strategy(c, r)>> : p, q, r \in Lists}

\* Four strategies without a circle, listed in three orders.
Four ==
  LET Listed(S) == SelectSeq(<<a, b, c>>, LAMBDA n : n \in S)
      Ascending ==
        {<<Strategy(a, <<>>), Strategy(b, Listed(B)), Strategy(c, Listed(C)),
           Strategy(d, Listed(D))>> :
           B \in SUBSET {a}, C \in SUBSET {a, b}, D \in SUBSET {a, b, c}}
  IN  {[i \in 1..4 |-> l[o[i]]] :
         l \in Ascending, o \in {<<1, 2, 3, 4>>, <<4, 3, 2, 1>>, <<2, 4, 1, 3>>}}

\* No name, an unknown dependency, a name given twice with and without a circle,
\* a dependency given twice.
Odd ==
  {<<>>,
   <<Strategy(a, <<>>), Strategy(NoName, <<a>>)>>,
   <<Strategy(a, <<x>>), Strategy(b, <<a>>)>>,
   <<Strategy(b, <<a>>), Strategy(b, <<x>>), Strategy(a, <<>>)>>,
   <<Strategy(a, <<>>), Strategy(b, <<>>), Strategy(b, <<a>>)>>,
   <<Strategy(b, <<>>), Strategy(a, <<b>>), Strategy(b, <<a>>)>>,
   <<Strategy(a, <<>>), Strategy(b, <<a, a>>), Strategy(c, <<b, a, a>>)>>}

AllInputs == AnyThree \cup Four \cup Odd

SomeRequests == {NULL, <<",">>, <<a>>, <<d, " ">>, <<" ", c, ",", " ", b>>, <<b, ",", x>>,
                 <<a, ",", LongName>>}
=============================================================================
