------------------------ MODULE StrategyGraphProofs ------------------------
(***************************************************************************)
(* Proofs about StrategyGraph, for any lists of strategies and any          *)
(* requests.  Reaches() quantifies over closed sets, so that no proof here  *)
(* follows a path by induction.                                            *)
(***************************************************************************)
EXTENDS StrategyGraph, Iteration, SequenceTheorems, TLAPS

-----------------------------------------------------------------------------
(* Sequences                                                                 *)

\* The last element of a sequence, and what is before it.
LEMMA LastFront ==
  ASSUME NEW S, NEW s \in Seq(S), s # <<>>
  PROVE  /\ Len(s) \in Nat \ {0}
         /\ Last(s) = s[Len(s)] /\ Last(s) \in S
         /\ Front(s) \in Seq(S) /\ Len(Front(s)) = Len(s) - 1
         /\ \A i \in 1..Len(s) - 1 : Front(s)[i] = s[i]
  <1>1. Len(s) \in Nat \ {0}
    BY EmptySeq
  <1>2. \A i \in 1..Len(s) - 1 : s[i] \in S
    BY <1>1, ElementOfSeq
  <1>3. s[Len(s)] \in S
    BY <1>1, ElementOfSeq
  <1>4. PICK m \in Nat : m = Len(s) - 1
    BY <1>1
  <1>5. /\ SubSeq(s, 1, m) \in Seq(S)
        /\ Len(SubSeq(s, 1, m)) = m
        /\ \A i \in 1..m : SubSeq(s, 1, m)[i] = s[i]
    BY <1>2, <1>4, SubSeqProperties
  <1>6. QED
    BY <1>1, <1>3, <1>4, <1>5 DEF Last, Front

\* The last element is replaced by x.
Replaced(s, x) == Append(Front(s), x)

LEMMA ReplacedLast ==
  ASSUME NEW S, NEW s \in Seq(S), s # <<>>, NEW x \in S
  PROVE  /\ Replaced(s, x) \in Seq(S) /\ Len(Replaced(s, x)) = Len(s)
         /\ Replaced(s, x)[Len(s)] = x
         /\ \A i \in 1..Len(s) - 1 : Replaced(s, x)[i] = s[i]
  <1>1. /\ Len(s) \in Nat \ {0}
        /\ Front(s) \in Seq(S) /\ Len(Front(s)) = Len(s) - 1
        /\ \A i \in 1..Len(s) - 1 : Front(s)[i] = s[i]
    BY LastFront
  <1>2. /\ Append(Front(s), x) \in Seq(S)
        /\ Len(Append(Front(s), x)) = Len(Front(s)) + 1
        /\ \A i \in 1..Len(Front(s)) : Append(Front(s), x)[i] = Front(s)[i]
        /\ Append(Front(s), x)[Len(Front(s)) + 1] = x
    BY <1>1, AppendProperties
  <1>3. QED
    BY <1>1, <1>2 DEF Replaced

\* v before the elements of s.
LEMMA Prepended ==
  ASSUME NEW S, NEW s \in Seq(S), NEW v \in S
  PROVE  /\ <<v>> \o s \in Seq(S) /\ Len(<<v>> \o s) = Len(s) + 1
         /\ (<<v>> \o s)[1] = v
         /\ \A i \in 1..Len(s) : (<<v>> \o s)[i + 1] = s[i]
         /\ \A i \in 2..Len(s) + 1 : (<<v>> \o s)[i] = s[i - 1]
  <1>1. <<v>> \in Seq(S) /\ Len(<<v>>) = 1 /\ <<v>>[1] = v
    OBVIOUS
  <1>2. Len(s) \in Nat
    BY LenProperties
  <1>3. /\ <<v>> \o s \in Seq(S)
        /\ Len(<<v>> \o s) = Len(<<v>>) + Len(s)
        /\ \A i \in 1..Len(<<v>>) + Len(s) :
             (<<v>> \o s)[i] = IF i <= Len(<<v>>) THEN <<v>>[i] ELSE s[i - Len(<<v>>)]
    BY <1>1, ConcatProperties
  <1>4. QED
    BY <1>1, <1>2, <1>3

LEMMA ShortSeq ==
  ASSUME NEW S, NEW x \in S
  PROVE  <<>> \in Seq(S) /\ <<x>> \in Seq(S)
  OBVIOUS

\* The lists of m_strategies and of getDepends().
LEMMA Lists ==
  ASSUME strategies \in Inputs
  PROVE  /\ strategies \in Seq({strategies[i] : i \in DOMAIN strategies})
         /\ Len(strategies) \in Nat /\ DOMAIN strategies = 1..Len(strategies)
         /\ \A i \in DOMAIN strategies :
              /\ strategies[i].depends \in Seq(ToSet(strategies[i].depends))
              /\ Len(strategies[i].depends) \in Nat
              /\ DOMAIN strategies[i].depends = 1..Len(strategies[i].depends)
  <1>1. IsSeq(strategies) /\ \A i \in DOMAIN strategies : IsSeq(strategies[i].depends)
    BY InputsAssumption
  <1>2. strategies \in Seq({strategies[i] : i \in DOMAIN strategies})
    BY <1>1 DEF IsSeq
  <1>3. \A i \in DOMAIN strategies : strategies[i].depends \in Seq(ToSet(strategies[i].depends))
    BY <1>1 DEF IsSeq, ToSet
  <1>4. QED
    BY <1>2, <1>3, LenProperties

\* A dependency is at two indices.
LEMMA Indices ==
  ASSUME strategies \in Inputs, NEW i \in DOMAIN strategies, NEW k \in DOMAIN strategies[i].depends
  PROVE  i \in 1..Len(strategies) /\ k \in 1..Len(strategies[i].depends)
         /\ Len(strategies) \in Nat /\ Len(strategies[i].depends) \in Nat
  BY Lists

-----------------------------------------------------------------------------
(* buildStrategyGraph()                                                      *)

Building == {"vertices", "edges"}

\* What comes after init() is empty until it has a graph.
Early ==
  phase \in Building =>
    /\ stack = <<>> /\ topo = <<>> /\ circleEdges = {} /\ redundant = {} /\ printed = <<>>
    /\ ran = <<>> /\ calls = <<>> /\ request = <<>>

\* The two loops have seen dependency k of strategy i.
Seen(i, k) == i < idx \/ (i = idx /\ k < nth)

\* Dependency k of strategy i, as an edge.
Edge(i, k) == <<strategies[i].depends[k], strategies[i].name>>

\* How far the loops of buildStrategyGraph() are, and what they leave.
BuildInv ==
  /\ phase = "vertices" =>
       /\ idx <= Len(strategies) + 1 /\ nth = 1
       /\ Vertices = {strategies[i].name : i \in 1..idx - 1} /\ NoName \notin Vertices
       /\ \A v \in Vertices : out[v] = <<>>
  /\ phase = "edges" =>
       /\ Vertices = Names /\ NoName \notin Names
       /\ \A a \in Arcs : \E i \in DOMAIN strategies : \E k \in DOMAIN strategies[i].depends :
            Seen(i, k) /\ a = Edge(i, k)
       /\ \A i \in DOMAIN strategies : \A k \in DOMAIN strategies[i].depends :
            Seen(i, k) => Edge(i, k) \in Arcs
  /\ phase \notin Building \cup {"failed"} =>
       Vertices = Names /\ NoName \notin Names /\ Arcs = Depends
  /\ \A v \in Vertices : strategies[m_nameStrategyMap[v]].name = v

GraphTypes ==
  /\ strategies \in Inputs
  /\ phase \in Phases
  /\ idx \in Nat \ {0} /\ nth \in Nat \ {0}
  /\ error \in {"none", "noName", "noDepend", "circle", "notDag"}
  /\ order \in Seq(Names)
  /\ out \in [Vertices -> Seq(Vertices)]
  /\ m_nameStrategyMap \in [Vertices -> DOMAIN strategies]

SearchTypes ==
  /\ phase \in Searches => color \in [Vertices -> {"white", "gray", "black"}]
  /\ stack \in Seq(Positions)
  /\ \A i \in DOMAIN stack : stack[i].edge <= Len(out[stack[i].vertex]) + 1
  /\ circleEdges \subseteq Arcs /\ redundant \subseteq Arcs
  /\ printed \in Seq(OutEdges)
  /\ topo \in Seq(Vertices)
  /\ sg_outputFullGraph \in BOOLEAN

MarkTypes ==
  /\ request \in Requests \cup {<<>>}
  /\ calls \in Seq(Frames)
  /\ needRun \subseteq Names
  /\ ran \in Seq(Vertices)

LEMMA Types == TypeOK <=> GraphTypes /\ SearchTypes /\ MarkTypes
  BY DEF TypeOK, GraphTypes, SearchTypes, MarkTypes

\* What an append adds to a sequence's set.
LEMMA AppendSet ==
  ASSUME NEW S, NEW s \in Seq(S), NEW x \in S
  PROVE  ToSet(Append(s, x)) = ToSet(s) \cup {x}
  <1>1. /\ Append(s, x) \in Seq(S) /\ Len(Append(s, x)) = Len(s) + 1
        /\ \A i \in 1..Len(s) : Append(s, x)[i] = s[i]
        /\ Append(s, x)[Len(s) + 1] = x
    BY AppendProperties
  <1>2. /\ Len(s) \in Nat /\ DOMAIN s = 1..Len(s)
        /\ DOMAIN Append(s, x) = 1..Len(s) + 1
    BY <1>1, LenProperties
  <1>3. \A i \in 1..Len(s) + 1 : i \in 1..Len(s) \/ i = Len(s) + 1
    BY <1>2
  <1>4. QED
    BY <1>1, <1>2, <1>3 DEF ToSet

\* The new vertex of AddVertex has no edges and is where the loop is.
LEMMA NewVertex ==
  ASSUME GraphTypes, AddVertex, phase' = "vertices", strategies[idx].name \notin Vertices
  PROVE  LET n == strategies[idx].name IN
         /\ n # NoName /\ idx' = idx + 1 /\ idx \in DOMAIN strategies /\ n \in Names
         /\ order' = Append(order, n) /\ order' \in Seq(Names)
         /\ Vertices' = Vertices \cup {n}
         /\ out' = [v \in Vertices' |-> IF v = n THEN <<>> ELSE out[v]]
         /\ m_nameStrategyMap' = [v \in Vertices' |-> IF v = n THEN idx ELSE m_nameStrategyMap[v]]
  <1> DEFINE n == strategies[idx].name
  <1>1. /\ n # NoName /\ idx' = idx + 1 /\ idx <= Len(strategies)
        /\ order' = Append(order, n)
        /\ out' = [v \in Vertices \cup {n} |-> IF v = n THEN <<>> ELSE out[v]]
        /\ m_nameStrategyMap' =
             [v \in Vertices \cup {n} |-> IF v = n THEN idx ELSE m_nameStrategyMap[v]]
    BY DEF AddVertex, Fail, Enter
  <1>2. idx \in DOMAIN strategies /\ n \in Names
    BY <1>1, Lists DEF GraphTypes, Names
  <1>3. order' \in Seq(Names) /\ Vertices' = Vertices \cup {n}
    <2>1. order \in Seq(Names)
      BY DEF GraphTypes
    <2> HIDE DEF n
    <2>2. QED
      BY <1>1, <1>2, <2>1, AppendSet, AppendProperties DEF Vertices
  <1>4. QED
    BY <1>1, <1>2, <1>3

LEMMA AddVertexTypes ==
  ASSUME GraphTypes, AddVertex
  PROVE  GraphTypes' /\ strategies' = strategies
  <1>1. strategies' = strategies /\ Names' = Names
    BY DEF AddVertex, Names
  <1>2. CASE phase' = "failed"
    BY <1>1, <1>2 DEF AddVertex, GraphTypes, Fail, Enter, Phases, graph, Vertices
  <1>3. CASE phase' = "vertices" /\ strategies[idx].name \in Vertices
    BY <1>1, <1>3 DEF AddVertex, GraphTypes, Fail, Enter, Phases, graph, Vertices
  <1>4. CASE phase' = "vertices" /\ strategies[idx].name \notin Vertices
    <2> DEFINE n == strategies[idx].name
    <2>1. /\ idx' = idx + 1 /\ idx \in DOMAIN strategies
          /\ order' \in Seq(Names) /\ Vertices' = Vertices \cup {n}
          /\ out' = [v \in Vertices' |-> IF v = n THEN <<>> ELSE out[v]]
          /\ m_nameStrategyMap' = [v \in Vertices' |-> IF v = n THEN idx ELSE m_nameStrategyMap[v]]
      BY <1>4, NewVertex
    <2>2. out' \in [Vertices' -> Seq(Vertices')]
      <3>1. \A v \in Vertices : out[v] \in Seq(Vertices')
        BY <2>1, SeqMonotonic DEF GraphTypes
      <3>2. <<>> \in Seq(Vertices')
        BY EmptySeq
      <3>3. QED
        BY <2>1, <3>1, <3>2
    <2>3. m_nameStrategyMap' \in [Vertices' -> DOMAIN strategies]
      BY <2>1 DEF GraphTypes
    <2>4. nth' = nth /\ error' = error
      BY <1>4 DEF AddVertex, Fail, Enter
    <2>5. QED
      BY <1>1, <1>4, <2>1, <2>2, <2>3, <2>4 DEF GraphTypes, Phases
  <1>5. QED
    BY <1>2, <1>3, <1>4 DEF AddVertex, Fail, Enter

\* The edge of AddEdge.
LEMMA NewEdge ==
  ASSUME GraphTypes, AddEdge, phase' = "edges"
  PROVE  LET u == strategies[idx].depends[nth]
             v == strategies[idx].name IN
         /\ idx \in DOMAIN strategies /\ nth \in DOMAIN strategies[idx].depends
         /\ u \in Vertices /\ v \in Names
         /\ out' = [out EXCEPT ![u] = Append(@, v)]
         /\ nth' = nth + 1 /\ idx' = idx /\ error' = error
  <1> DEFINE u == strategies[idx].depends[nth]
             v == strategies[idx].name
  <1>1. idx <= Len(strategies) /\ nth <= Len(strategies[idx].depends)
    BY DEF AddEdge
  <1>2. idx \in DOMAIN strategies
    BY <1>1, Lists DEF GraphTypes
  <1>3. nth \in DOMAIN strategies[idx].depends
    BY <1>1, <1>2, Lists DEF GraphTypes
  <1>4. u \in Vertices /\ nth' = nth + 1 /\ idx' = idx /\ error' = error
        /\ out' = [out EXCEPT ![u] = Append(@, v)]
    BY DEF AddEdge, Fail, Enter
  <1>5. QED
    BY <1>2, <1>3, <1>4 DEF Names

LEMMA AddEdgeTypes ==
  ASSUME GraphTypes, BuildInv, AddEdge
  PROVE  GraphTypes' /\ UNCHANGED <<strategies, order, m_nameStrategyMap>>
  <1>1. UNCHANGED <<strategies, order, m_nameStrategyMap>>
    BY DEF AddEdge
  <1>2. Names' = Names /\ Vertices' = Vertices
    BY <1>1 DEF Names, Vertices
  <1>3. CASE phase' = "failed"
    BY <1>1, <1>2, <1>3 DEF AddEdge, GraphTypes, Fail, Enter, Phases
  <1>4. CASE phase' = "edges"
    <2> DEFINE u == strategies[idx].depends[nth]
               v == strategies[idx].name
    <2>1. /\ u \in Vertices /\ v \in Vertices
          /\ out' = [out EXCEPT ![u] = Append(@, v)]
          /\ nth' = nth + 1 /\ idx' = idx /\ error' = error
      BY <1>4, NewEdge DEF AddEdge, BuildInv
    <2>2. out' \in [Vertices -> Seq(Vertices)]
      BY <2>1, AppendProperties DEF GraphTypes
    <2>3. QED
      BY <1>1, <1>2, <1>4, <2>1, <2>2 DEF GraphTypes, Phases
  <1>5. QED
    BY <1>3, <1>4 DEF AddEdge, Fail, Enter

\* The steps after buildStrategyGraph().
Later ==
  \/ SearchStep \/ PrintGraph \/ (\E r \in Requests : SelectStrategies(r)) \/ MarkStep \/ RunStep

LEMMA LaterKeepsGraph ==
  ASSUME Later
  PROVE  UNCHANGED <<strategies, nth, graph>> /\ phase \notin Building \cup {"failed"}
         /\ phase' \notin Building
  BY DEF Later, SearchStep, Start, Examine, Finish, CheckCircleDone, TopoOrderDone,
     MarkRedundantDone, PrintDone, PrintGraph, SelectStrategies, MarkStep, SkipSeparator,
     MarkNeedRun, MarkReturn, MarkDone, RunStep, ResetStrategy, AllReset, RunStrategy, AllRun,
     Enter, Fail, BackEdge, build, Searches, Building, AtName

LEMMA LaterPhases ==
  ASSUME GraphTypes, Later
  PROVE  /\ phase' \in Phases /\ idx' \in Nat \ {0}
         /\ error' \in {"none", "noName", "noDepend", "circle", "notDag"}
  BY DEF GraphTypes, Phases, Later, SearchStep, Start, Examine, Finish, CheckCircleDone,
     TopoOrderDone, MarkRedundantDone, PrintDone, PrintGraph, SelectStrategies, MarkStep,
     SkipSeparator, MarkNeedRun, MarkReturn, MarkDone, RunStep, ResetStrategy, AllReset,
     RunStrategy, AllRun, Enter, Fail, BackEdge, build, Searches

LEMMA NextSteps ==
  ASSUME [Next]_vars
  PROVE  AddVertex \/ VerticesDone \/ AddEdge \/ DependsDone \/ EdgesDone \/ Later \/ UNCHANGED vars
  BY DEF Next, Later, BuildStep, Ended

LEMMA GraphTypesStep ==
  ASSUME GraphTypes, BuildInv, [Next]_vars
  PROVE  GraphTypes'
  <1>1. CASE AddVertex
    BY <1>1, AddVertexTypes
  <1>2. CASE AddEdge
    BY <1>2, AddEdgeTypes
  <1>3. CASE VerticesDone \/ DependsDone \/ EdgesDone
    <2>1. UNCHANGED <<strategies, error, graph>> /\ phase' \in Phases
          /\ idx' \in Nat \ {0} /\ nth' \in Nat \ {0}
      BY <1>3 DEF VerticesDone, DependsDone, EdgesDone, build, Enter, GraphTypes, Phases, Searches
    <2>2. QED
      BY <2>1 DEF GraphTypes, graph, Vertices, Names
  <1>4. CASE Later
    BY <1>4, LaterKeepsGraph, LaterPhases DEF GraphTypes, graph, Vertices, Names
  <1>5. CASE UNCHANGED vars
    BY <1>5 DEF vars, build, GraphTypes, graph, Vertices, Names
  <1>6. QED
    BY <1>1, <1>2, <1>3, <1>4, <1>5, NextSteps

\* The dependencies as edges.
LEMMA DependsEdges ==
  \A a : a \in Depends <=> \E i \in DOMAIN strategies : \E k \in DOMAIN strategies[i].depends :
                             a = Edge(i, k)
  BY DEF Depends, Edge, ToSet

\* An edge more.
LEMMA ArcsGrow ==
  ASSUME GraphTypes, NEW u \in Vertices, NEW v \in Vertices, Vertices' = Vertices,
         out' = [out EXCEPT ![u] = Append(@, v)]
  PROVE  Arcs' = Arcs \cup {<<u, v>>}
  <1>1. out[u] \in Seq(Vertices) /\ out'[u] = Append(out[u], v)
    BY DEF GraphTypes
  <1>2. /\ Len(out[u]) \in Nat
        /\ Len(out'[u]) = Len(out[u]) + 1
        /\ \A i \in 1..Len(out[u]) : out'[u][i] = out[u][i]
        /\ out'[u][Len(out[u]) + 1] = v
    BY <1>1, AppendProperties, LenProperties
  <1>3. \A x : Contains(out'[u], x) <=> Contains(out[u], x) \/ x = v
    <2>1. \A i \in 1..Len(out[u]) + 1 : i \in 1..Len(out[u]) \/ i = Len(out[u]) + 1
      BY <1>2
    <2>2. QED
      BY <1>2, <2>1 DEF Contains
  <1>4. \A w \in Vertices : w # u => out'[w] = out[w]
    BY DEF GraphTypes
  <1>5. \A a \in Vertices \X Vertices :
          Contains(out'[a[1]], a[2]) <=> Contains(out[a[1]], a[2]) \/ a = <<u, v>>
    <2> SUFFICES ASSUME NEW x \in Vertices, NEW y \in Vertices
                 PROVE  Contains(out'[x], y) <=> Contains(out[x], y) \/ (x = u /\ y = v)
      OBVIOUS
    <2>1. QED
      BY <1>3, <1>4
  <1>6. QED
    BY <1>5 DEF Arcs

LEMMA AddVertexBuild ==
  ASSUME GraphTypes, BuildInv, AddVertex
  PROVE  BuildInv'
  <1>1. /\ phase = "vertices" /\ idx <= Len(strategies) /\ nth' = nth /\ strategies' = strategies
    BY DEF AddVertex
  <1>2. idx \in DOMAIN strategies /\ Len(strategies) \in Nat
    BY <1>1, Lists DEF GraphTypes
  <1> DEFINE n == strategies[idx].name
  <1>3. CASE phase' = "failed"
    BY <1>1, <1>3 DEF BuildInv, AddVertex, Building, Fail, Enter, graph, Vertices
  <1>4. CASE phase' = "vertices" /\ n \in Vertices
    <2>1. idx' = idx + 1 /\ UNCHANGED graph
      BY <1>4 DEF AddVertex, Fail, Enter
    <2>2. {strategies[i].name : i \in 1..idx} = {strategies[i].name : i \in 1..idx - 1} \cup {n}
      BY <1>2
    <2>3. QED
      BY <1>1, <1>2, <1>4, <2>1, <2>2 DEF BuildInv, graph, Vertices, Building
  <1>5. CASE phase' = "vertices" /\ n \notin Vertices
    <2>1. /\ n # NoName /\ idx' = idx + 1
          /\ Vertices' = Vertices \cup {n}
          /\ out' = [v \in Vertices' |-> IF v = n THEN <<>> ELSE out[v]]
          /\ m_nameStrategyMap' = [v \in Vertices' |-> IF v = n THEN idx ELSE m_nameStrategyMap[v]]
      BY <1>5, NewVertex
    <2>2. {strategies[i].name : i \in 1..idx} = {strategies[i].name : i \in 1..idx - 1} \cup {n}
      BY <1>2
    <2>3. /\ idx' <= Len(strategies') + 1 /\ nth' = 1
          /\ Vertices' = {strategies'[i].name : i \in 1..idx' - 1} /\ NoName \notin Vertices'
      BY <1>1, <1>2, <2>1, <2>2 DEF BuildInv
    <2>4. \A v \in Vertices' : out'[v] = <<>> /\ strategies'[m_nameStrategyMap'[v]].name = v
      BY <1>1, <2>1 DEF BuildInv
    <2>5. QED
      BY <1>5, <2>3, <2>4 DEF BuildInv, Building
  <1>6. QED
    BY <1>3, <1>4, <1>5 DEF AddVertex, Fail, Enter

LEMMA VerticesDoneBuild ==
  ASSUME GraphTypes, BuildInv, VerticesDone
  PROVE  BuildInv'
  <1>1. /\ phase = "vertices" /\ phase' = "edges" /\ idx > Len(strategies) /\ idx' = 1
        /\ UNCHANGED <<strategies, nth, graph>>
    BY DEF VerticesDone, build, Enter
  <1>2. Len(strategies) \in Nat /\ DOMAIN strategies = 1..Len(strategies)
    BY Lists DEF GraphTypes
  <1>3. idx - 1 = Len(strategies) /\ nth = 1
    BY <1>1, <1>2 DEF GraphTypes, BuildInv
  <1>4. Vertices = Names /\ NoName \notin Names
    BY <1>1, <1>2, <1>3 DEF BuildInv, Names
  <1>5. Arcs = {}
    BY <1>1 DEF BuildInv, Arcs, Contains
  <1>6. \A i \in DOMAIN strategies : \A k \in DOMAIN strategies[i].depends : ~Seen(i, k)'
    BY <1>1, <1>2, <1>3, Lists DEF Seen, GraphTypes
  <1>7. Vertices' = Vertices /\ Names' = Names /\ Arcs' = Arcs
    BY <1>1 DEF graph, Vertices, Names, Arcs
  <1>8. QED
    BY <1>1, <1>4, <1>5, <1>6, <1>7 DEF BuildInv, Building, graph

LEMMA AddEdgeBuild ==
  ASSUME GraphTypes, BuildInv, AddEdge
  PROVE  BuildInv'
  <1>1. /\ phase = "edges" /\ UNCHANGED <<strategies, order, m_nameStrategyMap>>
        /\ phase' \in {"edges", "failed"}
    BY DEF AddEdge, Fail, Enter
  <1>2. Vertices' = Vertices /\ Names' = Names /\ \A i, k : Edge(i, k)' = Edge(i, k)
    BY <1>1 DEF Vertices, Names, Edge
  <1>3. CASE phase' = "failed"
    BY <1>1, <1>2, <1>3 DEF BuildInv, Building
  <1>4. CASE phase' = "edges"
    <2>1. /\ idx \in DOMAIN strategies /\ nth \in DOMAIN strategies[idx].depends
          /\ strategies[idx].depends[nth] \in Vertices
          /\ out' = [out EXCEPT ![strategies[idx].depends[nth]] = Append(@, strategies[idx].name)]
          /\ nth' = nth + 1 /\ idx' = idx
      BY <1>4, NewEdge
    <2>2. strategies[idx].name \in Vertices
      BY <1>1, <2>1 DEF BuildInv, Names
    <2>3. Arcs' = Arcs \cup {Edge(idx, nth)}
      BY <1>2, <2>1, <2>2, ArcsGrow DEF Edge
    <2>4. \A i \in DOMAIN strategies : \A k \in DOMAIN strategies[i].depends :
            Seen(i, k)' <=> Seen(i, k) \/ (i = idx /\ k = nth)
      <3> TAKE i \in DOMAIN strategies
      <3> TAKE k \in DOMAIN strategies[i].depends
      <3>1. i \in Nat /\ k \in Nat /\ idx \in Nat /\ nth \in Nat
        BY Indices DEF GraphTypes
      <3>2. QED
        BY <2>1, <3>1 DEF Seen
    <2>5. \A a \in Arcs' : \E i \in DOMAIN strategies : \E k \in DOMAIN strategies[i].depends :
            Seen(i, k)' /\ a = Edge(i, k)
      BY <1>1, <2>1, <2>3, <2>4 DEF BuildInv
    <2>6. \A i \in DOMAIN strategies : \A k \in DOMAIN strategies[i].depends :
            Seen(i, k)' => Edge(i, k) \in Arcs'
      BY <1>1, <2>3, <2>4 DEF BuildInv
    <2>7. QED
      BY <1>1, <1>2, <1>4, <2>5, <2>6 DEF BuildInv, Building
  <1>5. QED
    BY <1>1, <1>3, <1>4

LEMMA DependsDoneBuild ==
  ASSUME GraphTypes, BuildInv, DependsDone
  PROVE  BuildInv'
  <1>1. /\ phase = "edges" /\ phase' = "edges" /\ UNCHANGED <<strategies, graph>>
        /\ idx <= Len(strategies) /\ nth > Len(strategies[idx].depends)
        /\ idx' = idx + 1 /\ nth' = 1
    BY DEF DependsDone
  <1>2. Vertices' = Vertices /\ Names' = Names /\ Arcs' = Arcs /\ \A i, k : Edge(i, k)' = Edge(i, k)
    BY <1>1 DEF graph, Vertices, Names, Arcs, Edge
  <1>3. \A i \in DOMAIN strategies : \A k \in DOMAIN strategies[i].depends :
          Seen(i, k)' <=> Seen(i, k)
    <2> TAKE i \in DOMAIN strategies
    <2> TAKE k \in DOMAIN strategies[i].depends
    <2>1. i \in Nat /\ k \in 1..Len(strategies[i].depends) /\ idx \in Nat /\ nth \in Nat
          /\ Len(strategies[i].depends) \in Nat
      BY Indices DEF GraphTypes
    <2>2. i = idx => k < nth
      BY <1>1, <2>1
    <2>3. QED
      BY <1>1, <2>1, <2>2 DEF Seen
  <1>4. QED
    BY <1>1, <1>2, <1>3 DEF BuildInv, Building, graph

LEMMA EdgesDoneBuild ==
  ASSUME GraphTypes, BuildInv, EdgesDone
  PROVE  BuildInv'
  <1>1. /\ phase = "edges" /\ phase' = "checkCircle" /\ UNCHANGED <<strategies, graph>>
        /\ idx > Len(strategies)
    BY DEF EdgesDone, build, Enter
  <1>2. Vertices' = Vertices /\ Names' = Names /\ Arcs' = Arcs /\ Depends' = Depends
    BY <1>1 DEF graph, Vertices, Names, Arcs, Depends
  <1>3. \A i \in DOMAIN strategies : \A k \in DOMAIN strategies[i].depends : Seen(i, k)
    <2> TAKE i \in DOMAIN strategies
    <2> TAKE k \in DOMAIN strategies[i].depends
    <2>1. i \in 1..Len(strategies) /\ Len(strategies) \in Nat /\ idx \in Nat
      BY Indices DEF GraphTypes
    <2>2. QED
      BY <1>1, <2>1 DEF Seen
  <1>4. /\ \A a \in Arcs : \E i \in DOMAIN strategies : \E k \in DOMAIN strategies[i].depends :
             a = Edge(i, k)
        /\ \A i \in DOMAIN strategies : \A k \in DOMAIN strategies[i].depends : Edge(i, k) \in Arcs
    BY <1>1, <1>3, Zenon DEF BuildInv
  <1>5. Arcs \subseteq Depends
    BY <1>4, DependsEdges
  <1>6. \A a \in Depends : a \in Arcs
    <2> TAKE a \in Depends
    <2>1. PICK i \in DOMAIN strategies : \E k \in DOMAIN strategies[i].depends : a = Edge(i, k)
      BY DependsEdges
    <2>2. PICK k \in DOMAIN strategies[i].depends : a = Edge(i, k)
      BY <2>1
    <2>3. QED
      BY <1>4, <2>2
  <1>7. QED
    BY <1>1, <1>2, <1>5, <1>6 DEF BuildInv, Building, graph

LEMMA BuildInvStep ==
  ASSUME GraphTypes, BuildInv, [Next]_vars
  PROVE  BuildInv'
  <1>1. CASE Later
    <2>1. /\ UNCHANGED <<strategies, graph>> /\ phase \notin Building \cup {"failed"}
          /\ phase' \notin Building
      BY <1>1, LaterKeepsGraph
    <2>2. Vertices' = Vertices /\ Names' = Names /\ Arcs' = Arcs /\ Depends' = Depends
      BY <2>1 DEF graph, Vertices, Names, Arcs, Depends
    <2>3. QED
      BY <2>1, <2>2 DEF BuildInv, Building, graph
  <1>2. CASE UNCHANGED vars
    <2>1. UNCHANGED <<strategies, nth, graph, phase, idx>>
      BY <1>2 DEF vars, build
    <2>2. Vertices' = Vertices /\ Names' = Names /\ Arcs' = Arcs /\ Depends' = Depends
      BY <2>1 DEF graph, Vertices, Names, Arcs, Depends
    <2>3. \A i, k : (Edge(i, k)' = Edge(i, k)) /\ (Seen(i, k)' <=> Seen(i, k))
      BY <2>1 DEF Edge, Seen
    <2>4. QED
      BY <2>1, <2>2, <2>3 DEF BuildInv, Building, graph
  <1>3. QED
    BY <1>1, <1>2, AddVertexBuild, VerticesDoneBuild, AddEdgeBuild, DependsDoneBuild,
       EdgesDoneBuild, NextSteps

LEMMA EarlyStep ==
  ASSUME Early, [Next]_vars
  PROVE  Early'
  BY NextSteps, LaterKeepsGraph DEF Early, Building, AddVertex, VerticesDone, AddEdge, DependsDone,
     EdgesDone, Enter, Fail, search, marking, printing, vars

-----------------------------------------------------------------------------
(* The types of the searches                                                 *)

\* The graph does not change after init() has built it.
LEMMA GraphStays ==
  ASSUME Later \/ UNCHANGED vars
  PROVE  /\ UNCHANGED <<strategies, order, out, m_nameStrategyMap>>
         /\ Vertices' = Vertices /\ Arcs' = Arcs /\ Names' = Names /\ Depends' = Depends
         /\ \A n : DependsOf(n)' = DependsOf(n)
         /\ \A arcs, u, v : Reaches(arcs, u, v)' <=> Reaches(arcs, u, v)
  <1>1. UNCHANGED <<strategies, order, out, m_nameStrategyMap>>
    BY LaterKeepsGraph DEF graph, vars, build
  <1>2. Vertices' = Vertices
    BY <1>1 DEF Vertices
  <1>3. Arcs' = Arcs /\ Names' = Names /\ Depends' = Depends
    BY <1>1, <1>2 DEF Arcs, Names, Depends
  <1>4. \A n : DependsOf(n)' = DependsOf(n)
    BY <1>1 DEF DependsOf
  <1>5. \A arcs, u, v : Reaches(arcs, u, v)' <=> Reaches(arcs, u, v)
    BY <1>2 DEF Reaches
  <1>6. QED
    BY <1>1, <1>2, <1>3, <1>4, <1>5

\* Where the search is.
LEMMA AtTop ==
  ASSUME GraphTypes, SearchTypes, stack # <<>>
  PROVE  /\ Len(stack) \in Nat \ {0} /\ DOMAIN stack = 1..Len(stack)
         /\ Top = stack[Len(stack)] /\ Top \in Positions
         /\ Top.vertex \in Vertices /\ Top.edge \in Nat \ {0}
         /\ Top.edge <= Len(out[Top.vertex]) + 1
         /\ Len(out[Top.vertex]) \in Nat
         /\ Front(stack) \in Seq(Positions) /\ Len(Front(stack)) = Len(stack) - 1
         /\ \A i \in 1..Len(stack) - 1 : Front(stack)[i] = stack[i]
  <1>1. stack \in Seq(Positions)
    BY DEF SearchTypes
  <1>2. /\ Len(stack) \in Nat \ {0}
        /\ Last(stack) = stack[Len(stack)] /\ Last(stack) \in Positions
        /\ Front(stack) \in Seq(Positions) /\ Len(Front(stack)) = Len(stack) - 1
        /\ \A i \in 1..Len(stack) - 1 : Front(stack)[i] = stack[i]
    BY <1>1, LastFront
  <1>3. DOMAIN stack = 1..Len(stack)
    BY <1>1, LenProperties
  <1>4. Len(stack) \in DOMAIN stack
    BY <1>2, <1>3
  <1>5. Top.edge <= Len(out[Top.vertex]) + 1
    BY <1>2, <1>4 DEF SearchTypes, Top
  <1>6. Top.vertex \in Vertices /\ Top.edge \in Nat \ {0}
    BY <1>2 DEF Top, Positions
  <1>7. Len(out[Top.vertex]) \in Nat
    BY <1>6, LenProperties DEF GraphTypes
  <1>8. QED
    BY <1>2, <1>3, <1>5, <1>6, <1>7 DEF Top

\* The edge Examine is at.
U == Top.vertex
V == out[U][Top.edge]

LEMMA EdgeAt ==
  ASSUME GraphTypes, NEW u \in Vertices, NEW k \in 1..Len(out[u])
  PROVE  out[u][k] \in Vertices /\ <<u, out[u][k]>> \in Arcs
  <1>1. out[u] \in Seq(Vertices)
    BY DEF GraphTypes
  <1>2. DOMAIN out[u] = 1..Len(out[u]) /\ out[u][k] \in Vertices
    BY <1>1, LenProperties, ElementOfSeq
  <1>3. QED
    BY <1>2 DEF Arcs, Contains

LEMMA AtV ==
  ASSUME GraphTypes, SearchTypes, Examine
  PROVE  /\ stack # <<>> /\ U \in Vertices /\ V \in Vertices /\ <<U, V>> \in Arcs
         /\ Top.edge \in 1..Len(out[U]) /\ Top.edge \in Nat \ {0}
  <1>1. stack # <<>> /\ Top.edge <= Len(out[Top.vertex])
    BY DEF Examine, AtEdge
  <1>2. Top.edge \in 1..Len(out[U]) /\ U \in Vertices /\ Top.edge \in Nat \ {0}
    BY <1>1, AtTop DEF U
  <1>3. QED
    BY <1>1, <1>2, EdgeAt DEF V

\* What Examine does to the stack.
LEMMA ExamineStack ==
  ASSUME GraphTypes, SearchTypes, Examine
  PROVE  LET n == Len(stack) IN
         /\ n \in Nat \ {0} /\ stack' \in Seq(Positions)
         /\ \A i \in 1..n - 1 : stack'[i] = stack[i]
         /\ stack'[n] = [vertex |-> U, edge |-> Top.edge + 1]
         /\ color[V] = "white" =>
              /\ Len(stack') = n + 1 /\ stack'[n + 1] = [vertex |-> V, edge |-> 1]
              /\ color' = [color EXCEPT ![V] = "gray"]
         /\ color[V] # "white" => Len(stack') = n /\ color' = color
  <1> DEFINE n == Len(stack)
             r == Replaced(stack, Advanced(Top))
             new == [vertex |-> V, edge |-> 1]
  <1>1. stack # <<>> /\ n \in Nat \ {0} /\ Top \in Positions /\ stack \in Seq(Positions)
    BY AtV, AtTop DEF SearchTypes
  <1>2. Advanced(Top) = [vertex |-> U, edge |-> Top.edge + 1]
    BY <1>1 DEF Advanced, Positions, U
  <1>3. Advanced(Top) \in Positions
    BY <1>1 DEF Advanced, Positions
  <1>4. /\ r \in Seq(Positions) /\ Len(r) = n /\ r[n] = Advanced(Top)
        /\ \A i \in 1..n - 1 : r[i] = stack[i]
    BY <1>1, <1>3, ReplacedLast
  <1>5. new \in Positions
    BY AtV DEF Positions
  <1>6. /\ Append(r, new) \in Seq(Positions) /\ Len(Append(r, new)) = n + 1
        /\ Append(r, new)[n + 1] = new
        /\ \A i \in 1..n : Append(r, new)[i] = r[i]
    BY <1>4, <1>5, AppendProperties
  <1>7. CASE color[V] = "white"
    <2>1. stack' = Append(r, new) /\ color' = [color EXCEPT ![V] = "gray"]
      BY <1>7 DEF Examine, Replaced, U, V
    <2>2. QED
      BY <1>1, <1>2, <1>4, <1>6, <1>7, <2>1
  <1>8. CASE color[V] # "white"
    <2>1. stack' = r /\ color' = color
      BY <1>8 DEF Examine, Replaced, U, V
    <2>2. QED
      BY <1>1, <1>2, <1>4, <1>8, <2>1
  <1>9. QED
    BY <1>7, <1>8

LEMMA FinishStack ==
  ASSUME GraphTypes, SearchTypes, Finish
  PROVE  LET n == Len(stack) IN
         /\ n \in Nat \ {0} /\ stack # <<>> /\ U \in Vertices
         /\ stack' \in Seq(Positions) /\ Len(stack') = n - 1
         /\ \A i \in 1..n - 1 : stack'[i] = stack[i]
         /\ Top.edge = Len(out[U]) + 1
         /\ color' = [color EXCEPT ![U] = "black"]
  <1>1. stack # <<>> /\ stack' = Front(stack) /\ color' = [color EXCEPT ![U] = "black"]
        /\ ~(Top.edge <= Len(out[U]))
    BY DEF Finish, AtEdge, U
  <1>2. Top.edge = Len(out[U]) + 1
    BY <1>1, AtTop DEF U
  <1>3. QED
    BY <1>1, <1>2, AtTop DEF U

LEMMA StartStack ==
  ASSUME GraphTypes, Start
  PROVE  \E v \in Vertices :
           /\ color[v] = "white" /\ stack = <<>>
           /\ color' = [color EXCEPT ![v] = "gray"]
           /\ stack' = <<[vertex |-> v, edge |-> 1]>>
  <1>1. PICK i \in DOMAIN order :
          /\ color[order[i]] = "white"
          /\ color' = [color EXCEPT ![order[i]] = "gray"]
          /\ stack' = <<[vertex |-> order[i], edge |-> 1]>>
    BY DEF Start
  <1>2. order[i] \in Vertices
    BY DEF Vertices, ToSet
  <1>3. QED
    BY <1>1, <1>2 DEF Start

\* The steps that leave the stack and the results of the searches alone.
LEMMA OtherSteps ==
  ASSUME Later \/ UNCHANGED vars, ~Start, ~Examine, ~Finish
  PROVE  /\ stack' = stack /\ circleEdges' = circleEdges /\ topo' = topo
         /\ redundant' = redundant /\ printed' = printed
         /\ sg_outputFullGraph' = sg_outputFullGraph \/ sg_outputFullGraph' \in BOOLEAN
         /\ phase' \in Searches => color' = White \/ (color' = color /\ phase' = phase)
  BY DEF Later, SearchStep, CheckCircleDone,
     TopoOrderDone, MarkRedundantDone, PrintDone, PrintGraph, SelectStrategies, MarkStep,
     SkipSeparator, MarkNeedRun, MarkReturn, MarkDone, RunStep, ResetStrategy, AllReset,
     RunStrategy, AllRun, Enter, Fail, search, printing, vars, Searches

\* The edge Examine is at is all that it adds to the results.
LEMMA ExamineResults ==
  ASSUME Examine
  PROVE  /\ circleEdges' = IF phase = "checkCircle" /\ color[V] = "gray"
                             THEN circleEdges \cup {<<U, V>>} ELSE circleEdges
         /\ phase = "topoOrder" /\ color[V] = "gray" => phase' = "failed" /\ error' = "notDag"
         /\ ~(phase = "topoOrder" /\ color[V] = "gray") => UNCHANGED <<phase, idx, error>>
         /\ redundant' = IF phase = "markRedundant" /\ ExistAnotherPath(U, V)
                           THEN redundant \cup {<<U, V>>} ELSE redundant
         /\ printed' = IF phase = "print" /\ (sg_outputFullGraph \/ <<U, V>> \notin redundant)
                         THEN Append(printed, <<U, Top.edge>>) ELSE printed
         /\ UNCHANGED <<topo, sg_outputFullGraph>> /\ phase \in Searches
  <1>1. Ends(<<U, Top.edge>>) = <<U, V>>
    BY DEF Ends, V
  <1>2. QED
    BY <1>1 DEF Examine, BackEdge, MarkRedundant, PrintEdge, U, V, Fail, Enter

LEMMA SearchTypesStep ==
  ASSUME GraphTypes, SearchTypes, Early, [Next]_vars
  PROVE  SearchTypes'
  <1>1. CASE AddVertex \/ VerticesDone \/ AddEdge \/ DependsDone \/ EdgesDone
    <2>1. UNCHANGED <<stack, circleEdges, redundant, printed, topo, sg_outputFullGraph>>
          /\ stack = <<>> /\ circleEdges = {} /\ redundant = {} /\ printed = <<>> /\ topo = <<>>
      BY <1>1 DEF AddVertex, VerticesDone, AddEdge, DependsDone, EdgesDone, Early, Building,
         search, printing
    <2>2. phase' \in Searches => color' = [v \in Vertices |-> "white"] /\ Vertices' = Vertices
      BY <1>1 DEF AddVertex, VerticesDone, AddEdge, DependsDone, EdgesDone, Searches, Enter, Fail,
         White, build, graph, Vertices
    <2>3. stack' \in Seq(Positions)' /\ topo' \in Seq(Vertices)' /\ printed' \in Seq(OutEdges')
      BY <2>1, EmptySeq
    <2>4. \A i \in DOMAIN stack' : FALSE
      BY <2>1, EmptySeq
    <2>5. QED
      BY <2>1, <2>2, <2>3, <2>4 DEF SearchTypes
  <1>2. CASE Start
    <2>1. PICK v \in Vertices : /\ color' = [color EXCEPT ![v] = "gray"]
                                /\ stack' = <<[vertex |-> v, edge |-> 1]>>
      BY <1>2, StartStack
    <2>2. [vertex |-> v, edge |-> 1] \in Positions
      BY DEF Positions
    <2>3. stack' \in Seq(Positions) /\ DOMAIN stack' = {1} /\ stack'[1].edge = 1 /\ stack'[1].vertex = v
      BY <2>1, <2>2
    <2>4. Len(out[v]) \in Nat
      BY LenProperties DEF GraphTypes
    <2>5. Vertices' = Vertices /\ out' = out /\ Arcs' = Arcs /\ Positions' = Positions
          /\ OutEdges' = OutEdges
      BY <1>2, GraphStays DEF Later, SearchStep, Positions, OutEdges
    <2>6. UNCHANGED <<circleEdges, topo, redundant, printed, sg_outputFullGraph, phase>>
          /\ phase \in Searches
      BY <1>2 DEF Start, printing
    <2>7. \A i \in DOMAIN stack' : stack'[i].edge <= Len(out'[stack'[i].vertex]) + 1
      BY <2>3, <2>4, <2>5
    <2>8. QED
      BY <2>1, <2>3, <2>5, <2>6, <2>7 DEF SearchTypes
  <1>3. CASE Examine
    <2> DEFINE n == Len(stack)
    <2>1. Vertices' = Vertices /\ out' = out /\ Arcs' = Arcs /\ Positions' = Positions
          /\ OutEdges' = OutEdges
      BY <1>3, GraphStays DEF Later, SearchStep, Positions, OutEdges
    <2>2. /\ n \in Nat \ {0} /\ stack' \in Seq(Positions)
          /\ \A i \in 1..n - 1 : stack'[i] = stack[i]
          /\ stack'[n].vertex = U /\ stack'[n].edge = Top.edge + 1
          /\ color[V] = "white" =>
               Len(stack') = n + 1 /\ stack'[n + 1].vertex = V /\ stack'[n + 1].edge = 1
          /\ color[V] # "white" => Len(stack') = n
      BY <1>3, ExamineStack
    <2>3. /\ U \in Vertices /\ V \in Vertices /\ <<U, V>> \in Arcs
          /\ Top.edge \in 1..Len(out[U])
      BY <1>3, AtV
    <2>4. Len(out[V]) \in Nat /\ Len(out[U]) \in Nat
      BY <2>3, LenProperties DEF GraphTypes
    <2>5. \A i \in 1..n - 1 : stack'[i].edge <= Len(out[stack'[i].vertex]) + 1
      <3>1. DOMAIN stack = 1..n
        BY AtTop, AtV, <1>3
      <3>2. \A i \in 1..n : stack[i].edge <= Len(out[stack[i].vertex]) + 1
        BY <3>1 DEF SearchTypes
      <3>3. n \in Nat /\ \A i \in 1..n - 1 : stack'[i] = stack[i]
        BY <2>2
      <3>4. QED
        BY <3>2, <3>3
    <2>6. stack'[n].edge <= Len(out[stack'[n].vertex]) + 1
      BY <2>2, <2>3, <2>4
    <2>7. color[V] = "white" => stack'[n + 1].edge <= Len(out[stack'[n + 1].vertex]) + 1
      BY <2>2, <2>4
    <2>8. DOMAIN stack' = 1..Len(stack')
      <3>1. stack' \in Seq(Positions)
        BY <2>2
      <3>2. QED
        BY <3>1, LenProperties
    <2>9. \A i \in DOMAIN stack' : i \in 1..n - 1 \/ i = n \/ (i = n + 1 /\ color[V] = "white")
      <3>1. n \in Nat \ {0} /\ (Len(stack') = n \/ (Len(stack') = n + 1 /\ color[V] = "white"))
        BY <2>2, Zenon
      <3>2. \A i \in DOMAIN stack' : i \in 1..Len(stack')
        BY <2>8
      <3>3. CASE Len(stack') = n
        BY <3>1, <3>2, <3>3
      <3>4. CASE Len(stack') = n + 1 /\ color[V] = "white"
        BY <3>1, <3>2, <3>4
      <3>5. QED
        BY <3>1, <3>3, <3>4
    <2>10. \A i \in DOMAIN stack' : stack'[i].edge <= Len(out[stack'[i].vertex]) + 1
      BY <2>5, <2>6, <2>7, <2>9
    <2>11. color' \in [Vertices -> {"white", "gray", "black"}]
      <3>1. color \in [Vertices -> {"white", "gray", "black"}]
        BY <1>3 DEF SearchTypes, Examine
      <3>2. color' = color \/ color' = [color EXCEPT ![V] = "gray"]
        BY <1>3, ExamineStack
      <3>3. QED
        BY <3>1, <3>2
    <2>12. /\ circleEdges' \subseteq Arcs /\ redundant' \subseteq Arcs
           /\ topo' \in Seq(Vertices) /\ sg_outputFullGraph' \in BOOLEAN
      BY <1>3, <2>3, ExamineResults DEF SearchTypes
    <2>13. printed' \in Seq(OutEdges)
      <3>1. <<U, Top.edge>> \in OutEdges
        <4>1. DOMAIN out[U] = 1..Len(out[U])
          BY <2>3, LenProperties DEF GraphTypes
        <4>2. QED
          BY <2>3, <4>1 DEF OutEdges
      <3>2. printed \in Seq(OutEdges)
        BY DEF SearchTypes
      <3>3. Append(printed, <<U, Top.edge>>) \in Seq(OutEdges)
        BY <3>1, <3>2, AppendProperties
      <3>4. QED
        BY <1>3, <3>2, <3>3, ExamineResults
    <2>14. QED
      BY <2>1, <2>2, <2>10, <2>11, <2>12, <2>13 DEF SearchTypes
  <1>4. CASE Finish
    <2> DEFINE n == Len(stack)
    <2>1. Vertices' = Vertices /\ out' = out /\ Arcs' = Arcs /\ Positions' = Positions
          /\ OutEdges' = OutEdges
      BY <1>4, GraphStays DEF Later, SearchStep, Positions, OutEdges
    <2>2. /\ n \in Nat \ {0} /\ stack' \in Seq(Positions) /\ Len(stack') = n - 1
          /\ \A i \in 1..n - 1 : stack'[i] = stack[i]
          /\ color' = [color EXCEPT ![U] = "black"] /\ U \in Vertices
      BY <1>4, FinishStack
    <2>3. DOMAIN stack' = 1..n - 1 /\ DOMAIN stack = 1..n
      <3>1. stack' \in Seq(Positions) /\ stack \in Seq(Positions) /\ Len(stack') = n - 1
        BY <2>2 DEF SearchTypes
      <3>2. QED
        BY <3>1, LenProperties
    <2>4. \A i \in DOMAIN stack' : stack'[i].edge <= Len(out[stack'[i].vertex]) + 1
      <3>1. \A i \in 1..n : stack[i].edge <= Len(out[stack[i].vertex]) + 1
        BY <2>3 DEF SearchTypes
      <3>2. n \in Nat /\ \A i \in 1..n - 1 : stack'[i] = stack[i]
        BY <2>2
      <3>3. QED
        BY <2>3, <3>1, <3>2
    <2>5. color' \in [Vertices -> {"white", "gray", "black"}]
      BY <1>4, <2>2 DEF SearchTypes, Finish
    <2>6. topo' \in Seq(Vertices)
      <3>1. <<U>> \o topo \in Seq(Vertices)
        BY <2>2, Prepended DEF SearchTypes
      <3>2. QED
        BY <1>4, <3>1 DEF Finish, TopoWith, U, SearchTypes
    <2>7. UNCHANGED <<circleEdges, redundant, printed, sg_outputFullGraph>>
      BY <1>4 DEF Finish, printing
    <2>8. QED
      BY <2>1, <2>2, <2>4, <2>5, <2>6, <2>7 DEF SearchTypes
  <1>5. CASE (Later \/ UNCHANGED vars) /\ ~Start /\ ~Examine /\ ~Finish
    <2>1. Vertices' = Vertices /\ out' = out /\ Arcs' = Arcs /\ Positions' = Positions
          /\ OutEdges' = OutEdges
      BY <1>5, GraphStays DEF Positions, OutEdges
    <2>2. /\ stack' = stack /\ circleEdges' = circleEdges /\ topo' = topo
          /\ redundant' = redundant /\ printed' = printed
          /\ sg_outputFullGraph' = sg_outputFullGraph \/ sg_outputFullGraph' \in BOOLEAN
          /\ phase' \in Searches => color' = White \/ (color' = color /\ phase' = phase)
      BY <1>5, OtherSteps
    <2>3. phase' \in Searches => color' \in [Vertices -> {"white", "gray", "black"}]
      <3>1. White \in [Vertices -> {"white", "gray", "black"}]
        BY DEF White
      <3>2. phase \in Searches => color \in [Vertices -> {"white", "gray", "black"}]
        BY DEF SearchTypes
      <3>3. QED
        BY <2>2, <3>1, <3>2, Zenon
    <2>4. sg_outputFullGraph' \in BOOLEAN
      BY <2>2 DEF SearchTypes
    <2>5. /\ stack' \in Seq(Positions)
          /\ \A i \in DOMAIN stack' : stack'[i].edge <= Len(out[stack'[i].vertex]) + 1
          /\ circleEdges' \subseteq Arcs /\ redundant' \subseteq Arcs /\ printed' \in Seq(OutEdges)
          /\ topo' \in Seq(Vertices)
      BY <2>2, Zenon DEF SearchTypes
    <2>6. QED
      BY <2>1, <2>3, <2>4, <2>5, Zenon DEF SearchTypes
  <1>6. QED
    BY <1>1, <1>2, <1>3, <1>4, <1>5, NextSteps

-----------------------------------------------------------------------------
(* The types of the selection                                                *)

\* No call is active outside of the marking.
NoCalls == phase # "mark" => calls = <<>>

LEMMA NoCallsStep ==
  ASSUME NoCalls, [Next]_vars
  PROVE  NoCalls'
  BY DEF NoCalls, Next, BuildStep, AddVertex, VerticesDone, AddEdge, DependsDone, EdgesDone,
     SearchStep, Start, Examine, Finish, BackEdge, CheckCircleDone, TopoOrderDone, MarkRedundantDone,
     PrintDone, PrintGraph, SelectStrategies, MarkStep, SkipSeparator, MarkNeedRun, MarkReturn,
     MarkDone, RunStep, ResetStrategy, AllReset, RunStrategy, AllRun, Ended, Enter, Fail, AtName,
     marking, vars, Searches

\* The innermost loop.
LEMMA AtCall ==
  ASSUME MarkTypes, calls # <<>>
  PROVE  /\ Len(calls) \in Nat \ {0} /\ DOMAIN calls = 1..Len(calls)
         /\ Last(calls) = calls[Len(calls)] /\ Last(calls) \in Frames
         /\ NextName(Last(calls)) \in Frames
         /\ NextName(Last(calls)).names = Last(calls).names
         /\ NextName(Last(calls)).next = Last(calls).next + 1
         /\ Front(calls) \in Seq(Frames) /\ Len(Front(calls)) = Len(calls) - 1
         /\ \A i \in 1..Len(calls) - 1 : Front(calls)[i] = calls[i]
  <1>1. calls \in Seq(Frames)
    BY DEF MarkTypes
  <1>2. /\ Len(calls) \in Nat \ {0}
        /\ Last(calls) = calls[Len(calls)] /\ Last(calls) \in Frames
        /\ Front(calls) \in Seq(Frames) /\ Len(Front(calls)) = Len(calls) - 1
        /\ \A i \in 1..Len(calls) - 1 : Front(calls)[i] = calls[i]
    BY <1>1, LastFront
  <1>3. DOMAIN calls = 1..Len(calls)
    BY <1>1, LenProperties
  <1>4. /\ NextName(Last(calls)) \in Frames
        /\ NextName(Last(calls)).names = Last(calls).names
        /\ NextName(Last(calls)).next = Last(calls).next + 1
    <2>1. Last(calls) \in Frames
      BY <1>2
    <2>2. QED
      BY <2>1 DEF NextName, Frames
  <1>5. QED
    BY <1>2, <1>3, <1>4

\* The steps that change neither the selection nor what ran.
LEMMA MarkingSteps ==
  ASSUME [Next]_vars
  PROVE  \/ marking' = marking
         \/ \E r \in Requests : SelectStrategies(r)
         \/ SkipSeparator \/ MarkNeedRun \/ MarkReturn
         \/ RunStrategy
  BY NextSteps DEF AddVertex, VerticesDone, AddEdge, DependsDone, EdgesDone, Later,
     SearchStep, Start, Examine, Finish, CheckCircleDone, TopoOrderDone, MarkRedundantDone,
     PrintDone, PrintGraph, MarkStep, MarkDone, RunStep, ResetStrategy, AllReset, AllRun, vars

\* A strategy is marked: what becomes of the calls.
LEMMA Called ==
  ASSUME GraphTypes, MarkTypes, MarkNeedRun, NameAt \in Vertices, ~(NameAt = LongName /\ Len(calls) = 1)
  PROVE  LET n == Len(calls)
             call == [names |-> DependsOf(NameAt), next |-> 1] IN
         /\ calls # <<>> /\ n \in Nat \ {0}
         /\ calls' \in Seq(Frames) /\ Len(calls') = n + 1
         /\ \A i \in 1..n - 1 : calls'[i] = calls[i]
         /\ calls'[n] = NextName(Last(calls)) /\ calls'[n + 1] = call
         /\ needRun' = needRun \cup {NameAt} /\ phase' = "mark"
  <1> DEFINE n == Len(calls)
             call == [names |-> DependsOf(NameAt), next |-> 1]
             x == NextName(Last(calls))
  <1>1. /\ calls # <<>> /\ needRun' = needRun \cup {NameAt} /\ phase' = "mark"
        /\ calls' = Front(calls) \o <<x, call>>
    BY DEF MarkNeedRun, AtName
  <1>2. call \in Frames
    BY DEF Frames
  <1>3. /\ n \in Nat \ {0} /\ x \in Frames
        /\ Front(calls) \in Seq(Frames) /\ Len(Front(calls)) = n - 1
        /\ \A i \in 1..n - 1 : Front(calls)[i] = calls[i]
    BY <1>1, AtCall
  <1> HIDE DEF call, x
  <1>4. <<x, call>> \in Seq(Frames) /\ Len(<<x, call>>) = 2
        /\ <<x, call>>[1] = x /\ <<x, call>>[2] = call
    BY <1>2, <1>3
  <1>5. /\ calls' \in Seq(Frames) /\ Len(calls') = n - 1 + 2
        /\ \A i \in 1..n - 1 + 2 :
             calls'[i] = IF i <= n - 1 THEN Front(calls)[i] ELSE <<x, call>>[i - (n - 1)]
    BY <1>1, <1>3, <1>4, ConcatProperties
  <1>6. /\ n \in 1..n - 1 + 2 /\ n + 1 \in 1..n - 1 + 2 /\ n - (n - 1) = 1 /\ n + 1 - (n - 1) = 2
        /\ ~(n <= n - 1) /\ ~(n + 1 <= n - 1)
    BY <1>3
  <1>7. calls'[n] = x /\ calls'[n + 1] = call
    BY <1>4, <1>5, <1>6
  <1>8. \A i \in 1..n - 1 : calls'[i] = calls[i]
    BY <1>3, <1>5
  <1>9. QED
    BY <1>1, <1>3, <1>5, <1>7, <1>8 DEF call, x

LEMMA MarkTypesStep ==
  ASSUME GraphTypes, BuildInv, SearchTypes, MarkTypes, Early, NoCalls, [Next]_vars
  PROVE  MarkTypes'
  <1>1. CASE AddVertex \/ VerticesDone \/ AddEdge \/ DependsDone \/ EdgesDone
    <2>1. /\ calls' = <<>> /\ ran' = <<>> /\ request' = <<>> /\ needRun' = needRun
          /\ strategies' = strategies
      BY <1>1 DEF AddVertex, VerticesDone, AddEdge, DependsDone, EdgesDone, Early, Building,
         marking, build
    <2>2. calls' \in Seq(Frames)' /\ ran' \in Seq(Vertices)'
      BY <2>1, EmptySeq
    <2>3. QED
      BY <2>1, <2>2 DEF MarkTypes, Names
  <1>2. CASE Later \/ UNCHANGED vars
    <2>1. Vertices' = Vertices /\ Names' = Names /\ \A n : DependsOf(n)' = DependsOf(n)
      BY <1>2, GraphStays
    <2>2. request' = request => Frames' = Frames
      BY <2>1 DEF Frames
    <2>3. CASE marking' = marking
      BY <2>1, <2>2, <2>3 DEF MarkTypes, marking
    <2>4. CASE \E r \in Requests : SelectStrategies(r)
      <3>1. PICK r \in Requests : SelectStrategies(r)
        BY <2>4
      <3>2. /\ request' = r /\ ran' = <<>> /\ needRun' \subseteq needRun
            /\ calls' = <<>> \/ calls' = <<[names |-> r, next |-> 1]>>
        BY <3>1 DEF SelectStrategies, NeedRunAtFirst, NoCalls
      <3>3. [names |-> r, next |-> 1] \in Frames'
        BY <3>2 DEF Frames
      <3>4. calls' \in Seq(Frames')
        <4> DEFINE first == [names |-> r, next |-> 1]
        <4>1. (calls' = <<>> \/ calls' = <<first>>) /\ first \in Frames'
          BY <3>2, <3>3
        <4>2. <<>> \in Seq(Frames') /\ <<first>> \in Seq(Frames')
          BY <4>1, ShortSeq
        <4>3. QED
          BY <4>1, <4>2, Zenon
      <3>5. ran' \in Seq(Vertices')
        BY <3>2, EmptySeq
      <3>6. QED
        BY <2>1, <3>2, <3>4, <3>5 DEF MarkTypes
    <2>5. CASE SkipSeparator
      <3>1. calls # <<>> /\ calls' = <<NextName(Last(calls))>> /\ UNCHANGED <<request, needRun, ran>>
        BY <2>5 DEF SkipSeparator, AtName
      <3>2. calls' \in Seq(Frames)
        BY <3>1, AtCall
      <3>3. QED
        BY <2>1, <2>2, <3>1, <3>2 DEF MarkTypes
    <2>6. CASE MarkNeedRun
      <3>1. UNCHANGED <<request, ran>>
        BY <2>6 DEF MarkNeedRun
      <3>2. CASE NameAt \in Vertices /\ ~(NameAt = LongName /\ Len(calls) = 1)
        <4>1. calls' \in Seq(Frames) /\ needRun' = needRun \cup {NameAt}
          BY <2>6, <3>2, Called
        <4>2. NameAt \in Names
          BY <2>6, <3>2 DEF BuildInv, MarkNeedRun, AtName, Building
        <4>3. QED
          BY <2>1, <2>2, <3>1, <4>1, <4>2 DEF MarkTypes
      <3>3. CASE ~(NameAt \in Vertices /\ ~(NameAt = LongName /\ Len(calls) = 1))
        <4>1. calls' = <<>> /\ needRun' = needRun
          BY <2>6, <3>3 DEF MarkNeedRun
        <4>2. calls' \in Seq(Frames)
          BY <4>1, EmptySeq
        <4>3. QED
          BY <2>1, <2>2, <3>1, <4>1, <4>2 DEF MarkTypes
      <3>4. QED
        BY <3>2, <3>3
    <2>7. CASE MarkReturn
      <3>1. calls # <<>> /\ calls' = Front(calls) /\ UNCHANGED <<request, needRun, ran>>
        BY <2>7 DEF MarkReturn
      <3>2. calls' \in Seq(Frames)
        BY <3>1, AtCall
      <3>3. QED
        BY <2>1, <2>2, <3>1, <3>2 DEF MarkTypes
    <2>8. CASE RunStrategy
      <3>1. UNCHANGED <<request, calls, needRun>> /\ idx <= Len(topo)
            /\ (ran' = ran \/ ran' = Append(ran, topo[idx]))
        BY <2>8 DEF RunStrategy
      <3>2. topo[idx] \in Vertices
        BY <3>1, ElementOfSeq, LenProperties DEF SearchTypes, GraphTypes
      <3>3. ran' \in Seq(Vertices)
        BY <3>1, <3>2, AppendProperties DEF MarkTypes
      <3>4. QED
        BY <2>1, <2>2, <3>1, <3>3 DEF MarkTypes
    <2>9. QED
      BY <2>3, <2>4, <2>5, <2>6, <2>7, <2>8, MarkingSteps
  <1>3. QED
    BY <1>1, <1>2, NextSteps

LEMMA NoVertices ==
  ASSUME order = <<>>
  PROVE  Vertices = {}
  BY DEF Vertices, ToSet

LEMMA EmptyFunction ==
  ASSUME NEW S
  PROVE  <<>> \in [{} -> S]
  OBVIOUS

\* What is proved together: the types, the graph, and what is empty until it is needed.
Basics == GraphTypes /\ BuildInv /\ SearchTypes /\ MarkTypes /\ Early /\ NoCalls

LEMMA BasicsInit == Init => Basics
  <1> SUFFICES ASSUME Init PROVE Basics
    OBVIOUS
  <1>1. /\ strategies \in Inputs /\ phase = "vertices" /\ idx = 1 /\ nth = 1 /\ error = "none"
        /\ order = <<>> /\ out = <<>> /\ m_nameStrategyMap = <<>> /\ stack = <<>>
        /\ circleEdges = {} /\ topo = <<>> /\ redundant = {} /\ sg_outputFullGraph = FALSE
        /\ printed = <<>> /\ request = <<>> /\ calls = <<>> /\ ran = <<>> /\ needRun = Names
    BY DEF Init, Names
  <1>2. Vertices = {}
    BY <1>1, NoVertices
  <1>3. out \in [Vertices -> Seq(Vertices)] /\ m_nameStrategyMap \in [Vertices -> DOMAIN strategies]
    BY <1>1, <1>2, EmptyFunction
  <1>4. order \in Seq(Names) /\ stack \in Seq(Positions) /\ topo \in Seq(Vertices)
        /\ calls \in Seq(Frames) /\ ran \in Seq(Vertices) /\ printed \in Seq(OutEdges)
    BY <1>1, EmptySeq
  <1>5. GraphTypes
    BY <1>1, <1>3, <1>4 DEF GraphTypes, Phases
  <1>6. SearchTypes
    <2>1. \A i \in DOMAIN stack : FALSE
      BY <1>1, EmptySeq
    <2>2. QED
      BY <1>1, <1>4, <2>1 DEF SearchTypes, Searches
  <1>7. MarkTypes
    BY <1>1, <1>4 DEF MarkTypes
  <1>8. BuildInv
    <2>1. Len(strategies) \in Nat
      BY <1>1, Lists
    <2>2. QED
      BY <1>1, <1>2, <2>1 DEF BuildInv, Building
  <1>9. QED
    BY <1>1, <1>5, <1>6, <1>7, <1>8 DEF Basics, Early, NoCalls

LEMMA BasicsStep == Basics /\ [Next]_vars => Basics'
  BY GraphTypesStep, BuildInvStep, SearchTypesStep, MarkTypesStep, EarlyStep, NoCallsStep DEF Basics

\* The types hold in every run of the manager, for any lists of strategies and requests.
THEOREM TypesHold == Spec => []TypeOK
  <1>1. Basics => TypeOK
    BY Types DEF Basics
  <1>2. QED
    BY <1>1, BasicsInit, BasicsStep, PTL DEF Spec

-----------------------------------------------------------------------------
(* Paths                                                                     *)

LEMMA ReachesSelf == \A arcs, u : Reaches(arcs, u, u)
  BY DEF Reaches

LEMMA ReachesNext ==
  \A arcs, u : \A a \in arcs : Reaches(arcs, u, a[1]) => Reaches(arcs, u, a[2])
  BY DEF Reaches

LEMMA ReachesThrough ==
  \A arcs, u, v, w : Reaches(arcs, u, v) /\ Reaches(arcs, v, w) => Reaches(arcs, u, w)
  BY DEF Reaches

LEMMA ArcEnds == \A a \in Arcs : a[1] \in Vertices /\ a[2] \in Vertices
  BY DEF Arcs

-----------------------------------------------------------------------------
(* The stack of a search                                                     *)

\* The gray vertices are a path, each entered by the edge before its predecessor's next.
StackPath ==
  /\ \A v \in Vertices : color[v] = "gray" <=> \E i \in DOMAIN stack : stack[i].vertex = v
  /\ \A i, j \in DOMAIN stack : stack[i].vertex = stack[j].vertex => i = j
  /\ \A i, j \in DOMAIN stack : i <= j => Reaches(Arcs, stack[i].vertex, stack[j].vertex)
  /\ \A i \in DOMAIN stack : i < Len(stack) =>
       stack[i].edge > 1 /\ out[stack[i].vertex][stack[i].edge - 1] = stack[i + 1].vertex

StackInv ==
  /\ phase \in Searches => StackPath
  /\ phase \notin Searches \cup {"failed"} => stack = <<>>

\* A search begins: everything is white.
LEMMA StackPathAtFirst ==
  ASSUME color' = White, Vertices' = Vertices, stack' = <<>>
  PROVE  StackPath'
  <1>1. \A v \in Vertices : color'[v] # "gray"
    BY DEF White
  <1>2. \A i \in DOMAIN stack' : FALSE
    BY EmptySeq
  <1>3. QED
    BY <1>1, <1>2 DEF StackPath

LEMMA StackPathStart ==
  ASSUME GraphTypes, SearchTypes, phase \in Searches, StackPath, Start
  PROVE  StackPath'
  <1>1. PICK u \in Vertices :
          /\ color' = [color EXCEPT ![u] = "gray"] /\ stack = <<>>
          /\ stack' = <<[vertex |-> u, edge |-> 1]>>
    BY StartStack
  <1>2. DOMAIN stack' = {1} /\ Len(stack') = 1 /\ stack'[1].vertex = u
    BY <1>1
  <1>3. \A v \in Vertices : color[v] # "gray"
    BY <1>1, EmptySeq DEF StackPath
  <1>4. color \in [Vertices -> {"white", "gray", "black"}]
    BY DEF SearchTypes
  <1>5. \A v \in Vertices : color'[v] = "gray" <=> v = u
    BY <1>1, <1>3, <1>4
  <1>6. Vertices' = Vertices /\ Arcs' = Arcs
        /\ \A arcs, v, w : Reaches(arcs, v, w)' <=> Reaches(arcs, v, w)
    BY GraphStays DEF Later, SearchStep
  <1>7. /\ \A v \in Vertices : color'[v] = "gray" <=> \E i \in DOMAIN stack' : stack'[i].vertex = v
        /\ \A i, j \in DOMAIN stack' : stack'[i].vertex = stack'[j].vertex => i = j
        /\ \A i \in DOMAIN stack' : ~(i < Len(stack'))
    BY <1>2, <1>5
  <1>8. \A i, j \in DOMAIN stack' : Reaches(Arcs, stack'[i].vertex, stack'[j].vertex)
    BY <1>2, ReachesSelf
  <1>9. QED
    BY <1>6, <1>7, <1>8 DEF StackPath

\* The path by positions, before a step.
LEMMA PathFacts ==
  ASSUME GraphTypes, SearchTypes, StackPath, stack # <<>>
  PROVE  LET n == Len(stack) IN
         /\ n \in Nat \ {0} /\ DOMAIN stack = 1..n /\ stack[n].vertex = U
         /\ \A i \in 1..n : stack[i].vertex \in Vertices /\ color[stack[i].vertex] = "gray"
         /\ \A i \in 1..n : Reaches(Arcs, stack[i].vertex, U)
         /\ \A i \in 1..n : stack[i].vertex = U => i = n
         /\ U \in Vertices /\ color[U] = "gray"
  <1> DEFINE n == Len(stack)
  <1>1. n \in Nat \ {0} /\ DOMAIN stack = 1..n /\ stack[n].vertex = U
    BY AtTop DEF U
  <1>2. \A i \in 1..n : stack[i].vertex \in Vertices
    <2>1. \A i \in 1..n : stack[i] \in Positions
      BY <1>1, ElementOfSeq DEF SearchTypes
    <2>2. QED
      BY <2>1 DEF Positions
  <1>3. n \in 1..n
    BY <1>1
  <1>4. \A i \in 1..n : color[stack[i].vertex] = "gray"
    BY <1>1, <1>2, Zenon DEF StackPath
  <1>5. \A i \in 1..n : i <= n
    BY <1>1
  <1>6. \A i \in 1..n : Reaches(Arcs, stack[i].vertex, U) /\ (stack[i].vertex = U => i = n)
    BY <1>1, <1>3, <1>5, Zenon DEF StackPath
  <1>7. QED
    BY <1>1, <1>2, <1>3, <1>4, <1>6

LEMMA StackPathExamine ==
  ASSUME GraphTypes, SearchTypes, phase \in Searches, StackPath, Examine
  PROVE  StackPath'
  <1> DEFINE n == Len(stack)
  <1>1. Vertices' = Vertices /\ Arcs' = Arcs /\ out' = out
        /\ \A arcs, v, w : Reaches(arcs, v, w)' <=> Reaches(arcs, v, w)
    BY GraphStays DEF Later, SearchStep
  <1>2. /\ U \in Vertices /\ V \in Vertices /\ <<U, V>> \in Arcs /\ Top.edge \in Nat \ {0}
        /\ stack # <<>>
    BY AtV
  <1>3. /\ n \in Nat \ {0} /\ stack' \in Seq(Positions)
        /\ \A i \in 1..n - 1 : stack'[i] = stack[i]
        /\ stack'[n] = [vertex |-> U, edge |-> Top.edge + 1]
    BY ExamineStack
  <1>4. /\ DOMAIN stack = 1..n /\ stack[n].vertex = U
        /\ \A i \in 1..n : Reaches(Arcs, stack[i].vertex, U)
        /\ \A i \in 1..n : color[stack[i].vertex] = "gray"
    BY <1>2, PathFacts
  <1>5. stack'[n].vertex = U /\ stack'[n].edge = Top.edge + 1 /\ out[U][stack'[n].edge - 1] = V
    BY <1>2, <1>3 DEF V
  <1>6. \A i \in 1..n : stack'[i].vertex = stack[i].vertex
    BY <1>3, <1>4, <1>5
  <1>7. /\ \A i \in 1..n - 1 : stack'[i].edge = stack[i].edge
        /\ DOMAIN stack' = 1..Len(stack')
    BY <1>3, LenProperties
  <1>8. \A i \in 1..n - 1 :
          stack'[i].edge > 1 /\ out[stack'[i].vertex][stack'[i].edge - 1] = stack'[i + 1].vertex
    <2> TAKE i \in 1..n - 1
    <2>1. i \in 1..n /\ i + 1 \in 1..n /\ i < n
      BY <1>3
    <2>2. stack[i].edge > 1 /\ out[stack[i].vertex][stack[i].edge - 1] = stack[i + 1].vertex
      BY <1>4, <2>1 DEF StackPath
    <2>3. QED
      BY <1>6, <1>7, <2>1, <2>2
  <1>9. CASE color[V] # "white"
    <2>1. Len(stack') = n /\ color' = color
      BY <1>9, ExamineStack
    <2>2. DOMAIN stack' = 1..n
      BY <1>7, <2>1
    <2>3. /\ \A v \in Vertices : color'[v] = "gray" <=> \E i \in DOMAIN stack' : stack'[i].vertex = v
          /\ \A i, j \in DOMAIN stack' : stack'[i].vertex = stack'[j].vertex => i = j
          /\ \A i, j \in DOMAIN stack' : i <= j => Reaches(Arcs, stack'[i].vertex, stack'[j].vertex)
      BY <1>4, <1>6, <2>1, <2>2 DEF StackPath
    <2>4. \A i \in DOMAIN stack' : i < Len(stack') => i \in 1..n - 1
      BY <1>3, <2>1, <2>2
    <2>5. QED
      BY <1>1, <1>8, <2>3, <2>4 DEF StackPath
  <1>10. CASE color[V] = "white"
    <2>1. Len(stack') = n + 1 /\ stack'[n + 1].vertex = V /\ color' = [color EXCEPT ![V] = "gray"]
      BY <1>10, ExamineStack
    <2>2. DOMAIN stack' = 1..n + 1 /\ \A i \in 1..n + 1 : i \in 1..n \/ i = n + 1
      BY <1>3, <1>7, <2>1
    <2>3. \A i \in 1..n : stack[i].vertex # V
      BY <1>4, <1>10
    <2>4. \A v \in Vertices : color'[v] = "gray" <=> color[v] = "gray" \/ v = V
      BY <2>1 DEF SearchTypes
    <2>5. \A v \in Vertices : color[v] = "gray" <=> \E i \in 1..n : stack'[i].vertex = v
      BY <1>4, <1>6 DEF StackPath
    <2>6. \A v \in Vertices : color'[v] = "gray" <=> \E i \in DOMAIN stack' : stack'[i].vertex = v
      <3>1. 1..n \subseteq DOMAIN stack' /\ n + 1 \in DOMAIN stack'
        BY <1>3, <2>2
      <3>2. QED
        BY <2>1, <2>2, <2>4, <2>5, <3>1
    <2>7. \A i, j \in 1..n : stack'[i].vertex = stack'[j].vertex => i = j
      BY <1>4, <1>6 DEF StackPath
    <2>8. \A i, j \in DOMAIN stack' : stack'[i].vertex = stack'[j].vertex => i = j
      BY <1>6, <2>1, <2>2, <2>3, <2>7
    <2>9. \A i, j \in 1..n : i <= j => Reaches(Arcs, stack'[i].vertex, stack'[j].vertex)
      BY <1>4, <1>6 DEF StackPath
    <2>10. \A i \in 1..n + 1 : Reaches(Arcs, stack'[i].vertex, V)
      <3>1. \A u : Reaches(Arcs, u, U) => Reaches(Arcs, u, V)
        BY <1>2, ReachesNext
      <3>2. QED
        BY <1>4, <1>6, <2>1, <2>2, <3>1, ReachesSelf
    <2>11. \A i, j \in DOMAIN stack' : i <= j => Reaches(Arcs, stack'[i].vertex, stack'[j].vertex)
      <3>1. \A i \in 1..n : ~(n + 1 <= i)
        BY <1>3
      <3>2. QED
        BY <2>1, <2>2, <2>9, <2>10, <3>1
    <2>12. \A i \in DOMAIN stack' : i < Len(stack') => i \in 1..n - 1 \/ i = n
      BY <1>3, <2>1, <2>2
    <2>13. stack'[n].edge > 1 /\ out[stack'[n].vertex][stack'[n].edge - 1] = stack'[n + 1].vertex
      BY <1>2, <1>5, <2>1
    <2>14. QED
      BY <1>1, <1>8, <2>6, <2>8, <2>11, <2>12, <2>13 DEF StackPath
  <1>11. QED
    BY <1>9, <1>10

LEMMA StackPathFinish ==
  ASSUME GraphTypes, SearchTypes, phase \in Searches, StackPath, Finish
  PROVE  StackPath'
  <1> DEFINE n == Len(stack)
  <1>1. Vertices' = Vertices /\ Arcs' = Arcs /\ out' = out
        /\ \A arcs, v, w : Reaches(arcs, v, w)' <=> Reaches(arcs, v, w)
    BY GraphStays DEF Later, SearchStep
  <1>2. /\ n \in Nat \ {0} /\ stack # <<>> /\ U \in Vertices
        /\ stack' \in Seq(Positions) /\ Len(stack') = n - 1
        /\ \A i \in 1..n - 1 : stack'[i] = stack[i]
    BY FinishStack
  <1>3. color' = [color EXCEPT ![U] = "black"] /\ color \in [Vertices -> {"white", "gray", "black"}]
    BY FinishStack DEF SearchTypes
  <1>4. DOMAIN stack = 1..n /\ stack[n].vertex = U /\ \A i \in 1..n : stack[i].vertex = U => i = n
    BY <1>2, PathFacts
  <1>5. DOMAIN stack' = 1..n - 1 /\ 1..n - 1 \subseteq 1..n
        /\ \A i \in 1..n - 1 : i # n /\ i < n /\ i + 1 \in 1..n
    BY <1>2, LenProperties
  <1>6. \A v \in Vertices : color'[v] = "gray" <=> color[v] = "gray" /\ v # U
    BY <1>3
  <1>7. \A v \in Vertices : v # U =>
          ((\E i \in 1..n : stack[i].vertex = v) <=> \E i \in 1..n - 1 : stack'[i].vertex = v)
    <2>1. \A i \in 1..n : i \in 1..n - 1 \/ i = n
      BY <1>2
    <2>2. QED
      BY <1>2, <1>4, <1>5, <2>1
  <1>8. \A v \in Vertices : color'[v] = "gray" <=> \E i \in DOMAIN stack' : stack'[i].vertex = v
    <2>1. \A v \in Vertices : color[v] = "gray" <=> \E i \in 1..n : stack[i].vertex = v
      BY <1>4 DEF StackPath
    <2>2. \A i \in 1..n - 1 : stack'[i].vertex # U
      BY <1>2, <1>4, <1>5
    <2>3. QED
      BY <1>5, <1>6, <1>7, <2>1, <2>2
  <1>9. /\ \A i, j \in DOMAIN stack' : stack'[i].vertex = stack'[j].vertex => i = j
        /\ \A i, j \in DOMAIN stack' : i <= j => Reaches(Arcs, stack'[i].vertex, stack'[j].vertex)
    <2>1. \A i \in DOMAIN stack' : i \in DOMAIN stack /\ stack'[i].vertex = stack[i].vertex
      BY <1>2, <1>4, <1>5
    <2>2. QED
      BY <2>1 DEF StackPath
  <1>10. \A i \in DOMAIN stack' : i < Len(stack') => i + 1 \in 1..n - 1
    BY <1>2, <1>5
  <1>11. \A i \in DOMAIN stack' : i < Len(stack') =>
           stack'[i].edge > 1 /\ out[stack'[i].vertex][stack'[i].edge - 1] = stack'[i + 1].vertex
    BY <1>2, <1>4, <1>5, <1>10 DEF StackPath
  <1>12. QED
    BY <1>1, <1>8, <1>9, <1>11 DEF StackPath

\* How the steps between two searches find and leave the stack.
LEMMA BetweenSearches ==
  ASSUME Later \/ UNCHANGED vars, ~Start, ~Examine, ~Finish
  PROVE  /\ phase \in Searches => stack = <<>> \/ (phase' = phase /\ color' = color)
         /\ phase' \in Searches =>
              (phase' = phase /\ color' = color)
              \/ (color' = White /\ (phase = "ready" \/ (phase \in Searches /\ stack = <<>>)))
         /\ phase = "failed" => phase' = "failed"
  BY DEF Later, SearchStep, CheckCircleDone, SearchOver,
     TopoOrderDone, MarkRedundantDone, PrintDone, PrintGraph, SelectStrategies, MarkStep,
     SkipSeparator, MarkNeedRun, MarkReturn, MarkDone, RunStep, ResetStrategy, AllReset,
     RunStrategy, AllRun, Enter, Fail, AtName, search, vars, Searches

LEMMA StackInvStep ==
  ASSUME Basics, StackInv, [Next]_vars
  PROVE  StackInv'
  <1> USE DEF Basics
  <1>1. CASE AddVertex \/ VerticesDone \/ AddEdge \/ DependsDone \/ EdgesDone
    <2>1. stack' = <<>>
      BY <1>1 DEF AddVertex, VerticesDone, AddEdge, DependsDone, EdgesDone, Early, Building, search
    <2>2. phase' \in Searches => color' = White /\ Vertices' = Vertices
      BY <1>1 DEF AddVertex, VerticesDone, AddEdge, DependsDone, EdgesDone, Searches, Enter, Fail,
         build, graph, Vertices
    <2>3. QED
      BY <2>1, <2>2, StackPathAtFirst DEF StackInv
  <1>2. CASE Start
    <2>1. phase \in Searches /\ phase' = phase
      BY <1>2 DEF Start
    <2>2. QED
      BY <1>2, <2>1, StackPathStart DEF StackInv
  <1>3. CASE Examine
    <2>1. phase \in Searches /\ (phase' = phase \/ phase' = "failed")
      BY <1>3, ExamineResults
    <2>2. QED
      BY <1>3, <2>1, StackPathExamine DEF StackInv
  <1>4. CASE Finish
    <2>1. phase \in Searches /\ phase' = phase
      BY <1>4 DEF Finish
    <2>2. QED
      BY <1>4, <2>1, StackPathFinish DEF StackInv
  <1>5. CASE (Later \/ UNCHANGED vars) /\ ~Start /\ ~Examine /\ ~Finish
    <2>1. stack' = stack
      BY <1>5, OtherSteps
    <2>2. /\ Vertices' = Vertices /\ Arcs' = Arcs /\ out' = out
          /\ \A arcs, v, w : Reaches(arcs, v, w)' <=> Reaches(arcs, v, w)
      BY <1>5, GraphStays
    <2>3. CASE phase' \in Searches /\ phase' = phase /\ color' = color
      BY <2>1, <2>2, <2>3 DEF StackInv, StackPath
    <2>4. CASE phase' \in Searches /\ ~(phase' = phase /\ color' = color)
      <3>1. color' = White /\ (phase = "ready" \/ stack = <<>>)
        BY <1>5, <2>4, BetweenSearches, Zenon
      <3>2. stack' = <<>>
        BY <2>1, <3>1 DEF StackInv, Searches
      <3>3. QED
        BY <2>2, <2>4, <3>1, <3>2, StackPathAtFirst DEF StackInv
    <2>5. CASE phase' \notin Searches
      <3>1. phase' # "failed" => phase # "failed" /\ (phase \in Searches => stack = <<>>)
        BY <1>5, <2>5, BetweenSearches, Zenon
      <3>2. phase' # "failed" => stack' = <<>>
        BY <2>1, <3>1 DEF StackInv
      <3>3. QED
        BY <2>5, <3>2 DEF StackInv
    <2>6. QED
      BY <2>3, <2>4, <2>5
  <1>6. QED
    BY <1>1, <1>2, <1>3, <1>4, <1>5, NextSteps

-----------------------------------------------------------------------------
(* Topological orders                                                        *)

Distinct(l) == \A i, j \in DOMAIN l : l[i] = l[j] => i = j

Before(l, x, y) == \E i, j \in DOMAIN l : i < j /\ l[i] = x /\ l[j] = y

\* l lists the vertices of B, each before the targets of its arcs.
Sorted(l, B, arcs) ==
  /\ Distinct(l)
  /\ \A i \in DOMAIN l : l[i] \in B
  /\ \A v \in B : \E i \in DOMAIN l : l[i] = v
  /\ \A a \in arcs : a[1] \in B => Before(l, a[1], a[2])

LEMMA SortedEmpty == \A arcs : Sorted(<<>>, {}, arcs)
  BY DEF Sorted, Distinct

\* A vertex goes before the others when the targets of its arcs are among them.
LEMMA SortedMore ==
  ASSUME NEW S, NEW l \in Seq(S), NEW u \in S, NEW B, NEW arcs, Sorted(l, B, arcs), u \notin B,
         \A a \in arcs : a[1] = u => a[2] \in B
  PROVE  Sorted(<<u>> \o l, B \cup {u}, arcs)
  <1> DEFINE m == <<u>> \o l
             n == Len(l)
  <1>1. /\ n \in Nat /\ DOMAIN l = 1..n
        /\ m \in Seq(S) /\ Len(m) = n + 1 /\ m[1] = u
        /\ \A i \in 1..n : m[i + 1] = l[i]
        /\ \A i \in 2..n + 1 : m[i] = l[i - 1]
    BY Prepended, LenProperties
  <1>2. DOMAIN m = 1..n + 1
    BY <1>1, LenProperties
  <1> HIDE DEF m
  <1>3. \A i \in DOMAIN m : i = 1 \/ (i \in 2..n + 1 /\ i - 1 \in 1..n /\ m[i] = l[i - 1])
    BY <1>1, <1>2
  <1>4. \A i \in 1..n : l[i] \in B /\ i + 1 \in DOMAIN m
    BY <1>1, <1>2 DEF Sorted
  <1>5. \A i \in DOMAIN m : i # 1 => m[i] \in B
    BY <1>3, <1>4
  <1>6. Distinct(m)
    <2>1. \A i, j \in DOMAIN m : i # 1 /\ j # 1 /\ m[i] = m[j] => i = j
      <3> TAKE i, j \in DOMAIN m
      <3>1. i # 1 /\ j # 1 /\ m[i] = m[j] => i - 1 = j - 1
        BY <1>1, <1>3 DEF Sorted, Distinct
      <3>2. i \in Nat /\ j \in Nat
        BY <1>2
      <3>3. QED
        BY <3>1, <3>2
    <2>2. \A i \in DOMAIN m : m[i] = m[1] => i = 1
      BY <1>1, <1>5
    <2>3. SUFFICES ASSUME NEW i \in DOMAIN m, NEW j \in DOMAIN m, m[i] = m[j]
                   PROVE  i = j
      BY DEF Distinct
    <2>4. CASE i = 1
      BY <2>2, <2>3, <2>4
    <2>5. CASE j = 1
      BY <2>2, <2>3, <2>5
    <2>6. QED
      BY <2>1, <2>3, <2>4, <2>5, Zenon
  <1>7. \A v \in B \cup {u} : \E i \in DOMAIN m : m[i] = v
    <2>1. 1 \in DOMAIN m /\ m[1] = u
      BY <1>1, <1>2
    <2>2. \A v \in B : \E i \in 1..n : l[i] = v
      BY <1>1 DEF Sorted
    <2>3. \A v \in B : \E i \in DOMAIN m : m[i] = v
      BY <1>1, <1>4, <2>2
    <2>4. QED
      BY <2>1, <2>3
  <1>8. ASSUME NEW a \in arcs, a[1] \in B \cup {u}
        PROVE  Before(m, a[1], a[2])
    <2>1. CASE a[1] = u
      <3>1. PICK j \in 1..n : l[j] = a[2]
        BY <1>1, <2>1 DEF Sorted
      <3>2. m[1] = a[1] /\ m[j + 1] = a[2] /\ 1 \in DOMAIN m /\ j + 1 \in DOMAIN m /\ 1 < j + 1
        BY <1>1, <1>2, <2>1, <3>1
      <3>3. QED
        BY <3>2 DEF Before
    <2>2. CASE a[1] # u
      <3>1. PICK i, j \in 1..n : i < j /\ l[i] = a[1] /\ l[j] = a[2]
        BY <1>1, <1>8, <2>2 DEF Sorted, Before
      <3>2. m[i + 1] = a[1] /\ m[j + 1] = a[2] /\ i + 1 < j + 1
        BY <1>1, <3>1
      <3>3. QED
        BY <1>4, <3>2 DEF Before
    <2>3. QED
      BY <2>1, <2>2
  <1>9. \A i \in DOMAIN m : m[i] \in B \cup {u}
    BY <1>1, <1>5
  <1>10. QED
    BY <1>6, <1>7, <1>8, <1>9 DEF Sorted, m

\* A graph that can be sorted has no circle: what comes after v cannot lead back to it.
LEMMA SortedAcyclic ==
  ASSUME NEW l \in Seq(Vertices), Sorted(l, Vertices, Arcs)
  PROVE  Acyclic(Arcs)
  <1> SUFFICES ASSUME NEW v \in Vertices, NEW a \in Arcs, a[1] = v, Reaches(Arcs, a[2], v)
               PROVE  FALSE
    BY DEF Acyclic, OnCircle
  <1> DEFINE T == {x \in Vertices : \E i, j \in DOMAIN l : i < j /\ l[i] = v /\ l[j] = x}
  <1>1. a[2] \in T
    BY ArcEnds DEF Sorted, Before
  <1>2. \A b \in Arcs : b[1] \in T => b[2] \in T
    <2> SUFFICES ASSUME NEW b \in Arcs, b[1] \in T PROVE b[2] \in T
      OBVIOUS
    <2>1. PICK i, j \in DOMAIN l : i < j /\ l[i] = v /\ l[j] = b[1]
      OBVIOUS
    <2>2. PICK p, q \in DOMAIN l : p < q /\ l[p] = b[1] /\ l[q] = b[2]
      BY ArcEnds DEF Sorted, Before
    <2>3. p = j
      BY <2>1, <2>2 DEF Sorted, Distinct
    <2>4. i \in Nat /\ j \in Nat /\ q \in Nat
      BY LenProperties
    <2>5. i < q
      BY <2>1, <2>2, <2>3, <2>4
    <2>6. QED
      BY <2>1, <2>2, <2>5, ArcEnds
  <1>3. v \in T
    BY <1>1, <1>2 DEF Reaches
  <1>4. PICK i, j \in DOMAIN l : i < j /\ l[i] = v /\ l[j] = v
    BY <1>3
  <1>5. i = j /\ i \in Nat
    BY <1>4, LenProperties DEF Sorted, Distinct
  <1>6. QED
    BY <1>4, <1>5

Black == {v \in Vertices : color[v] = "black"}

\* The edges a search has left behind lead to finished vertices, but for the one to the
\* next vertex of the stack.
EdgesSeen ==
  \A i \in DOMAIN stack : \A k \in 1..stack[i].edge - 1 :
    out[stack[i].vertex][k] \in Black \/ (i < Len(stack) /\ k = stack[i].edge - 1)

LEMMA SeenAtFirst ==
  ASSUME color' = White, Vertices' = Vertices, stack' = <<>>
  PROVE  EdgesSeen' /\ Black' = {}
  <1>1. \A v \in Vertices : color'[v] # "black"
    BY DEF White
  <1>2. \A i \in DOMAIN stack' : FALSE
    BY EmptySeq
  <1>3. QED
    BY <1>1, <1>2 DEF EdgesSeen, Black

LEMMA SeenStart ==
  ASSUME GraphTypes, SearchTypes, Start
  PROVE  EdgesSeen' /\ Black' = Black
  <1>1. PICK u \in Vertices :
          /\ color[u] = "white" /\ color' = [color EXCEPT ![u] = "gray"]
          /\ stack' = <<[vertex |-> u, edge |-> 1]>>
    BY StartStack
  <1>2. DOMAIN stack' = {1} /\ stack'[1].edge = 1
    BY <1>1
  <1>3. \A k \in 1..stack'[1].edge - 1 : FALSE
    BY <1>2
  <1>4. EdgesSeen'
    BY <1>2, <1>3 DEF EdgesSeen
  <1>5. Vertices' = Vertices /\ phase \in Searches
    BY GraphStays DEF Later, SearchStep, Start
  <1>6. \A v \in Vertices : color'[v] = "black" <=> color[v] = "black"
    BY <1>1, <1>5 DEF SearchTypes
  <1>7. QED
    BY <1>4, <1>5, <1>6 DEF Black

LEMMA SeenExamine ==
  ASSUME GraphTypes, SearchTypes, StackPath, EdgesSeen, Examine, color[V] # "gray"
  PROVE  EdgesSeen' /\ Black' = Black
  <1> DEFINE n == Len(stack)
  <1>1. Vertices' = Vertices /\ out' = out /\ phase \in Searches
    BY GraphStays DEF Later, SearchStep, Examine
  <1>2. /\ U \in Vertices /\ V \in Vertices /\ Top.edge \in Nat \ {0} /\ stack # <<>>
    BY AtV
  <1>3. color \in [Vertices -> {"white", "gray", "black"}]
    BY <1>1 DEF SearchTypes
  <1>4. Black' = Black
    <2>1. \A v \in Vertices : color'[v] = "black" <=> color[v] = "black"
      BY <1>2, <1>3, ExamineStack
    <2>2. QED
      BY <1>1, <2>1 DEF Black
  <1>5. /\ n \in Nat \ {0} /\ stack' \in Seq(Positions)
        /\ \A i \in 1..n - 1 : stack'[i] = stack[i]
        /\ stack'[n] = [vertex |-> U, edge |-> Top.edge + 1]
    BY ExamineStack
  <1>6. stack'[n].vertex = U /\ stack'[n].edge = Top.edge + 1
    BY <1>5
  <1>7. /\ DOMAIN stack = 1..n /\ Top = stack[n] /\ stack[n].vertex = U
        /\ DOMAIN stack' = 1..Len(stack')
    BY <1>2, <1>5, AtTop, LenProperties DEF U
  <1>8. \/ Len(stack') = n /\ V \in Black
        \/ Len(stack') = n + 1 /\ stack'[n + 1].edge = 1
    BY <1>2, <1>3, ExamineStack DEF Black
  <1>9. \A i \in 1..n - 1 : \A k \in 1..stack'[i].edge - 1 :
          out[stack'[i].vertex][k] \in Black \/ (i < Len(stack') /\ k = stack'[i].edge - 1)
    <2>1. \A i \in 1..n - 1 : i \in 1..n /\ (i < n => i < Len(stack'))
      BY <1>5, <1>8
    <2>2. QED
      BY <1>5, <1>7, <2>1 DEF EdgesSeen
  <1>10. \A k \in 1..Top.edge - 1 : out[U][k] \in Black
    <2>1. n \in DOMAIN stack /\ ~(n < n)
      BY <1>5, <1>7
    <2>2. QED
      BY <1>7, <2>1 DEF EdgesSeen
  <1>11. \A k \in 1..stack'[n].edge - 1 :
           out[stack'[n].vertex][k] \in Black \/ (n < Len(stack') /\ k = stack'[n].edge - 1)
    <2>1. \A k \in 1..Top.edge : k \in 1..Top.edge - 1 \/ k = Top.edge
      BY <1>2
    <2>2. stack'[n].edge - 1 = Top.edge
      BY <1>2, <1>6
    <2>3. Len(stack') = n + 1 => n < Len(stack')
      BY <1>5
    <2>4. QED
      BY <1>6, <1>8, <1>10, <2>1, <2>2, <2>3 DEF V
  <1>12. Len(stack') = n + 1 => \A k \in 1..stack'[n + 1].edge - 1 : FALSE
    BY <1>5, <1>8
  <1>13. \A i \in DOMAIN stack' : i \in 1..n - 1 \/ i = n \/ (i = n + 1 /\ Len(stack') = n + 1)
    <2>1. \A i \in DOMAIN stack' : i \in 1..Len(stack')
      BY <1>7
    <2>2. n \in Nat \ {0} /\ (Len(stack') = n \/ Len(stack') = n + 1)
      BY <1>5, <1>8, Zenon
    <2>3. CASE Len(stack') = n
      BY <2>1, <2>2, <2>3
    <2>4. CASE Len(stack') = n + 1
      BY <2>1, <2>2, <2>4
    <2>5. QED
      BY <2>2, <2>3, <2>4
  <1>14. \A i \in DOMAIN stack' : \A k \in 1..stack'[i].edge - 1 :
           out[stack'[i].vertex][k] \in Black \/ (i < Len(stack') /\ k = stack'[i].edge - 1)
    BY <1>9, <1>11, <1>12, <1>13
  <1>15. QED
    BY <1>1, <1>4, <1>14 DEF EdgesSeen

LEMMA SeenFinish ==
  ASSUME GraphTypes, SearchTypes, StackPath, EdgesSeen, Finish
  PROVE  /\ EdgesSeen' /\ Black' = Black \cup {U} /\ U \notin Black /\ U \in Vertices
         /\ \A a \in Arcs : a[1] = U => a[2] \in Black
  <1> DEFINE n == Len(stack)
  <1>1. Vertices' = Vertices /\ out' = out /\ phase \in Searches
    BY GraphStays DEF Later, SearchStep, Finish
  <1>2. /\ n \in Nat \ {0} /\ stack # <<>> /\ U \in Vertices
        /\ stack' \in Seq(Positions) /\ Len(stack') = n - 1
        /\ \A i \in 1..n - 1 : stack'[i] = stack[i]
        /\ Top.edge = Len(out[U]) + 1
    BY FinishStack
  <1>3. color' = [color EXCEPT ![U] = "black"] /\ color \in [Vertices -> {"white", "gray", "black"}]
    BY <1>1, FinishStack DEF SearchTypes
  <1>4. /\ DOMAIN stack = 1..n /\ stack[n].vertex = U /\ color[U] = "gray" /\ Top = stack[n]
    BY <1>2, PathFacts, AtTop
  <1>5. U \notin Black
    BY <1>4 DEF Black
  <1>6. Black' = Black \cup {U}
    BY <1>1, <1>2, <1>3 DEF Black
  <1>7. \A a \in Arcs : a[1] = U => a[2] \in Black
    <2>1. \A k \in 1..Len(out[U]) : out[U][k] \in Black
      <3>1. n \in DOMAIN stack /\ ~(n < n)
        BY <1>2, <1>4
      <3>2. Top.edge - 1 = Len(out[U])
        BY <1>2, LenProperties DEF GraphTypes
      <3>3. QED
        BY <1>4, <3>1, <3>2 DEF EdgesSeen
    <2>2. DOMAIN out[U] = 1..Len(out[U])
      BY <1>2, LenProperties DEF GraphTypes
    <2>3. QED
      BY <2>1, <2>2 DEF Arcs, Contains
  <1>8. EdgesSeen'
    <2> SUFFICES ASSUME NEW i \in DOMAIN stack', NEW k \in 1..stack'[i].edge - 1
                 PROVE  out'[stack'[i].vertex][k] \in Black' \/ (i < Len(stack') /\ k = stack'[i].edge - 1)
      BY DEF EdgesSeen
    <2>1. DOMAIN stack' = 1..n - 1
      BY <1>2, LenProperties
    <2>2. i \in 1..n - 1 /\ i \in 1..n /\ i < n
      BY <1>2, <2>1
    <2>3. stack'[i] = stack[i]
      BY <1>2, <2>2
    <2>4. out[stack[i].vertex][k] \in Black \/ k = stack[i].edge - 1
      BY <1>4, <2>2, <2>3 DEF EdgesSeen
    <2>5. CASE i = n - 1
      <3>1. stack[i].edge > 1 /\ out[stack[i].vertex][stack[i].edge - 1] = U
        <4>1. i + 1 = n
          BY <1>2, <2>5
        <4>2. QED
          BY <1>4, <2>2, <4>1 DEF StackPath
      <3>2. QED
        BY <1>1, <1>6, <2>3, <2>4, <3>1
    <2>6. CASE i # n - 1
      <3>1. i < Len(stack')
        BY <1>2, <2>2, <2>6
      <3>2. QED
        BY <1>1, <1>6, <2>3, <2>4, <3>1
    <2>7. QED
      BY <2>5, <2>6
  <1>9. QED
    BY <1>2, <1>5, <1>6, <1>7, <1>8

\* A gray target closes a circle.
LEMMA GrayCircle ==
  ASSUME GraphTypes, SearchTypes, StackPath, Examine, color[V] = "gray"
  PROVE  Reaches(Arcs, V, U) /\ ~Acyclic(Arcs)
  <1>1. stack # <<>> /\ U \in Vertices /\ V \in Vertices /\ <<U, V>> \in Arcs
    BY AtV
  <1>2. PICK i \in DOMAIN stack : stack[i].vertex = V
    BY <1>1 DEF StackPath
  <1>3. Reaches(Arcs, V, U)
    BY <1>1, <1>2, PathFacts
  <1>4. OnCircle(Arcs, U)
    BY <1>1, <1>3 DEF OnCircle
  <1>5. QED
    BY <1>1, <1>3, <1>4 DEF Acyclic

\* When a search is over it has finished every vertex.
LEMMA AllBlack ==
  ASSUME SearchTypes, StackPath, SearchOver, phase \in Searches
  PROVE  Black = Vertices
  <1>1. \A v \in Vertices : color[v] # "gray"
    BY EmptySeq DEF StackPath, SearchOver
  <1>2. \A v \in Vertices : color[v] # "white"
    BY DEF SearchOver, Roots
  <1>3. QED
    BY <1>1, <1>2 DEF Black, SearchTypes

LEMMA AcyclicStays ==
  ASSUME Later \/ UNCHANGED vars
  PROVE  (Acyclic(Arcs)' <=> Acyclic(Arcs)) /\ (Acyclic(Depends)' <=> Acyclic(Depends))
  <1>1. Vertices' = Vertices /\ Arcs' = Arcs /\ Depends' = Depends
        /\ \A arcs, u, v : Reaches(arcs, u, v)' <=> Reaches(arcs, u, v)
    BY GraphStays
  <1>2. QED
    BY <1>1 DEF Acyclic, OnCircle

\* The phases after the sort.
AfterSort == {"ready", "printed", "mark", "reset", "run", "true", "false", "markRedundant", "print"}

\* What the first search knows of circles, and the second of the order.
OrderInv ==
  /\ phase = "checkCircle" =>
       /\ topo = <<>>
       /\ \A a \in circleEdges : Reaches(Arcs, a[2], a[1])
       /\ circleEdges = {} => EdgesSeen /\ \E l \in Seq(Vertices) : Sorted(l, Black, Arcs)
  /\ phase = "topoOrder" => EdgesSeen /\ Sorted(topo, Black, Arcs)
  /\ phase = "topoOrder" \/ phase \in AfterSort => Acyclic(Arcs)
  /\ phase \in AfterSort => Sorted(topo, Vertices, Arcs)

\* init() fails only for a reason.
VerdictInv ==
  /\ phase = "failed" =>
       NoName \in Names \/ (\E a \in Depends : a[1] \notin Names) \/ ~Acyclic(Depends)
  /\ error # "notDag"

LEMMA OrderBuild ==
  ASSUME Basics, AddVertex \/ VerticesDone \/ AddEdge \/ DependsDone \/ EdgesDone
  PROVE  OrderInv'
  <1>1. /\ stack' = <<>> /\ topo' = <<>> /\ circleEdges' = {}
        /\ phase' \in {"vertices", "edges", "failed", "checkCircle"}
    BY DEF Basics, AddVertex, VerticesDone, AddEdge, DependsDone, EdgesDone, Early, Building, search,
       Enter, Fail
  <1>2. phase' = "checkCircle" => color' = White /\ Vertices' = Vertices
    BY DEF AddVertex, VerticesDone, AddEdge, DependsDone, EdgesDone, Enter, Fail, build, graph,
       Vertices
  <1>3. phase' = "checkCircle" => EdgesSeen' /\ Black' = {}
    BY <1>1, <1>2, SeenAtFirst
  <1>4. Sorted(<<>>, {}, Arcs') /\ <<>> \in Seq(Vertices')
    BY SortedEmpty, EmptySeq
  <1>5. phase' = "checkCircle" => \E l \in Seq(Vertices') : Sorted(l, Black', Arcs')
    BY <1>3, <1>4
  <1>6. QED
    BY <1>1, <1>3, <1>5 DEF OrderInv, AfterSort

LEMMA OrderStart ==
  ASSUME Basics, OrderInv, Start
  PROVE  OrderInv'
  <1>1. EdgesSeen' /\ Black' = Black
    BY SeenStart DEF Basics
  <1>2. /\ Vertices' = Vertices /\ Arcs' = Arcs /\ (Acyclic(Arcs)' <=> Acyclic(Arcs))
        /\ \A arcs, u, v : Reaches(arcs, u, v)' <=> Reaches(arcs, u, v)
    BY GraphStays, AcyclicStays DEF Later, SearchStep
  <1>3. UNCHANGED <<circleEdges, topo, phase>>
    BY DEF Start
  <1>4. QED
    BY <1>1, <1>2, <1>3 DEF OrderInv

LEMMA OrderExamine ==
  ASSUME Basics, StackInv, OrderInv, Examine
  PROVE  OrderInv'
  <1>1. phase \in Searches /\ StackPath /\ GraphTypes /\ SearchTypes
    BY DEF Basics, StackInv, Examine
  <1>2. /\ Vertices' = Vertices /\ Arcs' = Arcs /\ (Acyclic(Arcs)' <=> Acyclic(Arcs))
        /\ \A arcs, u, v : Reaches(arcs, u, v)' <=> Reaches(arcs, u, v)
    BY GraphStays, AcyclicStays DEF Later, SearchStep
  <1>3. topo' = topo
    BY ExamineResults
  <1>4. CASE color[V] # "gray"
    <2>1. UNCHANGED <<circleEdges, phase>>
      BY <1>4, ExamineResults
    <2>2. EdgesSeen => EdgesSeen' /\ Black' = Black
      BY <1>1, <1>4, SeenExamine
    <2>3. QED
      BY <1>2, <1>3, <2>1, <2>2 DEF OrderInv
  <1>5. CASE color[V] = "gray"
    <2>1. Reaches(Arcs, V, U) /\ ~Acyclic(Arcs)
      BY <1>1, <1>5, GrayCircle
    <2>2. phase # "topoOrder" /\ phase \notin AfterSort
      BY <2>1 DEF OrderInv
    <2>3. phase' = phase /\ phase = "checkCircle"
      BY <1>1, <2>2, ExamineResults DEF Searches, AfterSort
    <2>4. circleEdges' = circleEdges \cup {<<U, V>>}
      BY <1>5, <2>3, ExamineResults
    <2>5. \A a \in circleEdges' : Reaches(Arcs, a[2], a[1])
      BY <2>1, <2>3, <2>4 DEF OrderInv
    <2>6. QED
      BY <1>2, <1>3, <2>3, <2>4, <2>5 DEF OrderInv, AfterSort
  <1>6. QED
    BY <1>4, <1>5

LEMMA OrderFinish ==
  ASSUME Basics, StackInv, OrderInv, Finish
  PROVE  OrderInv'
  <1>1. phase \in Searches /\ StackPath /\ GraphTypes /\ SearchTypes
    BY DEF Basics, StackInv, Finish
  <1>2. /\ Vertices' = Vertices /\ Arcs' = Arcs /\ (Acyclic(Arcs)' <=> Acyclic(Arcs))
        /\ \A arcs, u, v : Reaches(arcs, u, v)' <=> Reaches(arcs, u, v)
    BY GraphStays, AcyclicStays DEF Later, SearchStep
  <1>3. UNCHANGED <<circleEdges, phase>>
        /\ topo' = IF phase = "topoOrder" THEN <<U>> \o topo ELSE topo
    BY DEF Finish, TopoWith, U
  <1>4. U \in Vertices
    BY FinishStack, <1>1
  <1>5. ASSUME EdgesSeen, NEW l \in Seq(Vertices), Sorted(l, Black, Arcs)
        PROVE  EdgesSeen' /\ Sorted(<<U>> \o l, Black', Arcs) /\ <<U>> \o l \in Seq(Vertices)
    <2>1. /\ EdgesSeen' /\ Black' = Black \cup {U} /\ U \notin Black
          /\ \A a \in Arcs : a[1] = U => a[2] \in Black
      BY <1>1, <1>5, SeenFinish
    <2>2. Sorted(<<U>> \o l, Black \cup {U}, Arcs)
      BY <1>4, <1>5, <2>1, SortedMore
    <2>3. QED
      BY <1>4, <1>5, <2>1, <2>2, Prepended
  <1>6. CASE phase = "checkCircle"
    <2>1. circleEdges = {} => EdgesSeen' /\ \E l \in Seq(Vertices) : Sorted(l, Black', Arcs)
      <3> SUFFICES ASSUME circleEdges = {}
                   PROVE  EdgesSeen' /\ \E l \in Seq(Vertices) : Sorted(l, Black', Arcs)
        OBVIOUS
      <3>1. EdgesSeen /\ \E l \in Seq(Vertices) : Sorted(l, Black, Arcs)
        BY <1>6 DEF OrderInv
      <3>2. PICK l \in Seq(Vertices) : Sorted(l, Black, Arcs)
        BY <3>1
      <3>3. QED
        BY <1>5, <3>1, <3>2
    <2>2. QED
      BY <1>2, <1>3, <1>6, <2>1 DEF OrderInv, AfterSort
  <1>7. CASE phase = "topoOrder"
    <2>1. EdgesSeen' /\ Sorted(topo', Black', Arcs)
      <3>1. topo \in Seq(Vertices) /\ EdgesSeen /\ Sorted(topo, Black, Arcs)
        BY <1>1, <1>7 DEF OrderInv, SearchTypes
      <3>2. QED
        BY <1>3, <1>5, <1>7, <3>1
    <2>2. QED
      BY <1>2, <1>3, <1>7, <2>1 DEF OrderInv, AfterSort
  <1>8. CASE phase \in AfterSort
    BY <1>2, <1>3, <1>8 DEF OrderInv, AfterSort
  <1>9. QED
    BY <1>1, <1>6, <1>7, <1>8 DEF Searches, AfterSort

\* How init() goes from one search to the next, and to what comes after.
LEMMA NextPhases ==
  ASSUME Later \/ UNCHANGED vars, ~Start, ~Examine, ~Finish
  PROVE  \/ CheckCircleDone
         \/ TopoOrderDone
         \/ phase' = phase /\ color' = color
         \/ phase \in AfterSort /\ phase' \in AfterSort
  BY DEF Later, SearchStep, MarkRedundantDone, PrintDone, PrintGraph, SelectStrategies, MarkStep,
     SkipSeparator, MarkNeedRun, MarkReturn, MarkDone, RunStep, ResetStrategy, AllReset,
     RunStrategy, AllRun, Enter, Fail, AtName, search, vars, AfterSort

LEMMA OrderOther ==
  ASSUME Basics, StackInv, OrderInv, Later \/ UNCHANGED vars, ~Start, ~Examine, ~Finish
  PROVE  OrderInv'
  <1>1. /\ stack' = stack /\ circleEdges' = circleEdges /\ topo' = topo
    BY OtherSteps
  <1>2. /\ Vertices' = Vertices /\ Arcs' = Arcs /\ out' = out /\ (Acyclic(Arcs)' <=> Acyclic(Arcs))
        /\ \A arcs, u, v : Reaches(arcs, u, v)' <=> Reaches(arcs, u, v)
    BY GraphStays, AcyclicStays
  <1>3. CASE phase' = phase /\ color' = color
    BY <1>1, <1>2, <1>3 DEF OrderInv, EdgesSeen, Black
  <1>4. CASE phase \in AfterSort /\ phase' \in AfterSort
    BY <1>1, <1>2, <1>4 DEF OrderInv, AfterSort
  <1>5. CASE CheckCircleDone
    <2>1. /\ phase = "checkCircle" /\ SearchOver /\ stack = <<>>
          /\ circleEdges # {} => phase' = "failed"
          /\ circleEdges = {} => phase' = "topoOrder" /\ color' = White
      BY <1>5 DEF CheckCircleDone, Fail, Enter, SearchOver
    <2>2. CASE circleEdges # {}
      BY <2>1, <2>2 DEF OrderInv, AfterSort
    <2>3. CASE circleEdges = {}
      <3>1. Black = Vertices
        BY <2>1, AllBlack DEF Basics, StackInv, Searches
      <3>2. PICK l \in Seq(Vertices) : Sorted(l, Vertices, Arcs)
        BY <2>1, <2>3, <3>1 DEF OrderInv
      <3>3. Acyclic(Arcs)
        BY <3>2, SortedAcyclic
      <3>4. EdgesSeen' /\ Black' = {}
        BY <1>1, <1>2, <2>1, <2>3, SeenAtFirst
      <3>5. topo' = <<>>
        BY <1>1, <2>1 DEF OrderInv
      <3>6. QED
        BY <1>2, <2>1, <2>3, <3>3, <3>4, <3>5, SortedEmpty DEF OrderInv, AfterSort
    <2>4. QED
      BY <2>2, <2>3
  <1>6. CASE TopoOrderDone
    <2>1. phase = "topoOrder" /\ SearchOver /\ phase' = "ready"
      BY <1>6 DEF TopoOrderDone, Enter
    <2>2. Black = Vertices
      BY <2>1, AllBlack DEF Basics, StackInv, Searches
    <2>3. QED
      BY <1>1, <1>2, <2>1, <2>2 DEF OrderInv, AfterSort
  <1>7. QED
    BY <1>3, <1>4, <1>5, <1>6, NextPhases

LEMMA OrderInvStep ==
  ASSUME Basics, StackInv, OrderInv, [Next]_vars
  PROVE  OrderInv'
  BY OrderBuild, OrderStart, OrderExamine, OrderFinish, OrderOther, NextSteps

LEMMA VerdictBuild ==
  ASSUME Basics, VerdictInv, AddVertex \/ VerticesDone \/ AddEdge \/ DependsDone \/ EdgesDone
  PROVE  VerdictInv'
  <1> USE DEF Basics
  <1>1. Names' = Names /\ Depends' = Depends
    BY DEF AddVertex, VerticesDone, AddEdge, DependsDone, EdgesDone, build, Names, Depends
  <1>2. error' \in {error, "noName", "noDepend"}
    BY DEF AddVertex, VerticesDone, AddEdge, DependsDone, EdgesDone, build, Fail
  <1>3. CASE phase' # "failed"
    BY <1>2, <1>3 DEF VerdictInv
  <1>4. CASE AddVertex /\ phase' = "failed"
    <2>1. idx <= Len(strategies) /\ strategies[idx].name = NoName
      BY <1>4 DEF AddVertex, Fail, Enter
    <2>2. NoName \in Names
      BY <2>1, Lists DEF GraphTypes, Names
    <2>3. QED
      BY <1>1, <1>2, <2>2 DEF VerdictInv
  <1>5. CASE AddEdge /\ phase' = "failed"
    <2>1. /\ phase = "edges" /\ idx <= Len(strategies) /\ nth <= Len(strategies[idx].depends)
          /\ strategies[idx].depends[nth] \notin Vertices
      BY <1>5 DEF AddEdge, Fail, Enter
    <2>2. idx \in DOMAIN strategies
      BY <2>1, Lists DEF GraphTypes
    <2>3. nth \in DOMAIN strategies[idx].depends
      BY <2>1, <2>2, Lists DEF GraphTypes
    <2>4. Edge(idx, nth) \in Depends
      BY <2>2, <2>3, DependsEdges
    <2>5. Edge(idx, nth)[1] \notin Names
      BY <2>1 DEF BuildInv, Edge
    <2>6. QED
      BY <1>1, <1>2, <2>4, <2>5 DEF VerdictInv
  <1>6. QED
    BY <1>3, <1>4, <1>5 DEF VerticesDone, DependsDone, EdgesDone, Enter

LEMMA VerdictInvStep ==
  ASSUME Basics, StackInv, OrderInv, VerdictInv, [Next]_vars
  PROVE  VerdictInv'
  <1>1. CASE Later \/ UNCHANGED vars
    <2>1. /\ Names' = Names /\ Depends' = Depends
          /\ (Acyclic(Depends)' <=> Acyclic(Depends))
      BY <1>1, GraphStays, AcyclicStays
    <2>2. CASE Examine
      <3>1. phase \in Searches /\ StackPath /\ GraphTypes /\ SearchTypes
        BY <2>2 DEF Basics, StackInv, Examine
      <3>2. ~(phase = "topoOrder" /\ color[V] = "gray")
        BY <2>2, <3>1, GrayCircle DEF OrderInv
      <3>3. phase' = phase /\ error' = error
        BY <2>2, <3>2, ExamineResults
      <3>4. QED
        BY <2>1, <3>3 DEF VerdictInv
    <2>3. CASE CheckCircleDone /\ circleEdges # {}
      <3>1. phase = "checkCircle" /\ error' = "circle"
        BY <2>3 DEF CheckCircleDone, Fail
      <3>2. PICK a \in circleEdges : TRUE
        BY <2>3
      <3>3. a \in Arcs /\ Reaches(Arcs, a[2], a[1]) /\ Arcs = Depends
        BY <3>1, <3>2 DEF Basics, SearchTypes, OrderInv, BuildInv, Building
      <3>4. ~Acyclic(Depends)
        BY <3>3, ArcEnds DEF Acyclic, OnCircle
      <3>5. QED
        BY <2>1, <3>1, <3>4 DEF VerdictInv
    <2>4. CASE ~Examine /\ ~(CheckCircleDone /\ circleEdges # {})
      <3>1. error' = error /\ (phase' = "failed" => phase = "failed")
        BY <1>1, <2>4 DEF Later, SearchStep, Start, Finish, CheckCircleDone,
           TopoOrderDone, MarkRedundantDone, PrintDone, PrintGraph, SelectStrategies, MarkStep,
           SkipSeparator, MarkNeedRun, MarkReturn, MarkDone, RunStep, ResetStrategy, AllReset,
           RunStrategy, AllRun, Enter, build, vars
      <3>2. QED
        BY <2>1, <3>1 DEF VerdictInv
    <2>5. QED
      BY <2>2, <2>3, <2>4
  <1>2. QED
    BY <1>1, VerdictBuild, NextSteps

\* What the searches need to be right.
SearchesInv == Basics /\ StackInv /\ OrderInv /\ VerdictInv

LEMMA SearchesInvInit == Init => SearchesInv
  BY BasicsInit DEF SearchesInv, Init, StackInv, OrderInv, VerdictInv, Searches, AfterSort

LEMMA SearchesInvStep == SearchesInv /\ [Next]_vars => SearchesInv'
  BY BasicsStep, StackInvStep, OrderInvStep, VerdictInvStep DEF SearchesInv

\* init() accepts a list of strategies if and only if every name and dependency exists and
\* there is no circle, and topological_sort never throws, for any lists.
THEOREM VerdictRight == Spec => []InitVerdict
  <1>1. SearchesInv => InitVerdict
    <2> SUFFICES ASSUME SearchesInv PROVE InitVerdict
      OBVIOUS
    <2>1. phase \in Phases
      BY DEF SearchesInv, Basics, GraphTypes
    <2>2. Built => NoName \notin Names /\ Vertices = Names /\ Arcs = Depends /\ Acyclic(Arcs)
      BY <2>1 DEF SearchesInv, Basics, BuildInv, OrderInv, Built, Building, AfterSort, Phases, Searches
    <2>3. \A a \in Arcs : a[1] \in Vertices
      BY ArcEnds
    <2>4. Built => \A a \in Depends : a[1] \in Names
      BY <2>2, <2>3
    <2>5. phase = "failed" =>
            NoName \in Names \/ (\E a \in Depends : a[1] \notin Names) \/ ~Acyclic(Depends)
      BY DEF SearchesInv, VerdictInv
    <2>6. error # "notDag"
      BY DEF SearchesInv, VerdictInv
    <2>7. Built => Acyclic(Depends)
      BY <2>2
    <2>8. QED
      BY <2>2, <2>4, <2>5, <2>6, <2>7, Zenon DEF InitVerdict
  <1>2. QED
    BY <1>1, SearchesInvInit, SearchesInvStep, PTL DEF Spec

\* m_topoStrategies is a topological order of all the strategies, for any lists.
THEOREM OrderRight == Spec => []TopoSorted
  <1>1. SearchesInv => TopoSorted
    <2> SUFFICES ASSUME SearchesInv, phase \in AfterSort
                 PROVE  /\ ToSet(topo) = Names
                        /\ \A i, j \in DOMAIN topo : topo[i] = topo[j] => i = j
                        /\ \A a \in Depends :
                             \E i, j \in DOMAIN topo : i < j /\ topo[i] = a[1] /\ topo[j] = a[2]
      BY DEF TopoSorted, Phases, Searches, AfterSort
    <2>1. Sorted(topo, Vertices, Arcs)
      BY DEF SearchesInv, OrderInv
    <2>2. Vertices = Names /\ Arcs = Depends
      BY DEF SearchesInv, Basics, BuildInv, Building, AfterSort
    <2>3. ToSet(topo) = Names
      BY <2>1, <2>2 DEF Sorted, ToSet
    <2>4. \A a \in Depends : a[1] \in Vertices
      BY <2>2, ArcEnds
    <2>5. QED
      BY <2>1, <2>2, <2>3, <2>4 DEF Sorted, Distinct, Before
  <1>2. QED
    BY <1>1, SearchesInvInit, SearchesInvStep, PTL DEF Spec

-----------------------------------------------------------------------------
(* The selection                                                             *)

\* What a strategy needs, what is asked for, and what that needs in all.
Needs == {a \in Vertices \X Vertices : Contains(DependsOf(a[1]), a[2])}
Asked == IF request = NULL THEN Names ELSE ToSet(request) \ Separators
Needed == {n \in Vertices : \E r \in Asked : Reaches(Needs, r, n)}

\* Among the calls cs, a loop of markNeedRunByDepends over names has not reached the k-th.
Ahead(cs, names, k) == \E i \in DOMAIN cs : i > 1 /\ cs[i].names = names /\ cs[i].next <= k

\* Only what is needed is marked; what a marked strategy depends on is marked or ahead.
MarkInv ==
  phase = "mark" =>
    /\ request # NULL /\ ran = <<>>
    /\ needRun \subseteq Needed
    /\ calls # <<>> => calls[1].names = request
    /\ \A i \in DOMAIN calls : i > 1 => \E n \in needRun : calls[i].names = DependsOf(n)
    /\ \A n \in needRun : \A k \in DOMAIN DependsOf(n) :
         DependsOf(n)[k] \in needRun \/ Ahead(calls, DependsOf(n), k)
    /\ \A k \in DOMAIN request :
         request[k] \in Separators \cup needRun \/ (calls # <<>> /\ calls[1].next <= k)

\* The marking is over: the chosen strategies are the needed ones.
Settled == Asked \subseteq Names /\ \A n \in Vertices : Chosen(n) <=> n \in Needed

LEMMA NeedsStay ==
  ASSUME Later \/ UNCHANGED vars
  PROVE  Needs' = Needs /\ (request' = request => Asked' = Asked /\ Needed' = Needed)
  <1>1. /\ Vertices' = Vertices /\ Names' = Names
        /\ \A n : DependsOf(n)' = DependsOf(n)
        /\ \A arcs, u, v : Reaches(arcs, u, v)' <=> Reaches(arcs, u, v)
    BY GraphStays
  <1>2. Needs' = Needs
    BY <1>1 DEF Needs
  <1>3. request' = request => Asked' = Asked
    BY <1>1 DEF Asked
  <1>4. request' = request => Needed' = Needed
    BY <1>1, <1>2, <1>3 DEF Needed
  <1>5. QED
    BY <1>2, <1>3, <1>4

LEMMA NeededSelf == \A n \in Vertices : n \in Asked => n \in Needed
  BY ReachesSelf DEF Needed

LEMMA NeededNext == \A a \in Needs : a[1] \in Needed => a[2] \in Needed
  <1> SUFFICES ASSUME NEW a \in Needs, a[1] \in Needed
               PROVE  a[2] \in Needed
    OBVIOUS
  <1>1. PICK r \in Asked : Reaches(Needs, r, a[1])
    BY DEF Needed
  <1>2. Reaches(Needs, r, a[2])
    BY <1>1, ReachesNext
  <1>3. a[2] \in Vertices
    BY DEF Needs
  <1>4. QED
    BY <1>2, <1>3 DEF Needed

\* A dependency of a vertex, as an edge of the graph and as a need.
LEMMA DependOf ==
  ASSUME GraphTypes, BuildInv, phase \notin Building \cup {"failed"},
         NEW n \in Vertices, NEW k \in DOMAIN DependsOf(n)
  PROVE  /\ k \in 1..Len(DependsOf(n)) /\ Len(DependsOf(n)) \in Nat
         /\ DependsOf(n)[k] \in Vertices
         /\ <<DependsOf(n)[k], n>> \in Arcs /\ <<n, DependsOf(n)[k]>> \in Needs
  <1>1. m_nameStrategyMap[n] \in DOMAIN strategies /\ strategies[m_nameStrategyMap[n]].name = n
    BY DEF GraphTypes, BuildInv
  <1>2. k \in 1..Len(DependsOf(n)) /\ Len(DependsOf(n)) \in Nat
    BY <1>1, Lists DEF GraphTypes, DependsOf
  <1>3. Edge(m_nameStrategyMap[n], k) \in Depends
    BY <1>1, DependsEdges DEF DependsOf
  <1>4. <<DependsOf(n)[k], n>> \in Arcs
    BY <1>1, <1>3 DEF Edge, DependsOf, BuildInv
  <1>5. DependsOf(n)[k] \in Vertices
    BY <1>4, ArcEnds
  <1>6. <<n, DependsOf(n)[k]>> \in Needs
    BY <1>2, <1>5 DEF Needs, Contains
  <1>7. QED
    BY <1>2, <1>4, <1>5, <1>6

LEMMA RequestList ==
  \A r \in Requests \cup {<<>>} : r # NULL => DOMAIN r = 1..Len(r) /\ Len(r) \in Nat
  <1> SUFFICES ASSUME NEW r \in Requests \cup {<<>>}, r # NULL
               PROVE  DOMAIN r = 1..Len(r) /\ Len(r) \in Nat
    OBVIOUS
  <1>1. r = <<>> \/ IsSeq(r)
    BY RequestsAssumption
  <1>2. r \in Seq({r[i] : i \in DOMAIN r})
    BY <1>1, EmptySeq DEF IsSeq
  <1>3. QED
    BY <1>2, LenProperties

\* A selection by a list begins with nothing marked.
LEMMA MarkSelect ==
  ASSUME SearchesInv, NEW r \in Requests, SelectStrategies(r)
  PROVE  MarkInv'
  <1>1. CASE r = NULL
    BY <1>1 DEF SelectStrategies, Enter, MarkInv
  <1>2. CASE r # NULL
    <2>1. /\ request' = r /\ ran' = <<>> /\ calls' = <<[names |-> r, next |-> 1]>>
          /\ needRun' = needRun \ ToSet(topo) /\ phase \in AfterSort
      BY <1>2 DEF SelectStrategies, NeedRunAtFirst, AfterSort
    <2>2. needRun' = {}
      <3>1. needRun \subseteq Vertices
        BY <2>1 DEF SearchesInv, Basics, MarkTypes, BuildInv, AfterSort, Building
      <3>2. Vertices \subseteq ToSet(topo)
        BY <2>1 DEF SearchesInv, OrderInv, Sorted, ToSet
      <3>3. QED
        BY <2>1, <3>1, <3>2
    <2>3. calls' # <<>> /\ DOMAIN calls' = {1} /\ calls'[1].names = r /\ calls'[1].next = 1
      BY <2>1
    <2>4. \A k \in DOMAIN request' : 1 <= k
      BY <1>2, <2>1, RequestList
    <2>5. QED
      BY <1>2, <2>1, <2>2, <2>3, <2>4 DEF MarkInv
  <1>3. QED
    BY <1>1, <1>2

\* Where the innermost loop is.
LEMMA AtFrame ==
  ASSUME GraphTypes, BuildInv, MarkTypes, MarkInv, phase = "mark", calls # <<>>
  PROVE  LET n == Len(calls) IN
         /\ n \in Nat \ {0} /\ DOMAIN calls = 1..n /\ Last(calls) = calls[n]
         /\ n = 1 => Last(calls).names = request
         /\ n > 1 => \E m \in needRun : m \in Vertices /\ Last(calls).names = DependsOf(m)
         /\ Last(calls).next \in Nat \ {0}
         /\ DOMAIN Last(calls).names = 1..Len(Last(calls).names) /\ Len(Last(calls).names) \in Nat
  <1> DEFINE n == Len(calls)
  <1>1. n \in Nat \ {0} /\ DOMAIN calls = 1..n /\ Last(calls) = calls[n] /\ Last(calls) \in Frames
    BY AtCall
  <1>2. Last(calls).next \in Nat \ {0}
    BY <1>1 DEF Frames
  <1>3. n = 1 => Last(calls).names = request
    BY <1>1 DEF MarkInv
  <1>4. n > 1 => \E m \in needRun : m \in Vertices /\ Last(calls).names = DependsOf(m)
    BY <1>1 DEF MarkInv, Needed
  <1>5. DOMAIN Last(calls).names = 1..Len(Last(calls).names) /\ Len(Last(calls).names) \in Nat
    <2>1. CASE n = 1
      BY <1>3, <2>1, RequestList DEF MarkInv, MarkTypes
    <2>2. CASE n > 1
      <3>1. PICK m \in Vertices : Last(calls).names = DependsOf(m)
        BY <1>4, <2>2
      <3>2. m_nameStrategyMap[m] \in DOMAIN strategies
        BY DEF GraphTypes
      <3>3. QED
        BY <3>1, <3>2, Lists DEF DependsOf, GraphTypes
    <2>3. QED
      BY <1>1, <2>1, <2>2
  <1>6. QED
    BY <1>1, <1>2, <1>3, <1>4, <1>5

LEMMA MarkSkip ==
  ASSUME Basics, MarkInv, SkipSeparator
  PROVE  MarkInv'
  <1>1. /\ phase = "mark" /\ phase' = "mark" /\ calls # <<>> /\ Len(calls) = 1
        /\ Last(calls).next <= Len(Last(calls).names)
        /\ Last(calls).names[Last(calls).next] \in Separators
        /\ calls' = <<NextName(Last(calls))>>
        /\ UNCHANGED <<request, needRun, ran>>
    BY DEF SkipSeparator, AtName, AtSeparator, NameAt
  <1>2. Needed' = Needed /\ \A n : DependsOf(n)' = DependsOf(n)
    BY <1>1, GraphStays, NeedsStay DEF Later, MarkStep
  <1>3. /\ Last(calls) = calls[1] /\ Last(calls).names = request /\ DOMAIN calls = {1}
        /\ Last(calls).next \in Nat \ {0}
    BY <1>1, AtFrame DEF Basics
  <1>4. /\ calls' # <<>> /\ DOMAIN calls' = {1}
        /\ calls'[1].names = request /\ calls'[1].next = calls[1].next + 1
    BY <1>1, <1>3, AtCall DEF Basics
  <1>5. \A names, k : ~Ahead(calls, names, k) /\ ~Ahead(calls', names, k)
    BY <1>3, <1>4 DEF Ahead
  <1>6. \A k \in DOMAIN request : calls[1].next <= k => k = calls[1].next \/ calls'[1].next <= k
    BY <1>1, <1>3, <1>4, RequestList DEF Basics, MarkInv, MarkTypes
  <1>7. \A k \in DOMAIN request : request[k] \in Separators \cup needRun \/ calls'[1].next <= k
    BY <1>1, <1>3, <1>6 DEF MarkInv
  <1>8. QED
    BY <1>1, <1>2, <1>4, <1>5, <1>7 DEF MarkInv

LEMMA MarkCall ==
  ASSUME Basics, MarkInv, MarkNeedRun
  PROVE  MarkInv'
  <1> DEFINE n == Len(calls)
             m == NameAt
             c == Last(calls)
  <1>1. /\ phase = "mark" /\ calls # <<>> /\ c.next <= Len(c.names) /\ m = c.names[c.next]
        /\ ~(n = 1 /\ m \in Separators)
        /\ UNCHANGED <<request, ran>>
    BY DEF MarkNeedRun, AtName, AtSeparator, NameAt
  <1>2. Needed' = Needed /\ (\A x : DependsOf(x)' = DependsOf(x))
    BY <1>1, GraphStays, NeedsStay DEF Later, MarkStep
  <1>3. /\ n \in Nat \ {0} /\ DOMAIN calls = 1..n /\ c = calls[n]
        /\ n = 1 => c.names = request
        /\ n > 1 => \E x \in needRun : x \in Vertices /\ c.names = DependsOf(x)
        /\ c.next \in Nat \ {0}
        /\ DOMAIN c.names = 1..Len(c.names) /\ Len(c.names) \in Nat
    BY <1>1, AtFrame DEF Basics
  <1>4. c.next \in DOMAIN c.names
    BY <1>1, <1>3
  <1>5. CASE ~(m \in Vertices /\ ~(m = LongName /\ n = 1))
    BY <1>5 DEF MarkNeedRun, Enter, MarkInv
  <1>6. CASE m \in Vertices /\ ~(m = LongName /\ n = 1)
    <2>1. /\ calls' \in Seq(Frames) /\ Len(calls') = n + 1
          /\ \A i \in 1..n - 1 : calls'[i] = calls[i]
          /\ calls'[n] = NextName(c)
          /\ calls'[n + 1] = [names |-> DependsOf(m), next |-> 1]
          /\ needRun' = needRun \cup {m} /\ phase' = "mark"
      BY <1>6, Called DEF Basics
    <2>2. /\ calls'[n + 1].names = DependsOf(m) /\ calls'[n + 1].next = 1
          /\ calls'[n].names = c.names /\ calls'[n].next = c.next + 1
      BY <1>1, <2>1, AtCall DEF Basics
    <2>3. n \in Nat \ {0} /\ \A i \in 1..n - 1 : calls'[i] = calls[i]
      BY <1>3, <2>1
    <2>4. needRun' = needRun \cup {m} /\ phase' = "mark"
      BY <2>1
    <2>5. DOMAIN calls' = 1..n + 1 /\ calls' # <<>>
      <3>1. calls' \in Seq(Frames) /\ Len(calls') = n + 1
        BY <2>1
      <3>2. DOMAIN calls' = 1..n + 1 /\ 1 \in 1..n + 1
        BY <1>3, <3>1, LenProperties
      <3>3. QED
        BY <3>2, EmptySeq
    <2>6. m \in Needed
      <3>1. CASE n = 1
        <4>1. m \in Asked
          BY <1>1, <1>3, <1>4, <3>1 DEF Asked, ToSet, MarkInv
        <4>2. QED
          BY <1>6, <4>1, NeededSelf
      <3>2. CASE n > 1
        <4>1. PICK x \in needRun : x \in Vertices /\ c.names = DependsOf(x)
          BY <1>3, <3>2
        <4>2. <<x, m>> \in Needs
          BY <1>1, <1>4, <4>1, DependOf DEF Basics, Building
        <4>3. x \in Needed
          BY <1>1, <4>1 DEF MarkInv
        <4>4. QED
          BY <4>2, <4>3, NeededNext
      <3>3. QED
        BY <1>3, <3>1, <3>2
    <2>7. \A i \in 1..n : calls'[i].names = calls[i].names
      <3>1. \A i \in 1..n : i \in 1..n - 1 \/ i = n
        BY <2>3
      <3>2. c = calls[n]
        BY <1>3
      <3>3. QED
        BY <2>2, <2>3, <3>1, <3>2
    <2>8. calls'[1].names = request
      BY <1>1, <1>3, <2>7 DEF MarkInv
    <2>9. \A i \in DOMAIN calls' : i > 1 => \E x \in needRun' : calls'[i].names = DependsOf(x)
      <3>1. \A i \in 1..n + 1 : i \in 1..n \/ i = n + 1
        BY <1>3
      <3>2. \A i \in 1..n : i > 1 => \E x \in needRun : calls'[i].names = DependsOf(x)
        BY <1>1, <1>3, <2>7 DEF MarkInv
      <3>3. QED
        BY <2>1, <2>2, <2>5, <3>1, <3>2
    <2>10. \A x \in needRun : \A k \in DOMAIN DependsOf(x) :
            Ahead(calls, DependsOf(x), k) => DependsOf(x)[k] \in needRun' \/ Ahead(calls', DependsOf(x), k)
      <3> TAKE x \in needRun
      <3> TAKE k \in DOMAIN DependsOf(x)
      <3>1. SUFFICES ASSUME Ahead(calls, DependsOf(x), k)
                     PROVE  DependsOf(x)[k] \in needRun' \/ Ahead(calls', DependsOf(x), k)
        OBVIOUS
      <3>2. PICK i \in 1..n : i > 1 /\ calls[i].names = DependsOf(x) /\ calls[i].next <= k
        BY <1>3, <3>1 DEF Ahead
      <3>3. i \in DOMAIN calls' /\ calls'[i].names = DependsOf(x)
        BY <1>3, <2>5, <2>7, <3>2
      <3>4. CASE i # n
        <4>1. i \in 1..n - 1
          BY <2>3, <3>4
        <4>2. calls'[i] = calls[i]
          BY <2>3, <4>1
        <4>3. QED
          BY <3>2, <3>3, <4>2 DEF Ahead
      <3>5. CASE i = n /\ k = c.next
        BY <1>1, <1>3, <2>1, <3>2, <3>5
      <3>6. CASE i = n /\ k # c.next
        <4>1. x \in Vertices
          BY <1>1 DEF MarkInv, Needed
        <4>2. k \in Nat
          <5>1. phase \notin Building \cup {"failed"} /\ GraphTypes /\ BuildInv
            BY <1>1 DEF Basics, Building
          <5>2. k \in 1..Len(DependsOf(x)) /\ Len(DependsOf(x)) \in Nat
            BY <4>1, <5>1, DependOf
          <5>3. QED
            BY <5>2
        <4>3. calls'[n].next <= k
          BY <1>3, <2>2, <3>2, <3>6, <4>2
        <4>4. QED
          BY <3>2, <3>3, <3>6, <4>3 DEF Ahead
      <3>7. QED
        BY <3>4, <3>5, <3>6
    <2>11. \A k \in DOMAIN DependsOf(m) : Ahead(calls', DependsOf(m), k)
      <3>1. \A k \in DOMAIN DependsOf(m) : 1 <= k
        BY <1>1, <1>6, DependOf DEF Basics, Building
      <3>2. n + 1 \in DOMAIN calls' /\ n + 1 > 1
        BY <1>3, <2>5
      <3>3. calls'[n + 1].names = DependsOf(m) /\ calls'[n + 1].next = 1
        BY <2>2
      <3>4. QED
        BY <3>1, <3>2, <3>3 DEF Ahead
    <2>12. \A x \in needRun' : \A k \in DOMAIN DependsOf(x) :
             DependsOf(x)[k] \in needRun' \/ Ahead(calls', DependsOf(x), k)
      <3>1. \A x \in needRun : \A k \in DOMAIN DependsOf(x) :
              DependsOf(x)[k] \in needRun \/ Ahead(calls, DependsOf(x), k)
        BY <1>1 DEF MarkInv
      <3>2. \A x \in needRun : \A k \in DOMAIN DependsOf(x) :
              DependsOf(x)[k] \in needRun' \/ Ahead(calls', DependsOf(x), k)
        BY <2>10, <2>4, <3>1
      <3>3. QED
        BY <2>11, <2>4, <3>2
    <2>13. \A k \in DOMAIN request : request[k] \in Separators \cup needRun' \/ calls'[1].next <= k
      <3> TAKE k \in DOMAIN request
      <3>1. k \in Nat
        BY <1>1, RequestList DEF Basics, MarkInv, MarkTypes
      <3>2. request[k] \in Separators \cup needRun \/ calls[1].next <= k
        BY <1>1 DEF MarkInv
      <3>3. CASE n = 1
        BY <1>1, <1>3, <2>1, <2>2, <3>1, <3>2, <3>3
      <3>4. CASE n > 1
        <4>1. calls'[1] = calls[1]
          BY <1>3, <2>1, <3>4
        <4>2. QED
          BY <2>1, <3>2, <4>1
      <3>5. QED
        BY <1>3, <3>3, <3>4
    <2>14. needRun' \subseteq Needed
      BY <1>1, <2>1, <2>6 DEF MarkInv
    <2>15. request # NULL /\ ran = <<>>
      BY <1>1 DEF MarkInv
    <2>16. QED
      BY <1>1, <1>2, <2>1, <2>5, <2>8, <2>9, <2>12, <2>13, <2>14, <2>15 DEF MarkInv
  <1>7. QED
    BY <1>5, <1>6

LEMMA MarkBack ==
  ASSUME Basics, MarkInv, MarkReturn
  PROVE  MarkInv'
  <1> DEFINE n == Len(calls)
             c == Last(calls)
  <1>1. /\ phase = "mark" /\ phase' = "mark" /\ calls # <<>> /\ c.next > Len(c.names)
        /\ calls' = Front(calls) /\ UNCHANGED <<request, needRun, ran>>
    BY DEF MarkReturn
  <1>2. Needed' = Needed /\ \A x : DependsOf(x)' = DependsOf(x)
    BY <1>1, GraphStays, NeedsStay DEF Later, MarkStep
  <1>3. /\ n \in Nat \ {0} /\ DOMAIN calls = 1..n /\ c = calls[n]
        /\ n = 1 => c.names = request
        /\ c.next \in Nat \ {0}
        /\ DOMAIN c.names = 1..Len(c.names) /\ Len(c.names) \in Nat
    BY <1>1, AtFrame DEF Basics
  <1>4. calls' \in Seq(Frames) /\ Len(calls') = n - 1 /\ \A i \in 1..n - 1 : calls'[i] = calls[i]
    BY <1>1, AtCall DEF Basics
  <1>5. DOMAIN calls' = 1..n - 1
    BY <1>4, LenProperties
  <1>6. \A k \in DOMAIN c.names : ~(c.next <= k)
    BY <1>1, <1>3
  <1>7. \A names : \A k \in DOMAIN names : Ahead(calls, names, k) => Ahead(calls', names, k)
    <2> SUFFICES ASSUME NEW names, NEW k \in DOMAIN names, Ahead(calls, names, k)
                 PROVE  Ahead(calls', names, k)
      OBVIOUS
    <2>1. PICK i \in 1..n : i > 1 /\ calls[i].names = names /\ calls[i].next <= k
      BY <1>3 DEF Ahead
    <2>2. i # n
      BY <1>3, <1>6, <2>1
    <2>3. i \in DOMAIN calls' /\ calls'[i] = calls[i]
      <3>1. n \in Nat \ {0}
        BY <1>3
      <3>2. i \in 1..n - 1
        BY <2>2, <3>1
      <3>3. \A j \in 1..n - 1 : calls'[j] = calls[j]
        BY <1>4
      <3>4. QED
        BY <1>5, <3>2, <3>3
    <2>4. QED
      BY <2>1, <2>3 DEF Ahead
  <1>8. calls' # <<>> => n > 1 /\ calls'[1] = calls[1]
    <2>1. calls' # <<>> => n - 1 # 0
      BY <1>4, EmptySeq
    <2>2. QED
      BY <1>3, <1>4, <2>1
  <1>9. \A k \in DOMAIN request :
          request[k] \in Separators \cup needRun \/ (calls' # <<>> /\ calls'[1].next <= k)
    <2> TAKE k \in DOMAIN request
    <2>1. request[k] \in Separators \cup needRun \/ calls[1].next <= k
      BY <1>1 DEF MarkInv
    <2>2. CASE n = 1
      BY <1>3, <1>6, <2>1, <2>2
    <2>3. CASE n # 1
      <3>1. calls' # <<>>
        BY <1>3, <1>4, <2>3, EmptySeq
      <3>2. QED
        BY <1>8, <2>1, <3>1
    <2>4. QED
      BY <2>2, <2>3
  <1>10. \A i \in DOMAIN calls' : i \in DOMAIN calls /\ calls'[i] = calls[i]
    BY <1>3, <1>4, <1>5
  <1>11. calls' # <<>> => calls'[1].names = request
    BY <1>1, <1>8 DEF MarkInv
  <1>12. \A i \in DOMAIN calls' : i > 1 => \E x \in needRun : calls'[i].names = DependsOf(x)
    BY <1>1, <1>10 DEF MarkInv
  <1>13. \A x \in needRun : \A k \in DOMAIN DependsOf(x) :
           DependsOf(x)[k] \in needRun \/ Ahead(calls', DependsOf(x), k)
    <2>1. \A x \in needRun : \A k \in DOMAIN DependsOf(x) :
            DependsOf(x)[k] \in needRun \/ Ahead(calls, DependsOf(x), k)
      BY <1>1 DEF MarkInv
    <2>2. QED
      BY <1>7, <2>1
  <1>14. request # NULL /\ ran = <<>> /\ needRun \subseteq Needed
    BY <1>1 DEF MarkInv
  <1>15. QED
    BY <1>1, <1>2, <1>9, <1>11, <1>12, <1>13, <1>14 DEF MarkInv

LEMMA MarkInvStep ==
  ASSUME SearchesInv, MarkInv, [Next]_vars
  PROVE  MarkInv'
  <1>1. CASE SkipSeparator \/ MarkNeedRun \/ MarkReturn
    BY <1>1, MarkSkip, MarkCall, MarkBack DEF SearchesInv
  <1>2. CASE \E r \in Requests : SelectStrategies(r)
    BY <1>2, MarkSelect
  <1>3. CASE phase' # "mark"
    BY <1>3 DEF MarkInv
  <1>4. CASE UNCHANGED vars
    <2>1. Needed' = Needed /\ \A n : DependsOf(n)' = DependsOf(n)
      BY <1>4, GraphStays, NeedsStay DEF vars, marking
    <2>2. UNCHANGED <<phase, request, ran, needRun, calls>>
      BY <1>4 DEF vars, marking
    <2>3. QED
      BY <2>1, <2>2 DEF MarkInv
  <1>5. phase' = "mark" =>
          \/ SkipSeparator \/ MarkNeedRun \/ MarkReturn
          \/ (\E r \in Requests : SelectStrategies(r))
          \/ UNCHANGED vars
    BY NextSteps DEF AddVertex, VerticesDone, AddEdge, DependsDone, EdgesDone, Later, SearchStep,
       Start, Examine, BackEdge, Finish, CheckCircleDone, TopoOrderDone, MarkRedundantDone, PrintDone,
       PrintGraph, MarkStep, MarkDone, RunStep, ResetStrategy, AllReset, RunStrategy, AllRun, Enter,
       Fail, Searches
  <1>6. QED
    BY <1>1, <1>2, <1>3, <1>4, <1>5

\* When every loop is over, what is marked is closed and is what was asked for with its needs.
LEMMA MarkSettles ==
  ASSUME Basics, MarkInv, phase = "mark", calls = <<>>
  PROVE  Settled
  <1>1. /\ request # NULL /\ needRun \subseteq Needed
        /\ \A n \in needRun : \A k \in DOMAIN DependsOf(n) : DependsOf(n)[k] \in needRun
        /\ \A k \in DOMAIN request : request[k] \in Separators \cup needRun
    <2>1. \A i \in DOMAIN calls : FALSE
      BY EmptySeq
    <2>2. QED
      BY <2>1 DEF MarkInv, Ahead
  <1>2. Asked \subseteq needRun
    BY <1>1 DEF Asked, ToSet
  <1>3. needRun \subseteq Vertices /\ Vertices = Names
    BY <1>1 DEF Needed, Basics, BuildInv, Building
  <1>4. \A a \in Needs : a[1] \in needRun => a[2] \in needRun
    <2> SUFFICES ASSUME NEW a \in Needs, a[1] \in needRun
                 PROVE  a[2] \in needRun
      OBVIOUS
    <2>1. PICK k \in 1..Len(DependsOf(a[1])) : DependsOf(a[1])[k] = a[2]
      BY DEF Needs, Contains
    <2>2. a[1] \in Vertices /\ m_nameStrategyMap[a[1]] \in DOMAIN strategies
      BY DEF Needs, Basics, GraphTypes
    <2>3. DOMAIN DependsOf(a[1]) = 1..Len(DependsOf(a[1]))
      BY <2>2, Lists DEF DependsOf, Basics, GraphTypes
    <2>4. QED
      BY <1>1, <2>1, <2>3
  <1>5. Needed \subseteq needRun
    BY <1>2, <1>3, <1>4 DEF Needed, Reaches
  <1>6. QED
    BY <1>1, <1>2, <1>3, <1>5 DEF Settled, Chosen

LEMMA AllSettled ==
  ASSUME Basics, phase \in AfterSort, request = NULL
  PROVE  Settled
  BY NeededSelf DEF Settled, Asked, Chosen, Basics, BuildInv, Building, AfterSort

-----------------------------------------------------------------------------
(* What runs                                                                 *)

\* Every strategy of l comes after everything it depends on.
DependsFirst(l) ==
  \A i \in DOMAIN l : \A d \in ToSet(DependsOf(l[i])) : \E j \in 1..i - 1 : l[j] = d

LEMMA DependsFirstStays ==
  ASSUME Later \/ UNCHANGED vars
  PROVE  DependsFirst(ran)' <=> DependsFirst(ran')
  BY GraphStays DEF DependsFirst, DependsOf

\* The strategies that ran are needed, each once and after its dependencies; the run loop
\* is at idx.
RanInv ==
  /\ phase \in {"reset", "run"} => Settled
  /\ phase = "reset" => ran = <<>>
  /\ phase = "run" =>
       /\ idx <= Len(topo) + 1
       /\ \A k \in 1..idx - 1 : Chosen(topo[k]) => topo[k] \in ToSet(ran)
       /\ \A i \in DOMAIN ran : \E k \in 1..idx - 1 : ran[i] = topo[k]
  /\ ran # <<>> => Asked \subseteq Names
  /\ ToSet(ran) \subseteq Needed
  /\ DependsFirst(ran)
  /\ Distinct(ran)

\* The new element of ran.
LEMMA RanMore ==
  ASSUME SearchesInv, RanInv, phase = "run", idx <= Len(topo), Chosen(topo[idx]),
         ran' = Append(ran, topo[idx])
  PROVE  LET x == topo[idx] n == Len(ran) IN
         /\ n \in Nat /\ DOMAIN ran = 1..n /\ DOMAIN ran' = 1..n + 1 /\ ran' # <<>>
         /\ ran'[n + 1] = x /\ \A i \in 1..n : ran'[i] = ran[i]
         /\ ToSet(ran') = ToSet(ran) \cup {x}
         /\ x \in Needed /\ x \in Vertices
         /\ \A i \in 1..n : ran[i] # x
         /\ \A d \in ToSet(DependsOf(x)) : \E j \in 1..n : ran[j] = d
  <1> DEFINE x == topo[idx]
             n == Len(ran)
  <1> USE DEF SearchesInv, Basics
  <1>1. /\ topo \in Seq(Vertices) /\ idx \in Nat \ {0} /\ DOMAIN topo = 1..Len(topo)
        /\ Len(topo) \in Nat
    BY LenProperties DEF SearchTypes, GraphTypes
  <1>2. idx \in DOMAIN topo /\ x \in Vertices
    BY <1>1, ElementOfSeq
  <1>3. ran \in Seq(Vertices) /\ n \in Nat /\ DOMAIN ran = 1..n
    BY LenProperties DEF MarkTypes
  <1>4. /\ ran' \in Seq(Vertices) /\ Len(ran') = n + 1
        /\ ran'[n + 1] = x /\ \A i \in 1..n : ran'[i] = ran[i]
    BY <1>2, <1>3, AppendProperties
  <1>5. ToSet(ran') = ToSet(ran) \cup {x}
    BY <1>2, <1>3, AppendSet
  <1>6. DOMAIN ran' = 1..n + 1 /\ ran' # <<>>
    BY <1>3, <1>4, LenProperties, EmptySeq
  <1>7. Settled /\ Sorted(topo, Vertices, Arcs)
    BY DEF RanInv, OrderInv, AfterSort
  <1>8. x \in Needed
    BY <1>2, <1>7 DEF Settled
  <1>9. \A i \in 1..n : ran[i] # x
    <2> SUFFICES ASSUME NEW i \in 1..n, ran[i] = x PROVE FALSE
      OBVIOUS
    <2>1. PICK k \in 1..idx - 1 : topo[k] = x
      BY <1>3 DEF RanInv
    <2>2. k \in DOMAIN topo /\ k # idx
      BY <1>1
    <2>3. QED
      BY <1>2, <1>7, <2>1, <2>2 DEF Sorted, Distinct
  <1>10. \A d \in ToSet(DependsOf(x)) : \E j \in 1..n : ran[j] = d
    <2> SUFFICES ASSUME NEW d \in ToSet(DependsOf(x)) PROVE \E j \in 1..n : ran[j] = d
      OBVIOUS
    <2>1. PICK k \in DOMAIN DependsOf(x) : d = DependsOf(x)[k]
      BY DEF ToSet
    <2>2. <<d, x>> \in Arcs /\ <<x, d>> \in Needs /\ d \in Vertices
      BY <1>2, <2>1, DependOf DEF Building
    <2>3. PICK i, j \in DOMAIN topo : i < j /\ topo[i] = d /\ topo[j] = x
      BY <1>2, <1>7, <2>2 DEF Sorted, Before
    <2>4. j = idx
      BY <1>2, <1>7, <2>3 DEF Sorted, Distinct
    <2>5. i \in 1..idx - 1
      BY <1>1, <2>3, <2>4
    <2>6. d \in Needed
      BY <1>8, <2>2, NeededNext
    <2>7. Chosen(topo[i])
      BY <1>7, <2>2, <2>3, <2>6 DEF Settled
    <2>8. d \in ToSet(ran)
      BY <2>3, <2>5, <2>7 DEF RanInv
    <2>9. QED
      BY <1>3, <2>8 DEF ToSet
  <1>11. QED
    BY <1>2, <1>3, <1>4, <1>5, <1>6, <1>8, <1>9, <1>10

LEMMA RanSame ==
  ASSUME Later \/ UNCHANGED vars, RanInv, UNCHANGED <<request, needRun, ran>>
  PROVE  /\ Settled' <=> Settled
         /\ \A n : Chosen(n)' <=> Chosen(n)
         /\ ran' # <<>> => Asked' \subseteq Names'
         /\ ToSet(ran') \subseteq Needed'
         /\ DependsFirst(ran)'
         /\ Distinct(ran')
  <1>1. /\ Vertices' = Vertices /\ Names' = Names
        /\ \A n : DependsOf(n)' = DependsOf(n)
        /\ Asked' = Asked /\ Needed' = Needed
    BY GraphStays, NeedsStay
  <1>2. \A n : Chosen(n)' <=> Chosen(n)
    BY DEF Chosen
  <1>3. Settled' <=> Settled
    BY <1>1, <1>2 DEF Settled
  <1>4. DependsFirst(ran)'
    BY DependsFirstStays DEF RanInv
  <1>5. QED
    BY <1>1, <1>2, <1>3, <1>4 DEF RanInv

LEMMA RanEmpty ==
  ASSUME ran' = <<>>, phase' \notin {"reset", "run"}
  PROVE  RanInv'
  <1>1. DOMAIN ran' = {}
    OBVIOUS
  <1>2. QED
    BY <1>1 DEF RanInv, ToSet, Distinct, DependsFirst

LEMMA RanSelect ==
  ASSUME SearchesInv, NEW r \in Requests, SelectStrategies(r)
  PROVE  RanInv'
  <1>1. /\ request' = r /\ ran' = <<>> /\ phase \in AfterSort
        /\ (r # NULL /\ phase' = "mark") \/ (r = NULL /\ phase' = "reset")
    BY DEF SelectStrategies, Enter, AfterSort
  <1>2. CASE phase' = "mark"
    BY <1>1, <1>2, RanEmpty
  <1>3. CASE r = NULL /\ phase' = "reset"
    <2>1. /\ Vertices' = Vertices /\ Names' = Names /\ Vertices = Names
          /\ \A arcs, u, v : Reaches(arcs, u, v)' <=> Reaches(arcs, u, v)
      BY <1>1, GraphStays DEF Later, SearchesInv, Basics, BuildInv, Building, AfterSort
    <2>2. Asked' = Names
      BY <1>1, <1>3, <2>1 DEF Asked
    <2>3. \A n \in Vertices : n \in Needed'
      BY <2>1, <2>2, ReachesSelf DEF Needed
    <2>4. \A n : Chosen(n)'
      BY <1>1, <1>3 DEF Chosen
    <2>5. Settled'
      BY <2>1, <2>2, <2>3, <2>4 DEF Settled
    <2>6. DOMAIN ran' = {}
      BY <1>1
    <2>7. QED
      BY <1>1, <1>3, <2>5, <2>6 DEF RanInv, ToSet, Distinct, DependsFirst
  <1>4. QED
    BY <1>1, <1>2, <1>3

LEMMA RanRun ==
  ASSUME SearchesInv, RanInv, RunStrategy
  PROVE  RanInv'
  <1> DEFINE x == topo[idx]
             n == Len(ran)
  <1>1. /\ phase = "run" /\ idx <= Len(topo) /\ UNCHANGED <<request, needRun, topo>>
        /\ phase' = "true" \/ (phase' = "run" /\ idx' = idx + 1)
    BY DEF RunStrategy, Enter, search
  <1>2. topo \in Seq(Vertices) /\ idx \in Nat \ {0} /\ Len(topo) \in Nat
    BY LenProperties DEF SearchesInv, Basics, SearchTypes, GraphTypes
  <1>3. /\ \A k \in 1..idx - 1 : Chosen(topo[k]) => topo[k] \in ToSet(ran)
        /\ \A i \in DOMAIN ran : \E k \in 1..idx - 1 : ran[i] = topo[k]
        /\ Settled
    BY <1>1 DEF RanInv
  <1>4. \A k \in 1..idx : k \in 1..idx - 1 \/ k = idx
    BY <1>2
  <1>5. 1..idx - 1 \subseteq 1..idx /\ idx \in 1..idx /\ idx + 1 <= Len(topo) + 1
        /\ idx + 1 - 1 = idx
    BY <1>1, <1>2
  <1>6. Later
    BY DEF Later, RunStep
  <1>7. /\ Vertices' = Vertices /\ Names' = Names /\ Asked' = Asked /\ Needed' = Needed
        /\ \A m : DependsOf(m)' = DependsOf(m)
        /\ \A m : Chosen(m)' <=> Chosen(m)
    BY <1>1, <1>6, GraphStays, NeedsStay DEF Chosen
  <1>8. Settled'
    BY <1>3, <1>7 DEF Settled
  <1>9. CASE ~Chosen(x)
    <2>1. ran' = ran /\ phase' = "run" /\ idx' = idx + 1
      BY <1>9 DEF RunStrategy
    <2>2. /\ ran' # <<>> => Asked' \subseteq Names'
          /\ ToSet(ran') \subseteq Needed'
          /\ DependsFirst(ran)'
          /\ Distinct(ran')
      BY <1>1, <1>6, <2>1, RanSame
    <2>3. \A k \in 1..idx : Chosen(topo[k]) => topo[k] \in ToSet(ran')
      BY <1>3, <1>4, <1>9, <2>1
    <2>4. \A i \in DOMAIN ran' : \E k \in 1..idx : ran'[i] = topo[k]
      BY <1>3, <1>5, <2>1
    <2>5. \A k : Chosen(topo[k])' <=> Chosen(topo[k])
      BY <1>1, <1>7 DEF Chosen
    <2>6. QED
      BY <1>1, <1>5, <1>8, <2>1, <2>2, <2>3, <2>4, <2>5 DEF RanInv
  <1>10. CASE Chosen(x)
    <2>1. ran' = Append(ran, x)
      BY <1>10 DEF RunStrategy
    <2>2. /\ n \in Nat /\ DOMAIN ran = 1..n /\ DOMAIN ran' = 1..n + 1 /\ ran' # <<>>
          /\ ran'[n + 1] = x /\ \A i \in 1..n : ran'[i] = ran[i]
          /\ ToSet(ran') = ToSet(ran) \cup {x}
          /\ x \in Needed /\ x \in Vertices
          /\ \A i \in 1..n : ran[i] # x
          /\ \A d \in ToSet(DependsOf(x)) : \E j \in 1..n : ran[j] = d
      BY <1>1, <1>10, <2>1, RanMore
    <2>3. \A i \in 1..n + 1 : i \in 1..n \/ i = n + 1
      BY <2>2
    <2>4. Asked' \subseteq Names' /\ ToSet(ran') \subseteq Needed'
      BY <1>3, <1>7, <2>2 DEF Settled, RanInv
    <2>5. DependsFirst(ran')
      <3>1. \A i \in 1..n : \A d \in ToSet(DependsOf(ran'[i])) : \E j \in 1..i - 1 : ran'[j] = d
        <4>1. \A i \in 1..n : 1..i - 1 \subseteq 1..n
          BY <2>2
        <4>2. \A i \in 1..n : \A d \in ToSet(DependsOf(ran[i])) : \E j \in 1..i - 1 : ran[j] = d
          BY <2>2 DEF RanInv, DependsFirst
        <4>3. \A i \in 1..n : ran'[i] = ran[i]
          BY <2>2
        <4>4. QED
          BY <4>1, <4>2, <4>3
      <3>2. \A d \in ToSet(DependsOf(ran'[n + 1])) : \E j \in 1..(n + 1) - 1 : ran'[j] = d
        <4>1. (n + 1) - 1 = n
          BY <2>2
        <4>2. QED
          BY <2>2, <4>1
      <3>3. DOMAIN ran' = 1..n + 1
        BY <2>2
      <3>4. QED
        BY <2>3, <3>1, <3>2, <3>3 DEF DependsFirst
    <2>6. DependsFirst(ran)'
      BY <1>6, <2>5, DependsFirstStays
    <2>7. Distinct(ran')
      <3>1. \A i, j \in 1..n : ran[i] = ran[j] => i = j
        BY <2>2 DEF RanInv, Distinct
      <3>2. \A i \in 1..n : ran'[i] = ran[i] /\ ran[i] # ran'[n + 1]
        BY <2>2
      <3>3. QED
        BY <2>2, <2>3, <3>1, <3>2 DEF Distinct
    <2>8. \A k \in 1..idx : Chosen(topo[k]) => topo[k] \in ToSet(ran')
      BY <1>3, <1>4, <2>2
    <2>9. \A i \in DOMAIN ran' : \E k \in 1..idx : ran'[i] = topo[k]
      <3>1. \A i \in 1..n : \E k \in 1..idx : ran'[i] = topo[k]
        BY <1>3, <1>5, <2>2
      <3>2. QED
        BY <1>5, <2>2, <2>3, <3>1
    <2>10. \A k : Chosen(topo[k])' <=> Chosen(topo[k])
      BY <1>1, <1>7 DEF Chosen
    <2>11. phase' = "run" =>
            /\ idx' <= Len(topo') + 1
            /\ \A k \in 1..idx' - 1 : Chosen(topo[k])' => topo'[k] \in ToSet(ran')
            /\ \A i \in DOMAIN ran' : \E k \in 1..idx' - 1 : ran'[i] = topo'[k]
      BY <1>1, <1>5, <2>8, <2>9, <2>10
    <2>12. QED
      BY <1>1, <1>8, <2>2, <2>4, <2>6, <2>7, <2>11 DEF RanInv
  <1>11. QED
    BY <1>9, <1>10

\* The other steps add nothing to ran; the run loop is entered with the marking settled.
LEMMA RanOther ==
  ASSUME SearchesInv, MarkInv, RanInv, Later \/ UNCHANGED vars, ~RunStrategy,
         ~(\E r \in Requests : SelectStrategies(r))
  PROVE  RanInv'
  <1>1. ran' = ran /\ (phase' # "mark" => request' = request /\ needRun' = needRun)
    BY DEF Later, SearchStep, Start, Examine, Finish, CheckCircleDone, TopoOrderDone,
       MarkRedundantDone, PrintDone, PrintGraph, MarkStep, SkipSeparator, MarkNeedRun, MarkReturn,
       MarkDone, RunStep, ResetStrategy, AllReset, AllRun, Enter, AtName, marking, vars
  <1>2. /\ phase' = "reset" => phase = "reset" \/ (phase = "mark" /\ calls = <<>>)
        /\ phase' = "run" => (phase = "reset" /\ idx' = 1)
                             \/ (phase = "run" /\ idx' = idx /\ topo' = topo)
    BY DEF Later, SearchStep, Start, Examine, BackEdge, Finish, CheckCircleDone, TopoOrderDone,
       MarkRedundantDone, PrintDone, PrintGraph, MarkStep, SkipSeparator, MarkNeedRun, MarkReturn,
       MarkDone, RunStep, ResetStrategy, AllReset, AllRun, Enter, Fail, Searches, search, vars
  <1>3. CASE phase' = "mark"
    <2>1. phase = "mark"
      BY <1>3 DEF Later, SearchStep, Start, Examine, BackEdge, Finish, CheckCircleDone,
         TopoOrderDone, MarkRedundantDone, PrintDone, PrintGraph, MarkStep, SkipSeparator,
         MarkNeedRun, MarkReturn, MarkDone, RunStep, ResetStrategy, AllReset, AllRun, Enter, Fail,
         Searches, vars
    <2>2. ran' = <<>>
      BY <1>1, <2>1 DEF MarkInv
    <2>3. QED
      BY <1>3, <2>2, RanEmpty
  <1>4. CASE phase' # "mark"
    <2>1. /\ Settled' <=> Settled
          /\ \A n : Chosen(n)' <=> Chosen(n)
          /\ ran' # <<>> => Asked' \subseteq Names'
          /\ ToSet(ran') \subseteq Needed'
          /\ DependsFirst(ran)'
          /\ Distinct(ran')
      BY <1>1, <1>4, RanSame
    <2>2. phase' \in {"reset", "run"} => Settled
      BY <1>2, MarkSettles DEF RanInv, SearchesInv
    <2>3. phase' = "reset" => ran' = <<>>
      BY <1>1, <1>2 DEF RanInv, MarkInv
    <2>4. CASE phase' = "run" /\ phase = "reset" /\ idx' = 1
      <3>1. ran' = <<>>
        BY <1>1, <2>4 DEF RanInv
      <3>2. (\A i \in DOMAIN ran' : FALSE) /\ \A k \in 1..idx' - 1 : FALSE
        BY <2>4, <3>1
      <3>3. topo' \in Seq(Vertices') /\ Len(topo') \in Nat
        <4>1. topo' = topo /\ Vertices' = Vertices
          BY <2>4, GraphStays DEF Later, SearchStep, Start, Examine, Finish, CheckCircleDone,
             TopoOrderDone, MarkRedundantDone, PrintDone, PrintGraph, MarkStep, RunStep,
             SkipSeparator, MarkNeedRun, MarkReturn, MarkDone, ResetStrategy, AllReset, AllRun,
             search, vars, Searches, AtName
        <4>2. QED
          BY <4>1, LenProperties DEF SearchesInv, Basics, SearchTypes
      <3>4. idx' <= Len(topo') + 1
        BY <2>4, <3>3
      <3>5. QED
        BY <2>1, <2>2, <2>4, <3>1, <3>2, <3>4 DEF RanInv
    <2>5. CASE phase' = "run" /\ phase = "run" /\ idx' = idx /\ topo' = topo
      <3>1. \A k : Chosen(topo[k])' <=> Chosen(topo[k])
        BY <1>1, <1>4, <2>5 DEF Chosen
      <3>2. /\ idx <= Len(topo) + 1
            /\ \A k \in 1..idx - 1 : Chosen(topo[k]) => topo[k] \in ToSet(ran)
            /\ \A i \in DOMAIN ran : \E k \in 1..idx - 1 : ran[i] = topo[k]
        BY <2>5 DEF RanInv
      <3>3. QED
        BY <1>1, <2>1, <2>2, <2>5, <3>1, <3>2 DEF RanInv
    <2>6. CASE phase' # "run"
      BY <2>1, <2>2, <2>3, <2>6 DEF RanInv
    <2>7. QED
      BY <1>2, <2>4, <2>5, <2>6
  <1>5. QED
    BY <1>3, <1>4

LEMMA RanInvStep ==
  ASSUME SearchesInv, MarkInv, RanInv, [Next]_vars
  PROVE  RanInv'
  <1>1. CASE AddVertex \/ VerticesDone \/ AddEdge \/ DependsDone \/ EdgesDone
    <2>1. ran' = <<>> /\ phase' \notin {"reset", "run"}
      BY <1>1 DEF AddVertex, VerticesDone, AddEdge, DependsDone, EdgesDone, SearchesInv, Basics,
         Early, Building, marking, Enter, Fail
    <2>2. QED
      BY <2>1, RanEmpty
  <1>2. CASE \E r \in Requests : SelectStrategies(r)
    BY <1>2, RanSelect
  <1>3. CASE RunStrategy
    BY <1>3, RanRun
  <1>4. QED
    BY <1>1, <1>2, <1>3, RanOther, NextSteps

SelectInv == SearchesInv /\ MarkInv /\ RanInv

\* A request runs exactly the strategies that it asks for and all they need, each once and
\* after what it depends on, for any lists of strategies and any requests.
THEOREM SelectionRight == Spec => []NeededRun
  <1>1. Init => SelectInv
    <2> SUFFICES ASSUME Init PROVE SelectInv
      OBVIOUS
    <2>1. SearchesInv /\ phase = "vertices" /\ ran = <<>>
      BY SearchesInvInit DEF Init
    <2>2. DOMAIN ran = {}
      BY <2>1
    <2>3. QED
      BY <2>1, <2>2 DEF SelectInv, MarkInv, RanInv, ToSet, Distinct, DependsFirst
  <1>2. SelectInv /\ [Next]_vars => SelectInv'
    BY SearchesInvStep, MarkInvStep, RanInvStep DEF SelectInv
  <1>3. SelectInv => NeededRun
    <2> SUFFICES ASSUME SelectInv PROVE NeededRun
      OBVIOUS
    <2>1. RanInv /\ SearchesInv
      BY DEF SelectInv
    <2>2. phase = "run" /\ idx > Len(topo) => ToSet(ran) = Needed
      <3> SUFFICES ASSUME phase = "run", idx > Len(topo), NEW x \in Needed
                   PROVE  x \in ToSet(ran)
        BY <2>1 DEF RanInv
      <3>1. /\ topo \in Seq(Vertices) /\ idx \in Nat \ {0} /\ DOMAIN topo = 1..Len(topo)
            /\ Len(topo) \in Nat
        BY <2>1, LenProperties DEF SearchesInv, Basics, SearchTypes, GraphTypes
      <3>2. x \in Vertices
        BY DEF Needed
      <3>3. PICK k \in DOMAIN topo : topo[k] = x
        BY <2>1, <3>2 DEF SearchesInv, OrderInv, Sorted, AfterSort
      <3>4. k \in 1..idx - 1
        BY <3>1
      <3>5. Chosen(topo[k])
        BY <2>1, <3>2, <3>3 DEF RanInv, Settled
      <3>6. QED
        BY <2>1, <3>3, <3>4, <3>5 DEF RanInv
    <2>3. ToSet(ran) \subseteq Needed /\ (ran # <<>> => Asked \subseteq Names)
          /\ DependsFirst(ran) /\ Distinct(ran)
      BY <2>1 DEF RanInv
    <2>4. QED
      BY <2>2, <2>3 DEF NeededRun, Needs, Asked, Needed, DependsFirst, Distinct
  <1>4. QED
    BY <1>1, <1>2, <1>3, PTL DEF Spec

-----------------------------------------------------------------------------
(* The edges that static-topo prints                                         *)

\* Where a strategy is in m_topoStrategies.
Pos == [x \in Vertices |-> CHOOSE i \in DOMAIN topo : topo[i] = x]

LEMMA PosFacts ==
  ASSUME SearchTypes, Sorted(topo, Vertices, Arcs)
  PROVE  /\ \A x \in Vertices : Pos[x] \in Nat
         /\ \A x, y \in Vertices : Pos[x] = Pos[y] => x = y
         /\ \A a \in Arcs : Pos[a[1]] < Pos[a[2]]
         /\ \A x, y \in Vertices : Reaches(Arcs, x, y) => Pos[x] <= Pos[y]
  <1>1. DOMAIN topo = 1..Len(topo) /\ Len(topo) \in Nat
    BY LenProperties DEF SearchTypes
  <1>2. \A x \in Vertices : Pos[x] \in DOMAIN topo /\ topo[Pos[x]] = x
    BY DEF Sorted, Pos
  <1>3. \A x \in Vertices : Pos[x] \in Nat
    BY <1>1, <1>2
  <1>4. \A x, y \in Vertices : Pos[x] = Pos[y] => x = y
    BY <1>2
  <1>5. \A x \in Vertices : \A i \in DOMAIN topo : topo[i] = x => i = Pos[x]
    BY <1>2 DEF Sorted, Distinct
  <1>6. \A a \in Arcs : Pos[a[1]] < Pos[a[2]]
    <2> SUFFICES ASSUME NEW a \in Arcs PROVE Pos[a[1]] < Pos[a[2]]
      OBVIOUS
    <2>1. a[1] \in Vertices /\ a[2] \in Vertices
      BY ArcEnds
    <2>2. PICK i, j \in DOMAIN topo : i < j /\ topo[i] = a[1] /\ topo[j] = a[2]
      BY <2>1 DEF Sorted, Before
    <2>3. i = Pos[a[1]] /\ j = Pos[a[2]]
      BY <1>5, <2>1, <2>2
    <2>4. QED
      BY <2>2, <2>3
  <1>7. ASSUME NEW x \in Vertices, NEW y \in Vertices, Reaches(Arcs, x, y)
        PROVE  Pos[x] <= Pos[y]
    <2> DEFINE T == {z \in Vertices : Pos[x] <= Pos[z]}
    <2>1. x \in T
      BY <1>3
    <2>2. \A a \in Arcs : a[1] \in T => a[2] \in T
      BY <1>3, <1>6, ArcEnds
    <2>3. y \in T
      BY <1>7, <2>1, <2>2 DEF Reaches
    <2>4. QED
      BY <2>3
  <1>8. QED
    BY <1>3, <1>4, <1>6, <1>7

\* The edges without another path between their ends.
Reduced == {a \in Arcs : ~ExistAnotherPath(a[1], a[2])}

LEMMA ReachesMore ==
  \A A, B, x, y : A \subseteq B /\ Reaches(A, x, y) => Reaches(B, x, y)
  BY DEF Reaches

\* The edges that are shorter than an edge with another path replace it.
LEMMA ShorterEdges ==
  ASSUME SearchTypes, Sorted(topo, Vertices, Arcs), NEW a \in Arcs,
         \A b \in Arcs : Pos[b[2]] - Pos[b[1]] < Pos[a[2]] - Pos[a[1]] => Reaches(Reduced, b[1], b[2])
  PROVE  Reaches(Reduced, a[1], a[2])
  <1>1. CASE a \in Reduced
    BY <1>1, ReachesSelf, ReachesNext
  <1>2. CASE a \notin Reduced
    <2> DEFINE s == a[1]
               d == a[2]
    <2>1. PICK u \in Vertices \ {s} : Reaches(Arcs, s, u) /\ <<u, d>> \in Arcs
      BY <1>2 DEF Reduced, ExistAnotherPath
    <2>2. s \in Vertices /\ d \in Vertices /\ u \in Vertices
      BY <2>1, ArcEnds
    <2>3. Pos[s] \in Nat /\ Pos[d] \in Nat /\ Pos[u] \in Nat
      BY <2>2, PosFacts
    <2>4. Pos[s] < Pos[u] /\ Pos[u] < Pos[d]
      <3>1. Pos[s] <= Pos[u] /\ Pos[s] # Pos[u]
        BY <2>1, <2>2, PosFacts
      <3>2. Pos[u] < Pos[d]
        BY <2>1, PosFacts
      <3>3. QED
        BY <2>3, <3>1, <3>2
    <2>5. Reaches(Reduced, u, d)
      <3>1. Pos[d] - Pos[u] < Pos[d] - Pos[s]
        BY <2>3, <2>4
      <3>2. QED
        BY <2>1, <3>1
    <2> DEFINE T == {x \in Vertices : Reaches(Reduced, s, x) \/ Pos[u] < Pos[x]}
    <2>6. s \in T
      BY <2>2, ReachesSelf
    <2>7. ASSUME NEW b \in Arcs, b[1] \in T
          PROVE  b[2] \in T
      <3>1. b[1] \in Vertices /\ b[2] \in Vertices
        BY ArcEnds
      <3>2. Pos[b[1]] \in Nat /\ Pos[b[2]] \in Nat /\ Pos[b[1]] < Pos[b[2]]
        BY <3>1, PosFacts
      <3>3. CASE Pos[u] < Pos[b[1]] \/ Pos[u] < Pos[b[2]]
        BY <2>3, <3>1, <3>2, <3>3
      <3>4. CASE Reaches(Reduced, s, b[1]) /\ ~(Pos[u] < Pos[b[2]])
        <4>1. Reaches(Arcs, s, b[1])
          BY <3>4, ReachesMore DEF Reduced
        <4>2. Pos[s] <= Pos[b[1]]
          BY <2>2, <3>1, <4>1, PosFacts
        <4>3. Pos[b[2]] - Pos[b[1]] < Pos[d] - Pos[s]
          BY <2>3, <2>4, <3>2, <3>4, <4>2
        <4>4. Reaches(Reduced, b[1], b[2])
          BY <4>3
        <4>5. Reaches(Reduced, s, b[2])
          BY <3>4, <4>4, ReachesThrough
        <4>6. QED
          BY <3>1, <4>5
      <3>5. QED
        BY <2>7, <3>3, <3>4
    <2>8. u \in T
      BY <2>1, <2>6, <2>7 DEF Reaches
    <2>9. Reaches(Reduced, s, u)
      BY <2>3, <2>8
    <2>10. QED
      BY <2>5, <2>9, ReachesThrough
  <1>3. QED
    BY <1>1, <1>2

\* No edge is shortest among those the reduced graph does not replace: there are none.
LEMMA ReducedReaches ==
  ASSUME SearchTypes, Sorted(topo, Vertices, Arcs)
  PROVE  \A u, v \in Vertices : Reaches(Arcs, u, v) => Reaches(Reduced, u, v)
  <1> DEFINE Gap(a) == Pos[a[2]] - Pos[a[1]]
             Bad == {a \in Arcs : ~Reaches(Reduced, a[1], a[2])}
             T == {Gap(a) : a \in Bad}
  <1>1. \A a \in Arcs : Gap(a) \in Nat
    <2> SUFFICES ASSUME NEW a \in Arcs PROVE Gap(a) \in Nat
      OBVIOUS
    <2>1. Pos[a[1]] \in Nat /\ Pos[a[2]] \in Nat /\ Pos[a[1]] < Pos[a[2]]
      BY ArcEnds, PosFacts
    <2>2. QED
      BY <2>1
  <1>2. Bad = {}
    <2> SUFFICES ASSUME Bad # {} PROVE FALSE
      OBVIOUS
    <2>1. T \subseteq Nat /\ T # {}
      BY <1>1
    <2>2. PICK m \in T : \A k \in T : m <= k
      BY <2>1, Least
    <2>3. PICK a \in Bad : m = Gap(a)
      OBVIOUS
    <2>4. \A b \in Arcs : Gap(b) < Gap(a) => Reaches(Reduced, b[1], b[2])
      <3> SUFFICES ASSUME NEW b \in Arcs, Gap(b) < Gap(a), b \in Bad PROVE FALSE
        OBVIOUS
      <3>1. Gap(b) \in T /\ Gap(b) \in Nat /\ Gap(a) \in Nat
        BY <1>1
      <3>2. QED
        BY <2>2, <2>3, <3>1
    <2>5. Reaches(Reduced, a[1], a[2])
      BY <2>4, ShorterEdges
    <2>6. QED
      BY <2>5
  <1>3. \A a \in Arcs : Reaches(Reduced, a[1], a[2])
    BY <1>2
  <1>4. SUFFICES ASSUME NEW u \in Vertices, NEW v \in Vertices, Reaches(Arcs, u, v)
                 PROVE  Reaches(Reduced, u, v)
    OBVIOUS
  <1> DEFINE X == {x \in Vertices : Reaches(Reduced, u, x)}
  <1>5. u \in X
    BY ReachesSelf
  <1>6. \A a \in Arcs : a[1] \in X => a[2] \in X
    BY <1>3, ArcEnds, ReachesThrough
  <1>7. QED
    BY <1>4, <1>5, <1>6 DEF Reaches

\* No edge of the reduced graph follows from the others.
LEMMA ReducedMinimal ==
  ASSUME SearchTypes, Sorted(topo, Vertices, Arcs), NEW a \in Reduced
  PROVE  ~Reaches(Reduced \ {a}, a[1], a[2])
  <1> SUFFICES ASSUME Reaches(Reduced \ {a}, a[1], a[2]) PROVE FALSE
    OBVIOUS
  <1> DEFINE s == a[1]
             d == a[2]
             T == {x \in Vertices : Reaches(Arcs, s, x) /\ x # d}
  <1>1. a \in Arcs /\ s \in Vertices /\ d \in Vertices /\ ~ExistAnotherPath(s, d)
    BY ArcEnds DEF Reduced
  <1>2. Pos[s] < Pos[d] /\ Pos[s] \in Nat
    BY <1>1, PosFacts
  <1>3. s \in T
    BY <1>1, <1>2, ReachesSelf
  <1>4. ASSUME NEW b \in Reduced \ {a}, b[1] \in T
        PROVE  b[2] \in T
    <2>1. b \in Arcs /\ b[1] \in Vertices /\ b[2] \in Vertices /\ b = <<b[1], b[2]>>
          /\ a = <<s, d>>
      BY <1>1, ArcEnds DEF Reduced, Arcs
    <2>2. Reaches(Arcs, s, b[2])
      BY <1>4, <2>1, ReachesNext
    <2>3. CASE b[2] = d
      <3>1. b[1] # s
        BY <1>4, <2>1, <2>3
      <3>2. ExistAnotherPath(s, d)
        BY <1>4, <2>1, <2>3, <3>1 DEF ExistAnotherPath
      <3>3. QED
        BY <1>1, <3>2
    <2>4. QED
      BY <2>1, <2>2, <2>3
  <1>5. d \in T
    BY <1>3, <1>4 DEF Reaches
  <1>6. QED
    BY <1>5

\* The search has examined the k-th edge of x.
Behind(x, k) == color[x] = "black" \/ \E i \in DOMAIN stack : stack[i].vertex = x /\ k < stack[i].edge

\* A step of a search leaves at most the edge it examines behind it.
LEMMA BehindStep ==
  ASSUME GraphTypes, SearchTypes, phase \in Searches, Start \/ Examine \/ Finish,
         NEW x \in Vertices, NEW k \in 1..Len(out[x]), Behind(x, k)'
  PROVE  Behind(x, k) \/ (Examine /\ x = U /\ k = Top.edge)
  <1>1. k \in Nat \ {0} /\ Len(out[x]) \in Nat
    BY LenProperties DEF GraphTypes
  <1>2. color \in [Vertices -> {"white", "gray", "black"}]
    BY DEF SearchTypes
  <1>3. CASE Start
    <2>1. PICK v \in Vertices :
            /\ color[v] = "white" /\ color' = [color EXCEPT ![v] = "gray"]
            /\ stack' = <<[vertex |-> v, edge |-> 1]>>
      BY <1>3, StartStack
    <2>2. DOMAIN stack' = {1} /\ stack'[1].edge = 1
      BY <2>1
    <2>3. \A i \in DOMAIN stack' : ~(k < stack'[i].edge)
      BY <1>1, <2>2
    <2>4. color'[x] = "black" => color[x] = "black"
      BY <1>2, <2>1
    <2>5. QED
      BY <2>3, <2>4 DEF Behind
  <1>4. CASE Examine
    <2> DEFINE n == Len(stack)
    <2>1. /\ n \in Nat \ {0} /\ stack' \in Seq(Positions)
          /\ \A i \in 1..n - 1 : stack'[i] = stack[i]
          /\ stack'[n].vertex = U /\ stack'[n].edge = Top.edge + 1
          /\ color[V] = "white" =>
               Len(stack') = n + 1 /\ stack'[n + 1].edge = 1 /\ color' = [color EXCEPT ![V] = "gray"]
          /\ color[V] # "white" => Len(stack') = n /\ color' = color
      BY <1>4, ExamineStack
    <2>2. /\ stack # <<>> /\ DOMAIN stack = 1..n /\ Top = stack[n] /\ U = stack[n].vertex
          /\ Top.edge \in Nat \ {0} /\ V \in Vertices
      BY <1>4, AtV, AtTop DEF U
    <2>3. color'[x] = "black" => color[x] = "black"
      BY <1>2, <2>1, <2>2
    <2>4. CASE color'[x] = "black"
      BY <2>3, <2>4 DEF Behind
    <2>5. CASE color'[x] # "black"
      <3>1. PICK i \in DOMAIN stack' : stack'[i].vertex = x /\ k < stack'[i].edge
        BY <2>5 DEF Behind
      <3>2. n \in Nat \ {0} /\ (Len(stack') = n \/ (Len(stack') = n + 1 /\ stack'[n + 1].edge = 1))
        BY <2>1, Zenon
      <3>3. DOMAIN stack' = 1..Len(stack')
        <4>1. stack' \in Seq(Positions)
          BY <2>1
        <4>2. QED
          BY <4>1, LenProperties
      <3>4. n \in Nat \ {0} /\ i \in 1..Len(stack')
        BY <3>1, <3>2, <3>3
      <3>5. i \in 1..n - 1 \/ i = n
        <4>1. CASE Len(stack') = n
          <5>1. i \in 1..n
            BY <3>4, <4>1
          <5>2. QED
            BY <3>4, <5>1
        <4>2. CASE Len(stack') = n + 1 /\ stack'[n + 1].edge = 1
          <5>1. i \in 1..n + 1
            BY <3>4, <4>2
          <5>2. i # n + 1
            BY <1>1, <3>1, <4>2
          <5>3. QED
            BY <3>4, <5>1, <5>2
        <4>3. QED
          BY <3>2, <4>1, <4>2
      <3>6. CASE i \in 1..n - 1
        <4>1. stack'[i] = stack[i] /\ i \in DOMAIN stack
          BY <2>1, <2>2, <3>2, <3>6
        <4>2. QED
          BY <3>1, <4>1 DEF Behind
      <3>7. CASE i = n
        <4>1. x = U /\ k < Top.edge + 1
          BY <2>1, <3>1, <3>7
        <4>2. k < Top.edge \/ k = Top.edge
          BY <1>1, <2>2, <4>1
        <4>3. n \in DOMAIN stack
          BY <2>2, <3>2
        <4>4. QED
          BY <1>4, <2>2, <4>1, <4>2, <4>3 DEF Behind
      <3>8. QED
        BY <3>5, <3>6, <3>7
    <2>6. QED
      BY <2>4, <2>5
  <1>5. CASE Finish
    <2> DEFINE n == Len(stack)
    <2>1. /\ n \in Nat \ {0} /\ stack # <<>> /\ U \in Vertices
          /\ stack' \in Seq(Positions) /\ Len(stack') = n - 1
          /\ \A i \in 1..n - 1 : stack'[i] = stack[i]
          /\ Top.edge = Len(out[U]) + 1
      BY <1>5, FinishStack
    <2>2. color' = [color EXCEPT ![U] = "black"]
      BY <1>5, FinishStack
    <2>3. DOMAIN stack = 1..n /\ Top = stack[n] /\ U = stack[n].vertex
      BY <2>1, AtTop DEF U
    <2>4. CASE x = U
      <3>1. k < Top.edge /\ n \in DOMAIN stack
        BY <1>1, <2>1, <2>3, <2>4
      <3>2. QED
        BY <2>3, <2>4, <3>1 DEF Behind
    <2>5. CASE x # U
      <3>1. color'[x] = color[x]
        BY <1>2, <2>2, <2>5
      <3>2. DOMAIN stack' = 1..n - 1
        BY <2>1, LenProperties
      <3>3. \A i \in DOMAIN stack' : i \in DOMAIN stack /\ stack'[i] = stack[i]
        BY <2>1, <2>3, <3>2
      <3>4. QED
        BY <3>1, <3>3 DEF Behind
    <2>6. QED
      BY <2>4, <2>5
  <1>6. QED
    BY <1>3, <1>4, <1>5

\* A step of a search keeps behind it what it has examined, the edge at hand included.
LEMMA BehindStays ==
  ASSUME GraphTypes, SearchTypes, phase \in Searches, Start \/ Examine \/ Finish,
         NEW x \in Vertices, NEW k \in 1..Len(out[x]),
         Behind(x, k) \/ (Examine /\ x = U /\ k = Top.edge)
  PROVE  Behind(x, k)'
  <1>1. k \in Nat \ {0} /\ Len(out[x]) \in Nat
    BY LenProperties DEF GraphTypes
  <1>2. color \in [Vertices -> {"white", "gray", "black"}]
    BY DEF SearchTypes
  <1>3. ~(Examine /\ (Start \/ Finish))
    <2>1. stack # <<>> => Len(stack) \in Nat
      BY AtTop
    <2>2. QED
      BY DEF Start, Finish, Examine, AtEdge
  <1>4. CASE Start
    <2>1. PICK v \in Vertices :
            /\ color[v] = "white" /\ stack = <<>> /\ color' = [color EXCEPT ![v] = "gray"]
      BY <1>4, StartStack
    <2>2. color[x] = "black"
      BY <1>3, <1>4, <2>1, EmptySeq DEF Behind
    <2>3. color'[x] = "black"
      BY <1>2, <2>1, <2>2
    <2>4. QED
      BY <2>3 DEF Behind
  <1>5. CASE Examine
    <2> DEFINE n == Len(stack)
    <2>1. /\ n \in Nat \ {0} /\ stack' \in Seq(Positions)
          /\ \A i \in 1..n - 1 : stack'[i] = stack[i]
          /\ stack'[n].vertex = U /\ stack'[n].edge = Top.edge + 1
          /\ color[V] = "white" => Len(stack') = n + 1 /\ color' = [color EXCEPT ![V] = "gray"]
          /\ color[V] # "white" => Len(stack') = n /\ color' = color
      BY <1>5, ExamineStack
    <2>2. /\ DOMAIN stack = 1..n /\ Top = stack[n] /\ U = stack[n].vertex
          /\ Top.edge \in Nat \ {0} /\ V \in Vertices
      BY <1>5, AtV, AtTop DEF U
    <2>3. color[x] = "black" => color'[x] = "black"
      BY <1>2, <2>1, <2>2
    <2>4. \A i \in 1..n : i \in DOMAIN stack'
      <3>1. DOMAIN stack' = 1..Len(stack')
        <4>1. stack' \in Seq(Positions)
          BY <2>1
        <4>2. QED
          BY <4>1, LenProperties
      <3>2. n \in Nat /\ (Len(stack') = n \/ Len(stack') = n + 1)
        BY <2>1, Zenon
      <3>3. CASE Len(stack') = n
        BY <3>1, <3>3
      <3>4. CASE Len(stack') = n + 1
        <4>1. \A i \in 1..n : i \in 1..n + 1
          BY <3>2
        <4>2. QED
          BY <3>1, <3>4, <4>1
      <3>5. QED
        BY <3>2, <3>3, <3>4
    <2>5. CASE color[x] = "black"
      BY <2>3, <2>5 DEF Behind
    <2>6. CASE x = U /\ k = Top.edge
      <3>1. n \in DOMAIN stack' /\ stack'[n].vertex = x /\ k < stack'[n].edge
        BY <2>1, <2>2, <2>4, <2>6
      <3>2. QED
        BY <3>1 DEF Behind
    <2>7. CASE \E i \in DOMAIN stack : stack[i].vertex = x /\ k < stack[i].edge
      <3>1. PICK i \in 1..n : stack[i].vertex = x /\ k < stack[i].edge
        BY <2>2, <2>7
      <3>2. CASE i = n
        <4>1. stack'[n].vertex = x /\ k < stack'[n].edge /\ n \in DOMAIN stack'
          BY <1>1, <2>1, <2>2, <2>4, <3>1, <3>2
        <4>2. QED
          BY <4>1 DEF Behind
      <3>3. CASE i # n
        <4>1. stack'[i] = stack[i] /\ i \in DOMAIN stack'
          BY <2>1, <2>4, <3>3
        <4>2. QED
          BY <3>1, <4>1 DEF Behind
      <3>4. QED
        BY <3>2, <3>3
    <2>8. QED
      BY <2>5, <2>6, <2>7 DEF Behind
  <1>6. CASE Finish
    <2> DEFINE n == Len(stack)
    <2>1. /\ n \in Nat \ {0} /\ stack # <<>> /\ U \in Vertices
          /\ stack' \in Seq(Positions) /\ Len(stack') = n - 1
          /\ \A i \in 1..n - 1 : stack'[i] = stack[i]
          /\ color' = [color EXCEPT ![U] = "black"]
      BY <1>6, FinishStack
    <2>2. DOMAIN stack = 1..n /\ U = stack[n].vertex
      BY <2>1, AtTop DEF U
    <2>3. CASE x = U
      <3>1. color'[x] = "black"
        BY <1>2, <2>1, <2>3
      <3>2. QED
        BY <3>1 DEF Behind
    <2>4. CASE x # U
      <3>1. color'[x] = color[x]
        BY <1>2, <2>1, <2>4
      <3>2. DOMAIN stack' = 1..n - 1
        BY <2>1, LenProperties
      <3>3. \A i \in DOMAIN stack : stack[i].vertex = x => i \in DOMAIN stack' /\ stack'[i] = stack[i]
        BY <2>1, <2>2, <2>4, <3>2
      <3>4. Behind(x, k)
        BY <1>3, <1>6
      <3>5. QED
        BY <3>1, <3>3, <3>4 DEF Behind
    <2>5. QED
      BY <2>3, <2>4
  <1>7. QED
    BY <1>4, <1>5, <1>6

\* The edge that is examined has not been examined before.
LEMMA NotYetBehind ==
  ASSUME GraphTypes, SearchTypes, StackPath, Examine
  PROVE  ~Behind(U, Top.edge)
  <1>1. /\ DOMAIN stack = 1..Len(stack) /\ Len(stack) \in Nat \ {0} /\ Top = stack[Len(stack)]
        /\ U = stack[Len(stack)].vertex /\ U \in Vertices /\ Top.edge \in Nat \ {0}
    BY AtV, AtTop DEF U
  <1>2. Len(stack) \in DOMAIN stack
    BY <1>1
  <1>3. color[U] = "gray"
    BY <1>1, <1>2 DEF StackPath
  <1>4. \A i \in DOMAIN stack : stack[i].vertex = U => i = Len(stack)
    BY <1>1, <1>2 DEF StackPath
  <1>5. \A i \in DOMAIN stack : stack[i].vertex = U => ~(Top.edge < stack[i].edge)
    BY <1>1, <1>4
  <1>6. QED
    BY <1>3, <1>5 DEF Behind

LEMMA BehindAtFirst ==
  ASSUME color' = White, Vertices' = Vertices, stack' = <<>>, NEW x \in Vertices, NEW k
  PROVE  ~Behind(x, k)'
  <1>1. color'[x] # "black"
    BY DEF White
  <1>2. \A i \in DOMAIN stack' : FALSE
    BY EmptySeq
  <1>3. QED
    BY <1>1, <1>2 DEF Behind

\* The edges of the vertices' lists are the edges of the graph.
LEMMA ArcAt ==
  \A a \in Arcs : \E k \in 1..Len(out[a[1]]) : a = <<a[1], out[a[1]][k]>> /\ a[1] \in Vertices
  BY DEF Arcs, Contains

LEMMA AnotherPathStays ==
  ASSUME Later \/ UNCHANGED vars
  PROVE  \A x, y : ExistAnotherPath(x, y)' <=> ExistAnotherPath(x, y)
  <1>1. Vertices' = Vertices /\ Arcs' = Arcs
        /\ \A arcs, u, v : Reaches(arcs, u, v)' <=> Reaches(arcs, u, v)
    BY GraphStays
  <1>2. QED
    BY <1>1 DEF ExistAnotherPath

Shown(a) == sg_outputFullGraph \/ a \notin redundant

\* The edges that the search has examined are marked and printed as they must be.
PrintInv ==
  /\ \A a \in redundant : ExistAnotherPath(a[1], a[2])
  /\ \A i, j \in DOMAIN printed : printed[i] = printed[j] => i = j
  /\ phase \notin {"print", "printed"} => printed = <<>>
  /\ phase = "markRedundant" =>
       /\ ~sg_outputFullGraph
       /\ \A x \in Vertices : \A k \in 1..Len(out[x]) :
            Behind(x, k) /\ ExistAnotherPath(x, out[x][k]) => <<x, out[x][k]>> \in redundant
  /\ phase \in {"print", "printed"} /\ ~sg_outputFullGraph =>
       \A a \in Arcs : ExistAnotherPath(a[1], a[2]) => a \in redundant
  /\ phase = "print" =>
       \A x \in Vertices : \A k \in 1..Len(out[x]) :
         <<x, k>> \in ToSet(printed) <=> Behind(x, k) /\ Shown(<<x, out[x][k]>>)
  /\ phase = "printed" =>
       \A x \in Vertices : \A k \in 1..Len(out[x]) :
         <<x, k>> \in ToSet(printed) <=> Shown(<<x, out[x][k]>>)

\* A new edge behind a sequence leaves it without duplicates.
LEMMA AppendNew ==
  ASSUME NEW S, NEW s \in Seq(S), NEW e \in S, e \notin ToSet(s),
         \A i, j \in DOMAIN s : s[i] = s[j] => i = j
  PROVE  LET t == Append(s, e) IN \A i, j \in DOMAIN t : t[i] = t[j] => i = j
  <1> DEFINE t == Append(s, e)
  <1>1. /\ t \in Seq(S) /\ Len(t) = Len(s) + 1 /\ Len(s) \in Nat
        /\ \A i \in 1..Len(s) : t[i] = s[i]
        /\ t[Len(s) + 1] = e
    BY AppendProperties, LenProperties
  <1>2. DOMAIN t = 1..Len(s) + 1 /\ DOMAIN s = 1..Len(s)
    <2>1. DOMAIN t = 1..Len(t)
      BY <1>1, LenProperties
    <2>2. QED
      BY <1>1, <2>1, LenProperties
  <1>3. \A i \in DOMAIN s : s[i] # e
    BY DEF ToSet
  <1> HIDE DEF t
  <1>4. \A i \in DOMAIN t : (i \in DOMAIN s /\ t[i] = s[i]) \/ (i = Len(s) + 1 /\ t[i] = e)
    BY <1>1, <1>2
  <1>5. \A i, j \in DOMAIN t : t[i] = t[j] => i = j
    BY <1>3, <1>4
  <1>6. QED
    BY <1>5 DEF t

LEMMA PrintSearch ==
  ASSUME SearchesInv, PrintInv, Start \/ Examine \/ Finish
  PROVE  PrintInv'
  <1>1. /\ Vertices' = Vertices /\ Arcs' = Arcs /\ out' = out
        /\ \A x, y : ExistAnotherPath(x, y)' <=> ExistAnotherPath(x, y)
    BY GraphStays, AnotherPathStays DEF Later, SearchStep
  <1>2. /\ phase \in Searches /\ GraphTypes /\ SearchTypes /\ sg_outputFullGraph' = sg_outputFullGraph
    BY DEF Start, Examine, Finish, printing, SearchesInv, Basics
  <1>3. CASE Start \/ Finish
    <2>1. phase' = phase /\ redundant' = redundant /\ printed' = printed
      BY <1>3 DEF Start, Finish, printing
    <2>2. ~Examine
      <3>1. stack # <<>> => Len(stack) \in Nat
        BY <1>2, AtTop
      <3>2. QED
        BY <1>3 DEF Start, Finish, Examine, AtEdge
    <2>3. \A x \in Vertices : \A k \in 1..Len(out[x]) : Behind(x, k)' <=> Behind(x, k)
      BY <1>2, <1>3, <2>2, BehindStep, BehindStays
    <2>4. QED
      BY <1>1, <1>2, <2>1, <2>3 DEF PrintInv, Shown
  <1>4. CASE Examine
    <2>1. U \in Vertices /\ V = out[U][Top.edge] /\ Top.edge \in 1..Len(out[U])
      BY <1>2, <1>4, AtV DEF V
    <2>2. \A x \in Vertices : \A k \in 1..Len(out[x]) :
            Behind(x, k)' <=> Behind(x, k) \/ (x = U /\ k = Top.edge)
      BY <1>2, <1>4, BehindStep, BehindStays
    <2>3. phase \in {"checkCircle", "topoOrder"} =>
            /\ phase' \in {phase, "failed"} /\ printed' = printed /\ redundant' = redundant
      BY <1>4, ExamineResults
    <2>4. phase \in {"markRedundant", "print"} => phase' = phase
      BY <1>4, ExamineResults
    <2>5. CASE phase \in {"checkCircle", "topoOrder"}
      BY <1>1, <1>2, <2>3, <2>5 DEF PrintInv, Shown
    <2>6. CASE phase = "markRedundant"
      <3>1. /\ printed' = printed /\ printed = <<>> /\ phase' = phase /\ ~sg_outputFullGraph
            /\ redundant' = IF ExistAnotherPath(U, V) THEN redundant \cup {<<U, V>>} ELSE redundant
        BY <1>4, <2>4, <2>6, ExamineResults DEF PrintInv
      <3>2. \A x \in Vertices : \A k \in 1..Len(out[x]) :
              Behind(x, k)' /\ ExistAnotherPath(x, out[x][k]) => <<x, out[x][k]>> \in redundant'
        BY <2>1, <2>2, <2>6, <3>1 DEF PrintInv
      <3>3. \A a \in redundant' : ExistAnotherPath(a[1], a[2])
        BY <3>1 DEF PrintInv
      <3>4. QED
        BY <1>1, <1>2, <2>6, <3>1, <3>2, <3>3 DEF PrintInv, Shown
    <2>7. CASE phase = "print"
      <3> DEFINE e == <<U, Top.edge>>
      <3>1. /\ redundant' = redundant /\ phase' = phase
            /\ printed' = IF Shown(<<U, V>>) THEN Append(printed, e) ELSE printed
        BY <1>4, <2>4, <2>7, ExamineResults DEF Shown
      <3>2. \A a : Shown(a)' <=> Shown(a)
        BY <1>2, <3>1 DEF Shown
      <3>3. e \in OutEdges /\ printed \in Seq(OutEdges)
        <4>1. DOMAIN out[U] = 1..Len(out[U])
          BY <1>2, <2>1, LenProperties DEF GraphTypes
        <4>2. QED
          BY <1>2, <2>1, <4>1 DEF OutEdges, SearchTypes
      <3>4. e \notin ToSet(printed)
        <4>1. ~Behind(U, Top.edge)
          BY <1>2, <1>4, NotYetBehind DEF SearchesInv, StackInv
        <4>2. QED
          BY <2>1, <2>7, <4>1 DEF PrintInv
      <3>5. \A i, j \in DOMAIN printed' : printed'[i] = printed'[j] => i = j
        <4>1. \A i, j \in DOMAIN printed : printed[i] = printed[j] => i = j
          BY DEF PrintInv
        <4>2. CASE Shown(<<U, V>>)
          BY <3>1, <3>3, <3>4, <4>1, <4>2, AppendNew
        <4>3. CASE ~Shown(<<U, V>>)
          BY <3>1, <4>1, <4>3
        <4>4. QED
          BY <4>2, <4>3
      <3>6. ToSet(printed') = IF Shown(<<U, V>>) THEN ToSet(printed) \cup {e} ELSE ToSet(printed)
        <4>1. ToSet(Append(printed, e)) = ToSet(printed) \cup {e}
          BY <3>3, AppendSet
        <4>2. CASE Shown(<<U, V>>)
          BY <3>1, <4>1, <4>2
        <4>3. CASE ~Shown(<<U, V>>)
          BY <3>1, <4>3
        <4>4. QED
          BY <4>2, <4>3
      <3>7. \A x \in Vertices : \A k \in 1..Len(out[x]) :
              <<x, k>> \in ToSet(printed') <=> Behind(x, k)' /\ Shown(<<x, out[x][k]>>)
        <4> SUFFICES ASSUME NEW x \in Vertices, NEW k \in 1..Len(out[x])
                     PROVE  <<x, k>> \in ToSet(printed') <=> Behind(x, k)' /\ Shown(<<x, out[x][k]>>)
          OBVIOUS
        <4>1. <<x, k>> \in ToSet(printed) <=> Behind(x, k) /\ Shown(<<x, out[x][k]>>)
          BY <2>7 DEF PrintInv
        <4>2. <<x, k>> = e <=> x = U /\ k = Top.edge
          OBVIOUS
        <4>3. Behind(x, k)' <=> Behind(x, k) \/ (x = U /\ k = Top.edge)
          BY <2>2
        <4> HIDE DEF e
        <4>4. CASE x = U /\ k = Top.edge
          <5>1. out[x][k] = V
            BY <2>1, <4>4
          <5>2. QED
            BY <3>4, <3>6, <4>2, <4>3, <4>4, <5>1
        <4>5. CASE ~(x = U /\ k = Top.edge)
          BY <3>6, <4>1, <4>2, <4>3, <4>5
        <4>6. QED
          BY <4>4, <4>5
      <3>8. QED
        BY <1>1, <1>2, <2>7, <3>1, <3>2, <3>5, <3>7 DEF PrintInv, Shown
    <2>8. QED
      BY <1>2, <2>5, <2>6, <2>7 DEF Searches
  <1>5. QED
    BY <1>3, <1>4

\* A search that is over has examined every edge.
LEMMA AllBehind ==
  ASSUME SearchesInv, phase \in Searches, SearchOver
  PROVE  \A x \in Vertices : \A k : Behind(x, k)
  BY AllBlack DEF SearchesInv, Basics, StackInv, Black, Behind

LEMMA PrintOther ==
  ASSUME SearchesInv, PrintInv, Later \/ UNCHANGED vars, ~Start, ~Examine, ~Finish
  PROVE  PrintInv'
  <1>1. /\ Vertices' = Vertices /\ Arcs' = Arcs /\ out' = out
        /\ \A x, y : ExistAnotherPath(x, y)' <=> ExistAnotherPath(x, y)
    BY GraphStays, AnotherPathStays
  <1>2. stack' = stack /\ redundant' = redundant /\ printed' = printed
    BY OtherSteps
  <1>3. CASE PrintGraph
    <2>1. /\ phase = "ready" /\ color' = White /\ stack = <<>> /\ printed = <<>>
          /\ \/ phase' = "print" /\ sg_outputFullGraph'
             \/ phase' = "markRedundant" /\ ~sg_outputFullGraph'
      BY <1>3 DEF PrintGraph, Enter, SearchesInv, StackInv, Searches, PrintInv
    <2>2. \A x \in Vertices : \A k : ~Behind(x, k)'
      BY <1>1, <1>2, <2>1, BehindAtFirst
    <2>3. \A e : e \notin ToSet(printed)
      BY <2>1, EmptySeq DEF ToSet
    <2>4. QED
      BY <1>1, <1>2, <2>1, <2>2, <2>3 DEF PrintInv, Shown
  <1>4. CASE MarkRedundantDone
    <2>1. /\ phase = "markRedundant" /\ phase' = "print" /\ SearchOver /\ color' = White
          /\ stack = <<>> /\ sg_outputFullGraph' = sg_outputFullGraph
      BY <1>4 DEF MarkRedundantDone, Enter, SearchOver, printing
    <2>2. \A x \in Vertices : \A k : ~Behind(x, k)'
      BY <1>1, <1>2, <2>1, BehindAtFirst
    <2>3. \A a \in Arcs : ExistAnotherPath(a[1], a[2]) => a \in redundant
      <3> SUFFICES ASSUME NEW a \in Arcs, ExistAnotherPath(a[1], a[2]) PROVE a \in redundant
        OBVIOUS
      <3>1. PICK k \in 1..Len(out[a[1]]) : a = <<a[1], out[a[1]][k]>> /\ a[1] \in Vertices
        BY ArcAt
      <3>2. Behind(a[1], k) /\ out[a[1]][k] = a[2]
        BY <2>1, <3>1, AllBehind DEF Searches
      <3>3. QED
        BY <2>1, <3>1, <3>2 DEF PrintInv
    <2>4. \A e : e \notin ToSet(printed)
      BY <2>1, EmptySeq DEF ToSet, PrintInv
    <2>5. QED
      BY <1>1, <1>2, <2>1, <2>2, <2>3, <2>4 DEF PrintInv, Shown
  <1>5. CASE PrintDone
    <2>1. /\ phase = "print" /\ phase' = "printed" /\ SearchOver
          /\ sg_outputFullGraph' = sg_outputFullGraph
      BY <1>5 DEF PrintDone, Enter, printing
    <2>2. \A x \in Vertices : \A k \in 1..Len(out[x]) :
            <<x, k>> \in ToSet(printed) <=> Shown(<<x, out[x][k]>>)
      BY <2>1, AllBehind DEF PrintInv, Searches
    <2>3. QED
      BY <1>1, <1>2, <2>1, <2>2 DEF PrintInv, Shown
  <1>6. CASE ~PrintGraph /\ ~MarkRedundantDone /\ ~PrintDone
    <2>1. /\ sg_outputFullGraph' = sg_outputFullGraph
          /\ \/ phase' = phase /\ (color' = color \/ phase \notin Searches)
             \/ phase \notin {"markRedundant", "print", "printed"}
                /\ phase' \notin {"markRedundant", "print", "printed"}
      BY <1>6 DEF Later, SearchStep, CheckCircleDone, TopoOrderDone, SelectStrategies, MarkStep,
         SkipSeparator, MarkNeedRun, MarkReturn, MarkDone, RunStep, ResetStrategy, AllReset,
         RunStrategy, AllRun, Enter, Fail, AtName, search, printing, vars, Searches
    <2>2. QED
      BY <1>1, <1>2, <2>1 DEF PrintInv, Shown, Behind, Searches
  <1>7. QED
    BY <1>3, <1>4, <1>5, <1>6

LEMMA PrintInvStep ==
  ASSUME SearchesInv, PrintInv, [Next]_vars
  PROVE  PrintInv'
  <1>1. CASE AddVertex \/ VerticesDone \/ AddEdge \/ DependsDone \/ EdgesDone
    <2>1. /\ redundant' = {} /\ printed' = <<>>
          /\ phase' \notin {"markRedundant", "print", "printed"}
      BY <1>1 DEF AddVertex, VerticesDone, AddEdge, DependsDone, EdgesDone, SearchesInv, Basics,
         Early, Building, search, printing, Enter, Fail
    <2>2. QED
      BY <2>1, EmptySeq DEF PrintInv
  <1>2. QED
    BY <1>1, PrintSearch, PrintOther, NextSteps

\* The pairs of the edges that were printed are those that are shown.
LEMMA PrintedPairs ==
  ASSUME SearchesInv, PrintInv, phase = "printed"
  PROVE  LET pairs == {Ends(e) : e \in ToSet(printed)} IN
         /\ pairs = {a \in Arcs : Shown(a)}
         /\ ToSet(printed) = {e \in OutEdges : Ends(e) \in pairs}
  <1> DEFINE pairs == {Ends(e) : e \in ToSet(printed)}
  <1>1. GraphTypes /\ SearchTypes
    BY DEF SearchesInv, Basics
  <1>2. ToSet(printed) \subseteq OutEdges
    BY <1>1, ElementOfSeq DEF ToSet, SearchTypes
  <1>3. \A v \in Vertices : DOMAIN out[v] = 1..Len(out[v]) /\ out[v] \in Seq(Vertices)
    BY <1>1, LenProperties DEF GraphTypes
  <1>4. \A e \in OutEdges : e = <<e[1], e[2]>> /\ e[1] \in Vertices /\ e[2] \in 1..Len(out[e[1]])
    BY <1>3 DEF OutEdges
  <1>5. \A e \in OutEdges : e \in ToSet(printed) <=> Shown(Ends(e))
    <2> SUFFICES ASSUME NEW e \in OutEdges PROVE e \in ToSet(printed) <=> Shown(Ends(e))
      OBVIOUS
    <2>1. <<e[1], e[2]>> \in ToSet(printed) <=> Shown(<<e[1], out[e[1]][e[2]]>>)
      BY <1>4 DEF PrintInv
    <2>2. QED
      BY <1>4, <2>1 DEF Ends
  <1>6. \A e \in OutEdges : Ends(e) \in Arcs
    <2> SUFFICES ASSUME NEW e \in OutEdges PROVE Ends(e) \in Arcs
      OBVIOUS
    <2>1. e[1] \in Vertices /\ e[2] \in DOMAIN out[e[1]] /\ out[e[1]][e[2]] \in Vertices
      BY <1>3, <1>4, ElementOfSeq
    <2>2. QED
      BY <2>1 DEF Ends, Arcs, Contains
  <1>7. \A a \in Arcs : \E e \in OutEdges : Ends(e) = a
    <2> SUFFICES ASSUME NEW a \in Arcs PROVE \E e \in OutEdges : Ends(e) = a
      OBVIOUS
    <2>1. PICK k \in 1..Len(out[a[1]]) : a = <<a[1], out[a[1]][k]>> /\ a[1] \in Vertices
      BY ArcAt
    <2>2. <<a[1], k>> \in OutEdges
      BY <1>3, <2>1 DEF OutEdges
    <2>3. Ends(<<a[1], k>>) = a
      BY <2>1 DEF Ends
    <2>4. QED
      BY <2>2, <2>3
  <1>8. pairs = {a \in Arcs : Shown(a)}
    <2>1. ASSUME NEW e \in ToSet(printed) PROVE Ends(e) \in {a \in Arcs : Shown(a)}
      BY <1>2, <1>5, <1>6
    <2>2. ASSUME NEW a \in Arcs, Shown(a) PROVE a \in pairs
      <3>1. PICK e \in OutEdges : Ends(e) = a
        BY <1>7
      <3>2. QED
        BY <1>5, <2>2, <3>1
    <2>3. QED
      BY <2>1, <2>2
  <1>9. ToSet(printed) = {e \in OutEdges : Ends(e) \in pairs}
    <2> HIDE DEF pairs
    <2>1. \A e \in OutEdges : Ends(e) \in pairs <=> Shown(Ends(e))
      BY <1>6, <1>8
    <2>2. QED
      BY <1>2, <1>5, <2>1
  <1>10. QED
    BY <1>8, <1>9

\* PrintedEdgesReduced: static-topo prints no edge twice, prints parallel edges all or none, and
\* the pairs it prints connect the same strategies as the graph and are minimal, or are the whole
\* graph with -f, for any lists of strategies (StrategyManager.cpp:436-482, StaticTopo.cpp:36-109).
THEOREM PrintedRight == Spec => []PrintedEdgesReduced
  <1>1. Init => SearchesInv /\ PrintInv
    <2> SUFFICES ASSUME Init PROVE PrintInv
      BY SearchesInvInit
    <2>1. redundant = {} /\ printed = <<>> /\ phase = "vertices"
      BY DEF Init
    <2>2. QED
      BY <2>1, EmptySeq DEF PrintInv
  <1>2. SearchesInv /\ PrintInv /\ [Next]_vars => (SearchesInv /\ PrintInv)'
    BY SearchesInvStep, PrintInvStep
  <1>3. SearchesInv /\ PrintInv => PrintedEdgesReduced
    <2> SUFFICES ASSUME SearchesInv, PrintInv, phase = "printed"
                 PROVE  PrintedEdgesReduced
      BY DEF PrintedEdgesReduced
    <2> DEFINE pairs == {Ends(e) : e \in ToSet(printed)}
    <2>1. SearchTypes /\ Sorted(topo, Vertices, Arcs)
      BY DEF SearchesInv, Basics, OrderInv, AfterSort
    <2>2. pairs = {a \in Arcs : Shown(a)} /\ ToSet(printed) = {e \in OutEdges : Ends(e) \in pairs}
      BY PrintedPairs
    <2>3. \A i, j \in DOMAIN printed : printed[i] = printed[j] => i = j
      BY DEF PrintInv
    <2> HIDE DEF pairs
    <2>4. CASE sg_outputFullGraph
      <3>1. pairs = Arcs
        BY <2>2, <2>4 DEF Shown
      <3>2. QED
        BY <2>2, <2>3, <2>4, <3>1 DEF PrintedEdgesReduced, pairs
    <2>5. CASE ~sg_outputFullGraph
      <3>1. \A a \in Arcs : a \in redundant <=> ExistAnotherPath(a[1], a[2])
        BY <2>5 DEF PrintInv
      <3>2. pairs = Reduced
        BY <2>2, <2>5, <3>1 DEF Reduced, Shown
      <3>3. \A u, v \in Vertices : Reaches(Arcs, u, v) <=> Reaches(Reduced, u, v)
        BY <2>1, ReducedReaches, ReachesMore DEF Reduced
      <3>4. /\ \A u, v \in Vertices : Reaches(Arcs, u, v) <=> Reaches(pairs, u, v)
            /\ \A a \in pairs : ~Reaches(pairs \ {a}, a[1], a[2])
        BY <2>1, <3>2, <3>3, ReducedMinimal
      <3>5. QED
        BY <2>2, <2>3, <2>5, <3>4, Zenon DEF PrintedEdgesReduced, pairs
    <2>6. QED
      BY <2>4, <2>5
  <1>4. QED
    BY <1>1, <1>2, <1>3, PTL DEF Spec

=============================================================================
