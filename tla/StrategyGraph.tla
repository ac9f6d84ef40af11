---------------------------- MODULE StrategyGraph ----------------------------
(***************************************************************************)
(* The dependency graph of a manager's strategies                          *)
(* (service/web-frame/interface/StrategyManager.cpp): how init() builds it, *)
(* refuses a cycle and sorts it, and what is done with it afterwards:      *)
(* execAllResetAndRun() resets and runs the strategies a request needs     *)
(* (markNeedRunByDepends) or all of them, and static-topo prints the edges *)
(* (markRedundantEdge, tools/StaticTopo.cpp).                              *)
(*                                                                         *)
(* boost::depth_first_search is external: one step here is one event of    *)
(* its visitor.  A vertex is the name of the strategy it stands for.  The  *)
(* list a request asks for is what getRunStrategies() returns: a stub that *)
(* returns NULL, for all, in this repository.                              *)
(***************************************************************************)
EXTENDS Naturals, Sequences, SequencesExt

CONSTANTS
  NoName,    \* the empty string
  Inputs,    \* the lists of strategies addAllStrategy() may produce
  NULL,      \* no list
  LongName,  \* a name that does not fit into strategyName[256]
  Requests   \* what getRunStrategies() may return: NULL, or names and separators

IsSeq(s) == s \in Seq({s[i] : i \in DOMAIN s})

\* A strategy has the name it returns and the list of names it depends on.
ASSUME InputsAssumption ==
  \A list \in Inputs :
    IsSeq(list) /\ \A i \in DOMAIN list : {"name", "depends"} = DOMAIN list[i] /\ IsSeq(list[i].depends)

ASSUME RequestsAssumption == \A r \in Requests : r = NULL \/ IsSeq(r)

VARIABLES
  strategies,  \* m_strategies
  phase,       \* the function the manager is in, or its outcome
  idx,         \* how far the loop of that function is
  nth,         \* which of its strategy's dependencies the inner loop is at
  error,       \* why init() returned false
  order,       \* the vertices of m_stgGraph in the order they were added
  out,         \* the out-edge list of every vertex
  m_nameStrategyMap, \* where the strategy of a name is in m_strategies
  color,       \* the colour map of the search
  stack,       \* the vertices the search is in, each with its next edge
  circleEdges, \* circleEdges of init()
  topo,        \* m_topoStrategies
  redundant,   \* the pairs whose first edge has edge_redundant set
  sg_outputFullGraph, \* -f
  printed,     \* the edges static-topo printed a line for, in that order
  request,     \* the list a request selects by, or NULL
  calls,       \* the loops over names of the active calls, outermost first
  needRun,     \* the strategies with m_needRun set
  ran          \* the strategies whose run() was called for the request

graph == <<order, out, m_nameStrategyMap>>
build == <<strategies, nth, error, graph>>
search == <<color, stack, circleEdges, topo, redundant>>
marking == <<request, calls, needRun, ran>>
printing == <<sg_outputFullGraph, printed>>
vars == <<build, search, marking, printing, phase, idx>>

Searches == {"checkCircle", "topoOrder", "markRedundant", "print"}
Phases == {"vertices", "edges", "ready", "failed", "printed", "mark", "reset", "run",
           "true", "false"} \cup Searches

Vertices == ToSet(order)
Arcs == {a \in Vertices \X Vertices : Contains(out[a[1]], a[2])}

\* An edge is a vertex and a place in its out-edge list; parallel edges have the same ends.
OutEdges == UNION {{v} \X DOMAIN out[v] : v \in Vertices}
Ends(e) == <<e[1], out[e[1]][e[2]]>>

\* Every dependency as <<depend, dependent>>.
Depends ==
  UNION {{<<d, strategies[i].name>> : d \in ToSet(strategies[i].depends)} : i \in DOMAIN strategies}

\* v is u or a path leads from u to v.
Reaches(arcs, u, v) ==
  \A T \in SUBSET Vertices :
    u \in T /\ (\A a \in arcs : a[1] \in T => a[2] \in T) => v \in T

Enter(p) == phase' = p /\ idx' = 1

Fail(why) == Enter("failed") /\ error' = why

Init ==
  /\ strategies \in Inputs
  /\ phase = "vertices"
  /\ idx = 1
  /\ nth = 1
  /\ error = "none"
  /\ order = <<>>
  /\ out = <<>>
  /\ m_nameStrategyMap = <<>>
  /\ color = <<>>
  /\ stack = <<>>
  /\ circleEdges = {}
  /\ topo = <<>>
  /\ redundant = {}
  /\ sg_outputFullGraph = FALSE
  /\ printed = <<>>
  /\ request = <<>>
  /\ calls = <<>>
  /\ ran = <<>>
  /\ needRun = {strategies[i].name : i \in DOMAIN strategies}

-----------------------------------------------------------------------------
(* buildStrategyGraph()                                                      *)

\* Names that are already known are skipped: the first strategy of a name wins.
AddVertex ==
  /\ phase = "vertices"
  /\ idx <= Len(strategies)
  /\ LET n == strategies[idx].name
         Named(f, x) == [v \in Vertices \cup {n} |-> IF v = n THEN x ELSE f[v]] IN
       IF n = NoName
         THEN Fail("noName") /\ UNCHANGED graph
         ELSE /\ idx' = idx + 1
              /\ IF n \in Vertices
                   THEN UNCHANGED graph
                   ELSE /\ order' = Append(order, n)
                        /\ out' = Named(out, <<>>)
                        /\ m_nameStrategyMap' = Named(m_nameStrategyMap, idx)
              /\ UNCHANGED <<phase, error>>
  /\ UNCHANGED <<strategies, nth, search, marking, printing>>

VerticesDone ==
  /\ phase = "vertices"
  /\ idx > Len(strategies)
  /\ Enter("edges")
  /\ UNCHANGED <<build, search, marking, printing>>

\* An edge per dependency, doubled when the dependency is.  A second strategy of
\* a name adds its dependencies to the vertex of the first.
AddEdge ==
  /\ phase = "edges"
  /\ idx <= Len(strategies) /\ nth <= Len(strategies[idx].depends)
  /\ LET depend == strategies[idx].depends[nth] IN
       IF depend \in Vertices
         THEN /\ out' = [out EXCEPT ![depend] = Append(@, strategies[idx].name)]
              /\ nth' = nth + 1
              /\ UNCHANGED <<phase, idx, error>>
         ELSE Fail("noDepend") /\ UNCHANGED <<out, nth>>
  /\ UNCHANGED <<strategies, order, m_nameStrategyMap, search, marking, printing>>

DependsDone ==
  /\ phase = "edges"
  /\ idx <= Len(strategies) /\ nth > Len(strategies[idx].depends)
  /\ idx' = idx + 1
  /\ nth' = 1
  /\ UNCHANGED <<strategies, error, graph, search, marking, printing, phase>>

\* The colours every search begins with.
White == [v \in Vertices |-> "white"]

EdgesDone ==
  /\ phase = "edges"
  /\ idx > Len(strategies)
  /\ Enter("checkCircle")
  /\ color' = White
  /\ UNCHANGED <<build, stack, circleEdges, topo, redundant, marking, printing>>

-----------------------------------------------------------------------------
(* depth_first_search() with the visitors of checkCircle, generateTopoOrder   *)
(* and markRedundantEdge                                                     *)

\* Mutant: only the first vertex is visited, as by depth_first_visit.
Roots_first == {order[i] : i \in DOMAIN order \cap {1}}

\* The vertices a search starts from.
Roots == Vertices

\* The first vertex in the graph's order that no earlier root has reached.
Start ==
  /\ phase \in Searches
  /\ stack = <<>>
  /\ \E i \in DOMAIN order :
       /\ order[i] \in Roots
       /\ color[order[i]] = "white"
       /\ \A j \in 1..(i-1) : color[order[j]] # "white"
       /\ color' = [color EXCEPT ![order[i]] = "gray"]
       /\ stack' = <<[vertex |-> order[i], edge |-> 1]>>
  /\ UNCHANGED <<build, circleEdges, topo, redundant, marking, printing, phase, idx>>

Top == Last(stack)
AtEdge == stack # <<>> /\ Top.edge <= Len(out[Top.vertex])

\* Mutant: any path counts, the edge itself included.
ExistAnotherPath_any(src, dest) == Reaches(Arcs, src, dest)

\* A search from src meets an edge to dest that does not start in src.
ExistAnotherPath(src, dest) ==
  \E u \in Vertices \ {src} : Reaches(Arcs, src, u) /\ <<u, dest>> \in Arcs

\* back_edge: checkCircle records the edge, topological_sort throws not_a_dag,
\* which nothing catches.
BackEdge(u, v) ==
  /\ circleEdges' = IF phase = "checkCircle" THEN circleEdges \cup {<<u, v>>}
                                             ELSE circleEdges
  /\ IF phase = "topoOrder" THEN Fail("notDag") ELSE UNCHANGED <<phase, idx, error>>

\* Mutant: the edge iterator is advanced twice.
Advanced_twice(frame) == [frame EXCEPT !.edge = @ + 2]

Advanced(frame) == [frame EXCEPT !.edge = @ + 1]

\* MarkRedundantVisitor::examine_edge.
MarkRedundant(u, v) ==
  redundant' = IF phase = "markRedundant" /\ ExistAnotherPath(u, v)
                 THEN redundant \cup {<<u, v>>} ELSE redundant

\* PrintVisitor::examine_edge: a line for every edge, parallel ones included.
PrintEdge(e) ==
  printed' = IF phase = "print" /\ (sg_outputFullGraph \/ Ends(e) \notin redundant)
               THEN Append(printed, e) ELSE printed

\* examine_edge on the next edge of the top vertex; a white target is entered.
Examine ==
  /\ phase \in Searches
  /\ AtEdge
  /\ LET u == Top.vertex
         v == out[u][Top.edge]
         rest == Append(Front(stack), Advanced(Top)) IN
       /\ IF color[v] = "white"
            THEN /\ stack' = Append(rest, [vertex |-> v, edge |-> 1])
                 /\ color' = [color EXCEPT ![v] = "gray"]
            ELSE stack' = rest /\ UNCHANGED color
       /\ IF color[v] = "gray"
            THEN BackEdge(u, v)
            ELSE UNCHANGED <<circleEdges, phase, idx, error>>
       /\ MarkRedundant(u, v)
       /\ PrintEdge(<<u, Top.edge>>)
  /\ UNCHANGED <<strategies, nth, graph, topo, marking, sg_outputFullGraph>>

\* Mutant: topoOrder.begin() for topoOrder.rbegin().
TopoWith_begin(v) == Append(topo, v)

\* topological_sort stores a finished vertex before those that finished earlier.
TopoWith(v) == <<v>> \o topo

\* finish_vertex.
Finish ==
  /\ phase \in Searches
  /\ stack # <<>>
  /\ ~AtEdge
  /\ color' = [color EXCEPT ![Top.vertex] = "black"]
  /\ stack' = Front(stack)
  /\ topo' = IF phase = "topoOrder" THEN TopoWith(Top.vertex) ELSE topo
  /\ UNCHANGED <<build, circleEdges, redundant, marking, printing, phase, idx>>

SearchOver ==
  /\ stack = <<>>
  /\ \A v \in Roots : color[v] # "white"

\* init() returns false when checkCircle found a back edge.
CheckCircleDone ==
  /\ phase = "checkCircle"
  /\ SearchOver
  /\ IF circleEdges # {}
       THEN Fail("circle") /\ UNCHANGED color
       ELSE Enter("topoOrder") /\ color' = White /\ UNCHANGED error
  /\ UNCHANGED <<strategies, nth, graph, stack, circleEdges, topo, redundant, marking, printing>>

TopoOrderDone ==
  /\ phase = "topoOrder"
  /\ SearchOver
  /\ Enter("ready")
  /\ UNCHANGED <<build, search, marking, printing>>

\* static-topo without -f calls markRedundantEdge() before it prints.
PrintGraph ==
  /\ phase = "ready"
  /\ sg_outputFullGraph' \in BOOLEAN
  /\ Enter(IF sg_outputFullGraph' THEN "print" ELSE "markRedundant")
  /\ color' = White
  /\ UNCHANGED <<build, stack, circleEdges, topo, redundant, marking, printed>>

MarkRedundantDone ==
  /\ phase = "markRedundant"
  /\ SearchOver
  /\ Enter("print")
  /\ color' = White
  /\ UNCHANGED <<build, stack, circleEdges, topo, redundant, marking, printing>>

PrintDone ==
  /\ phase = "print"
  /\ SearchOver
  /\ Enter("printed")
  /\ UNCHANGED <<build, search, marking, printing>>

-----------------------------------------------------------------------------
(* The selection of execAllResetAndRun() and markNeedRunByDepends()           *)

\* getDepends() of the strategy that m_nameStrategyMap has under a name.
DependsOf(n) == strategies[m_nameStrategyMap[n]].depends

\* Mutant: setNeedRun(false) is forgotten.
NeedRunAtFirst_kept == needRun

\* Every strategy of m_topoStrategies gets setNeedRun(false).
NeedRunAtFirst == needRun \ ToSet(topo)

Separators == {",", " "}

\* execAllResetAndRun(), before its first loop over names or strategies.
SelectStrategies(r) ==
  /\ phase \in {"ready", "true"}
  /\ request' = r
  /\ ran' = <<>>
  /\ IF r = NULL
       THEN Enter("reset") /\ UNCHANGED <<calls, needRun>>
       ELSE /\ Enter("mark")
            /\ calls' = <<[names |-> r, next |-> 1]>>
            /\ needRun' = NeedRunAtFirst
  /\ UNCHANGED <<build, search, printing>>

\* Mutant: the iterator over the names is not advanced.
NextName_stuck(frame) == frame

NextName(frame) == [frame EXCEPT !.next = @ + 1]

\* The innermost loop is at a name: of the list that was asked for, or of the dependencies of
\* a strategy that is being marked.
AtName == phase = "mark" /\ calls # <<>> /\ Last(calls).next <= Len(Last(calls).names)
NameAt == Last(calls).names[Last(calls).next]

AtSeparator == Len(calls) = 1 /\ NameAt \in Separators

SkipSeparator ==
  /\ AtName /\ AtSeparator
  /\ calls' = <<NextName(Last(calls))>>
  /\ UNCHANGED <<build, search, request, needRun, ran, printing, phase, idx>>

\* It calls markNeedRunByDepends, which marks the strategy and loops over its dependencies.  A
\* name without a strategy makes every call return false: the request is given up and the
\* worker goes on; a name of the list that is too long ends the worker.
MarkNeedRun ==
  /\ AtName /\ ~AtSeparator
  /\ IF NameAt = LongName /\ Len(calls) = 1
       THEN Enter("false") /\ calls' = <<>> /\ UNCHANGED needRun
     ELSE IF NameAt \in Vertices
       THEN /\ needRun' = needRun \cup {NameAt}
            /\ calls' = Front(calls)
                 \o <<NextName(Last(calls)), [names |-> DependsOf(NameAt), next |-> 1]>>
            /\ UNCHANGED <<phase, idx>>
       ELSE Enter("true") /\ calls' = <<>> /\ UNCHANGED needRun
  /\ UNCHANGED <<build, search, request, ran, printing>>

\* A loop is over: its call returns true.
MarkReturn ==
  /\ phase = "mark"
  /\ calls # <<>>
  /\ Last(calls).next > Len(Last(calls).names)
  /\ calls' = Front(calls)
  /\ UNCHANGED <<build, search, request, needRun, ran, printing, phase, idx>>

MarkDone ==
  /\ phase = "mark"
  /\ calls = <<>>
  /\ Enter("reset")
  /\ UNCHANGED <<build, search, marking, printing>>

-----------------------------------------------------------------------------
(* The loops of execAllResetAndRun() over m_topoStrategies                    *)

Chosen(n) == request = NULL \/ n \in needRun

\* A reset() that fails ends the worker.
ResetStrategy ==
  /\ phase = "reset"
  /\ idx <= Len(topo)
  /\ \/ idx' = idx + 1 /\ UNCHANGED phase
     \/ Chosen(topo[idx]) /\ Enter("false")
  /\ UNCHANGED <<build, search, marking, printing>>

AllReset ==
  /\ phase = "reset"
  /\ idx > Len(topo)
  /\ Enter("run")
  /\ UNCHANGED <<build, search, marking, printing>>

\* A run() that fails ends the request only.
RunStrategy ==
  /\ phase = "run"
  /\ idx <= Len(topo)
  /\ IF Chosen(topo[idx])
       THEN /\ ran' = Append(ran, topo[idx])
            /\ \/ idx' = idx + 1 /\ UNCHANGED phase
               \/ Enter("true")
       ELSE idx' = idx + 1 /\ UNCHANGED <<phase, ran>>
  /\ UNCHANGED <<build, search, request, calls, needRun, printing>>

AllRun ==
  /\ phase = "run"
  /\ idx > Len(topo)
  /\ Enter("true")
  /\ UNCHANGED <<build, search, marking, printing>>

-----------------------------------------------------------------------------
BuildStep == AddVertex \/ VerticesDone \/ AddEdge \/ DependsDone \/ EdgesDone

SearchStep ==
  \/ Start \/ Examine \/ Finish
  \/ CheckCircleDone \/ TopoOrderDone \/ MarkRedundantDone \/ PrintDone

MarkStep == SkipSeparator \/ MarkNeedRun \/ MarkReturn \/ MarkDone

RunStep == ResetStrategy \/ AllReset \/ RunStrategy \/ AllRun

\* init() failed, the worker ended, or static-topo printed the graph.
Ended == phase \in {"failed", "false", "printed"} /\ UNCHANGED vars

Next ==
  \/ BuildStep
  \/ SearchStep
  \/ PrintGraph
  \/ \E r \in Requests : SelectStrategies(r)
  \/ MarkStep
  \/ RunStep
  \/ Ended

Spec == Init /\ [][Next]_vars

\* The thread that computes keeps running; no request has to come.
FairSpec == Spec /\ WF_vars(BuildStep \/ SearchStep \/ MarkStep \/ RunStep)

-----------------------------------------------------------------------------
(* Safety                                                                    *)

Names == {strategies[i].name : i \in DOMAIN strategies}

\* Where a search is, and a loop of markNeedRunByDepends or over the list asked for.
Positions == [vertex : Vertices, edge : Nat \ {0}]
Frames == [names : {request} \cup {DependsOf(n) : n \in Vertices}, next : Nat \ {0}]

\* The variables have their types: the stack and the out-edge lists are over the
\* vertices, the result of the sort names no other strategy.
TypeOK ==
  /\ strategies \in Inputs
  /\ phase \in Phases
  /\ idx \in Nat \ {0} /\ nth \in Nat \ {0}
  /\ error \in {"none", "noName", "noDepend", "circle", "notDag"}
  /\ order \in Seq(Names)
  /\ out \in [Vertices -> Seq(Vertices)]
  /\ m_nameStrategyMap \in [Vertices -> DOMAIN strategies]
  /\ phase \in Searches => color \in [Vertices -> {"white", "gray", "black"}]
  /\ stack \in Seq(Positions)
  /\ \A i \in DOMAIN stack : stack[i].edge <= Len(out[stack[i].vertex]) + 1
  /\ circleEdges \subseteq Arcs /\ redundant \subseteq Arcs
  /\ printed \in Seq(OutEdges)
  /\ topo \in Seq(Vertices)
  /\ sg_outputFullGraph \in BOOLEAN
  /\ request \in Requests \cup {<<>>}
  /\ calls \in Seq(Frames)
  /\ needRun \subseteq Names
  /\ ran \in Seq(Vertices)

OnCircle(arcs, v) == \E a \in arcs : a[1] = v /\ Reaches(arcs, a[2], v)
Acyclic(arcs) == \A v \in Vertices : ~OnCircle(arcs, v)

\* init() got its graph: what every later phase may rely on.
Built == phase \notin {"vertices", "edges", "checkCircle", "failed"}

\* init() accepts exactly the lists of strategies in which every name and every
\* dependency exists and no strategy depends on itself through others, and it never
\* ends in the exception of topological_sort (StrategyManager.cpp:61-90,326-420).
InitVerdict ==
  LET Named == NoName \notin Names
      Known == \A a \in Depends : a[1] \in Names IN
  /\ Built => Named /\ Known /\ Arcs = Depends /\ Acyclic(Depends)
  /\ phase = "failed" => ~Named \/ ~Known \/ ~Acyclic(Depends)
  /\ error # "notDag"

\* m_topoStrategies lists every strategy name once, after everything that any
\* strategy of that name depends on (StrategyManager.cpp:422-434): the order that
\* processInit, run and, reversed, threadDestroy rely on.
TopoSorted ==
  phase \in Phases \ {"vertices", "edges", "checkCircle", "topoOrder", "failed"} =>
    /\ ToSet(topo) = Names
    /\ \A i, j \in DOMAIN topo : topo[i] = topo[j] => i = j
    /\ \A a \in Depends :
         \E i, j \in DOMAIN topo : i < j /\ topo[i] = a[1] /\ topo[j] = a[2]

\* static-topo prints no edge twice, and with -f every edge.  Without -f the pairs it prints
\* connect the same strategies as the whole graph, and no pair follows from the others; but a
\* dependency that is listed twice has two parallel edges and gets a line for each, although the
\* usage text says that redundant edges are removed without -f (StaticTopo.cpp:66)
\* (StrategyManager.cpp:383-395,436-482, StaticTopo.cpp:36-109).
PrintedEdgesReduced ==
  phase = "printed" =>
    LET pairs == {Ends(e) : e \in ToSet(printed)} IN
    /\ \A i, j \in DOMAIN printed : printed[i] = printed[j] => i = j
    /\ ToSet(printed) = {e \in OutEdges : Ends(e) \in pairs}
    /\ IF sg_outputFullGraph THEN pairs = Arcs
       ELSE /\ \A u, v \in Vertices : Reaches(Arcs, u, v) <=> Reaches(pairs, u, v)
            /\ \A a \in pairs : ~Reaches(pairs \ {a}, a[1], a[2])

\* The strategies that run() for a request are those that it asks for and all that they
\* need, or all if it gives no list; each runs once and after everything it depends on; it
\* does not matter which ones an earlier request marked.  A request with a name that no
\* strategy has runs none (StrategyManager.cpp:233-324,484-505).
NeededRun ==
  LET Needs == {a \in Vertices \X Vertices : Contains(DependsOf(a[1]), a[2])}
      Asked == IF request = NULL THEN Names ELSE ToSet(request) \ Separators
      Needed == {n \in Vertices : \E r \in Asked : Reaches(Needs, r, n)}
  IN /\ ToSet(ran) \subseteq Needed
     /\ ran # <<>> => Asked \subseteq Names
     /\ phase = "run" /\ idx > Len(topo) => ToSet(ran) = Needed
     /\ \A i \in DOMAIN ran : \A d \in ToSet(DependsOf(ran[i])) : \E j \in 1..i - 1 : ran[j] = d
     /\ \A i, j \in DOMAIN ran : ran[i] = ran[j] => i = j

-----------------------------------------------------------------------------
(* Liveness                                                                  *)

\* init(), markRedundantEdge and the search that prints return for every list of
\* strategies; so does every request, although markNeedRunByDepends keeps no record of
\* what it visited (StrategyManager.cpp:233-324,399-505).
CallsReturn ==
  /\ (phase = "vertices" \/ phase \in Searches) ~> phase \in {"ready", "failed", "printed"}
  /\ phase \in {"mark", "reset", "run"} ~> phase \in {"true", "false"}

=============================================================================
