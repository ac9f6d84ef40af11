------------------------ MODULE StrategyManagerProofs ------------------------
(***************************************************************************)
(* Proofs about StrategyManager, for any number of workers and strategies   *)
(* and any dependencies the plug-ins declare.                              *)
(***************************************************************************)
EXTENDS StrategyManager, FiniteSetTheorems, SequenceTheorems, TLAPS

-----------------------------------------------------------------------------
(* The constants                                                             *)

LEMMA NType == N \in Nat
  BY StrategiesAssumption, FS_CardinalityType DEF N

LEMMA ThreadsFinite == IsFiniteSet(Threads)
  BY ThreadsAssumption, FS_Singleton, FS_Union DEF Threads

\* A topological order is a sequence of N strategies.
LEMMA OrderIsSequence ==
  ASSUME NEW d, NEW o \in TopoOrders(d)
  PROVE  /\ o \in Seq(Strategies)
         /\ Len(o) = N
         /\ DOMAIN o = 1..N
         /\ \A i \in 1..N : o[i] \in Strategies
  <1>1. o \in [1..N -> Strategies]
    BY DEF TopoOrders, Listings
  <1>2. o \in Seq(Strategies)
    BY <1>1, NType, IsASeq
  <1>3. QED
    BY <1>1, <1>2, NType, LenProperties

-----------------------------------------------------------------------------
(* Types                                                                     *)

\* The helpers that every action is built from.
USE DEF Goto, SetPos, shared, LockFree, FirstManager, LastManager,
        CountAfterDestroy, DestroyStart, DestroyTarget, InitFails, RunFails,
        generateTopoOrder

LEMMA InitTypes == Init => TypeOK
  <1> SUFFICES ASSUME Init PROVE TypeOK
    OBVIOUS
  <1>1. 0 \in 0..(N + 1)
    BY NType
  <1>2. pos \in [Threads -> 0..(N + 1)] /\ topo \in [Threads -> TopoOrders(depends) \cup {<<>>}]
    BY <1>1 DEF Init
  <1>3. pc \in [Threads -> Locations]
    BY DEF Init, Locations
  <1>4. /\ threadUp \in [Threads -> SUBSET Strategies]
        /\ ran \in [Threads -> SUBSET Strategies]
        /\ edge \in [Threads -> BOOLEAN]
    BY DEF Init
  <1>5. /\ depends \in DependChoices
        /\ lock \in Threads \cup {NoThread}
        /\ instanceNum \in Int
        /\ loads \in Nat
        /\ procUp \in SUBSET Strategies
        /\ failed \in SUBSET Threads
    BY SMT DEF Init
  <1>6. pluma \in BOOLEAN /\ crashed \in BOOLEAN
    BY Zenon DEF Init
  <1> QED
    BY <1>2, <1>3, <1>4, <1>5, <1>6 DEF TypeOK

\* While a loop over m_topoStrategies is inside it, it is at a strategy.
LEMMA LoopPosition ==
  ASSUME TypeOK, NEW t \in Threads, InLoop(t)
  PROVE  /\ topo[t] \in TopoOrders(depends)
         /\ pos[t] \in 1..N
         /\ Current(t) \in Strategies
  <1>1. topo[t] # <<>>
    BY DEF InLoop
  <1>2. topo[t] \in TopoOrders(depends)
    BY <1>1 DEF TypeOK
  <1>3. Len(topo[t]) = N /\ \A i \in 1..N : topo[t][i] \in Strategies
    BY <1>2, OrderIsSequence
  <1>4. QED
    BY <1>2, <1>3 DEF InLoop, Current

LEMMA LengthBound ==
  ASSUME TypeOK, NEW t \in Threads
  PROVE  Len(topo[t]) \in 0..N
  <1>1. topo[t] \in TopoOrders(depends) \/ topo[t] = <<>>
    BY DEF TypeOK
  <1>2. QED
    BY <1>1, NType, OrderIsSequence

LEMMA NextTypes == TypeOK /\ [Next]_vars => TypeOK'
  <1> SUFFICES ASSUME TypeOK, [Next]_vars PROVE TypeOK'
    OBVIOUS
  <1> USE DEF TypeOK, Locations
  <1>n. N \in Nat
    BY NType
  <1>1. ASSUME NEW t \in Threads, LockForInit(t) PROVE TypeOK'
    BY <1>1 DEF LockForInit
  <1>2. ASSUME NEW t \in Threads, LoadPlugins(t) PROVE TypeOK'
    BY <1>2 DEF LoadPlugins
  <1>3. ASSUME NEW t \in Threads, AddAllStrategy(t) PROVE TypeOK'
    BY <1>3 DEF AddAllStrategy
  <1>4. ASSUME NEW t \in Threads, BuildStrategyGraph(t) PROVE TypeOK'
    <2>1. topo' \in [Threads -> TopoOrders(depends) \cup {<<>>}] /\ depends' = depends
      BY <1>4 DEF BuildStrategyGraph
    <2>2. pos' \in [Threads -> 0..(N + 1)]
      <3>1. 1 \in 0..(N + 1)
        BY <1>n
      <3>2. QED
        BY <1>4, <3>1 DEF BuildStrategyGraph
    <2>3. pc' \in [Threads -> Locations]
      BY <1>4 DEF BuildStrategyGraph
    <2>4. QED
      BY <1>4, <2>1, <2>2, <2>3 DEF BuildStrategyGraph
  <1>5. ASSUME NEW t \in Threads, ProcessInit(t) PROVE TypeOK'
    <2>1. Current(t) \in Strategies
      BY <1>5, LoopPosition DEF ProcessInit
    <2>2. QED
      BY <1>5, <2>1 DEF ProcessInit
  <1>6. ASSUME NEW t \in Threads, ThreadInit(t) PROVE TypeOK'
    <2>1. Current(t) \in Strategies /\ pos[t] \in 1..N
      BY <1>6, LoopPosition DEF ThreadInit
    <2>2. pos[t] + 1 \in 0..(N + 1)
      BY <2>1, <1>n
    <2>3. pos' \in [Threads -> 0..(N + 1)]
      BY <1>6, <2>2 DEF ThreadInit
    <2>4. threadUp' \in [Threads -> SUBSET Strategies]
      BY <1>6, <2>1 DEF ThreadInit
    <2>5. pc' \in [Threads -> Locations]
      BY <1>6 DEF ThreadInit
    <2>6. QED
      BY <1>6, <2>3, <2>4, <2>5 DEF ThreadInit
  <1>7. ASSUME NEW t \in Threads, InitDone(t) PROVE TypeOK'
    BY <1>7 DEF InitDone, Initialised
  <1>8. ASSUME NEW t \in Threads, LockForDestroy(t) PROVE TypeOK'
    <2>1. Len(topo[t]) \in 0..(N + 1)
      BY LengthBound, <1>n
    <2>2. QED
      BY <1>8, <2>1 DEF LockForDestroy
  <1>9. ASSUME NEW t \in Threads, ThreadDestroy(t) PROVE TypeOK'
    <2>1. pos[t] \in 1..N
      BY <1>9, LoopPosition DEF ThreadDestroy
    <2>2. pos[t] - 1 \in 0..(N + 1)
      BY <2>1, <1>n
    <2>3. QED
      BY <1>9, <2>2 DEF ThreadDestroy
  <1>10. ASSUME NEW t \in Threads, ProcessDestroy(t) PROVE TypeOK'
    <2>1. pos[t] \in 1..N
      BY <1>10, LoopPosition DEF ProcessDestroy
    <2>2. pos[t] - 1 \in 0..(N + 1)
      BY <2>1, <1>n
    <2>3. QED
      BY <1>10, <2>2 DEF ProcessDestroy
  <1>11. ASSUME NEW t \in Threads, DestroyDone(t) PROVE TypeOK'
    BY <1>11 DEF DestroyDone
  <1>12. ASSUME NEW w \in Workers, ServeStep(w) PROVE TypeOK'
    <2> w \in Threads
      BY DEF Threads
    <2>1. ASSUME InLoop(w)
          PROVE Current(w) \in Strategies /\ pos[w] + 1 \in 0..(N + 1)
      BY <2>1, LoopPosition, <1>n
    <2>2. 1 \in 0..(N + 1)
      BY <1>n
    <2>3. CASE Reset(w)
      BY <2>1, <2>3 DEF Reset
    <2>4. CASE ResetDone(w)
      BY <2>2, <2>4 DEF ResetDone
    <2>5. CASE Run(w)
      <3>1. ran' \in [Threads -> SUBSET Strategies]
        <4>1. CASE UNCHANGED ran
          BY <4>1
        <4>2. CASE ran' = [ran EXCEPT ![w] = @ \cup {Current(w)}]
          BY <2>1, <2>5, <4>2 DEF Run
        <4>3. QED
          BY <2>5, <4>1, <4>2 DEF Run
      <3>2. pos' \in [Threads -> 0..(N + 1)]
        <4>1. CASE UNCHANGED pos
          BY <4>1
        <4>2. CASE SetPos(w, pos[w] + 1)
          BY <2>1, <2>5, <4>2 DEF Run
        <4>3. QED
          BY <2>5, <4>1, <4>2 DEF Run
      <3>3. pc' \in [Threads -> Locations]
        BY <2>5 DEF Run
      <3>4. QED
        BY <2>5, <3>1, <3>2, <3>3 DEF Run
    <2>6. CASE RunDone(w)
      BY <2>6 DEF RunDone
    <2>7. QED
      BY <1>12, <2>3, <2>4, <2>5, <2>6 DEF ServeStep
  <1>13. ASSUME NEW w \in Workers, ClientStep(w) PROVE TypeOK'
    <2> w \in Threads
      BY DEF Threads
    <2>1. 1 \in 0..(N + 1)
      BY <1>n
    <2>2. QED
      BY <1>13, <2>1 DEF ClientStep, Accept, AcceptFails
  <1>14. ASSUME MainStep PROVE TypeOK'
    <2> Main \in Threads /\ Workers \subseteq Threads
      BY DEF Threads
    <2>1. QED
      BY <1>14 DEF MainStep, Spawn, SpawnDone, JoinDone
  <1>15. CASE UNCHANGED vars
    BY <1>15 DEF vars
  <1>16. QED
    BY <1>1, <1>2, <1>3, <1>4, <1>5, <1>6, <1>7, <1>8, <1>9, <1>10, <1>11,
       <1>12, <1>13, <1>14, <1>15
    DEF Next, ManagerStep, Stopped

\* Every variable keeps its type, and every list of strategies a manager works
\* through is a topological order of the declared dependencies.
THEOREM Typing == Spec => []TypeOK
  BY InitTypes, NextTypes, PTL DEF Spec

-----------------------------------------------------------------------------
(* sm_processLock                                                            *)

LEMMA NextMutualExclusion ==
  TypeOK /\ MutualExclusion /\ [Next]_vars => MutualExclusion'
  <1> SUFFICES ASSUME TypeOK, MutualExclusion, [Next]_vars
               PROVE  MutualExclusion'
    OBVIOUS
  <1>t. /\ pc \in [Threads -> Locations]
        /\ lock \in Threads \cup {NoThread}
        /\ NoThread \notin Threads
        /\ Main \in Threads
        /\ Workers \subseteq Threads
    BY ThreadsAssumption DEF TypeOK, Threads
  <1> USE DEF MutualExclusion, Critical
  <1>1. ASSUME NEW t \in Threads, LockForInit(t) PROVE MutualExclusion'
    BY <1>1, <1>t DEF LockForInit
  <1>2. ASSUME NEW t \in Threads, LoadPlugins(t) PROVE MutualExclusion'
    BY <1>2, <1>t DEF LoadPlugins
  <1>3. ASSUME NEW t \in Threads, AddAllStrategy(t) PROVE MutualExclusion'
    BY <1>3, <1>t DEF AddAllStrategy
  <1>4. ASSUME NEW t \in Threads, BuildStrategyGraph(t) PROVE MutualExclusion'
    BY <1>4, <1>t DEF BuildStrategyGraph
  <1>5. ASSUME NEW t \in Threads, ProcessInit(t) PROVE MutualExclusion'
    BY <1>5, <1>t DEF ProcessInit
  <1>6. ASSUME NEW t \in Threads, ThreadInit(t) PROVE MutualExclusion'
    BY <1>6, <1>t DEF ThreadInit
  <1>7. ASSUME NEW t \in Threads, InitDone(t) PROVE MutualExclusion'
    BY <1>7, <1>t DEF InitDone, Initialised
  <1>8. ASSUME NEW t \in Threads, LockForDestroy(t) PROVE MutualExclusion'
    BY <1>8, <1>t DEF LockForDestroy
  <1>9. ASSUME NEW t \in Threads, ThreadDestroy(t) PROVE MutualExclusion'
    BY <1>9, <1>t DEF ThreadDestroy
  <1>10. ASSUME NEW t \in Threads, ProcessDestroy(t) PROVE MutualExclusion'
    BY <1>10, <1>t DEF ProcessDestroy
  <1>11. ASSUME NEW t \in Threads, DestroyDone(t) PROVE MutualExclusion'
    BY <1>11, <1>t DEF DestroyDone
  <1>12. ASSUME NEW w \in Workers, ServeStep(w) PROVE MutualExclusion'
    BY <1>12, <1>t DEF ServeStep, Reset, ResetDone, Run, RunDone
  <1>13. ASSUME NEW w \in Workers, ClientStep(w) PROVE MutualExclusion'
    BY <1>13, <1>t DEF ClientStep, Accept, AcceptFails
  <1>14. ASSUME MainStep PROVE MutualExclusion'
    BY <1>14, <1>t DEF MainStep, Spawn, SpawnDone, JoinDone
  <1>15. CASE UNCHANGED vars
    BY <1>15 DEF vars
  <1>16. QED
    BY <1>1, <1>2, <1>3, <1>4, <1>5, <1>6, <1>7, <1>8, <1>9, <1>10, <1>11,
       <1>12, <1>13, <1>14, <1>15
    DEF Next, ManagerStep, Stopped

\* init() and the destructor exclude each other in all threads, and every path
\* out of them gives the lock back.
THEOREM LockSafe == Spec => []MutualExclusion
  <1>1. Init => MutualExclusion
    BY ThreadsAssumption DEF Init, MutualExclusion, Critical, Threads
  <1>2. QED
    BY <1>1, NextMutualExclusion, Typing, PTL DEF Spec

-----------------------------------------------------------------------------
(* sm_instanceNum                                                            *)

\* A manager whose init() failed is on its way out.
FailedLeave == \A t \in failed : pc[t] \in Leaving \cup {"gone"}

\* What the count rests on: no step but the last one of init() and the last one of
\* the destructor touches sm_instanceNum or the sets it counts.
LEMMA CountFrame ==
  ASSUME TypeOK, MutualExclusion, FailedLeave, [Next]_vars,
         \A t \in Threads : ~InitDone(t) /\ ~DestroyDone(t)
  PROVE  FailedLeave' /\ Up' = Up /\ FailedAndGone' = FailedAndGone
                      /\ instanceNum' = instanceNum
  <1> DEFINE Frame == /\ FailedLeave' /\ Up' = Up /\ FailedAndGone' = FailedAndGone
                      /\ instanceNum' = instanceNum
  <1>t. /\ pc \in [Threads -> Locations]
        /\ failed \subseteq Threads
        /\ Main \in Threads
        /\ Workers \subseteq Threads
    BY DEF TypeOK, Threads
  <1> USE DEF Up, FailedAndGone, FailedLeave, Serving, Leaving
  <1> SUFFICES Frame
    OBVIOUS
  <1>1. ASSUME NEW t \in Threads, LockForInit(t) PROVE Frame
    BY <1>1, <1>t DEF LockForInit
  <1>2. ASSUME NEW t \in Threads, LoadPlugins(t) PROVE Frame
    BY <1>2, <1>t DEF LoadPlugins
  <1>3. ASSUME NEW t \in Threads, AddAllStrategy(t) PROVE Frame
    BY <1>3, <1>t DEF AddAllStrategy
  <1>4. ASSUME NEW t \in Threads, BuildStrategyGraph(t) PROVE Frame
    BY <1>4, <1>t DEF BuildStrategyGraph
  <1>5. ASSUME NEW t \in Threads, ProcessInit(t) PROVE Frame
    BY <1>5, <1>t DEF ProcessInit
  <1>6. ASSUME NEW t \in Threads, ThreadInit(t) PROVE Frame
    BY <1>6, <1>t DEF ThreadInit
  <1>7. ASSUME NEW t \in Threads, LockForDestroy(t) PROVE Frame
    BY <1>7, <1>t DEF LockForDestroy
  <1>8. ASSUME NEW t \in Threads, ThreadDestroy(t) PROVE Frame
    BY <1>8, <1>t DEF ThreadDestroy
  <1>9. ASSUME NEW t \in Threads, ProcessDestroy(t) PROVE Frame
    BY <1>9, <1>t DEF ProcessDestroy
  <1>10. ASSUME NEW w \in Workers, ServeStep(w) PROVE Frame
    BY <1>10, <1>t DEF ServeStep, Reset, ResetDone, Run, RunDone
  <1>11. ASSUME NEW w \in Workers, ClientStep(w) PROVE Frame
    BY <1>11, <1>t DEF ClientStep, Accept, AcceptFails
  <1>12. ASSUME MainStep PROVE Frame
    BY <1>12, <1>t DEF MainStep, Spawn, SpawnDone, JoinDone
  <1>13. CASE UNCHANGED vars
    BY <1>13 DEF vars
  <1> HIDE DEF Frame
  <1>14. QED
    BY <1>1, <1>2, <1>3, <1>4, <1>5, <1>6, <1>7, <1>8, <1>9, <1>10, <1>11,
       <1>12, <1>13
    DEF Next, ManagerStep, Stopped

\* The two sets the count compares are finite.
LEMMA CountedFinite ==
  ASSUME TypeOK
  PROVE  /\ IsFiniteSet(Up) /\ Cardinality(Up) \in Nat
         /\ IsFiniteSet(FailedAndGone) /\ Cardinality(FailedAndGone) \in Nat
  <1>1. Up \subseteq Threads /\ FailedAndGone \subseteq Threads
    BY DEF Up, FailedAndGone, TypeOK
  <1>2. QED
    BY <1>1, ThreadsFinite, FS_Subset, FS_CardinalityType

LEMMA InitDoneCounts ==
  ASSUME TypeOK, FailedLeave, InstanceNumAccounting, NEW t \in Threads, InitDone(t)
  PROVE  FailedLeave' /\ InstanceNumAccounting'
  <1> USE DEF Up, FailedAndGone, FailedLeave, Serving, Leaving
  <1>t. pc \in [Threads -> Locations] /\ failed \subseteq Threads /\ instanceNum \in Int
    BY DEF TypeOK
  <1>1. t \notin Up /\ t \notin failed
    BY <1>t DEF InitDone
  <1>2. Up' = Up \cup {t}
    BY <1>t DEF InitDone, Initialised
  <1>3. FailedLeave' /\ FailedAndGone' = FailedAndGone
    BY <1>t, <1>1 DEF InitDone, Initialised
  <1> HIDE DEF Up, FailedAndGone
  <1>4. Cardinality(Up') = Cardinality(Up) + 1
    BY <1>1, <1>2, CountedFinite, FS_AddElement
  <1>5. instanceNum' = instanceNum + 1
    BY DEF InitDone
  <1>6. QED
    BY <1>3, <1>4, <1>5, <1>t, CountedFinite DEF InstanceNumAccounting

LEMMA DestroyDoneCounts ==
  ASSUME TypeOK, FailedLeave, InstanceNumAccounting, NEW t \in Threads, DestroyDone(t)
  PROVE  FailedLeave' /\ InstanceNumAccounting'
  <1> USE DEF Up, FailedAndGone, FailedLeave, Serving, Leaving
  <1>t. pc \in [Threads -> Locations] /\ failed \subseteq Threads /\ instanceNum \in Int
    BY DEF TypeOK
  <1>1. FailedLeave' /\ instanceNum' = instanceNum - 1
    BY <1>t DEF DestroyDone
  <1>2. CASE t \in failed
    <2>1. Up' = Up /\ FailedAndGone' = FailedAndGone \cup {t} /\ t \notin FailedAndGone
      BY <1>t, <1>2 DEF DestroyDone
    <2> HIDE DEF Up, FailedAndGone
    <2>2. Cardinality(FailedAndGone') = Cardinality(FailedAndGone) + 1
      BY <2>1, CountedFinite, FS_AddElement
    <2>3. QED
      BY <1>1, <2>1, <2>2, <1>t, CountedFinite DEF InstanceNumAccounting
  <1>3. CASE t \notin failed
    <2>1. Up' = Up \ {t} /\ FailedAndGone' = FailedAndGone /\ t \in Up
      BY <1>t, <1>3 DEF DestroyDone
    <2> HIDE DEF Up, FailedAndGone
    <2>2. Cardinality(Up') = Cardinality(Up) - 1
      BY <2>1, CountedFinite, FS_RemoveElement
    <2>3. QED
      BY <1>1, <2>1, <2>2, <1>t, CountedFinite DEF InstanceNumAccounting
  <1>4. QED
    BY <1>2, <1>3

LEMMA NextAccounting ==
  TypeOK /\ MutualExclusion /\ FailedLeave /\ InstanceNumAccounting /\ [Next]_vars
    => FailedLeave' /\ InstanceNumAccounting'
  <1>1. ASSUME TypeOK, MutualExclusion, FailedLeave, InstanceNumAccounting, [Next]_vars,
               \A t \in Threads : ~InitDone(t) /\ ~DestroyDone(t)
        PROVE  FailedLeave' /\ InstanceNumAccounting'
    BY <1>1, CountFrame DEF InstanceNumAccounting
  <1>2. QED
    BY <1>1, InitDoneCounts, DestroyDoneCounts

\* In every state sm_instanceNum is the number of initialised managers, less one
\* for every manager that was destroyed although its init() had failed.
THEOREM Accounting == Spec => []InstanceNumAccounting
  <1>1. Init => FailedLeave /\ InstanceNumAccounting
    <2> SUFFICES ASSUME Init PROVE FailedLeave /\ InstanceNumAccounting
      OBVIOUS
    <2>1. Up = {} /\ FailedAndGone = {} /\ FailedLeave /\ instanceNum = 0
      BY DEF Init, Up, FailedAndGone, FailedLeave, Serving, Leaving
    <2>2. QED
      BY <2>1, FS_EmptySet DEF InstanceNumAccounting
  <1>2. QED
    BY <1>1, NextAccounting, Typing, LockSafe, PTL DEF Spec

-----------------------------------------------------------------------------
(* Topological orders                                                        *)

\* The first k strategies of an order.
Prefix(o, k) == {o[i] : i \in 1..k}

Closed(d, S) == \A s \in S : d[s] \subseteq S

LEMMA FullPrefix ==
  ASSUME NEW d, NEW o \in TopoOrders(d)
  PROVE  Prefix(o, N) = Strategies
  BY DEF Prefix, TopoOrders, Listings

\* Setting up the strategies in the order keeps the set of them closed.
LEMMA AddNext ==
  ASSUME NEW d, NEW o \in TopoOrders(d), NEW i \in 1..N, NEW S,
         Closed(d, S), Prefix(o, i - 1) \subseteq S
  PROVE  /\ Closed(d, S \cup {o[i]})
         /\ Prefix(o, i) = Prefix(o, i - 1) \cup {o[i]}
  <1>1. \A s \in d[o[i]] : s \in Prefix(o, i - 1)
    BY DEF TopoOrders, Prefix
  <1>2. Prefix(o, i) = Prefix(o, i - 1) \cup {o[i]}
    BY NType DEF Prefix
  <1>3. QED
    BY <1>1, <1>2 DEF Closed

\* Tearing them down from the end of the order keeps it closed too.
LEMMA RemoveLast ==
  ASSUME NEW d, NEW o \in TopoOrders(d), NEW i \in 1..N, NEW S,
         Closed(d, S), S \subseteq Prefix(o, i)
  PROVE  /\ Closed(d, S \ {o[i]})
         /\ S \ {o[i]} \subseteq Prefix(o, i - 1)
  <1>1. S \ {o[i]} \subseteq Prefix(o, i - 1)
    BY NType DEF Prefix
  <1>2. ASSUME NEW u \in S \ {o[i]} PROVE o[i] \notin d[u]
    <2>1. PICK j \in 1..(i - 1) : u = o[j]
      BY <1>1, <1>2 DEF Prefix
    <2>2. \A s \in d[u] : \E k \in 1..(j - 1) : s = o[k]
      BY <2>1, NType DEF TopoOrders
    <2>3. \A k \in 1..(j - 1) : o[k] # o[i]
      BY <2>1, NType DEF TopoOrders, Listings
    <2>4. QED
      BY <2>2, <2>3
  <1>3. QED
    BY <1>1, <1>2 DEF Closed

-----------------------------------------------------------------------------
(* Set-up and tear-down in dependency order                                  *)

\* What a manager's own loops keep true.
ManagerInv(t) ==
  /\ pc[t] \in {"none", "start", "load", "add", "graph"} => topo[t] = <<>>
  /\ topo[t] = <<>> => threadUp[t] = {}
  /\ pc[t] \in {"processInit", "threadInit"} =>
       /\ topo[t] \in TopoOrders(depends)
       /\ pos[t] >= 1
       /\ threadUp[t] = Prefix(topo[t], pos[t] - 1)
  /\ pc[t] \in {"processInit", "processDestroy"} => edge[t]
  /\ pc[t] = "threadInit" /\ edge[t] => pos[t] <= N
  /\ t \in Up => topo[t] \in TopoOrders(depends)
  /\ t \in Up /\ pc[t] \in Serving \cup {"dtor"} => threadUp[t] = Strategies
  /\ pc[t] = "threadDestroy" =>
       pos[t] <= Len(topo[t]) /\ threadUp[t] \subseteq Prefix(topo[t], pos[t])
  /\ pc[t] = "processDestroy" =>
       InLoop(t) /\ threadUp[t] \subseteq Prefix(topo[t], pos[t] - 1)
  /\ pc[t] = "gone" => threadUp[t] = {}
  /\ Closed(depends, threadUp[t])

\* What the execution of a request keeps true.
RequestInv(t) ==
  /\ pc[t] = "reset" => ran[t] = {}
  /\ pc[t] = "run" => pos[t] >= 1 /\ ran[t] = Prefix(topo[t], pos[t] - 1)
  /\ Closed(depends, ran[t])

\* What the loops keep true of the process-level state.
ProcessInv(t) ==
  /\ pc[t] = "processInit" => Prefix(topo[t], pos[t] - 1) \subseteq procUp
  /\ pc[t] = "threadInit" /\ edge[t] => Prefix(topo[t], pos[t]) \subseteq procUp
  /\ pc[t] \in {"threadDestroy", "processDestroy"} /\ edge[t] /\ topo[t] # <<>> =>
       procUp \subseteq Prefix(topo[t], pos[t])

LoopInv ==
  /\ \A t \in Threads : ManagerInv(t) /\ RequestInv(t) /\ ProcessInv(t)
  /\ Closed(depends, procUp)

\* A step leaves the manager of u alone.
Untouched(u) ==
  /\ depends' = depends
  /\ pc'[u] = pc[u]
  /\ edge'[u] = edge[u]
  /\ topo'[u] = topo[u]
  /\ pos'[u] = pos[u]
  /\ threadUp'[u] = threadUp[u]
  /\ ran'[u] = ran[u]
  /\ u \in failed' <=> u \in failed

LEMMA UntouchedInv ==
  ASSUME NEW u \in Threads, Untouched(u), ManagerInv(u), RequestInv(u)
  PROVE  ManagerInv(u)' /\ RequestInv(u)'
  <1>1. (u \in Up)' <=> u \in Up
    BY DEF Untouched, Up
  <1>2. InLoop(u)' <=> InLoop(u)
    BY DEF Untouched, InLoop
  <1>3. ManagerInv(u)'
    BY <1>1, <1>2 DEF Untouched, ManagerInv
  <1>4. RequestInv(u)'
    BY DEF Untouched, RequestInv
  <1>5. QED
    BY <1>3, <1>4

\* A step of one manager touches no other manager.
LEMMA OthersUntouched ==
  ASSUME TypeOK, NEW t \in Threads, NEW u \in Threads \ {t},
         ManagerStep(t) \/ ServeStep(t) \/ ClientStep(t)
  PROVE  Untouched(u)
  <1> USE DEF Untouched, TypeOK
  <1>1. CASE ManagerStep(t)
    <2>1. CASE LockForInit(t)
      BY <2>1 DEF LockForInit
    <2>2. CASE LoadPlugins(t)
      BY <2>2 DEF LoadPlugins
    <2>3. CASE AddAllStrategy(t)
      BY <2>3 DEF AddAllStrategy
    <2>4. CASE BuildStrategyGraph(t)
      BY <2>4 DEF BuildStrategyGraph
    <2>5. CASE ProcessInit(t)
      BY <2>5 DEF ProcessInit
    <2>6. CASE ThreadInit(t)
      BY <2>6 DEF ThreadInit
    <2>7. CASE InitDone(t)
      BY <2>7 DEF InitDone
    <2>8. CASE LockForDestroy(t)
      BY <2>8 DEF LockForDestroy
    <2>9. CASE ThreadDestroy(t)
      BY <2>9 DEF ThreadDestroy
    <2>10. CASE ProcessDestroy(t)
      BY <2>10 DEF ProcessDestroy
    <2>11. CASE DestroyDone(t)
      BY <2>11 DEF DestroyDone
    <2>12. QED
      BY <1>1, <2>1, <2>2, <2>3, <2>4, <2>5, <2>6, <2>7, <2>8, <2>9, <2>10, <2>11
      DEF ManagerStep
  <1>2. CASE ServeStep(t)
    BY <1>2 DEF ServeStep, Reset, ResetDone, Run, RunDone
  <1>3. CASE ClientStep(t)
    BY <1>3 DEF ClientStep, Accept, AcceptFails
  <1>4. QED
    BY <1>1, <1>2, <1>3

\* It is enough to look at the manager that steps, and at the process-level state
\* when the step changes it.
LEMMA OneManagerSteps ==
  ASSUME TypeOK, MutualExclusion, LoopInv, NEW t \in Threads,
         ManagerStep(t) \/ ServeStep(t) \/ ClientStep(t),
         procUp' = procUp \/ lock = t,
         ManagerInv(t)', RequestInv(t)', ProcessInv(t)', Closed(depends, procUp)'
  PROVE  LoopInv'
  <1>1. ASSUME NEW u \in Threads \ {t}
        PROVE  ManagerInv(u)' /\ RequestInv(u)' /\ ProcessInv(u)'
    <2>1. Untouched(u)
      BY OthersUntouched
    <2>2. ManagerInv(u)' /\ RequestInv(u)'
      BY <2>1, UntouchedInv DEF LoopInv
    <2>3. CASE procUp' = procUp
      BY <2>1, <2>2, <2>3 DEF LoopInv, ProcessInv, Untouched
    <2>4. CASE lock = t
      <3>1. pc[u] \notin Critical
        BY <2>4 DEF MutualExclusion
      <3>2. QED
        BY <2>1, <2>2, <3>1 DEF ProcessInv, Untouched, Critical
    <2>5. QED
      BY <2>3, <2>4
  <1>2. QED
    BY <1>1 DEF LoopInv

LEMMA LockForInitLoop ==
  ASSUME TypeOK, MutualExclusion, FailedLeave, LoopInv,
         NEW t \in Threads, LockForInit(t)
  PROVE  LoopInv'
  <1> USE DEF LockForInit
  <1>1. /\ pc[t] = "start" /\ pc'[t] \in {"load", "add"}
        /\ UNCHANGED <<depends, topo, threadUp, procUp, ran>>
    BY DEF TypeOK
  <1>2. ManagerInv(t) /\ RequestInv(t) /\ Closed(depends, procUp)
    BY DEF LoopInv
  <1>3. ManagerInv(t)'
    BY <1>1, <1>2 DEF ManagerInv, Up, Serving, Leaving
  <1>4. RequestInv(t)' /\ ProcessInv(t)' /\ Closed(depends, procUp)'
    BY <1>1, <1>2 DEF RequestInv, ProcessInv
  <1>5. QED
    BY <1>1, <1>3, <1>4, OneManagerSteps DEF ManagerStep

LEMMA LoadPluginsLoop ==
  ASSUME TypeOK, MutualExclusion, FailedLeave, LoopInv,
         NEW t \in Threads, LoadPlugins(t)
  PROVE  LoopInv'
  <1> USE DEF LoadPlugins
  <1>1. /\ pc[t] = "load" /\ pc'[t] = "add"
        /\ UNCHANGED <<depends, topo, threadUp, procUp, ran>>
    BY DEF TypeOK
  <1>2. ManagerInv(t) /\ RequestInv(t) /\ Closed(depends, procUp)
    BY DEF LoopInv
  <1>3. ManagerInv(t)'
    BY <1>1, <1>2 DEF ManagerInv, Up, Serving, Leaving
  <1>4. RequestInv(t)' /\ ProcessInv(t)' /\ Closed(depends, procUp)'
    BY <1>1, <1>2 DEF RequestInv, ProcessInv
  <1>5. QED
    BY <1>1, <1>3, <1>4, OneManagerSteps DEF ManagerStep

\* A failed init() leaves the loops of its manager where they were.
LEMMA InitFailsLoop ==
  ASSUME TypeOK, MutualExclusion, FailedLeave, LoopInv, NEW t \in Threads,
         pc[t] \in {"add", "graph", "processInit", "threadInit"},
         InitFails(t), ManagerStep(t),
         UNCHANGED <<depends, edge, topo, pos, threadUp, procUp, ran>>
  PROVE  LoopInv'
  <1>1. pc'[t] = "dtor" /\ t \in failed'
    BY DEF TypeOK
  <1>2. ManagerInv(t) /\ RequestInv(t) /\ Closed(depends, procUp)
    BY DEF LoopInv
  <1>3. ManagerInv(t)'
    BY <1>1, <1>2 DEF ManagerInv, Up, Serving, Leaving
  <1>4. RequestInv(t)' /\ ProcessInv(t)' /\ Closed(depends, procUp)'
    BY <1>1, <1>2 DEF RequestInv, ProcessInv
  <1>5. QED
    BY <1>3, <1>4, OneManagerSteps

LEMMA AddAllStrategyLoop ==
  ASSUME TypeOK, MutualExclusion, FailedLeave, LoopInv,
         NEW t \in Threads, AddAllStrategy(t)
  PROVE  LoopInv'
  <1>0. /\ pc[t] = "add" /\ ManagerStep(t)
        /\ UNCHANGED <<depends, edge, topo, pos, threadUp, procUp, ran>>
    BY DEF AddAllStrategy, ManagerStep
  <1>1. CASE InitFails(t)
    BY <1>0, <1>1, InitFailsLoop
  <1>2. CASE ~InitFails(t)
    <2>1. pc'[t] \in {"add", "graph"} /\ failed' = failed
      BY <1>2 DEF AddAllStrategy, TypeOK
    <2>2. ManagerInv(t) /\ RequestInv(t) /\ Closed(depends, procUp)
      BY DEF LoopInv
    <2>3. ManagerInv(t)'
      BY <1>0, <2>1, <2>2 DEF ManagerInv, Up, Serving, Leaving
    <2>4. RequestInv(t)' /\ ProcessInv(t)' /\ Closed(depends, procUp)'
      BY <1>0, <2>1, <2>2 DEF RequestInv, ProcessInv
    <2>5. QED
      BY <1>0, <2>3, <2>4, OneManagerSteps
  <1>3. QED
    BY <1>1, <1>2

LEMMA BuildStrategyGraphLoop ==
  ASSUME TypeOK, MutualExclusion, FailedLeave, LoopInv,
         NEW t \in Threads, BuildStrategyGraph(t)
  PROVE  LoopInv'
  <1>0. /\ pc[t] = "graph" /\ ManagerStep(t)
        /\ UNCHANGED <<depends, edge, threadUp, procUp, ran>>
    BY DEF BuildStrategyGraph, ManagerStep
  <1>1. CASE TopoOrders(depends) = {}
    <2>1. InitFails(t) /\ UNCHANGED <<topo, pos>>
      BY <1>1 DEF BuildStrategyGraph
    <2>2. QED
      BY <1>0, <2>1, InitFailsLoop
  <1>2. CASE TopoOrders(depends) # {}
    <2>1. /\ topo'[t] \in TopoOrders(depends)
          /\ pos'[t] = 1
          /\ pc'[t] = IF edge[t] THEN "processInit" ELSE "threadInit"
          /\ failed' = failed
      BY <1>2 DEF BuildStrategyGraph, TypeOK
    <2>2. ManagerInv(t) /\ RequestInv(t) /\ Closed(depends, procUp)
      BY DEF LoopInv
    <2>3. threadUp[t] = {} /\ Prefix(topo'[t], 0) = {}
      BY <1>0, <2>2 DEF ManagerInv, Prefix
    <2>4. ManagerInv(t)'
      BY <1>0, <2>1, <2>2, <2>3 DEF ManagerInv, Up, Serving, Leaving
    <2>5. RequestInv(t)' /\ ProcessInv(t)' /\ Closed(depends, procUp)'
      BY <1>0, <2>1, <2>2, <2>3 DEF RequestInv, ProcessInv
    <2>6. QED
      BY <1>0, <2>4, <2>5, OneManagerSteps
  <1>3. QED
    BY <1>1, <1>2

LEMMA ProcessInitLoop ==
  ASSUME TypeOK, MutualExclusion, FailedLeave, LoopInv,
         NEW t \in Threads, ProcessInit(t)
  PROVE  LoopInv'
  <1>0. /\ pc[t] = "processInit" /\ ManagerStep(t) /\ InLoop(t) /\ lock = t
        /\ UNCHANGED <<depends, edge, topo, pos, threadUp, ran>>
    BY DEF ProcessInit, ManagerStep, MutualExclusion, Critical
  <1>1. CASE InitFails(t) /\ UNCHANGED procUp
    BY <1>0, <1>1, InitFailsLoop
  <1>2. CASE procUp' = procUp \cup {Current(t)} /\ Goto(t, "threadInit") /\ UNCHANGED failed
    <2>1. ManagerInv(t) /\ RequestInv(t) /\ ProcessInv(t) /\ Closed(depends, procUp)
      BY DEF LoopInv
    <2>2. topo[t] \in TopoOrders(depends) /\ pos[t] \in 1..N /\ Current(t) = topo[t][pos[t]]
      BY <1>0, LoopPosition DEF Current
    <2>3. /\ Closed(depends, procUp \cup {Current(t)})
          /\ Prefix(topo[t], pos[t]) = Prefix(topo[t], pos[t] - 1) \cup {Current(t)}
      <3>1. Prefix(topo[t], pos[t] - 1) \subseteq procUp
        BY <1>0, <2>1 DEF ProcessInv
      <3>2. /\ Closed(depends, procUp \cup {topo[t][pos[t]]})
            /\ Prefix(topo[t], pos[t]) = Prefix(topo[t], pos[t] - 1) \cup {topo[t][pos[t]]}
        BY <2>1, <2>2, <3>1, AddNext
      <3>3. QED
        BY <2>2, <3>2
    <2>4. pc'[t] = "threadInit"
      BY <1>2 DEF TypeOK
    <2>5. ManagerInv(t)'
      BY <1>0, <1>2, <2>1, <2>2, <2>4 DEF ManagerInv, Up, Serving, Leaving
    <2>6. RequestInv(t)' /\ ProcessInv(t)' /\ Closed(depends, procUp)'
      BY <1>0, <1>2, <2>1, <2>3, <2>4 DEF RequestInv, ProcessInv
    <2>7. QED
      BY <1>0, <2>5, <2>6, OneManagerSteps
  <1>3. QED
    BY <1>1, <1>2 DEF ProcessInit

LEMMA ThreadInitLoop ==
  ASSUME TypeOK, MutualExclusion, FailedLeave, LoopInv,
         NEW t \in Threads, ThreadInit(t)
  PROVE  LoopInv'
  <1>0. /\ pc[t] = "threadInit" /\ ManagerStep(t) /\ InLoop(t)
        /\ UNCHANGED <<depends, edge, topo, procUp, ran>>
    BY DEF ThreadInit, ManagerStep
  <1>1. CASE InitFails(t) /\ UNCHANGED <<threadUp, pos>>
    BY <1>0, <1>1, InitFailsLoop
  <1>2. CASE /\ threadUp' = [threadUp EXCEPT ![t] = @ \cup {Current(t)}]
             /\ SetPos(t, pos[t] + 1)
             /\ Goto(t, IF edge[t] THEN "processInit" ELSE "threadInit")
             /\ UNCHANGED failed
    <2>1. ManagerInv(t) /\ RequestInv(t) /\ ProcessInv(t) /\ Closed(depends, procUp)
      BY DEF LoopInv
    <2>2. topo[t] \in TopoOrders(depends) /\ pos[t] \in 1..N /\ Current(t) = topo[t][pos[t]]
      BY <1>0, LoopPosition DEF Current
    <2>3. /\ Closed(depends, threadUp[t] \cup {Current(t)})
          /\ Prefix(topo[t], pos[t]) = threadUp[t] \cup {Current(t)}
      <3>1. /\ Prefix(topo[t], pos[t] - 1) = threadUp[t]
            /\ Prefix(topo[t], pos[t] - 1) \subseteq threadUp[t]
            /\ Closed(depends, threadUp[t])
        BY <1>0, <2>1 DEF ManagerInv
      <3>2. /\ Closed(depends, threadUp[t] \cup {topo[t][pos[t]]})
            /\ Prefix(topo[t], pos[t]) = Prefix(topo[t], pos[t] - 1) \cup {topo[t][pos[t]]}
        BY <2>2, <3>1, AddNext
      <3>3. QED
        BY <2>2, <3>1, <3>2
    <2>4. /\ pc'[t] = IF edge[t] THEN "processInit" ELSE "threadInit"
          /\ pos'[t] = pos[t] + 1
          /\ threadUp'[t] = threadUp[t] \cup {Current(t)}
      BY <1>2 DEF TypeOK
    <2>5. pos'[t] - 1 = pos[t] /\ pos'[t] >= 1 /\ topo[t] # <<>>
      BY <1>0, <2>2, <2>4 DEF InLoop
    <2>6. ManagerInv(t)'
      <3>1. Prefix(topo[t], pos'[t] - 1) = threadUp'[t] /\ Closed(depends, threadUp'[t])
        BY <2>3, <2>4, <2>5
      <3>2. t \notin Up'
        BY <2>4 DEF Up, Serving, Leaving
      <3>3. QED
        BY <1>0, <2>2, <2>4, <2>5, <3>1, <3>2 DEF ManagerInv
    <2>7. RequestInv(t)' /\ ProcessInv(t)' /\ Closed(depends, procUp)'
      BY <1>0, <2>1, <2>4, <2>5 DEF RequestInv, ProcessInv
    <2>8. QED
      BY <1>0, <2>6, <2>7, OneManagerSteps
  <1>3. QED
    BY <1>1, <1>2 DEF ThreadInit

LEMMA InitDoneLoop ==
  ASSUME TypeOK, MutualExclusion, FailedLeave, LoopInv,
         NEW t \in Threads, InitDone(t)
  PROVE  LoopInv'
  <1>0. /\ pc[t] \in {"processInit", "threadInit"} /\ ManagerStep(t) /\ ~InLoop(t)
        /\ UNCHANGED <<depends, edge, topo, pos, threadUp, procUp, ran, failed>>
    BY DEF InitDone, ManagerStep
  <1>1. pc'[t] \in {"spawn", "accept"}
    BY DEF InitDone, Initialised, TypeOK
  <1>2. ManagerInv(t) /\ RequestInv(t) /\ Closed(depends, procUp)
    BY DEF LoopInv
  <1>3. threadUp[t] = Strategies
    <2>1. topo[t] \in TopoOrders(depends) /\ Len(topo[t]) = N
      BY <1>0, <1>2, OrderIsSequence DEF ManagerInv
    <2>2. pos[t] = N + 1
      BY <1>0, <1>2, <2>1, NType DEF ManagerInv, InLoop, TypeOK
    <2>3. QED
      BY <1>0, <1>2, <2>1, <2>2, NType, FullPrefix DEF ManagerInv
  <1>4. ManagerInv(t)'
    BY <1>0, <1>1, <1>2, <1>3 DEF ManagerInv, Up, Serving, Leaving
  <1>5. RequestInv(t)' /\ ProcessInv(t)' /\ Closed(depends, procUp)'
    BY <1>0, <1>1, <1>2 DEF RequestInv, ProcessInv
  <1>6. QED
    BY <1>0, <1>4, <1>5, OneManagerSteps

LEMMA LockForDestroyLoop ==
  ASSUME TypeOK, MutualExclusion, FailedLeave, LoopInv,
         NEW t \in Threads, LockForDestroy(t)
  PROVE  LoopInv'
  <1>0. /\ pc[t] = "dtor" /\ ManagerStep(t)
        /\ UNCHANGED <<depends, topo, threadUp, procUp, ran, failed>>
    BY DEF LockForDestroy, ManagerStep
  <1>1. pc'[t] = "threadDestroy" /\ pos'[t] = Len(topo[t])
    BY DEF LockForDestroy, TypeOK
  <1>2. ManagerInv(t) /\ RequestInv(t) /\ Closed(depends, procUp)
    BY DEF LoopInv
  <1>3. /\ topo[t] # <<>> => Prefix(topo[t], Len(topo[t])) = Strategies
        /\ threadUp[t] \subseteq Strategies /\ procUp \subseteq Strategies
    BY OrderIsSequence, FullPrefix DEF TypeOK
  <1>4. Len(topo[t]) <= Len(topo[t])
    BY LengthBound, NType
  <1>5. ManagerInv(t)'
    BY <1>0, <1>1, <1>2, <1>3, <1>4 DEF ManagerInv, Up, Serving, Leaving
  <1>6. RequestInv(t)' /\ ProcessInv(t)' /\ Closed(depends, procUp)'
    BY <1>0, <1>1, <1>2, <1>3 DEF RequestInv, ProcessInv
  <1>7. QED
    BY <1>0, <1>5, <1>6, OneManagerSteps

LEMMA ThreadDestroyLoop ==
  ASSUME TypeOK, MutualExclusion, FailedLeave, LoopInv,
         NEW t \in Threads, ThreadDestroy(t)
  PROVE  LoopInv'
  <1>0. /\ pc[t] = "threadDestroy" /\ ManagerStep(t) /\ InLoop(t)
        /\ UNCHANGED <<depends, edge, topo, procUp, ran, failed>>
    BY DEF ThreadDestroy, ManagerStep
  <1>1. /\ pc'[t] = IF edge[t] THEN "processDestroy" ELSE "threadDestroy"
        /\ pos'[t] = IF edge[t] THEN pos[t] ELSE pos[t] - 1
        /\ threadUp'[t] = threadUp[t] \ {Current(t)}
    BY <1>0 DEF ThreadDestroy, TypeOK
  <1>2. ManagerInv(t) /\ RequestInv(t) /\ ProcessInv(t) /\ Closed(depends, procUp)
    BY DEF LoopInv
  <1>3. topo[t] \in TopoOrders(depends) /\ pos[t] \in 1..N /\ Current(t) = topo[t][pos[t]]
    BY <1>0, LoopPosition DEF Current
  <1>4. /\ Closed(depends, threadUp[t] \ {Current(t)})
        /\ threadUp[t] \ {Current(t)} \subseteq Prefix(topo[t], pos[t] - 1)
    BY <1>0, <1>2, <1>3, RemoveLast DEF ManagerInv
  <1>5. Len(topo[t]) = N /\ pos[t] - 1 <= N /\ topo[t] # <<>> /\ (pos[t] \in 1..N)
    BY <1>0, <1>3, OrderIsSequence, NType DEF InLoop
  <1>6. InLoop(t)' <=> pos'[t] \in 1..N
    BY <1>0, <1>5 DEF InLoop
  <1>7. ManagerInv(t)'
    BY <1>0, <1>1, <1>2, <1>3, <1>4, <1>5, <1>6 DEF ManagerInv, Up, Serving, Leaving
  <1>8. RequestInv(t)' /\ ProcessInv(t)' /\ Closed(depends, procUp)'
    BY <1>0, <1>1, <1>2 DEF RequestInv, ProcessInv
  <1>9. QED
    BY <1>0, <1>7, <1>8, OneManagerSteps

LEMMA ProcessDestroyLoop ==
  ASSUME TypeOK, MutualExclusion, FailedLeave, LoopInv,
         NEW t \in Threads, ProcessDestroy(t)
  PROVE  LoopInv'
  <1>0. /\ pc[t] = "processDestroy" /\ ManagerStep(t) /\ InLoop(t) /\ lock = t
        /\ UNCHANGED <<depends, edge, topo, threadUp, ran, failed>>
    BY DEF ProcessDestroy, ManagerStep, MutualExclusion, Critical
  <1>1. /\ pc'[t] = "threadDestroy"
        /\ pos'[t] = pos[t] - 1
        /\ procUp' = procUp \ {Current(t)}
    BY <1>0 DEF ProcessDestroy, TypeOK
  <1>2. ManagerInv(t) /\ RequestInv(t) /\ ProcessInv(t) /\ Closed(depends, procUp)
    BY DEF LoopInv
  <1>3. topo[t] \in TopoOrders(depends) /\ pos[t] \in 1..N /\ Current(t) = topo[t][pos[t]]
    BY <1>0, LoopPosition DEF Current
  <1>4. Len(topo[t]) = N /\ pos[t] - 1 <= N /\ topo[t] # <<>>
    BY <1>0, <1>3, OrderIsSequence, NType DEF InLoop
  <1>5. /\ Closed(depends, procUp \ {Current(t)})
        /\ procUp \ {Current(t)} \subseteq Prefix(topo[t], pos[t] - 1)
    BY <1>0, <1>2, <1>3, <1>4, RemoveLast DEF ManagerInv, ProcessInv
  <1>6. ManagerInv(t)'
    BY <1>0, <1>1, <1>2, <1>4 DEF ManagerInv, Up, Serving, Leaving
  <1>7. RequestInv(t)' /\ ProcessInv(t)' /\ Closed(depends, procUp)'
    BY <1>0, <1>1, <1>2, <1>5 DEF RequestInv, ProcessInv
  <1>8. QED
    BY <1>0, <1>6, <1>7, OneManagerSteps

LEMMA DestroyDoneLoop ==
  ASSUME TypeOK, MutualExclusion, FailedLeave, LoopInv,
         NEW t \in Threads, DestroyDone(t)
  PROVE  LoopInv'
  <1>0. /\ pc[t] = "threadDestroy" /\ ManagerStep(t) /\ ~InLoop(t)
        /\ UNCHANGED <<depends, edge, topo, pos, threadUp, procUp, ran, failed>>
    BY DEF DestroyDone, ManagerStep
  <1>1. pc'[t] = "gone"
    BY DEF DestroyDone, TypeOK
  <1>2. ManagerInv(t) /\ RequestInv(t) /\ Closed(depends, procUp)
    BY DEF LoopInv
  <1>3. pos[t] = 0
    BY <1>0, <1>2, LengthBound, NType DEF ManagerInv, InLoop, TypeOK
  <1>4. threadUp[t] = {}
    BY <1>0, <1>2, <1>3 DEF ManagerInv, Prefix
  <1>5. ManagerInv(t)'
    BY <1>0, <1>1, <1>2, <1>4 DEF ManagerInv, Up, Serving, Leaving
  <1>6. RequestInv(t)' /\ ProcessInv(t)' /\ Closed(depends, procUp)'
    BY <1>0, <1>1, <1>2 DEF RequestInv, ProcessInv
  <1>7. QED
    BY <1>0, <1>5, <1>6, OneManagerSteps

-----------------------------------------------------------------------------
(* Requests                                                                  *)

\* A step of a worker's loop leaves its strategies set up.
LEMMA WorkerLoop ==
  ASSUME TypeOK, MutualExclusion, FailedLeave, LoopInv,
         NEW w \in Workers, ServeStep(w) \/ ClientStep(w),
         pc[w] \in Serving, pc'[w] \in {"accept", "reset", "run", "dtor"},
         UNCHANGED <<depends, edge, topo, threadUp, procUp, failed>>,
         RequestInv(w)'
  PROVE  LoopInv'
  <1>1. w \in Threads
    BY DEF Threads
  <1>2. ManagerInv(w) /\ Closed(depends, procUp)
    BY <1>1 DEF LoopInv
  <1>3. w \in Up /\ w \in Up'
    BY <1>1 DEF Up, FailedLeave, Serving, Leaving
  <1>4. ManagerInv(w)'
    BY <1>2, <1>3 DEF ManagerInv, Serving
  <1>5. ProcessInv(w)' /\ Closed(depends, procUp)'
    BY <1>2 DEF ProcessInv
  <1>6. QED
    BY <1>1, <1>4, <1>5, OneManagerSteps

LEMMA ServeLoop ==
  ASSUME TypeOK, MutualExclusion, FailedLeave, LoopInv,
         NEW w \in Workers, ServeStep(w) \/ ClientStep(w)
  PROVE  LoopInv'
  <1>0. w \in Threads /\ ManagerInv(w) /\ RequestInv(w)
    BY DEF LoopInv, Threads
  <1>1. CASE Accept(w)
    <2>1. /\ pc[w] \in Serving /\ pc'[w] = "reset" /\ ran'[w] = {}
          /\ UNCHANGED <<depends, edge, topo, threadUp, procUp, failed>>
      BY <1>0, <1>1 DEF Accept, TypeOK, Serving
    <2>2. RequestInv(w)'
      BY <2>1 DEF RequestInv, Closed
    <2>3. QED
      BY <2>1, <2>2, WorkerLoop
  <1>2. CASE AcceptFails(w)
    <2>1. /\ pc[w] \in Serving /\ pc'[w] = "dtor"
          /\ UNCHANGED <<depends, edge, topo, pos, threadUp, procUp, ran, failed>>
      BY <1>0, <1>2 DEF AcceptFails, TypeOK, Serving
    <2>2. RequestInv(w)'
      BY <1>0, <2>1 DEF RequestInv
    <2>3. QED
      BY <2>1, <2>2, WorkerLoop
  <1>3. CASE Reset(w)
    <2>1. /\ pc[w] = "reset" /\ pc'[w] \in {"reset", "dtor"}
          /\ UNCHANGED <<depends, edge, topo, threadUp, procUp, ran, failed>>
      BY <1>0, <1>3 DEF Reset, TypeOK
    <2>2. RequestInv(w)'
      BY <1>0, <2>1 DEF RequestInv
    <2>3. QED
      BY <2>1, <2>2, WorkerLoop DEF Serving
  <1>4. CASE ResetDone(w)
    <2>1. /\ pc[w] = "reset" /\ pc'[w] = "run" /\ pos'[w] = 1
          /\ UNCHANGED <<depends, edge, topo, threadUp, procUp, ran, failed>>
      BY <1>0, <1>4 DEF ResetDone, TypeOK
    <2>2. Prefix(topo[w], 0) = {}
      BY DEF Prefix
    <2>3. RequestInv(w)'
      BY <1>0, <2>1, <2>2 DEF RequestInv
    <2>4. QED
      BY <2>1, <2>3, WorkerLoop DEF Serving
  <1>5. CASE Run(w)
    <2>0. /\ pc[w] = "run" /\ InLoop(w)
          /\ UNCHANGED <<depends, edge, topo, threadUp, procUp, failed>>
      BY <1>5 DEF Run
    <2>1. CASE RunFails(w) /\ UNCHANGED ran
      <3>1. pc'[w] = "accept"
        BY <1>0, <2>1 DEF TypeOK
      <3>2. RequestInv(w)'
        BY <1>0, <2>0, <2>1, <3>1 DEF RequestInv
      <3>3. QED
        BY <1>5, <2>0, <3>1, <3>2, WorkerLoop DEF Serving, ServeStep
    <2>2. CASE /\ ran' = [ran EXCEPT ![w] = @ \cup {Current(w)}]
               /\ SetPos(w, pos[w] + 1)
               /\ UNCHANGED pc
      <3>1. /\ pc'[w] = "run" /\ pos'[w] = pos[w] + 1
            /\ ran'[w] = ran[w] \cup {Current(w)}
        BY <1>0, <2>0, <2>2 DEF TypeOK
      <3>2. /\ topo[w] \in TopoOrders(depends) /\ pos[w] \in 1..N
            /\ Current(w) = topo[w][pos[w]]
        BY <1>0, <2>0, LoopPosition DEF Current
      <3>3. /\ Prefix(topo[w], pos[w] - 1) = ran[w]
            /\ Prefix(topo[w], pos[w] - 1) \subseteq ran[w]
            /\ Closed(depends, ran[w])
        BY <1>0, <2>0 DEF RequestInv
      <3>4. /\ Closed(depends, ran[w] \cup {topo[w][pos[w]]})
            /\ Prefix(topo[w], pos[w]) = Prefix(topo[w], pos[w] - 1) \cup {topo[w][pos[w]]}
        <4>1. topo[w] \in TopoOrders(depends) /\ pos[w] \in 1..N
          BY <3>2
        <4>2. Closed(depends, ran[w]) /\ Prefix(topo[w], pos[w] - 1) \subseteq ran[w]
          BY <3>3
        <4>3. QED
          BY <4>1, <4>2, AddNext
      <3>5. pos'[w] - 1 = pos[w] /\ pos'[w] >= 1
        BY <3>1, <3>2, NType
      <3>6. /\ Closed(depends', ran'[w])
            /\ ran'[w] = Prefix(topo'[w], pos'[w] - 1)
        BY <2>0, <3>1, <3>2, <3>3, <3>4, <3>5
      <3>7. RequestInv(w)'
        BY <3>1, <3>5, <3>6 DEF RequestInv
      <3>8. QED
        BY <1>5, <2>0, <3>1, <3>7, WorkerLoop DEF Serving, ServeStep
    <2>3. QED
      BY <1>5, <2>1, <2>2 DEF Run
  <1>6. CASE RunDone(w)
    <2>1. /\ pc[w] = "run" /\ pc'[w] = "accept"
          /\ UNCHANGED <<depends, edge, topo, pos, threadUp, procUp, ran, failed>>
      BY <1>0, <1>6 DEF RunDone, TypeOK
    <2>2. RequestInv(w)'
      BY <1>0, <2>1 DEF RequestInv
    <2>3. QED
      BY <2>1, <2>2, WorkerLoop DEF Serving
  <1>7. QED
    BY <1>1, <1>2, <1>3, <1>4, <1>5, <1>6 DEF ServeStep, ClientStep

\* main() sets up and tears down nothing itself.
LEMMA MainLoop ==
  ASSUME TypeOK, MutualExclusion, FailedLeave, LoopInv, MainStep
  PROVE  LoopInv'
  <1>0. UNCHANGED <<depends, edge, topo, pos, threadUp, procUp, ran, failed>>
    BY DEF MainStep, Spawn, SpawnDone, JoinDone
  <1>1. ASSUME NEW t \in Threads
        PROVE  \/ pc'[t] = pc[t]
               \/ pc[t] = "none" /\ pc'[t] = "start"
               \/ pc[t] \in {"spawn", "join"} /\ pc'[t] \in {"join", "dtor"}
    BY DEF MainStep, Spawn, SpawnDone, JoinDone, TypeOK, Threads
  <1>2. ASSUME NEW t \in Threads
        PROVE  ManagerInv(t)' /\ RequestInv(t)' /\ ProcessInv(t)'
    <2>1. ManagerInv(t) /\ RequestInv(t) /\ ProcessInv(t)
      BY DEF LoopInv
    <2>2. CASE pc'[t] = pc[t]
      <3>1. Untouched(t)
        BY <1>0, <2>2 DEF Untouched
      <3>2. QED
        BY <1>0, <2>1, <3>1, UntouchedInv DEF ProcessInv, Untouched
    <2>3. CASE pc[t] = "none" /\ pc'[t] = "start"
      BY <1>0, <2>1, <2>3 DEF ManagerInv, RequestInv, ProcessInv, Up, Serving, Leaving
    <2>4. CASE pc[t] \in {"spawn", "join"} /\ pc'[t] \in {"join", "dtor"}
      <3>1. t \in Up /\ t \in Up'
        BY <1>0, <2>4 DEF Up, FailedLeave, Serving, Leaving
      <3>2. ManagerInv(t)'
        BY <1>0, <2>1, <2>4, <3>1 DEF ManagerInv, Serving
      <3>3. QED
        BY <1>0, <2>1, <2>4, <3>2 DEF RequestInv, ProcessInv
    <2>5. QED
      BY <1>1, <2>2, <2>3, <2>4
  <1>3. QED
    BY <1>0, <1>2 DEF LoopInv

LEMMA NextLoopInv ==
  TypeOK /\ MutualExclusion /\ FailedLeave /\ LoopInv /\ [Next]_vars => LoopInv'
  <1> SUFFICES ASSUME TypeOK, MutualExclusion, FailedLeave, LoopInv, [Next]_vars
               PROVE  LoopInv'
    OBVIOUS
  <1>1. ASSUME NEW t \in Threads, ManagerStep(t) PROVE LoopInv'
    BY <1>1, LockForInitLoop, LoadPluginsLoop, AddAllStrategyLoop,
       BuildStrategyGraphLoop, ProcessInitLoop, ThreadInitLoop, InitDoneLoop,
       LockForDestroyLoop, ThreadDestroyLoop, ProcessDestroyLoop, DestroyDoneLoop
    DEF ManagerStep
  <1>2. CASE UNCHANGED vars
    <2>1. ASSUME NEW t \in Threads
          PROVE  ManagerInv(t)' /\ RequestInv(t)' /\ ProcessInv(t)'
      <3>1. Untouched(t)
        BY <1>2 DEF vars, Untouched
      <3>2. QED
        BY <1>2, <3>1, UntouchedInv DEF LoopInv, ProcessInv, vars
    <2>2. QED
      BY <1>2, <2>1 DEF LoopInv, vars
  <1>3. QED
    BY <1>1, <1>2, ServeLoop, MainLoop DEF Next, Stopped

LEMMA InitLoopInv == Init => FailedLeave /\ LoopInv
  <1> SUFFICES ASSUME Init PROVE FailedLeave /\ LoopInv
    OBVIOUS
  <1>1. ASSUME NEW t \in Threads
        PROVE  ManagerInv(t) /\ RequestInv(t) /\ ProcessInv(t)
    BY DEF Init, ManagerInv, RequestInv, ProcessInv, Closed, Up, Serving, Leaving
  <1>2. QED
    BY <1>1 DEF Init, LoopInv, FailedLeave, Closed

LEMMA LoopsSafe == Spec => [](FailedLeave /\ LoopInv)
  <1>1. TypeOK /\ MutualExclusion /\ FailedLeave /\ [Next]_vars => FailedLeave'
    <2> SUFFICES ASSUME TypeOK, MutualExclusion, FailedLeave, [Next]_vars
                 PROVE  FailedLeave'
      OBVIOUS
    <2>1. ASSUME NEW t \in Threads, InitDone(t) \/ DestroyDone(t) PROVE FailedLeave'
      BY <2>1 DEF InitDone, DestroyDone, Initialised, FailedLeave, TypeOK, Leaving
    <2>2. QED
      BY <2>1, CountFrame
  <1>2. QED
    BY <1>1, InitLoopInv, NextLoopInv, Typing, LockSafe, PTL DEF Spec

\* Every set of strategies a manager or the process has set up contains the
\* dependencies of its members, half-way through init(), through the destructor
\* and after any failure, whatever the plug-ins declare.
THEOREM DependenciesUp == Spec => []DependencyClosed
  <1>1. LoopInv => DependencyClosed
    BY DEF LoopInv, ManagerInv, DependencyClosed, Closed
  <1>2. QED
    BY <1>1, LoopsSafe, PTL

\* A strategy runs for a request only after all it depends on ran for it.
THEOREM DependenciesRan == Spec => []DependsRanFirst
  <1>1. LoopInv => DependsRanFirst
    BY DEF LoopInv, RequestInv, DependsRanFirst, Closed, Threads
  <1>2. QED
    BY <1>1, LoopsSafe, PTL

\* A destroyed manager left nothing set up, also when its init() failed half-way.
THEOREM SetUpUndone == Spec => []ThreadInitUndone
  <1>1. LoopInv => ThreadInitUndone
    BY DEF LoopInv, ManagerInv, ThreadInitUndone
  <1>2. QED
    BY <1>1, LoopsSafe, PTL

-----------------------------------------------------------------------------
(* Process-level state, while every init() succeeds                          *)

InInit == {"load", "add", "graph", "processInit", "threadInit"}
InDestroy == {"threadDestroy", "processDestroy"}

\* What the tests of sm_instanceNum mean to the manager that holds the lock.
EdgeInv ==
  \A t \in Threads :
    /\ pc[t] = "load" => edge[t]
    /\ pc[t] \in InInit => (edge[t] <=> Up = {})
    /\ pc[t] \in InDestroy => (edge[t] <=> Up = {t})

\* What an initialised manager may rely on.
SharedInv ==
  \A t \in Threads : pc[t] \in Serving \cup {"dtor"} => procUp = Strategies /\ pluma

\* main() initialised its manager before there was any other thread.
MainFirst ==
  \A w \in Workers : pc[w] # "none" => pc[Main] \in Serving \cup Leaving \cup {"gone"}

\* The plug-ins are loaded once, by main(), and stay until it leaves.
OneLoad ==
  /\ ~crashed
  /\ pc[Main] \in {"start", "load"} => loads = 0 /\ ~pluma
  /\ pc[Main] \notin {"start", "load", "gone"} => loads = 1 /\ pluma

CleanRun ==
  failed = {} => EdgeInv /\ SharedInv /\ MainFirst /\ OneLoad /\ CleanShutdown

Invariants ==
  TypeOK /\ MutualExclusion /\ FailedLeave /\ InstanceNumAccounting /\ LoopInv

\* sm_instanceNum tells whether no manager, or only t, is initialised.
LEMMA CountMeaning ==
  ASSUME Invariants, failed = {}
  PROVE  /\ instanceNum = Cardinality(Up)
         /\ instanceNum = 0 <=> Up = {}
         /\ \A t \in Up : instanceNum = 1 <=> Up = {t}
  <1>1. FailedAndGone = {}
    BY DEF FailedAndGone
  <1>2. Cardinality(FailedAndGone) = 0
    BY <1>1, FS_EmptySet
  <1>3. IsFiniteSet(Up) /\ Cardinality(Up) \in Nat
    BY CountedFinite DEF Invariants
  <1>4. instanceNum = Cardinality(Up)
    BY <1>2, <1>3 DEF Invariants, InstanceNumAccounting
  <1>5. instanceNum = 0 <=> Up = {}
    BY <1>3, <1>4, FS_EmptySet
  <1>6. instanceNum = 1 <=> \E x : Up = {x}
    BY <1>3, <1>4, FS_Singleton
  <1>7. QED
    BY <1>4, <1>5, <1>6

\* While t holds the lock and no init() failed, every other initialised manager is
\* outside the destructor.
LEMMA UpIsServing ==
  ASSUME Invariants, failed = {}, NEW u \in Threads, lock # u
  PROVE  u \in Up <=> pc[u] \in Serving \cup {"dtor"}
  BY DEF Invariants, MutualExclusion, Critical, Up, Serving, Leaving

\* main()'s manager is up as soon as there is another thread.
LEMMA MainUp ==
  ASSUME Invariants, failed = {}, MainFirst, Alive, NEW w \in Workers, pc[w] # "none"
  PROVE  Main \in Up /\ pc[Main] \notin {"start", "load", "gone"} /\ w # Main
  BY ThreadsAssumption DEF MainFirst, Alive, Up, Threads, Serving, Leaving

\* Nothing brings a failed manager back.
LEMMA FailedGrows ==
  ASSUME [Next]_vars
  PROVE  failed \subseteq failed'
  <1>1. ASSUME NEW t \in Threads, ManagerStep(t) PROVE failed \subseteq failed'
    BY <1>1 DEF ManagerStep, LockForInit, LoadPlugins, AddAllStrategy, BuildStrategyGraph,
         ProcessInit, ThreadInit, InitDone, LockForDestroy, ThreadDestroy,
         ProcessDestroy, DestroyDone
  <1>2. ASSUME NEW w \in Workers, ServeStep(w) \/ ClientStep(w) PROVE failed \subseteq failed'
    BY <1>2 DEF ServeStep, ClientStep, Reset, ResetDone, Run, RunDone, Accept, AcceptFails
  <1>3. ASSUME MainStep PROVE failed \subseteq failed'
    BY <1>3 DEF MainStep, Spawn, SpawnDone, JoinDone
  <1>4. CASE UNCHANGED vars
    BY <1>4 DEF vars
  <1>5. QED
    BY <1>1, <1>2, <1>3, <1>4 DEF Next, Stopped

CleanParts == EdgeInv /\ SharedInv /\ MainFirst /\ OneLoad /\ CleanShutdown

LEMMA LockForInitClean ==
  ASSUME Invariants, failed = {}, CleanParts, Alive, NEW t \in Threads,
         LockForInit(t), Up' = Up
  PROVE  CleanParts'
  <1> USE DEF CleanParts, LockForInit
  <1>t. pc \in [Threads -> Locations] /\ edge \in [Threads -> BOOLEAN]
    BY DEF Invariants, TypeOK
  <1>1. /\ pc[t] = "start"
        /\ pc'[t] = IF instanceNum = 0 THEN "load" ELSE "add"
        /\ edge'[t] = (instanceNum = 0)
        /\ \A u \in Threads \ {t} : pc'[u] = pc[u] /\ edge'[u] = edge[u]
    BY <1>t
  <1>2. edge'[t] <=> Up = {}
    BY <1>1, CountMeaning
  <1>3. \A u \in Threads : pc[u] \notin Critical
    BY ThreadsAssumption DEF Invariants, MutualExclusion
  <1>4. pc'[t] \in {"load", "add"} /\ (pc'[t] = "load" => edge'[t])
    <2>1. CASE instanceNum = 0
      BY <1>1, <2>1
    <2>2. CASE instanceNum # 0
      <3>1. pc'[t] = "add"
        BY <1>1, <2>2
      <3>2. QED
        BY <3>1
    <2>3. QED
      BY <2>1, <2>2
  <1>5. EdgeInv'
    BY <1>1, <1>2, <1>3, <1>4 DEF EdgeInv, InInit, InDestroy, Critical
  <1>6. SharedInv'
    BY <1>1, <1>4 DEF SharedInv, Serving
  <1>7. MainFirst'
    BY <1>1, <1>4, ThreadsAssumption DEF MainFirst, Threads, Serving, Leaving
  <1>8. OneLoad'
    <2>1. Main \in Threads
      BY DEF Threads
    <2>2. t = Main => pc'[t] = "load"
      <3>1. SUFFICES ASSUME t = Main PROVE instanceNum = 0
        BY <1>1
      <3>2. Up = {}
        BY <3>1, <1>1, ThreadsAssumption DEF MainFirst, Up, Threads, Serving, Leaving
      <3>3. QED
        BY <3>2, CountMeaning
    <2>3. QED
      BY <1>1, <1>4, <2>1, <2>2 DEF OneLoad
  <1>9. CleanShutdown'
    BY <1>1, <1>4 DEF CleanShutdown, Alive, Threads
  <1>10. QED
    BY <1>5, <1>6, <1>7, <1>8, <1>9

LEMMA LoadPluginsClean ==
  ASSUME Invariants, failed = {}, CleanParts, Alive, NEW t \in Threads,
         LoadPlugins(t), Up' = Up
  PROVE  CleanParts'
  <1> USE DEF CleanParts, LoadPlugins
  <1>t. pc \in [Threads -> Locations] /\ Main \in Threads /\ Workers \subseteq Threads
    BY DEF Invariants, TypeOK, Threads
  <1>1. /\ pc[t] = "load" /\ pc'[t] = "add" /\ edge' = edge
        /\ \A u \in Threads \ {t} : pc'[u] = pc[u]
    BY <1>t
  <1>2. edge[t] /\ Up = {}
    BY <1>1 DEF EdgeInv, InInit
  <1>3. t = Main
    BY <1>1, <1>2, MainUp DEF Threads
  <1>4. EdgeInv'
    BY <1>1, <1>2 DEF EdgeInv, InInit, InDestroy
  <1>5. SharedInv'
    BY <1>1, <1>2, <1>t DEF SharedInv, Up, Serving, Leaving
  <1>6. MainFirst'
    BY <1>1, <1>3, ThreadsAssumption, <1>t DEF MainFirst, Serving, Leaving
  <1>7. OneLoad'
    <2>1. loads = 0 /\ ~pluma /\ ~crashed
      BY <1>1, <1>3 DEF OneLoad
    <2>2. loads' = 1 /\ pluma' /\ ~crashed'
      BY <2>1
    <2>3. QED
      BY <1>1, <1>3, <2>2 DEF OneLoad
  <1>8. CleanShutdown'
    BY <1>1, <1>3 DEF CleanShutdown
  <1>9. QED
    BY <1>4, <1>5, <1>6, <1>7, <1>8

\* A step inside init() or inside the destructor that changes no shared state.
LEMMA InsideClean ==
  ASSUME Invariants, failed = {}, CleanParts, Alive, NEW t \in Threads,
         \/ pc[t] \in InInit /\ pc'[t] \in InInit \ {"load"}
         \/ pc[t] \in InDestroy /\ pc'[t] \in InDestroy,
         pc[t] # "load",
         \A u \in Threads \ {t} : pc'[u] = pc[u],
         UNCHANGED <<edge, pluma, loads, procUp, crashed>>, Up' = Up
  PROVE  CleanParts'
  <1> USE DEF CleanParts
  <1>t. Main \in Threads /\ Workers \subseteq Threads
    BY DEF Threads
  <1>1. EdgeInv'
    BY DEF EdgeInv, InInit, InDestroy
  <1>2. SharedInv'
    BY DEF SharedInv, InInit, InDestroy, Serving
  <1>3. MainFirst'
    BY <1>t DEF MainFirst, InInit, InDestroy, Serving, Leaving
  <1>4. OneLoad'
    BY <1>t DEF OneLoad, InInit, InDestroy
  <1>5. CleanShutdown'
    BY <1>t DEF CleanShutdown, Alive, InInit, InDestroy
  <1>6. QED
    BY <1>1, <1>2, <1>3, <1>4, <1>5

\* At addAllStrategy no provider is stale.
LEMMA NoStaleProviders ==
  ASSUME Invariants, failed = {}, CleanParts, Alive, NEW t \in Threads,
         pc[t] \in {"add", "processInit", "threadInit"}
  PROVE  ~StaleProviders /\ pluma
  <1>1. pc[Main] \notin {"start", "load", "gone"}
    <2>1. CASE t = Main
      BY <2>1
    <2>2. CASE t \in Workers
      BY <2>2, MainUp DEF CleanParts
    <2>3. QED
      BY <2>1, <2>2 DEF Threads
  <1>2. loads = 1 /\ pluma
    BY <1>1 DEF CleanParts, OneLoad
  <1>3. QED
    BY <1>2 DEF StaleProviders

LEMMA AddAllStrategyClean ==
  ASSUME Invariants, failed = {}, failed' = {}, CleanParts, Alive, NEW t \in Threads,
         AddAllStrategy(t), Up' = Up
  PROVE  CleanParts'
  <1>1. pc[t] = "add" /\ ~StaleProviders
    BY NoStaleProviders DEF AddAllStrategy
  <1>2. ~InitFails(t)
    OBVIOUS
  <1>3. /\ Goto(t, "graph") /\ UNCHANGED crashed
        /\ UNCHANGED <<edge, pluma, loads, procUp>>
    BY <1>1, <1>2 DEF AddAllStrategy
  <1>4. pc'[t] = "graph" /\ \A u \in Threads \ {t} : pc'[u] = pc[u]
    BY <1>3 DEF Invariants, TypeOK
  <1>5. QED
    BY <1>1, <1>3, <1>4, InsideClean DEF InInit

LEMMA BuildStrategyGraphClean ==
  ASSUME Invariants, failed = {}, failed' = {}, CleanParts, Alive, NEW t \in Threads,
         BuildStrategyGraph(t), Up' = Up
  PROVE  CleanParts'
  <1>1. ~InitFails(t)
    OBVIOUS
  <1>2. /\ pc[t] = "graph" /\ UNCHANGED <<edge, pluma, loads, procUp, crashed>>
        /\ Goto(t, IF edge[t] THEN "processInit" ELSE "threadInit")
    BY <1>1 DEF BuildStrategyGraph
  <1>3. /\ pc'[t] \in {"processInit", "threadInit"}
        /\ \A u \in Threads \ {t} : pc'[u] = pc[u]
    BY <1>2 DEF Invariants, TypeOK
  <1>4. QED
    BY <1>2, <1>3, InsideClean DEF InInit

LEMMA ThreadInitClean ==
  ASSUME Invariants, failed = {}, failed' = {}, CleanParts, Alive, NEW t \in Threads,
         ThreadInit(t), Up' = Up
  PROVE  CleanParts'
  <1>1. ~InitFails(t)
    OBVIOUS
  <1>2. /\ pc[t] = "threadInit" /\ UNCHANGED <<edge, pluma, loads, procUp, crashed>>
        /\ Goto(t, IF edge[t] THEN "processInit" ELSE "threadInit")
    BY <1>1 DEF ThreadInit
  <1>3. /\ pc'[t] \in {"processInit", "threadInit"}
        /\ \A u \in Threads \ {t} : pc'[u] = pc[u]
    BY <1>2 DEF Invariants, TypeOK
  <1>4. QED
    BY <1>2, <1>3, InsideClean DEF InInit

LEMMA ThreadDestroyClean ==
  ASSUME Invariants, failed = {}, CleanParts, Alive, NEW t \in Threads,
         ThreadDestroy(t), Up' = Up
  PROVE  CleanParts'
  <1>1. pc[t] = "threadDestroy" /\ UNCHANGED <<edge, pluma, loads, procUp, crashed>>
    BY DEF ThreadDestroy
  <1>2. /\ pc'[t] \in InDestroy
        /\ \A u \in Threads \ {t} : pc'[u] = pc[u]
    BY DEF ThreadDestroy, InDestroy, Invariants, TypeOK
  <1>3. QED
    BY <1>1, <1>2, InsideClean DEF InDestroy

\* While a manager works on the process-level state, no manager serves.
LEMMA NobodyServes ==
  ASSUME Invariants, failed = {}, CleanParts, NEW t \in Threads,
         pc[t] \in {"processInit", "processDestroy"}
  PROVE  edge[t] /\ \A u \in Threads : pc[u] \notin Serving \cup {"dtor"}
  <1>1. edge[t]
    BY DEF Invariants, LoopInv, ManagerInv
  <1>2. Up \subseteq {t}
    BY <1>1 DEF CleanParts, EdgeInv, InInit, InDestroy
  <1>3. QED
    BY <1>1, <1>2 DEF Up, Serving, Leaving

LEMMA ProcessInitClean ==
  ASSUME Invariants, failed = {}, failed' = {}, CleanParts, Alive, NEW t \in Threads,
         ProcessInit(t), Up' = Up
  PROVE  CleanParts'
  <1> USE DEF CleanParts
  <1>t. Main \in Threads /\ Workers \subseteq Threads
    BY DEF Threads
  <1>1. ~InitFails(t)
    OBVIOUS
  <1>2. /\ pc[t] = "processInit" /\ UNCHANGED <<edge, pluma, loads, crashed>>
        /\ Goto(t, "threadInit")
    BY <1>1 DEF ProcessInit
  <1>3. pc'[t] = "threadInit" /\ \A u \in Threads \ {t} : pc'[u] = pc[u]
    BY <1>2 DEF Invariants, TypeOK
  <1>4. EdgeInv'
    BY <1>2, <1>3 DEF EdgeInv, InInit, InDestroy
  <1>5. SharedInv'
    BY <1>2, <1>3, NobodyServes DEF SharedInv, Serving
  <1>6. MainFirst'
    BY <1>2, <1>3, <1>t DEF MainFirst, Serving, Leaving
  <1>7. OneLoad'
    BY <1>2, <1>3, <1>t DEF OneLoad
  <1>8. CleanShutdown'
    BY <1>2, <1>3, <1>t DEF CleanShutdown, Alive
  <1>9. QED
    BY <1>4, <1>5, <1>6, <1>7, <1>8

LEMMA ProcessDestroyClean ==
  ASSUME Invariants, failed = {}, CleanParts, Alive, NEW t \in Threads,
         ProcessDestroy(t), Up' = Up
  PROVE  CleanParts'
  <1> USE DEF CleanParts
  <1>t. Main \in Threads /\ Workers \subseteq Threads
    BY DEF Threads
  <1>1. pc[t] = "processDestroy" /\ UNCHANGED <<edge, pluma, loads, crashed>>
    BY DEF ProcessDestroy
  <1>2. pc'[t] = "threadDestroy" /\ \A u \in Threads \ {t} : pc'[u] = pc[u]
    BY DEF ProcessDestroy, Invariants, TypeOK
  <1>3. EdgeInv'
    BY <1>1, <1>2 DEF EdgeInv, InInit, InDestroy
  <1>4. SharedInv'
    BY <1>1, <1>2, NobodyServes DEF SharedInv, Serving
  <1>5. MainFirst'
    BY <1>1, <1>2, <1>t DEF MainFirst, Serving, Leaving
  <1>6. OneLoad'
    BY <1>1, <1>2, <1>t DEF OneLoad
  <1>7. CleanShutdown'
    BY <1>1, <1>2, <1>t DEF CleanShutdown, Alive
  <1>8. QED
    BY <1>3, <1>4, <1>5, <1>6, <1>7

\* init() returns true: the process-level state is complete, set up by this manager
\* or found from the one that counts already.
LEMMA InitDoneClean ==
  ASSUME Invariants, failed = {}, CleanParts, Alive, NEW t \in Threads, InitDone(t)
  PROVE  CleanParts'
  <1> USE DEF CleanParts
  <1>t. Main \in Threads /\ Workers \subseteq Threads
    BY DEF Threads
  <1>1. /\ pc[t] \in {"processInit", "threadInit"} /\ ~InLoop(t) /\ lock = t
        /\ UNCHANGED <<edge, pluma, loads, procUp, crashed, failed>>
    BY DEF InitDone, Invariants, MutualExclusion, Critical
  <1>2. /\ pc'[t] = Initialised(t) /\ pc'[t] \in {"spawn", "accept"}
        /\ \A u \in Threads \ {t} : pc'[u] = pc[u]
    BY DEF InitDone, Initialised, Invariants, TypeOK
  <1>3. \A u \in Threads \ {t} : pc[u] \notin Critical
    BY <1>1 DEF Invariants, MutualExclusion
  <1>4. procUp = Strategies
    <2>1. CASE Up = {}
      <3>1. edge[t]
        BY <1>1, <2>1 DEF EdgeInv, InInit
      <3>2. ManagerInv(t) /\ ProcessInv(t) /\ pos[t] \in 0..(N + 1) /\ procUp \subseteq Strategies
        BY DEF Invariants, LoopInv, TypeOK
      <3>3. topo[t] \in TopoOrders(depends) /\ Len(topo[t]) = N
        BY <1>1, <3>2, OrderIsSequence DEF ManagerInv
      <3>4. pos[t] = N + 1
        BY <1>1, <3>2, <3>3, NType DEF ManagerInv, InLoop
      <3>5. pc[t] = "processInit"
        BY <1>1, <3>1, <3>2, <3>4, NType DEF ManagerInv
      <3>6. Prefix(topo[t], N) \subseteq procUp
        BY <3>2, <3>4, <3>5, NType DEF ProcessInv
      <3>7. QED
        BY <3>2, <3>3, <3>6, FullPrefix
    <2>2. CASE Up # {}
      <3>1. PICK u \in Threads : u \in Up
        BY <2>2 DEF Up
      <3>2. u # t
        BY <1>1, <3>1 DEF Up, Serving, Leaving
      <3>3. pc[u] \in Serving \cup {"dtor"}
        BY <1>1, <3>1, <3>2, UpIsServing
      <3>4. QED
        BY <3>3 DEF SharedInv
    <2>3. QED
      BY <2>1, <2>2
  <1>5. pluma
    BY <1>1, NoStaleProviders
  <1>6. EdgeInv'
    BY <1>2, <1>3 DEF EdgeInv, InInit, InDestroy, Critical
  <1>7. SharedInv'
    BY <1>1, <1>4, <1>5 DEF SharedInv
  <1>8. MainFirst'
    BY <1>1, <1>2, <1>t, ThreadsAssumption DEF MainFirst, Initialised, Serving, Leaving
  <1>9. OneLoad'
    BY <1>1, <1>2, <1>t DEF OneLoad
  <1>10. CleanShutdown'
    BY <1>2, <1>t DEF CleanShutdown, Alive
  <1>11. QED
    BY <1>6, <1>7, <1>8, <1>9, <1>10

LEMMA LockForDestroyClean ==
  ASSUME Invariants, failed = {}, CleanParts, Alive, NEW t \in Threads,
         LockForDestroy(t), Up' = Up
  PROVE  CleanParts'
  <1> USE DEF CleanParts
  <1>t. Main \in Threads /\ Workers \subseteq Threads
    BY DEF Threads
  <1>1. /\ pc[t] = "dtor" /\ lock = NoThread
        /\ UNCHANGED <<pluma, loads, procUp, crashed>>
    BY DEF LockForDestroy
  <1>2. /\ pc'[t] = "threadDestroy" /\ edge'[t] = LastManager
        /\ \A u \in Threads \ {t} : pc'[u] = pc[u] /\ edge'[u] = edge[u]
    BY DEF LockForDestroy, Invariants, TypeOK
  <1>3. t \in Up
    BY <1>1 DEF Up, Leaving
  <1>4. edge'[t] <=> Up = {t}
    BY <1>2, <1>3, CountMeaning
  <1>5. \A u \in Threads : pc[u] \notin Critical
    BY <1>1, ThreadsAssumption DEF Invariants, MutualExclusion
  <1>6. EdgeInv'
    BY <1>2, <1>4, <1>5 DEF EdgeInv, InInit, InDestroy, Critical
  <1>7. SharedInv'
    BY <1>1, <1>2 DEF SharedInv, Serving
  <1>8. MainFirst'
    BY <1>1, <1>2, <1>t DEF MainFirst, Leaving
  <1>9. OneLoad'
    BY <1>1, <1>2, <1>t DEF OneLoad
  <1>10. CleanShutdown'
    BY <1>2, <1>t DEF CleanShutdown, Alive
  <1>11. QED
    BY <1>6, <1>7, <1>8, <1>9, <1>10

\* The end of the destructor: the plug-ins go only with the last manager, and that
\* is main()'s.
LEMMA DestroyDoneClean ==
  ASSUME Invariants, failed = {}, CleanParts, Alive, InstanceNumAccounting',
         NEW t \in Threads, DestroyDone(t)
  PROVE  CleanParts'
  <1> USE DEF CleanParts
  <1>t. Main \in Threads /\ Workers \subseteq Threads
    BY DEF Threads
  <1>1. /\ pc[t] = "threadDestroy" /\ ~InLoop(t) /\ lock = t
        /\ UNCHANGED <<edge, loads, procUp, crashed, failed>>
        /\ pluma' = (pluma /\ ~edge[t])
    BY DEF DestroyDone, Invariants, MutualExclusion, Critical
  <1>2. pc'[t] = "gone" /\ \A u \in Threads \ {t} : pc'[u] = pc[u]
    BY DEF DestroyDone, Invariants, TypeOK
  <1>3. \A u \in Threads \ {t} : pc[u] \notin Critical
    BY <1>1 DEF Invariants, MutualExclusion
  <1>4. edge[t] <=> Up = {t}
    BY <1>1 DEF EdgeInv, InDestroy
  <1>5. t # Main => Main \in Up /\ pc[Main] \notin {"start", "load", "gone"}
    BY <1>1, MainUp DEF Threads
  <1>6. EdgeInv'
    BY <1>1, <1>2, <1>3 DEF EdgeInv, InInit, InDestroy, Critical
  <1>7. SharedInv'
    <2>1. CASE edge[t]
      BY <1>2, <1>4, <2>1 DEF SharedInv, Up, Serving, Leaving
    <2>2. CASE ~edge[t]
      BY <1>1, <1>2, <2>2 DEF SharedInv, Serving
    <2>3. QED
      BY <2>1, <2>2
  <1>8. MainFirst'
    BY <1>1, <1>2, <1>t DEF MainFirst
  <1>9. OneLoad'
    <2>1. CASE t = Main
      BY <1>1, <1>2, <2>1 DEF OneLoad
    <2>2. CASE t # Main
      <3>1. ~edge[t]
        BY <1>4, <1>5, <2>2
      <3>2. pluma' /\ pc'[Main] = pc[Main]
        BY <1>1, <1>2, <1>5, <1>t, <2>2, <3>1 DEF OneLoad
      <3>3. QED
        BY <1>1, <1>5, <2>2, <3>2 DEF OneLoad
    <2>3. QED
      BY <2>1, <2>2
  <1>10. CleanShutdown'
    <2>1. SUFFICES ASSUME t = Main, Joined'
                   PROVE  instanceNum' = 0 /\ procUp' = {} /\ ~pluma'
      BY <1>2, <1>t DEF CleanShutdown, Alive
    <2>2. \A w \in Workers : pc[w] \in {"none", "gone"}
      BY <1>2, <2>1, ThreadsAssumption, <1>t DEF Joined
    <2>3. Up = {Main} /\ Up' = {}
      BY <1>1, <1>2, <2>1, <2>2, ThreadsAssumption DEF Up, Threads, Serving, Leaving
    <2>4. edge[t]
      BY <1>4, <2>1, <2>3
    <2>5. ManagerInv(t) /\ ProcessInv(t) /\ pos[t] \in 0..(N + 1)
      BY DEF Invariants, LoopInv, TypeOK
    <2>6. topo[t] \in TopoOrders(depends) /\ Len(topo[t]) = N
      BY <2>1, <2>3, <2>5, OrderIsSequence DEF ManagerInv
    <2>7. pos[t] = 0
      BY <1>1, <2>5, <2>6, NType DEF ManagerInv, InLoop
    <2>8. procUp = {}
      <3>1. CASE topo[t] = <<>>
        <4>1. N = 0
          BY <2>6, <3>1
        <4>2. Strategies = {}
          BY <2>6, <4>1, FullPrefix DEF Prefix
        <4>3. QED
          BY <4>2 DEF Invariants, TypeOK
      <3>2. CASE topo[t] # <<>>
        BY <1>1, <2>4, <2>5, <2>7, <3>2 DEF ProcessInv, Prefix
      <3>3. QED
        BY <3>1, <3>2
    <2>9. instanceNum' = 0
      <3>1. FailedAndGone' = {}
        BY <1>1 DEF FailedAndGone
      <3>2. QED
        BY <2>3, <3>1, FS_EmptySet DEF InstanceNumAccounting
    <2>10. QED
      BY <1>1, <2>4, <2>8, <2>9
  <1>11. QED
    BY <1>6, <1>7, <1>8, <1>9, <1>10

LEMMA ServeClean ==
  ASSUME Invariants, failed = {}, CleanParts, Alive, NEW w \in Workers,
         ServeStep(w) \/ ClientStep(w), Up' = Up
  PROVE  CleanParts'
  <1> USE DEF CleanParts
  <1>t. w \in Threads /\ Main \in Threads /\ Workers \subseteq Threads /\ w # Main
    BY ThreadsAssumption DEF Threads
  <1>1. /\ pc[w] \in Serving /\ pc'[w] \in {"accept", "reset", "run", "dtor"}
        /\ \A u \in Threads \ {w} : pc'[u] = pc[u]
        /\ UNCHANGED <<edge, pluma, loads, procUp, crashed>>
    BY <1>t DEF ServeStep, ClientStep, Reset, ResetDone, Run, RunDone, Accept, AcceptFails,
            Invariants, TypeOK, Serving
  <1>2. EdgeInv'
    BY <1>1, <1>t DEF EdgeInv, InInit, InDestroy
  <1>3. SharedInv'
    BY <1>1, <1>t DEF SharedInv
  <1>4. MainFirst'
    BY <1>1, <1>t DEF MainFirst, Serving
  <1>5. OneLoad'
    BY <1>1, <1>t DEF OneLoad
  <1>6. CleanShutdown'
    BY <1>1, <1>t DEF CleanShutdown, Alive
  <1>7. QED
    BY <1>2, <1>3, <1>4, <1>5, <1>6

LEMMA MainClean ==
  ASSUME Invariants, failed = {}, CleanParts, Alive, MainStep, Up' = Up
  PROVE  CleanParts'
  <1> USE DEF CleanParts
  <1>t. Main \in Threads /\ Workers \subseteq Threads /\ Main \notin Workers
    BY ThreadsAssumption DEF Threads
  <1>1. /\ UNCHANGED <<edge, pluma, loads, procUp, crashed>>
        /\ pc[Main] \in {"spawn", "join"} /\ pc'[Main] \in {"spawn", "join", "dtor"}
        /\ \A w \in Workers : pc'[w] = pc[w] \/ pc'[w] = "start"
    BY <1>t DEF MainStep, Spawn, SpawnDone, JoinDone, Invariants, TypeOK
  <1>2. EdgeInv'
    BY <1>1, <1>t DEF EdgeInv, InInit, InDestroy, Threads
  <1>3. SharedInv'
    BY <1>1, <1>t DEF SharedInv, Threads, Serving
  <1>4. MainFirst'
    BY <1>1, <1>t DEF MainFirst, Serving, Leaving
  <1>5. OneLoad'
    BY <1>1, <1>t DEF OneLoad
  <1>6. CleanShutdown'
    BY <1>1, <1>t DEF CleanShutdown
  <1>7. QED
    BY <1>2, <1>3, <1>4, <1>5, <1>6

LEMMA NextCleanRun ==
  Invariants /\ Invariants' /\ CleanRun /\ [Next]_vars => CleanRun'
  <1> SUFFICES ASSUME Invariants, Invariants', CleanRun, [Next]_vars, failed' = {}
               PROVE  CleanParts'
    BY DEF CleanRun, CleanParts
  <1>1. failed = {} /\ CleanParts
    BY FailedGrows DEF CleanRun, CleanParts
  <1>2. CASE UNCHANGED vars
    BY <1>1, <1>2 DEF vars, CleanParts, EdgeInv, SharedInv, MainFirst, OneLoad, CleanShutdown,
       Up, Joined
  <1>3. CASE Alive /\ ~UNCHANGED vars
    <2>1. ASSUME \A t \in Threads : ~InitDone(t) /\ ~DestroyDone(t) PROVE Up' = Up
      BY <2>1, CountFrame DEF Invariants
    <2>2. CASE \E t \in Threads : InitDone(t) \/ DestroyDone(t)
      BY <1>1, <1>3, <2>2, InitDoneClean, DestroyDoneClean DEF Invariants
    <2>3. CASE \A t \in Threads : ~InitDone(t) /\ ~DestroyDone(t)
      <3>1. Up' = Up
        BY <2>1, <2>3
      <3>2. ASSUME NEW t \in Threads, ManagerStep(t) PROVE CleanParts'
        BY <1>1, <1>3, <2>3, <3>1, <3>2, LockForInitClean, LoadPluginsClean,
           AddAllStrategyClean, BuildStrategyGraphClean, ProcessInitClean,
           ThreadInitClean, LockForDestroyClean, ThreadDestroyClean, ProcessDestroyClean
        DEF ManagerStep
      <3>3. QED
        BY <1>1, <1>3, <3>1, <3>2, ServeClean, MainClean DEF Next, Stopped
    <2>4. QED
      BY <2>2, <2>3
  <1>4. QED
    BY <1>2, <1>3 DEF Next, Stopped

LEMMA CleanRunSafe == Spec => [](Invariants /\ CleanRun)
  <1>1. Init => CleanRun
    <2> SUFFICES ASSUME Init PROVE CleanParts
      BY DEF CleanRun, CleanParts
    <2>1. Main \in Threads /\ Main \notin Workers /\ Workers \subseteq Threads
      BY ThreadsAssumption DEF Threads
    <2>2. \A t \in Threads : pc[t] \in {"start", "none"}
      BY DEF Init
    <2>3. EdgeInv /\ SharedInv
      BY <2>2 DEF EdgeInv, SharedInv, InInit, InDestroy, Serving
    <2>4. MainFirst /\ OneLoad /\ CleanShutdown
      BY <2>1 DEF Init, MainFirst, OneLoad, CleanShutdown
    <2>5. QED
      BY <2>3, <2>4 DEF CleanParts
  <1>2. Spec => []Invariants
    BY Typing, LockSafe, Accounting, LoopsSafe, PTL DEF Invariants
  <1>3. QED
    BY <1>1, <1>2, NextCleanRun, PTL DEF Spec

\* While every init() succeeded, an initialised manager finds its strategies, the
\* process-level state and the plug-ins in place, however many threads come and go.
THEOREM SharedStateStaysUp == Spec => []SharedStateUp
  <1>1. Invariants /\ CleanRun => SharedStateUp
    BY DEF Invariants, LoopInv, ManagerInv, CleanRun, SharedInv, SharedStateUp, Up,
       Serving, Leaving
  <1>2. QED
    BY <1>1, CleanRunSafe, PTL

\* As long as no init() failed, processInit and processDestroy run while no other
\* manager is initialised: they need no lock against run().
ProcessLevelAlone ==
  failed = {} =>
    \A t \in Threads : pc[t] \in {"processInit", "processDestroy"} => Up \subseteq {t}

\* processInit and processDestroy meet no other initialised manager.
THEOREM ProcessLevelExclusive == Spec => []ProcessLevelAlone
  <1>1. Invariants /\ CleanRun => ProcessLevelAlone
    <2> SUFFICES ASSUME Invariants, CleanRun, failed = {}, NEW t \in Threads,
                        pc[t] \in {"processInit", "processDestroy"}
                 PROVE  Up \subseteq {t}
      BY DEF ProcessLevelAlone
    <2>1. edge[t]
      BY DEF Invariants, LoopInv, ManagerInv
    <2>2. QED
      BY <2>1 DEF CleanRun, EdgeInv, InInit, InDestroy
  <1>2. QED
    BY <1>1, CleanRunSafe, PTL

\* No provider is called after unloadAll deleted it.
THEOREM NoDeletedProvider == Spec => []ProvidersAlive
  <1>1. CleanRun => ProvidersAlive
    BY DEF CleanRun, OneLoad, ProvidersAlive
  <1>2. QED
    BY <1>1, CleanRunSafe, PTL

\* A run in which every init() succeeded and every thread was joined ends with
\* nothing set up, nothing loaded and sm_instanceNum back at 0.
THEOREM ShutdownClean == Spec => []CleanShutdown
  <1>1. CleanRun => CleanShutdown
    BY DEF CleanRun, CleanShutdown
  <1>2. QED
    BY <1>1, CleanRunSafe, PTL

-----------------------------------------------------------------------------
(* The managers implement PluginPlatform.  The platform is a function of who  *)
(* is a member and who moves it, so a step of the managers is matched to a    *)
(* step of the promise by what it does to these two.                         *)

\* The helpers that every action is built from.
USE DEF Goto, SetPos, shared, LockFree, FirstManager, LastManager, CountAfterDestroy,
        DestroyStart, InitFails, RunFails

\* When nobody is initialised and nobody is inside init() or the destructor, the
\* process has no plug-ins and no process-level state.
EmptyIsDown ==
  failed = {} /\ lock = NoThread /\ Up = {} => ~pluma /\ procUp = {}

\* The last manager takes all process-level state down.
LEMMA LastTakesAllDown ==
  ASSUME Invariants, failed = {}, NEW t \in Threads, DestroyDone(t), edge[t], t \in Up
  PROVE  procUp = {}
  <1>1. pc[t] = "threadDestroy" /\ ~InLoop(t)
    BY DEF DestroyDone
  <1>2. ManagerInv(t) /\ ProcessInv(t) /\ pos[t] \in 0..(N + 1) /\ procUp \subseteq Strategies
    BY DEF Invariants, LoopInv, TypeOK
  <1>3. topo[t] \in TopoOrders(depends) /\ Len(topo[t]) = N
    BY <1>2, OrderIsSequence DEF ManagerInv
  <1>4. pos[t] = 0
    BY <1>1, <1>2, <1>3, NType DEF ManagerInv, InLoop
  <1>5. CASE topo[t] = <<>>
    <2>1. N = 0
      BY <1>3, <1>5
    <2>2. Strategies = {}
      BY <1>3, <2>1, FullPrefix DEF Prefix
    <2>3. QED
      BY <1>2, <2>2
  <1>6. CASE topo[t] # <<>>
    BY <1>1, <1>2, <1>4, <1>6 DEF ProcessInv, Prefix
  <1>7. QED
    BY <1>5, <1>6

-----------------------------------------------------------------------------
(* The platform                                                              *)

Sound == Invariants /\ CleanRun /\ EmptyIsDown

\* While nobody moves it, the initialised managers are the members.
LEMMA MembersAreUp ==
  ASSUME Sound, failed = {}, Mover = NoThread
  PROVE  Up = {} <=> Members = {}
  <1>1. Members \subseteq Up
    BY DEF Members, Up, Leaving
  <1>2. ASSUME NEW t \in Up PROVE Members # {}
    <2>1. CASE t \in Members
      BY <2>1
    <2>2. CASE t \notin Members
      <3>1. t \in Threads /\ pc[t] \in InDestroy /\ lock = t
        BY <2>2 DEF Members, Up, Leaving, InDestroy, Sound, Invariants, MutualExclusion, Critical
      <3>2. ~edge[t]
        BY <3>1, ThreadsAssumption DEF Mover
      <3>3. PICK u \in Up : u # t
        BY <1>2, <3>1, <3>2 DEF Sound, CleanRun, EdgeInv
      <3>4. u \in Threads
        BY DEF Up
      <3>5. u \in Members
        BY <3>1, <3>3, <3>4, UpIsServing DEF Members, Sound
      <3>6. QED
        BY <3>5
    <2>3. QED
      BY <2>1, <2>2
  <1>3. QED
    BY <1>1, <1>2

\* The platform follows from who is a member and who moves it.
PlatformKnown ==
  failed = {} =>
    PlatformState = IF Mover # NoThread THEN "moving"
                    ELSE IF Members = {} THEN "down" ELSE "up"

LEMMA PlatformFollows == Sound => PlatformKnown
  <1> SUFFICES ASSUME Sound, failed = {}
               PROVE  PlatformState = IF Mover # NoThread THEN "moving"
                                      ELSE IF Members = {} THEN "down" ELSE "up"
    BY DEF PlatformKnown
  <1>1. CASE Mover # NoThread
    BY <1>1 DEF PlatformState
  <1>2. CASE Mover = NoThread /\ Members # {}
    <2>1. PICK t \in Threads : pc[t] \in Serving \cup {"dtor"}
      BY <1>2 DEF Members
    <2>2. pluma /\ procUp = Strategies
      BY <2>1 DEF Sound, CleanRun, SharedInv
    <2>3. QED
      BY <1>2, <2>2 DEF PlatformState
  <1>3. CASE Mover = NoThread /\ Members = {}
    <2>1. Up = {}
      BY <1>3, MembersAreUp
    <2>2. lock = NoThread
      <3>1. SUFFICES ASSUME lock # NoThread PROVE FALSE
        OBVIOUS
      <3>2. lock \in Threads /\ pc[lock] \in Critical /\ ~edge[lock]
        BY <1>3, <3>1 DEF Sound, Invariants, TypeOK, MutualExclusion, Mover
      <3>3. pc[lock] \notin InInit
        BY <2>1, <3>2 DEF Sound, CleanRun, EdgeInv
      <3>4. lock \in Up
        BY <3>2, <3>3 DEF Up, Leaving, InInit, Critical
      <3>5. QED
        BY <2>1, <3>4
    <2>3. ~pluma /\ procUp = {}
      BY <2>1, <2>2 DEF Sound, EmptyIsDown
    <2>4. QED
      BY <1>3, <2>3 DEF PlatformState
  <1>4. QED
    BY <1>1, <1>2, <1>3

-----------------------------------------------------------------------------
(* The steps                                                                 *)

\* What a step of the promise does to members and mover.
Moves(t) ==
  \/ Mover = NoThread /\ Members = {} /\ Mover' = t /\ Members' = {}
  \/ Mover = t /\ Mover' = NoThread /\ Members' = {t}
  \/ /\ Mover = NoThread /\ Members # {} /\ t \notin Members
     /\ Mover' = NoThread /\ Members' = Members \cup {t}
  \/ /\ Mover = NoThread /\ t \in Members /\ Members # {t}
     /\ Mover' = NoThread /\ Members' = Members \ {t}
  \/ Mover = NoThread /\ Members = {t} /\ Mover' = t /\ Members' = {}
  \/ Mover = t /\ Members = {} /\ Mover' = NoThread /\ Members' = {}

Stays == Members' = Members /\ Mover' = Mover

\* What the test of the manager inside init() or the destructor says of the members.
LEMMA InsideMembers ==
  ASSUME Sound, failed = {}, NEW t \in Threads, lock = t
  PROVE  /\ t \notin Members
         /\ Mover = IF edge[t] THEN t ELSE NoThread
         /\ edge[t] => Members = {}
         /\ pc[t] \in InInit /\ ~edge[t] => Members # {}
  <1>1. t # NoThread /\ pc[t] \in Critical
    BY ThreadsAssumption DEF Sound, Invariants, MutualExclusion
  <1>2. t \notin Members
    BY <1>1 DEF Members, Critical, Serving
  <1>3. Mover = IF edge[t] THEN t ELSE NoThread
    BY <1>1 DEF Mover
  <1>4. Members \subseteq Up
    BY DEF Members, Up, Leaving
  <1>5. pc[t] \in InInit \/ pc[t] \in InDestroy
    BY <1>1 DEF Critical, InInit, InDestroy
  <1>6. edge[t] => Members = {}
    BY <1>2, <1>4, <1>5 DEF Sound, CleanRun, EdgeInv
  <1>7. ASSUME pc[t] \in InInit, ~edge[t] PROVE Members # {}
    <2>1. PICK u \in Threads : u \in Up
      BY <1>7 DEF Sound, CleanRun, EdgeInv, Up
    <2>2. u # t
      BY <1>7, <2>1 DEF Up, InInit, Serving, Leaving
    <2>3. u \in Members
      BY <2>1, <2>2, UpIsServing DEF Sound, Members
    <2>4. QED
      BY <2>3
  <1>8. QED
    BY <1>2, <1>3, <1>6, <1>7

\* A step inside init() or the destructor that keeps the lock.
LEMMA InsideStays ==
  ASSUME Sound, NEW t \in Threads, pc[t] \in Critical, pc'[t] \in Critical,
         \A u \in Threads \ {t} : pc'[u] = pc[u], UNCHANGED <<lock, edge>>
  PROVE  Stays
  BY DEF Stays, Members, Mover, Critical, Serving

LEMMA LockForInitMoves ==
  ASSUME Sound, failed = {}, NEW t \in Threads, LockForInit(t)
  PROVE  Stays \/ Moves(t)
  <1>1. /\ pc[t] = "start" /\ lock = NoThread /\ lock' = t
        /\ pc'[t] \in {"load", "add"} /\ \A u \in Threads \ {t} : pc'[u] = pc[u]
        /\ edge'[t] = FirstManager
    BY DEF LockForInit, Sound, Invariants, TypeOK
  <1>2. Members' = Members
    BY <1>1 DEF Members, Serving
  <1>3. Mover = NoThread
    BY <1>1 DEF Mover
  <1>4. Mover' = IF FirstManager THEN t ELSE NoThread
    BY <1>1, ThreadsAssumption DEF Mover
  <1>5. FirstManager => Members = {}
    BY <1>3, CountMeaning, MembersAreUp DEF Sound
  <1>6. QED
    BY <1>2, <1>3, <1>4, <1>5 DEF Stays, Moves

LEMMA InitDoneMoves ==
  ASSUME Sound, failed = {}, NEW t \in Threads, InitDone(t)
  PROVE  Moves(t)
  <1>1. pc[t] \in InInit /\ lock = t
    BY DEF InitDone, InInit, Sound, Invariants, MutualExclusion, Critical
  <1>2. /\ pc'[t] \in {"spawn", "accept"} /\ lock' = NoThread
        /\ \A u \in Threads \ {t} : pc'[u] = pc[u]
    BY DEF InitDone, Initialised, Sound, Invariants, TypeOK
  <1>3. Members' = Members \cup {t} /\ Mover' = NoThread
    BY <1>2 DEF Members, Mover, Serving
  <1>4. QED
    BY <1>1, <1>3, InsideMembers DEF Moves

LEMMA LockForDestroyMoves ==
  ASSUME Sound, failed = {}, NEW t \in Threads, LockForDestroy(t)
  PROVE  Moves(t)
  <1>1. /\ pc[t] = "dtor" /\ lock = NoThread /\ lock' = t
        /\ pc'[t] = "threadDestroy" /\ \A u \in Threads \ {t} : pc'[u] = pc[u]
        /\ edge'[t] = LastManager
    BY DEF LockForDestroy, Sound, Invariants, TypeOK
  <1>2. t \in Members /\ Members' = Members \ {t}
    BY <1>1 DEF Members, Serving
  <1>3. Mover = NoThread /\ Mover' = IF LastManager THEN t ELSE NoThread
    BY <1>1, ThreadsAssumption DEF Mover
  <1>4. t \in Up /\ Members \subseteq Up
    BY <1>1 DEF Up, Members, Leaving
  <1>5. Up \subseteq Members
    BY <1>1, ThreadsAssumption DEF Up, Members, Leaving, Sound, Invariants, MutualExclusion, Critical
  <1>6. LastManager <=> Members = {t}
    BY <1>4, <1>5, CountMeaning DEF Sound
  <1>7. QED
    BY <1>2, <1>3, <1>6 DEF Moves

LEMMA DestroyDoneMoves ==
  ASSUME Sound, failed = {}, NEW t \in Threads, DestroyDone(t)
  PROVE  Stays \/ Moves(t)
  <1>1. lock = t
    BY DEF DestroyDone, Sound, Invariants, MutualExclusion, Critical
  <1>2. /\ pc[t] = "threadDestroy" /\ pc'[t] = "gone" /\ lock' = NoThread
        /\ \A u \in Threads \ {t} : pc'[u] = pc[u]
    BY DEF DestroyDone, Sound, Invariants, TypeOK
  <1>3. Members' = Members /\ Mover' = NoThread
    BY <1>2 DEF Members, Mover, Serving
  <1>4. QED
    BY <1>1, <1>3, InsideMembers DEF Moves, Stays

\* Every step of a manager.
LEMMA ManagerMoves ==
  ASSUME Sound, failed = {}, failed' = {}, NEW t \in Threads, ManagerStep(t)
  PROVE  Stays \/ Moves(t)
  <1>1. CASE LockForInit(t) \/ InitDone(t) \/ LockForDestroy(t) \/ DestroyDone(t)
    BY <1>1, LockForInitMoves, InitDoneMoves, LockForDestroyMoves, DestroyDoneMoves
  <1>2. ~InitFails(t)
    BY DEF InitFails
  <1>3. CASE AddAllStrategy(t) \/ LoadPlugins(t) \/ BuildStrategyGraph(t) \/ ProcessInit(t)
             \/ ThreadInit(t) \/ ThreadDestroy(t) \/ ProcessDestroy(t)
    <2>1. /\ pc[t] \in Critical /\ pc'[t] \in Critical /\ UNCHANGED <<lock, edge>>
          /\ \A u \in Threads \ {t} : pc'[u] = pc[u]
      BY <1>2, <1>3 DEF AddAllStrategy, LoadPlugins, BuildStrategyGraph, ProcessInit,
         ThreadInit, ThreadDestroy, ProcessDestroy, Critical, Goto, Sound, Invariants, TypeOK
    <2>2. QED
      BY <2>1, InsideStays
  <1>4. QED
    BY <1>1, <1>3 DEF ManagerStep

\* Serving requests and starting and joining threads changes no membership.
LEMMA OthersStay ==
  ASSUME Sound,
         \/ \E w \in Workers : ServeStep(w) \/ ClientStep(w)
         \/ MainStep
         \/ UNCHANGED vars
  PROVE  Stays /\ UNCHANGED <<lock, pluma, procUp>> /\ Up' = Up
  <1>t. Main \in Threads /\ Workers \subseteq Threads
    BY DEF Threads
  <1>1. CASE UNCHANGED vars
    BY <1>1 DEF vars, Stays, Members, Mover, Up
  <1>2. ASSUME NEW w \in Workers, ServeStep(w) \/ ClientStep(w)
        PROVE  Stays /\ UNCHANGED <<lock, pluma, procUp>> /\ Up' = Up
    <2>1. /\ pc[w] \in Serving /\ pc'[w] \in {"accept", "reset", "run", "dtor"}
          /\ \A u \in Threads \ {w} : pc'[u] = pc[u]
          /\ UNCHANGED <<edge, lock, pluma, procUp, failed>>
      BY <1>2, <1>t DEF ServeStep, ClientStep, Reset, ResetDone, Run, RunDone, Accept,
         AcceptFails, Sound, Invariants, TypeOK, Serving
    <2>2. QED
      <3>1. w \notin failed
        BY <2>1 DEF Sound, Invariants, FailedLeave, Serving, Leaving
      <3>2. Stays
        BY <1>t, <2>1 DEF Stays, Members, Mover, Serving
      <3>3. Up' = Up
        BY <1>t, <2>1, <3>1 DEF Up, Serving, Leaving
      <3>4. QED
        BY <2>1, <3>2, <3>3
  <1>3. CASE MainStep
    <2>1. /\ UNCHANGED <<edge, lock, pluma, procUp, failed>>
          /\ \/ /\ pc[Main] \in {"spawn", "join"} /\ pc'[Main] \in {"join", "dtor"}
                /\ \A u \in Threads \ {Main} : pc'[u] = pc[u]
             \/ \E w \in Workers : /\ pc[w] = "none" /\ pc'[w] = "start"
                                    /\ \A u \in Threads \ {w} : pc'[u] = pc[u]
      BY <1>3, <1>t DEF MainStep, Spawn, SpawnDone, JoinDone, Sound, Invariants, TypeOK
    <2>2. Main \in failed => pc[Main] \notin {"spawn", "join"}
      BY DEF Sound, Invariants, FailedLeave, Leaving
    <2>3. Stays
      BY <1>t, <2>1 DEF Stays, Members, Mover, Serving
    <2>4. Up' = Up
      BY <1>t, <2>1, <2>2 DEF Up, Serving, Leaving
    <2>5. QED
      BY <2>1, <2>3, <2>4
  <1>4. QED
    BY <1>1, <1>2, <1>3

\* Only the last manager leaves nobody behind, and it unloads everything.
LEMMA NextEmptyIsDown ==
  Sound /\ [Next]_vars => EmptyIsDown'
  <1> SUFFICES ASSUME Sound, [Next]_vars, failed' = {}, lock' = NoThread, Up' = {}
               PROVE  ~pluma' /\ procUp' = {}
    BY DEF EmptyIsDown
  <1>1. failed = {}
    BY FailedGrows
  <1>2. ASSUME NEW t \in Threads, ManagerStep(t) PROVE ~pluma' /\ procUp' = {}
    <2>1. CASE InitDone(t)
      <3>1. pc'[t] \in {"spawn", "accept"}
        BY <2>1 DEF InitDone, Initialised, Sound, Invariants, TypeOK
      <3>2. t \in Up'
        BY <3>1 DEF Up, Serving
      <3>3. QED
        BY <3>2
    <2>2. CASE DestroyDone(t)
      <3>1. /\ pc[t] = "threadDestroy" /\ \A u \in Threads \ {t} : pc'[u] = pc[u]
            /\ pluma' = (pluma /\ ~edge[t]) /\ procUp' = procUp
        BY <2>2 DEF DestroyDone, Sound, Invariants, TypeOK
      <3>2. t \in Up
        BY <1>1, <3>1 DEF Up, Leaving
      <3>3. Up \subseteq {t}
        BY <1>1, <3>1 DEF Up
      <3>4. edge[t]
        BY <1>1, <3>1, <3>2, <3>3 DEF Sound, CleanRun, EdgeInv, InDestroy
      <3>5. procUp = {}
        BY <1>1, <2>2, <3>2, <3>4, LastTakesAllDown DEF Sound
      <3>6. QED
        BY <3>1, <3>4, <3>5
    <2>3. ~InitFails(t)
      BY <1>1 DEF InitFails
    <2>4. ~InitDone(t) /\ ~DestroyDone(t) => lock' \in Threads
      BY <1>2, <2>3 DEF ManagerStep, LockForInit, LoadPlugins, AddAllStrategy,
         BuildStrategyGraph, ProcessInit, ThreadInit, LockForDestroy, ThreadDestroy,
         ProcessDestroy, Sound, Invariants, MutualExclusion, Critical
    <2>5. QED
      BY <2>1, <2>2, <2>4, ThreadsAssumption
  <1>3. CASE \/ \E w \in Workers : ServeStep(w) \/ ClientStep(w)
             \/ MainStep
             \/ UNCHANGED vars
    BY <1>1, <1>3, OthersStay DEF Sound, EmptyIsDown
  <1>4. QED
    BY <1>2, <1>3 DEF Next, Stopped

LEMMA SoundSafe == Spec => [](Sound /\ PlatformKnown)
  <1>1. Init => EmptyIsDown
    BY DEF Init, EmptyIsDown
  <1>2. QED
    BY <1>1, CleanRunSafe, NextEmptyIsDown, PlatformFollows, PTL DEF Spec, Sound

-----------------------------------------------------------------------------
(* The refinement                                                            *)

\* A step while every init() succeeded is a step of the promise or none.
LEMMA CleanStep ==
  ASSUME PlatformKnown, PlatformKnown', failed = {}, failed' = {},
         Stays \/ \E t \in Threads : Moves(t)
  PROVE  [Platform!Next]_(Platform!pvars)
  <1>1. /\ PlatformState = IF Mover # NoThread THEN "moving"
                           ELSE IF Members = {} THEN "down" ELSE "up"
        /\ PlatformState' = IF Mover' # NoThread THEN "moving"
                            ELSE IF Members' = {} THEN "down" ELSE "up"
    BY DEF PlatformKnown
  <1>2. CASE Stays
    BY <1>1, <1>2 DEF Stays, Platform!pvars
  <1>3. ASSUME NEW t \in Threads, Moves(t) PROVE Platform!Promise(t)
    <2>1. t # NoThread
      BY ThreadsAssumption
    <2>2. QED
      BY <1>1, <1>3, <2>1 DEF Moves, Platform!Promise, Platform!BeginBuild, Platform!EndBuild,
         Platform!Join, Platform!Leave, Platform!BeginDismantle, Platform!EndDismantle
  <1>4. QED
    BY <1>2, <1>3 DEF Platform!Next

\* A step of the managers is a step of the promise, or none.
LEMMA NextImplements ==
  ASSUME Sound, Sound', PlatformKnown, PlatformKnown', [Next]_vars
  PROVE  [Platform!Next]_(Platform!pvars)
  <1>1. CASE failed' = {}
    <2>1. failed = {}
      BY <1>1, FailedGrows
    <2>2. Stays \/ \E t \in Threads : Moves(t)
      BY <1>1, <2>1, ManagerMoves, OthersStay DEF Next, Stopped
    <2>3. QED
      BY <1>1, <2>1, <2>2, CleanStep
  <1>2. CASE failed' # {}
    <2>1. /\ Members' \in SUBSET Threads
          /\ Mover' \in Threads \cup {NoThread}
          /\ PlatformState' \in {"down", "moving", "up", "part"}
      BY DEF Members, Mover, PlatformState, Sound, Invariants, TypeOK
    <2>2. (failed # {})' = TRUE
      BY <1>2
    <2>3. QED
      BY <2>1, <2>2 DEF Platform!Next, Platform!Fail
  <1>3. QED
    BY <1>1, <1>2

LEMMA InitImplements == Init => Platform!Init
  <1> SUFFICES ASSUME Init PROVE Platform!Init
    OBVIOUS
  <1>1. Mover = NoThread /\ Members = {}
    BY DEF Init, Mover, Members, Serving
  <1>2. PlatformState = "down"
    <2>1. ~pluma /\ procUp = {}
      BY DEF Init
    <2>2. QED
      BY <1>1, <2>1 DEF PlatformState
  <1>3. (failed # {}) = FALSE
    BY DEF Init
  <1>4. QED
    BY <1>1, <1>2, <1>3 DEF Platform!Init

\* The managers keep the promise of PluginPlatform, with any number of threads and
\* plug-ins: what the counter of the managers and the one lock are there for.
THEOREM Implements == Spec => KeepsPromise
  BY InitImplements, NextImplements, SoundSafe, PTL DEF Spec, KeepsPromise, Platform!Spec

\* The promise is worth something: as long as no init() failed, the platform is complete
\* whenever it has members, and moves only while it has none
\* (StrategyManager.cpp:85-112,181-226).
THEOREM MembersSafe == Platform!Spec => []Platform!MembersFindItUp
  <1>1. Platform!Init => Platform!MembersFindItUp
    BY DEF Platform!Init, Platform!MembersFindItUp
  <1>2. Platform!MembersFindItUp /\ [Platform!Next]_(Platform!pvars) => Platform!MembersFindItUp'
    <2> SUFFICES ASSUME Platform!MembersFindItUp, [Platform!Next]_(Platform!pvars)
                 PROVE  Platform!MembersFindItUp'
      OBVIOUS
    <2>1. ASSUME NEW t \in Threads, ~(failed # {}), Platform!Promise(t)
          PROVE  Platform!MembersFindItUp'
      <3>1. t # NoThread
        BY ThreadsAssumption
      <3>2. QED
        BY <2>1, <3>1 DEF Platform!Promise, Platform!BeginBuild, Platform!EndBuild, Platform!Join,
           Platform!Leave, Platform!BeginDismantle, Platform!EndDismantle, Platform!MembersFindItUp
    <2>2. CASE Platform!Fail
      BY <2>2 DEF Platform!Fail, Platform!MembersFindItUp
    <2>3. CASE UNCHANGED Platform!pvars
      BY <2>3 DEF Platform!pvars, Platform!MembersFindItUp
    <2>4. QED
      BY <2>1, <2>2, <2>3 DEF Platform!Next
  <1>3. QED
    BY <1>1, <1>2, PTL DEF Platform!Spec

\* So what follows from the promise holds of the managers: as long as no init()
\* failed, plug-ins and process-level state are complete whenever there is a member.
THEOREM MembersServed == Spec => []Platform!MembersFindItUp
  <1>1. Platform!Spec => []Platform!MembersFindItUp
    BY MembersSafe
  <1>2. QED
    BY <1>1, Implements, PTL DEF KeepsPromise

=============================================================================
