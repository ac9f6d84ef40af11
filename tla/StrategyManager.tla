--------------------------- MODULE StrategyManager ---------------------------
(***************************************************************************)
(* The plug-in strategies of the process and the managers that set them up, *)
(* run them and tear them down (service/web-frame/interface/               *)
(* StrategyManager.cpp), driven by the threads that own a manager each      *)
(* (service/web-frame/host/service_main.cpp).                              *)
(*                                                                         *)
(* Every thread holds one StrategyManager on its stack.  init() and the    *)
(* destructor run under the process-wide sm_processLock and choose between *)
(* "process-level" and "thread-level" work by comparing sm_instanceNum     *)
(* with 0 and with 1.  Requests are executed without the lock.             *)
(***************************************************************************)
EXTENDS Integers, Sequences, FiniteSets

CONSTANTS
  Main,          \* the thread that runs main()
  Workers,       \* the threads main() creates to run threadFunc()
  NoThread,      \* "sm_processLock is free"
  Strategies,    \* the strategies the plug-ins of sm_pluginPath provide
  DependChoices, \* the dependency declarations the plug-ins may have
  MayFail        \* the calls that may report a failure, from FailurePoints

Threads == {Main} \cup Workers

FailurePoints == {"addAll", "processInit", "threadInit", "reset", "run",
                  "accept", "spawn", "join"}

ASSUME ThreadsAssumption ==
  /\ Main \notin Workers
  /\ NoThread \notin Threads
  /\ IsFiniteSet(Workers)

ASSUME StrategiesAssumption == IsFiniteSet(Strategies)

\* A dependency names a strategy that may not exist, hence no bound on its range.
ASSUME DependsAssumption ==
  \A d \in DependChoices : DOMAIN d = Strategies

ASSUME MayFailAssumption == MayFail \subseteq FailurePoints

VARIABLES
  depends,      \* m_depends of every strategy, as initDepends() fills it
  pc,           \* where each thread is
  lock,         \* the holder of sm_processLock
  instanceNum,  \* sm_instanceNum
  pluma,        \* sm_pluma is not NULL
  loads,        \* batches of providers in sm_strategyProviders
  edge,         \* what the holder's test of sm_instanceNum said (first or last)
  topo,         \* m_topoStrategies of each thread's manager
  pos,          \* loop index over topo
  threadUp,     \* strategies of the manager with a live threadInit
  procUp,       \* strategies with a live processInit
  ran,          \* strategies whose run() returned true for this request
  failed,       \* threads whose init() returned false (history)
  crashed       \* a provider freed by unloadAll was called and killed the process

shared == <<lock, instanceNum, pluma, loads, procUp, failed, crashed>>
vars == <<depends, pc, lock, instanceNum, pluma, loads, edge, topo, pos,
          threadUp, procUp, ran, failed, crashed>>

Locations == {"none", "start", "load", "add", "graph", "processInit",
              "threadInit", "spawn", "join", "accept", "reset", "run",
              "dtor", "threadDestroy", "processDestroy", "gone"}

-----------------------------------------------------------------------------
(* The dependency graph, by its contract: StrategyGraph.tla models the       *)
(* algorithms that build it.                                                 *)

N == Cardinality(Strategies)

\* The lists of all strategies, each once.
Listings == {o \in [1..N -> Strategies] :
               /\ \A s \in Strategies : \E i \in 1..N : o[i] = s
               /\ \A i, j \in 1..N : o[i] = o[j] => i = j}

\* Orders in which every strategy comes after all the strategies it depends on.
TopoOrders(d) ==
  {o \in Listings :
     \A i \in 1..N : \A s \in d[o[i]] : \E j \in 1..(i-1) : o[j] = s}

\* Mutant: the order of boost::topological_sort is stored with begin() and not
\* with rbegin(), dependents first.
generateTopoOrder_begin(d) ==
  {o \in Listings :
     \A i \in 1..N : \A s \in d[o[i]] : \E j \in (i+1)..N : o[j] = s}

\* What checkCircle and generateTopoOrder may produce; nothing for a cycle or a
\* dependency that does not exist.
generateTopoOrder(d) == TopoOrders(d)

-----------------------------------------------------------------------------
Alive == ~crashed /\ pc[Main] # "gone"

Goto(t, l) == pc' = [pc EXCEPT ![t] = l]

SetPos(t, i) == pos' = [pos EXCEPT ![t] = i]

\* The strategy the loop of t is at, while the loop is not over.
Current(t) == topo[t][pos[t]]
InLoop(t) == pos[t] \in 1..Len(topo[t])

\* pthread_mutex_lock returns.
LockFree == lock = NoThread

\* Mutant: every manager beside main()'s believes it is the first.
FirstManager_lowCount == instanceNum <= 1

\* The test of init().
FirstManager == instanceNum = 0

\* Mutants: the test of the destructor off by one, in both directions.
LastManager_early == instanceNum \in {1, 2}
LastManager_late == instanceNum = 0

\* The test of the destructor.
LastManager == instanceNum = 1

\* Mutant: only the last manager counts down.
CountAfterDestroy_lastOnly(t) == IF edge[t] THEN instanceNum - 1 ELSE instanceNum

\* sm_instanceNum-- at the end of both branches of the destructor.
CountAfterDestroy(t) == instanceNum - 1

\* Mutant: the reverse loop misses the last strategy.
DestroyStart_offByOne(t) == IF topo[t] = <<>> THEN 0 ELSE Len(topo[t]) - 1

\* rbegin() of m_topoStrategies.
DestroyStart(t) == Len(topo[t])

\* Mutant: the loop of the destructor goes forward.
DestroyTarget_forward(t) == topo[t][Len(topo[t]) + 1 - pos[t]]

\* *rit in the loop of the destructor.
DestroyTarget(t) == Current(t)

\* Where a successful init() returns to: main() creates threads, a worker accepts.
Initialised(t) == IF t = Main THEN "spawn" ELSE "accept"

Init ==
  /\ depends \in DependChoices
  /\ pc = [t \in Threads |-> IF t = Main THEN "start" ELSE "none"]
  /\ lock = NoThread
  /\ instanceNum = 0
  /\ pluma = FALSE
  /\ loads = 0
  /\ edge = [t \in Threads |-> FALSE]
  /\ topo = [t \in Threads |-> <<>>]
  /\ pos = [t \in Threads |-> 0]
  /\ threadUp = [t \in Threads |-> {}]
  /\ procUp = {}
  /\ ran = [t \in Threads |-> {}]
  /\ failed = {}
  /\ crashed = FALSE

-----------------------------------------------------------------------------
(* StrategyManager::init()                                                   *)

\* ScopeLocker and the test sm_instanceNum == 0.
LockForInit(t) ==
  /\ pc[t] = "start"
  /\ LockFree
  /\ lock' = t
  /\ edge' = [edge EXCEPT ![t] = FirstManager]
  /\ Goto(t, IF FirstManager THEN "load" ELSE "add")
  /\ UNCHANGED <<depends, instanceNum, pluma, loads, topo, pos, threadUp,
                 procUp, ran, failed, crashed>>

\* The first manager loads the plug-ins.  getProviders appends to
\* sm_strategyProviders, which nothing ever clears.
LoadPlugins(t) ==
  /\ pc[t] = "load"
  /\ pluma' = TRUE
  /\ loads' = IF pluma THEN loads ELSE loads + 1
  /\ Goto(t, "add")
  /\ UNCHANGED <<depends, lock, instanceNum, edge, topo, pos, threadUp,
                 procUp, ran, failed, crashed>>

\* Mutant: an early return that forgets to unlock.
InitFails_keepsLock(t) ==
  /\ lock' = lock
  /\ failed' = failed \cup {t}
  /\ Goto(t, "dtor")

\* init() returns false: ScopeLocker unlocks, the owner of the manager returns
\* and the manager is destroyed.
InitFails(t) ==
  /\ lock' = NoThread
  /\ failed' = failed \cup {t}
  /\ Goto(t, "dtor")

\* sm_strategyProviders still lists providers that unloadAll() deleted.
StaleProviders == loads > (IF pluma THEN 1 ELSE 0)

\* create() and initDepends() of every provider.  A call through a deleted
\* provider may kill the process or may work as before.
AddAllStrategy(t) ==
  /\ pc[t] = "add"
  /\ \/ /\ Goto(t, "graph")
        /\ UNCHANGED <<lock, failed, crashed>>
     \/ /\ "addAll" \in MayFail
        /\ InitFails(t)
        /\ UNCHANGED crashed
     \/ /\ StaleProviders
        /\ crashed' = TRUE
        /\ UNCHANGED <<pc, lock, failed>>
  /\ UNCHANGED <<depends, instanceNum, pluma, loads, edge, topo, pos,
                 threadUp, procUp, ran>>

\* buildStrategyGraph, checkCircle and generateTopoOrder: a missing dependency
\* or a cycle makes init() fail.
BuildStrategyGraph(t) ==
  /\ pc[t] = "graph"
  /\ IF generateTopoOrder(depends) = {}
       THEN /\ InitFails(t)
            /\ UNCHANGED <<topo, pos>>
       ELSE /\ \E o \in generateTopoOrder(depends) : topo' = [topo EXCEPT ![t] = o]
            /\ SetPos(t, 1)
            /\ Goto(t, IF edge[t] THEN "processInit" ELSE "threadInit")
            /\ UNCHANGED <<lock, failed>>
  /\ UNCHANGED <<depends, instanceNum, pluma, loads, edge, threadUp, procUp,
                 ran, crashed>>

\* Only the loop of the first manager calls processInit.
ProcessInit(t) ==
  /\ pc[t] = "processInit"
  /\ InLoop(t)
  /\ \/ /\ procUp' = procUp \cup {Current(t)}
        /\ Goto(t, "threadInit")
        /\ UNCHANGED <<lock, failed>>
     \/ /\ "processInit" \in MayFail
        /\ InitFails(t)
        /\ UNCHANGED procUp
  /\ UNCHANGED <<depends, instanceNum, pluma, loads, edge, topo, pos,
                 threadUp, ran, crashed>>

ThreadInit(t) ==
  /\ pc[t] = "threadInit"
  /\ InLoop(t)
  /\ \/ /\ threadUp' = [threadUp EXCEPT ![t] = @ \cup {Current(t)}]
        /\ SetPos(t, pos[t] + 1)
        /\ Goto(t, IF edge[t] THEN "processInit" ELSE "threadInit")
        /\ UNCHANGED <<lock, failed>>
     \/ /\ "threadInit" \in MayFail
        /\ InitFails(t)
        /\ UNCHANGED <<threadUp, pos>>
  /\ UNCHANGED <<depends, instanceNum, pluma, loads, edge, topo, procUp, ran,
                 crashed>>

\* sm_instanceNum++ and return true.
InitDone(t) ==
  /\ pc[t] \in {"processInit", "threadInit"}
  /\ ~InLoop(t)
  /\ instanceNum' = instanceNum + 1
  /\ lock' = NoThread
  /\ Goto(t, Initialised(t))
  /\ UNCHANGED <<depends, pluma, loads, edge, topo, pos, threadUp, procUp,
                 ran, failed, crashed>>

-----------------------------------------------------------------------------
(* StrategyManager::~StrategyManager()                                       *)

\* ScopeLocker and the test sm_instanceNum == 1.
LockForDestroy(t) ==
  /\ pc[t] = "dtor"
  /\ LockFree
  /\ lock' = t
  /\ edge' = [edge EXCEPT ![t] = LastManager]
  /\ SetPos(t, DestroyStart(t))
  /\ Goto(t, "threadDestroy")
  /\ UNCHANGED <<depends, instanceNum, pluma, loads, topo, threadUp, procUp,
                 ran, failed, crashed>>

\* A failure of threadDestroy is logged and ignored.
ThreadDestroy(t) ==
  /\ pc[t] = "threadDestroy"
  /\ InLoop(t)
  /\ threadUp' = [threadUp EXCEPT ![t] = @ \ {DestroyTarget(t)}]
  /\ IF edge[t]
       THEN Goto(t, "processDestroy") /\ UNCHANGED pos
       ELSE SetPos(t, pos[t] - 1) /\ UNCHANGED pc
  /\ UNCHANGED <<depends, lock, instanceNum, pluma, loads, edge, topo,
                 procUp, ran, failed, crashed>>

\* Only the loop of the last manager calls processDestroy.
ProcessDestroy(t) ==
  /\ pc[t] = "processDestroy"
  /\ InLoop(t)
  /\ procUp' = procUp \ {DestroyTarget(t)}
  /\ SetPos(t, pos[t] - 1)
  /\ Goto(t, "threadDestroy")
  /\ UNCHANGED <<depends, lock, instanceNum, pluma, loads, edge, topo,
                 threadUp, ran, failed, crashed>>

\* The manager deletes its strategies, the last one unloads the plug-ins, and
\* sm_instanceNum goes down whether or not this manager ever counted.
DestroyDone(t) ==
  /\ pc[t] = "threadDestroy"
  /\ ~InLoop(t)
  /\ pluma' = (pluma /\ ~edge[t])
  /\ instanceNum' = CountAfterDestroy(t)
  /\ lock' = NoThread
  /\ Goto(t, "gone")
  /\ UNCHANGED <<depends, loads, edge, topo, pos, threadUp, procUp, ran,
                 failed, crashed>>

-----------------------------------------------------------------------------
(* threadFunc() and execAllResetAndRun()                                     *)

\* FCGX_Accept_r returned a request, and execAllResetAndRun begins with it.
Accept(w) ==
  /\ pc[w] = "accept"
  /\ ran' = [ran EXCEPT ![w] = {}]
  /\ SetPos(w, 1)
  /\ Goto(w, "reset")
  /\ UNCHANGED <<depends, edge, topo, threadUp, shared>>

\* FCGX_Accept_r returned a negative code: the loop ends.
AcceptFails(w) ==
  /\ pc[w] = "accept"
  /\ "accept" \in MayFail
  /\ Goto(w, "dtor")
  /\ UNCHANGED <<depends, edge, topo, pos, threadUp, ran, shared>>

\* A failed reset makes execAllResetAndRun return false, which ends the loop.
Reset(w) ==
  /\ pc[w] = "reset"
  /\ InLoop(w)
  /\ \/ SetPos(w, pos[w] + 1) /\ UNCHANGED pc
     \/ "reset" \in MayFail /\ Goto(w, "dtor") /\ UNCHANGED pos
  /\ UNCHANGED <<depends, edge, topo, threadUp, ran, shared>>

ResetDone(w) ==
  /\ pc[w] = "reset"
  /\ ~InLoop(w)
  /\ SetPos(w, 1)
  /\ Goto(w, "run")
  /\ UNCHANGED <<depends, edge, topo, threadUp, ran, shared>>

\* Mutants: a failed run is skipped, or is tried again for ever.
RunFails_skip(w) == SetPos(w, pos[w] + 1) /\ UNCHANGED pc
RunFails_retry(w) == SetPos(w, 1) /\ Goto(w, "reset")

\* A failed run abandons the request only: the worker accepts the next one.
RunFails(w) == Goto(w, "accept") /\ UNCHANGED pos

Run(w) ==
  /\ pc[w] = "run"
  /\ InLoop(w)
  /\ \/ /\ ran' = [ran EXCEPT ![w] = @ \cup {Current(w)}]
        /\ SetPos(w, pos[w] + 1)
        /\ UNCHANGED pc
     \/ /\ "run" \in MayFail
        /\ RunFails(w)
        /\ UNCHANGED ran
  /\ UNCHANGED <<depends, edge, topo, threadUp, shared>>

RunDone(w) ==
  /\ pc[w] = "run"
  /\ ~InLoop(w)
  /\ Goto(w, "accept")
  /\ UNCHANGED <<depends, edge, topo, pos, threadUp, ran, shared>>

-----------------------------------------------------------------------------
(* main()                                                                    *)

Spawn(w) ==
  /\ pc[Main] = "spawn"
  /\ pc[w] = "none"
  /\ Goto(w, "start")
  /\ UNCHANGED <<depends, edge, topo, pos, threadUp, ran, shared>>

\* The loop is over, or pthread_create failed and ends it.
SpawnDone ==
  /\ pc[Main] = "spawn"
  /\ "spawn" \in MayFail \/ \A w \in Workers : pc[w] # "none"
  /\ Goto(Main, "join")
  /\ UNCHANGED <<depends, edge, topo, pos, threadUp, ran, shared>>

\* Mutant: main() joins the threads it was configured for, created or not.
Joined_configured == \A w \in Workers : pc[w] = "gone"

\* The threads pthread_create made have all ended.
Joined == \A w \in Workers : pc[w] \in {"none", "gone"}

\* Every created thread was joined, or pthread_join failed and ends the loop;
\* main() returns and its manager is destroyed.
JoinDone ==
  /\ pc[Main] = "join"
  /\ "join" \in MayFail \/ Joined
  /\ Goto(Main, "dtor")
  /\ UNCHANGED <<depends, edge, topo, pos, threadUp, ran, shared>>

-----------------------------------------------------------------------------
ManagerStep(t) ==
  \/ LockForInit(t) \/ LoadPlugins(t) \/ AddAllStrategy(t)
  \/ BuildStrategyGraph(t) \/ ProcessInit(t) \/ ThreadInit(t) \/ InitDone(t)
  \/ LockForDestroy(t) \/ ThreadDestroy(t) \/ ProcessDestroy(t)
  \/ DestroyDone(t)

ServeStep(w) == Reset(w) \/ ResetDone(w) \/ Run(w) \/ RunDone(w)

MainStep == (\E w \in Workers : Spawn(w)) \/ SpawnDone \/ JoinDone

ClientStep(w) == Accept(w) \/ AcceptFails(w)

\* main() returned or the process died: nothing runs any more.
Stopped == ~Alive /\ UNCHANGED vars

Next ==
  \/ Alive /\ \E t \in Threads : ManagerStep(t)
  \/ Alive /\ \E w \in Workers : ServeStep(w)
  \/ Alive /\ \E w \in Workers : ClientStep(w)
  \/ Alive /\ MainStep
  \/ Stopped

\* A thread that can run eventually runs, and the callbacks of the plug-ins
\* return.  Nothing is assumed of the clients: FCGX_Accept_r may block forever.
Fairness ==
  /\ \A t \in Threads : WF_vars(Alive /\ ManagerStep(t))
  /\ \A w \in Workers : WF_vars(Alive /\ ServeStep(w))
  /\ WF_vars(Alive /\ MainStep)

Spec == Init /\ [][Next]_vars

FairSpec == Spec /\ Fairness

-----------------------------------------------------------------------------
(* Types                                                                     *)

\* The variables have their types, and a manager's list of strategies is empty or
\* is a topological order of the declared dependencies (StrategyManager.cpp,
\* generateTopoOrder).
TypeOK ==
  /\ depends \in DependChoices
  /\ pc \in [Threads -> Locations]
  /\ lock \in Threads \cup {NoThread}
  /\ instanceNum \in Int
  /\ pluma \in BOOLEAN
  /\ loads \in Nat
  /\ edge \in [Threads -> BOOLEAN]
  /\ topo \in [Threads -> TopoOrders(depends) \cup {<<>>}]
  /\ pos \in [Threads -> 0..(N + 1)]
  /\ threadUp \in [Threads -> SUBSET Strategies]
  /\ procUp \in SUBSET Strategies
  /\ ran \in [Threads -> SUBSET Strategies]
  /\ failed \in SUBSET Threads
  /\ crashed \in BOOLEAN

-----------------------------------------------------------------------------
(* Safety                                                                    *)

\* The locations at which a thread is between lock() and unlock().
Critical == {"load", "add", "graph", "processInit", "threadInit",
             "threadDestroy", "processDestroy"}

\* A manager whose init() returned true, up to the end of its destructor.
Serving == {"spawn", "join", "accept", "reset", "run"}
Leaving == {"dtor", "threadDestroy", "processDestroy"}
Up == {t \in Threads : pc[t] \in Serving \/ (pc[t] \in Leaving /\ t \notin failed)}

\* The managers whose init() failed and whose destructor ran.
FailedAndGone == {t \in failed : pc[t] = "gone"}

\* No two threads are inside sm_processLock, however init() and the destructor
\* leave it (ScopeLocker.h).
MutualExclusion ==
  \A t \in Threads : pc[t] \in Critical <=> lock = t

\* sm_instanceNum is the number of initialised managers minus the number of
\* managers that were destroyed after their init() failed: the destructor counts
\* down for a manager init() never counted (StrategyManager.cpp:108,151,208,223).
InstanceNumAccounting ==
  instanceNum = Cardinality(Up) - Cardinality(FailedAndGone)

\* Every strategy that is set up, in a manager or in the process, has all its
\* dependencies set up, in the middle of every init() and of every destructor and
\* after every failure (StrategyManager.cpp:95-107,143-150,188-198,212-218).
DependencyClosed ==
  /\ \A t \in Threads : \A s \in threadUp[t] : depends[s] \subseteq threadUp[t]
  /\ \A s \in procUp : depends[s] \subseteq procUp

\* Within a request a strategy has run only if everything it depends on ran and
\* succeeded before (StrategyManager.cpp:315-320).
DependsRanFirst ==
  \A w \in Workers : \A s \in ran[w] : depends[s] \subseteq ran[w]

\* A manager that is gone left none of its strategies set up, also when its
\* init() stopped half-way (StrategyManager.cpp:181-226).
ThreadInitUndone ==
  \A t \in Threads : pc[t] = "gone" => threadUp[t] = {}

\* As long as no init() failed, an initialised manager has all its strategies,
\* the process-level state they share and the plug-ins that hold their code.
SharedStateUp ==
  failed = {} =>
    \A t \in Threads : pc[t] \in Serving \cup {"dtor"} =>
      threadUp[t] = Strategies /\ procUp = Strategies /\ pluma

\* As long as no init() failed, addAllStrategy never calls a provider that
\* unloadAll deleted, although sm_strategyProviders is never cleared.
ProvidersAlive == failed = {} => ~crashed

\* When main() returns after all threads and no init() failed, everything the
\* process set up was torn down.
CleanShutdown ==
  pc[Main] = "gone" /\ failed = {} /\ Joined =>
    instanceNum = 0 /\ procUp = {} /\ ~pluma

-----------------------------------------------------------------------------
(* Refinement                                                                *)

\* The thread that builds or dismantles what all managers share: the first manager
\* in init() and the last one in the destructor.
Mover == IF lock # NoThread /\ edge[lock] THEN lock ELSE NoThread

\* The threads whose managers are initialised and not yet being destroyed.
Members == {t \in Threads : pc[t] \in Serving \cup {"dtor"}}

\* What init() and the destructor made of the plug-ins and the process-level state.
PlatformState ==
  IF Mover # NoThread THEN "moving"
  ELSE IF pluma /\ procUp = Strategies THEN "up"
  ELSE IF ~pluma /\ procUp = {} THEN "down" ELSE "part"

Platform == INSTANCE PluginPlatform WITH
  members <- Members, mover <- Mover, platform <- PlatformState, broken <- failed # {}

\* The lock, the counter and the loops of all managers together implement the
\* promise of PluginPlatform: the first manager builds alone, members find plug-ins
\* and process-level state complete, the last one dismantles alone
\* (StrategyManager.cpp:61-114,181-226).
KeepsPromise == Platform!Spec

-----------------------------------------------------------------------------
(* Liveness                                                                  *)

\* init() returns: sm_processLock is not held for ever.
InitReturns ==
  \A t \in Threads :
    pc[t] = "start" ~> (pc[t] \in Serving \cup Leaving \cup {"gone"} \/ ~Alive)

\* A request that was accepted is given back: the worker accepts the next one or
\* leaves its loop.
RequestsEnd ==
  \A w \in Workers :
    pc[w] = "reset" ~> (pc[w] \in {"accept", "dtor"} \/ ~Alive)

\* Once no worker serves requests any more, main() returns.
ShutdownEnds ==
  (pc[Main] = "join" /\ \A w \in Workers : pc[w] \in {"none", "gone"} \cup Leaving)
    ~> ~Alive

=============================================================================
