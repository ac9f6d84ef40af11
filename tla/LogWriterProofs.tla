--------------------------- MODULE LogWriterProofs ---------------------------
(***************************************************************************)
(* The safety of LogWriter for every number of threads and of rotations: one *)
(* file is open, and it is reopened once each time it is moved away.        *)
(***************************************************************************)
EXTENDS LogWriter, TLAPS

\* Between pthread_mutex_lock() and pthread_mutex_unlock() in _write().
Holding == {"recheck", "fclose", "forget", "loginit", "unlock"}

\* The mutex protects the reopening.
HolderInv == \A t \in Threads : pc[t] \in Holding <=> lock = t

\* All files from the first to the n-th are closed, once each.
ClosedUpTo(n) == \A f \in 1..n : closes[f] = 1

\* The last file is open, but for the holder that is reopening it.
OpenInv ==
  (\A t \in Threads : pc[t] \notin {"forget", "loginit"}) =>
    fp = Len(closes) /\ closes[fp] = 0 /\ ClosedUpTo(Len(closes) - 1)

ReopenInv ==
  \A t \in Threads :
    /\ pc[t] \in {"fclose", "forget", "loginit"} => ~present
    /\ pc[t] = "forget" => fp = Len(closes) /\ ClosedUpTo(Len(closes))
    /\ pc[t] = "loginit" => fp = NULL /\ ClosedUpTo(Len(closes))

\* A file that is missing has been moved away since it was opened.
CountInv ==
  /\ Len(closes) >= 1
  /\ Len(closes) <= rotations + 1
  /\ ~present => Len(closes) <= rotations

Inv == TypeOK /\ HolderInv /\ OpenInv /\ ReopenInv /\ CountInv

-----------------------------------------------------------------------------
LEMMA InitInv == Init => Inv
<1> SUFFICES ASSUME Init PROVE Inv
  OBVIOUS
<1>1. TypeOK
  <2>1. closes = <<0>> /\ closes \in Seq(Nat) /\ Len(closes) = 1
    BY DEF Init
  <2>2. fp \in 0..Len(closes) /\ rotations \in 0..MaxRotations
    BY <2>1, RotationsAssumption DEF Init
  <2>3. present \in BOOLEAN /\ ended \in BOOLEAN
    BY Zenon DEF Init
  <2>4. QED
    BY <2>1, <2>2, <2>3 DEF Init, TypeOK
<1>2. HolderInv
  BY ThreadsAssumption DEF Init, HolderInv, Holding
<1>3. OpenInv /\ ReopenInv /\ CountInv
  BY RotationsAssumption DEF Init, OpenInv, ReopenInv, CountInv, ClosedUpTo
<1>4. QED
  BY <1>1, <1>2, <1>3 DEF Inv

LEMMA LogInv ==
  ASSUME Inv, NEW t \in Threads, NEW l \in DOMAIN Levels, Log(t, l)
  PROVE  Inv'
<1> USE DEF Inv, Log, Goto
<1>1. TypeOK'
  BY DEF TypeOK
<1>2. HolderInv'
  BY DEF TypeOK, HolderInv, Holding
<1>3. OpenInv' /\ ReopenInv' /\ CountInv'
  BY DEF TypeOK, OpenInv, ReopenInv, CountInv, ClosedUpTo
<1>4. QED
  BY <1>1, <1>2, <1>3

LEMMA AccessInv ==
  ASSUME Inv, NEW t \in Threads, Access(t)
  PROVE  Inv'
<1> USE DEF Inv, Access, Goto
<1>1. TypeOK'
  BY DEF TypeOK
<1>2. HolderInv'
  BY DEF TypeOK, HolderInv, Holding
<1>3. OpenInv' /\ ReopenInv' /\ CountInv'
  BY DEF TypeOK, OpenInv, ReopenInv, CountInv, ClosedUpTo
<1>4. QED
  BY <1>1, <1>2, <1>3
LEMMA LockInv ==
  ASSUME Inv, NEW t \in Threads, Lock(t)
  PROVE  Inv'
<1> USE DEF Inv, Lock, Goto
<1>1. TypeOK'
  BY DEF TypeOK, MutexFree
<1>2. HolderInv'
  BY ThreadsAssumption DEF TypeOK, HolderInv, Holding, MutexFree
<1>3. OpenInv'
  BY DEF TypeOK, HolderInv, Holding, OpenInv, ReopenInv, CountInv, ClosedUpTo, MutexFree
<1>4. ReopenInv'
  BY DEF TypeOK, HolderInv, Holding, OpenInv, ReopenInv, CountInv, ClosedUpTo, MutexFree
<1>5. CountInv'
  BY DEF TypeOK, ReopenInv, CountInv, MutexFree
<1>6. QED
  BY <1>1, <1>2, <1>3, <1>4, <1>5

LEMMA RecheckInv ==
  ASSUME Inv, NEW t \in Threads, Recheck(t)
  PROVE  Inv'
<1> USE DEF Inv, Recheck, Goto
<1>1. TypeOK'
  BY DEF TypeOK, AfterRecheck, StillMissing
<1>2. HolderInv'
  BY ThreadsAssumption DEF TypeOK, HolderInv, Holding, AfterRecheck, StillMissing
<1>3. OpenInv'
  BY DEF TypeOK, HolderInv, Holding, OpenInv, ReopenInv, CountInv, ClosedUpTo, AfterRecheck, StillMissing
<1>4. ReopenInv'
  BY DEF TypeOK, HolderInv, Holding, OpenInv, ReopenInv, CountInv, ClosedUpTo, AfterRecheck, StillMissing
<1>5. CountInv'
  BY DEF TypeOK, ReopenInv, CountInv, AfterRecheck, StillMissing
<1>6. QED
  BY <1>1, <1>2, <1>3, <1>4, <1>5

LEMMA FcloseInv ==
  ASSUME Inv, NEW t \in Threads, Fclose(t)
  PROVE  Inv'
<1> USE DEF Inv, Fclose, Goto
<1>1. TypeOK'
  BY DEF TypeOK, NULL
<1>2. HolderInv'
  BY ThreadsAssumption DEF TypeOK, HolderInv, Holding, NULL
<1>3. OpenInv'
  BY DEF TypeOK, HolderInv, Holding, OpenInv, ReopenInv, CountInv, ClosedUpTo, NULL
<1>4. ReopenInv'
  BY DEF TypeOK, HolderInv, Holding, OpenInv, ReopenInv, CountInv, ClosedUpTo, NULL
<1>5. CountInv'
  BY DEF TypeOK, ReopenInv, CountInv, NULL
<1>6. QED
  BY <1>1, <1>2, <1>3, <1>4, <1>5

LEMMA ForgetInv ==
  ASSUME Inv, NEW t \in Threads, Forget(t)
  PROVE  Inv'
<1> USE DEF Inv, Forget, Goto
<1>1. TypeOK'
  BY DEF TypeOK, AfterClose, NULL
<1>2. HolderInv'
  BY ThreadsAssumption DEF TypeOK, HolderInv, Holding, AfterClose, NULL
<1>3. OpenInv'
  BY DEF TypeOK, HolderInv, Holding, OpenInv, ReopenInv, CountInv, ClosedUpTo, AfterClose, NULL
<1>4. ReopenInv'
  BY DEF TypeOK, HolderInv, Holding, OpenInv, ReopenInv, CountInv, ClosedUpTo, AfterClose, NULL
<1>5. CountInv'
  BY DEF TypeOK, ReopenInv, CountInv, AfterClose, NULL
<1>6. QED
  BY <1>1, <1>2, <1>3, <1>4, <1>5

LEMMA LoginitInv ==
  ASSUME Inv, NEW t \in Threads, Loginit(t)
  PROVE  Inv'
<1> USE DEF Inv, Loginit, Goto
<1>1. fp = NULL /\ ClosedUpTo(Len(closes)) /\ ~present
  BY DEF ReopenInv
<1>2. CASE Fopen /\ Goto(t, "unlock") /\ UNCHANGED ended
  <2>1. /\ closes' \in Seq(Nat) /\ Len(closes') = Len(closes) + 1
        /\ fp' = Len(closes') /\ closes'[fp'] = 0
        /\ \A f \in 1..Len(closes) : closes'[f] = closes[f]
    BY <1>2 DEF TypeOK, Fopen
  <2>2. TypeOK'
    <3>1. fp' \in 0..Len(closes')
      BY <2>1 DEF TypeOK
    <3>2. present' \in BOOLEAN /\ ended' \in BOOLEAN
      BY <1>2, Zenon DEF Fopen, TypeOK
    <3>3. QED
      BY <1>2, <2>1, <3>1, <3>2 DEF TypeOK
  <2>3. HolderInv'
    BY <1>2 DEF TypeOK, HolderInv, Holding
  <2>4. OpenInv'
    BY <1>1, <2>1 DEF TypeOK, OpenInv, CountInv, ClosedUpTo
  <2>5. \A u \in Threads : pc'[u] \notin {"fclose", "forget", "loginit"}
    BY <1>2 DEF TypeOK, HolderInv, Holding
  <2>6. ReopenInv'
    BY <2>5 DEF ReopenInv
  <2>7. CountInv'
    BY <1>1, <1>2, <2>1 DEF TypeOK, CountInv, Fopen
  <2>8. QED
    BY <2>2, <2>3, <2>4, <2>6, <2>7
<1>3. CASE ended' = TRUE /\ UNCHANGED <<pc, fp, closes, present>>
  <2>1. TypeOK'
    <3>1. ended' \in BOOLEAN
      BY <1>3, Zenon
    <3>2. QED
      BY <1>3, <3>1 DEF TypeOK
  <2>2. HolderInv' /\ OpenInv' /\ ReopenInv' /\ CountInv'
    BY <1>3 DEF HolderInv, OpenInv, ReopenInv, CountInv, ClosedUpTo
  <2>3. QED
    BY <2>1, <2>2
<1>4. QED
  BY <1>1, <1>2, <1>3

LEMMA UnlockInv ==
  ASSUME Inv, NEW t \in Threads, Unlock(t)
  PROVE  Inv'
<1> USE DEF Inv, Unlock, Goto
<1>1. TypeOK'
  BY DEF TypeOK
<1>2. HolderInv'
  BY ThreadsAssumption DEF TypeOK, HolderInv, Holding
<1>3. OpenInv'
  BY DEF TypeOK, HolderInv, Holding, OpenInv, ReopenInv, CountInv, ClosedUpTo
<1>4. ReopenInv'
  BY DEF TypeOK, HolderInv, Holding, OpenInv, ReopenInv, CountInv, ClosedUpTo
<1>5. CountInv'
  BY DEF TypeOK, ReopenInv, CountInv
<1>6. QED
  BY <1>1, <1>2, <1>3, <1>4, <1>5

LEMMA FwriteInv ==
  ASSUME Inv, NEW t \in Threads, Fwrite(t)
  PROVE  Inv'
<1> USE DEF Inv, Fwrite, Goto
<1>1. TypeOK'
  BY DEF TypeOK, IsOpen, NULL
<1>2. HolderInv'
  BY ThreadsAssumption DEF TypeOK, HolderInv, Holding, IsOpen, NULL
<1>3. OpenInv'
  BY DEF TypeOK, HolderInv, Holding, OpenInv, ReopenInv, CountInv, ClosedUpTo, IsOpen, NULL
<1>4. ReopenInv'
  BY DEF TypeOK, HolderInv, Holding, OpenInv, ReopenInv, CountInv, ClosedUpTo, IsOpen, NULL
<1>5. CountInv'
  BY DEF TypeOK, ReopenInv, CountInv, IsOpen, NULL
<1>6. QED
  BY <1>1, <1>2, <1>3, <1>4, <1>5

LEMMA RotateInv ==
  ASSUME Inv, Rotate
  PROVE  Inv'
<1> USE DEF Inv, Rotate
<1>1. TypeOK'
  <2>1. rotations' \in 0..MaxRotations
    BY RotationsAssumption DEF TypeOK
  <2>2. present' \in BOOLEAN /\ ended' \in BOOLEAN
    BY Zenon DEF TypeOK
  <2>3. QED
    BY <2>1, <2>2 DEF TypeOK
<1>2. HolderInv' /\ OpenInv'
  BY DEF HolderInv, OpenInv, ClosedUpTo
<1>3. ReopenInv'
  BY DEF ReopenInv, ClosedUpTo
<1>4. CountInv'
  BY DEF TypeOK, CountInv
<1>5. QED
  BY <1>1, <1>2, <1>3, <1>4

LEMMA StutterInv ==
  ASSUME Inv, UNCHANGED vars
  PROVE  Inv'
BY DEF Inv, TypeOK, HolderInv, OpenInv, ReopenInv, CountInv, ClosedUpTo, vars

LEMMA NextInv ==
  ASSUME Inv, [Next]_vars
  PROVE  Inv'
<1>1. ASSUME NEW t \in Threads, NEW l \in DOMAIN Levels, Log(t, l) PROVE Inv'
  BY <1>1, LogInv
<1>2. ASSUME NEW t \in Threads, WriteStep(t) PROVE Inv'
  BY <1>2, AccessInv, LockInv, RecheckInv, FcloseInv, ForgetInv, LoginitInv,
     UnlockInv, FwriteInv DEF WriteStep
<1>3. CASE Rotate
  BY <1>3, RotateInv
<1>4. CASE UNCHANGED vars
  BY <1>4, StutterInv
<1>5. QED
  BY <1>1, <1>2, <1>3, <1>4 DEF Next

LEMMA AlwaysInv == Spec => []Inv
<1>1. Init => Inv
  BY InitInv
<1>2. Inv /\ [Next]_vars => Inv'
  BY NextInv
<1>3. QED
  BY <1>1, <1>2, PTL DEF Spec

-----------------------------------------------------------------------------
(* Type correctness of the writer, for any number of threads (log.c:97-161).    *)
THEOREM Typing == Spec => []TypeOK
<1>1. Inv => TypeOK
  BY DEF Inv
<1>2. QED
  BY <1>1, AlwaysInv, PTL

(* However many threads find the file missing at once, it is closed and opened  *)
(* again once for each time it was moved away (the promise of log.c:124), and    *)
(* while the mutex is free exactly the newest file is open and fp is that file   *)
(* (log.c:119-131,153-161).                                                     *)
THEOREM OneReopen == Spec => []ReopenedOncePerRotation
<1>1. ASSUME Inv PROVE ReopenedOncePerRotation
  <2>1. Len(closes) <= rotations + 1
    BY <1>1 DEF Inv, CountInv
  <2>2. ASSUME NEW f \in DOMAIN closes PROVE closes[f] <= 1
    <3>1. f \in 1..Len(closes) /\ closes[f] \in Nat
      BY <1>1 DEF Inv, TypeOK
    <3>2. CASE \A t \in Threads : pc[t] \notin {"forget", "loginit"}
      BY <1>1, <3>1, <3>2 DEF Inv, OpenInv, CountInv, ClosedUpTo, TypeOK
    <3>3. CASE \E t \in Threads : pc[t] \in {"forget", "loginit"}
      BY <1>1, <3>1, <3>3 DEF Inv, ReopenInv, ClosedUpTo
    <3>4. QED
      BY <3>2, <3>3
  <2>3. ASSUME lock = NoThread, NEW f \in DOMAIN closes
        PROVE  closes[f] = 0 <=> f = fp
    <3>1. \A t \in Threads : pc[t] \notin {"forget", "loginit"}
      BY <1>1, <2>3, ThreadsAssumption DEF Inv, HolderInv, Holding
    <3>2. fp = Len(closes) /\ closes[fp] = 0 /\ \A g \in 1..(Len(closes) - 1) : closes[g] = 1
      BY <1>1, <3>1 DEF Inv, OpenInv, ClosedUpTo
    <3>3. f \in 1..Len(closes)
      BY <1>1, <2>3 DEF Inv, TypeOK
    <3>4. QED
      BY <1>1, <3>2, <3>3 DEF Inv, TypeOK
  <2>4. QED
    BY <2>1, <2>2, <2>3 DEF ReopenedOncePerRotation
<1>2. QED
  BY <1>1, AlwaysInv, PTL

=============================================================================
