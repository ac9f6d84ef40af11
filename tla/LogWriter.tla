------------------------------ MODULE LogWriter ------------------------------
(***************************************************************************)
(* A Log_Writer shared by the threads of the process while somebody moves   *)
(* its file away (third-src/c-log/src/log.c).  log() notices the missing    *)
(* file and opens a new one under m_mutex; it reads and uses fp without it. *)
(*                                                                         *)
(* INFO_W and WARN_W share nothing but a thread's buffer, which no thread   *)
(* uses twice at once: one of the two is modelled, after log_init() has     *)
(* opened it.                                                              *)
(***************************************************************************)
EXTENDS Naturals, Sequences

CONSTANTS
  Threads,       \* the threads that log
  NoThread,      \* "m_mutex is free"
  Writer,        \* "INFO_W" or "WARN_W"
  InitLevel,     \* the level given to log_init()
  OpenMayFail,   \* fopen() may fail
  MaxRotations   \* bound: how often the file is moved away

ASSUME ThreadsAssumption == NoThread \notin Threads

Levels == <<"LL_DEBUG", "LL_TRACE", "LL_NOTICE", "LL_WARNING", "LL_ERROR">>

ASSUME WriterAssumption == Writer \in {"INFO_W", "WARN_W"} /\ InitLevel \in DOMAIN Levels

ASSUME OpenMayFailAssumption == OpenMayFail \in BOOLEAN

ASSUME RotationsAssumption == MaxRotations \in Nat

\* fp is NULL or the number of the fopen() that returned it.
NULL == 0

VARIABLES
  pc,        \* where each thread is in log()
  lock,      \* the holder of m_mutex
  fp,        \* the file the writer has
  closes,    \* how often each file fopen() returned was given to fclose()
  present,   \* access(m_filelocation, W_OK) succeeds
  rotations, \* how often the file was moved away
  misused,   \* threads that gave fwrite() a file that is not open (history)
  ended      \* the process exited or was killed

vars == <<pc, lock, fp, closes, present, rotations, misused, ended>>

Init ==
  /\ pc = [t \in Threads |-> "idle"]
  /\ lock = NoThread
  /\ fp = 1
  /\ closes = <<0>>
  /\ present = TRUE
  /\ rotations = 0
  /\ misused = {}
  /\ ended = FALSE

Goto(t, l) == pc' = [pc EXCEPT ![t] = l]

\* fopen() returned the file and nobody has closed it.
IsOpen(f) == f # NULL /\ closes[f] = 0

-----------------------------------------------------------------------------
(* log_debug() to log_error() and log()                                      *)

LL_WARNING == 4

\* The level log_init() gives the writer, which every reopening keeps.
m_system_level ==
  IF Writer = "WARN_W" /\ InitLevel <= LL_WARNING THEN LL_WARNING ELSE InitLevel

checklevel(l) == l >= m_system_level

\* The writer of each macro.
WriterOf(l) == IF l >= LL_WARNING THEN "WARN_W" ELSE "INFO_W"

\* The message is in m_buffer, which is the thread's own.  Without a file it goes to stderr.
Log(t, l) ==
  /\ WriterOf(l) = Writer
  /\ pc[t] = "idle"
  /\ checklevel(l)
  /\ Goto(t, IF fp = NULL THEN "idle" ELSE "access")
  /\ UNCHANGED <<lock, fp, closes, present, rotations, misused, ended>>

-----------------------------------------------------------------------------
(* _write()                                                                  *)

\* access() outside the lock.
Access(t) ==
  /\ pc[t] = "access"
  /\ Goto(t, IF present THEN "fwrite" ELSE "lock")
  /\ UNCHANGED <<lock, fp, closes, present, rotations, misused, ended>>

MutexFree == lock = NoThread

Lock(t) ==
  /\ pc[t] = "lock"
  /\ MutexFree
  /\ lock' = t
  /\ Goto(t, "recheck")
  /\ UNCHANGED <<fp, closes, present, rotations, misused, ended>>

\* Mutant: the file is not looked for again inside the lock.
StillMissing_assumed == TRUE

\* access() inside the lock.
StillMissing == ~present

\* Mutant: pthread_mutex_unlock() within the inner if.
AfterRecheck_noUnlock == IF StillMissing THEN "fclose" ELSE "fwrite"

AfterRecheck == IF StillMissing THEN "fclose" ELSE "unlock"

Recheck(t) ==
  /\ pc[t] = "recheck"
  /\ Goto(t, AfterRecheck)
  /\ UNCHANGED <<lock, fp, closes, present, rotations, misused, ended>>

\* The test of fp, fflush() and fclose() in logclose().
Fclose(t) ==
  /\ pc[t] = "fclose"
  /\ IF fp = NULL
       THEN Goto(t, "loginit") /\ UNCHANGED closes
       ELSE Goto(t, "forget") /\ closes' = [closes EXCEPT ![fp] = @ + 1]
  /\ UNCHANGED <<lock, fp, present, rotations, misused, ended>>

\* fp = NULL at the end of logclose().
AfterClose == NULL

Forget(t) ==
  /\ pc[t] = "forget"
  /\ fp' = AfterClose
  /\ Goto(t, "loginit")
  /\ UNCHANGED <<lock, closes, present, rotations, misused, ended>>

\* Mutant: what fopen() returned is not tested, and it is no file.
Fopen_untested ==
  /\ fp' = Len(closes) + 1
  /\ UNCHANGED <<closes, present>>

\* fopen() with "a" creates the file.
Fopen ==
  /\ closes' = Append(closes, 0)
  /\ fp' = Len(closes')
  /\ present' = TRUE

\* loginit() refuses a writer that has a file; when fopen() fails it calls exit(0).
Loginit(t) ==
  /\ pc[t] = "loginit"
  /\ IF fp # NULL
       THEN Goto(t, "unlock") /\ UNCHANGED <<fp, closes, present, ended>>
       ELSE \/ Fopen /\ Goto(t, "unlock") /\ UNCHANGED ended
            \/ OpenMayFail /\ ended' = TRUE /\ UNCHANGED <<pc, fp, closes, present>>
  /\ UNCHANGED <<lock, rotations, misused>>

Unlock(t) ==
  /\ pc[t] = "unlock"
  /\ lock' = NoThread
  /\ Goto(t, "fwrite")
  /\ UNCHANGED <<fp, closes, present, rotations, misused, ended>>

\* fp is read again, without the lock.  fwrite() on NULL or on a closed file is
\* undefined: the process dies or the thread goes on.
Fwrite(t) ==
  /\ pc[t] = "fwrite"
  /\ IF IsOpen(fp)
       THEN Goto(t, "idle") /\ UNCHANGED <<misused, ended>>
       ELSE /\ misused' = misused \cup {t}
            /\ \/ Goto(t, "idle") /\ UNCHANGED ended
               \/ ended' = TRUE /\ UNCHANGED pc
  /\ UNCHANGED <<lock, fp, closes, present, rotations>>

-----------------------------------------------------------------------------
\* Somebody moves or removes the file; the open file stays usable.
Rotate ==
  /\ present
  /\ rotations < MaxRotations
  /\ present' = FALSE
  /\ rotations' = rotations + 1
  /\ UNCHANGED <<pc, lock, fp, closes, misused, ended>>

\* The rest of a log() that has begun.
WriteStep(t) ==
  \/ Access(t) \/ Lock(t) \/ Recheck(t) \/ Fclose(t) \/ Forget(t)
  \/ Loginit(t) \/ Unlock(t) \/ Fwrite(t)

Next ==
  \/ ~ended /\ \E t \in Threads, l \in DOMAIN Levels : Log(t, l)
  \/ ~ended /\ \E t \in Threads : WriteStep(t)
  \/ ~ended /\ Rotate
  \/ ended /\ UNCHANGED vars

Spec == Init /\ [][Next]_vars

\* A thread inside log() keeps running; nobody has to log or to move the file.
FairSpec == Spec /\ \A t \in Threads : WF_vars(~ended /\ WriteStep(t))

-----------------------------------------------------------------------------
(* Properties                                                                *)

\* Types; fp is NULL or a file that fopen() returned.
TypeOK ==
  /\ pc \in [Threads -> {"idle", "access", "lock", "recheck", "fclose", "forget",
                         "loginit", "unlock", "fwrite"}]
  /\ lock \in Threads \cup {NoThread}
  /\ closes \in Seq(Nat)
  /\ fp \in 0..Len(closes)
  /\ present \in BOOLEAN
  /\ rotations \in 0..MaxRotations
  /\ misused \in SUBSET Threads
  /\ ended \in BOOLEAN

\* However many threads find the file missing, one closes and opens it: never more
\* opens than the file was moved away and no file is closed twice (the comment at
\* log.c:124 promises it); while nobody holds m_mutex exactly the last one is open
\* (log.c:119-131,153-161).
ReopenedOncePerRotation ==
  /\ Len(closes) <= rotations + 1
  /\ \A f \in DOMAIN closes : closes[f] <= 1
  /\ lock = NoThread => \A f \in DOMAIN closes : closes[f] = 0 <=> f = fp

\* log() returns, unless the process ends, however often the file is moved away
\* up to the bound (log.c:97-146).
LogReturns == \A t \in Threads : pc[t] # "idle" ~> pc[t] = "idle" \/ ended

\* No thread ever writes to a file that is not open: what "thread safe" asks of
\* fp (log.h:62-65, test/thread_test.c:7-9).
WritesOpenFile == misused = {}

=============================================================================
