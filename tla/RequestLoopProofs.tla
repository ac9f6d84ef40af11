-------------------------- MODULE RequestLoopProofs --------------------------
(***************************************************************************)
(* Proofs about RequestLoop, for any number of workers, any requests, any   *)
(* order of the strategies and any size of the buffer.                     *)
(***************************************************************************)
EXTENDS RequestLoop, SequenceTheorems, TLAPS

-----------------------------------------------------------------------------
(* The invariant, worker by worker                                           *)

\* PrepareStg is in the middle of an answer.
Answering == {"find", "header", "text", "error"}

\* The worker has a request that it has not given back.
Active(w) ==
  \/ pc[w] \in {"init", "check"} /\ rc[w] = "ok"
  \/ pc[w] \in {"body", "clear", "reset", "run", "put", "finish"} \cup Answering

\* The connection: open from accept to finish, and gone before the objects go.
Connection(w) ==
  /\ Active(w) => conn[w] = "open" /\ envp[w] = "live" /\ rc[w] = "ok"
  /\ pc[w] \in {"accept", "delete"} => conn[w] # "open"
  /\ pc[w] = "init" /\ rc[w] = "error" => conn[w] # "open" /\ envp[w] # "live"
  /\ pc[w] = "check" /\ rc[w] = "error" => conn[w] # "open"

\* The body: read to its end when the loop goes on.
Body(w) ==
  /\ pc[w] = "body" => request[w].body \in Nat /\ read[w] <= request[w].body
  /\ (pc[w] = "check" /\ rc[w] = "ok") \/ pc[w] \in {"clear", "reset", "run"} \cup Answering =>
       (request[w].body # NoBody => read[w] = request[w].body)

\* The shared values: those of this request, once they were cleared.
Own(w) ==
  pc[w] \in {"reset", "run"} \cup Answering => \A k \in DOMAIN values[w] : values[w][k] = "this"

\* PrepareStg is at work where the loop over the strategies is at it.
AtPrepare(w) == at[w] \in DOMAIN Strategies /\ Strategies[at[w]] = "PrepareStg"

\* The search of FrameWork::Find.
Search(w) ==
  /\ pc[w] \in Answering => AtPrepare(w)
  /\ pc[w] \notin Answering => look[w] = 1
  /\ pc[w] = "find" => \A i \in 1..look[w] - 1 : host_action_[i] # request[w].url
  /\ pc[w] \in {"header", "text"} =>
       look[w] \in DOMAIN host_action_ /\ host_action_[look[w]] = request[w].url
  /\ pc[w] = "error" => request[w].url \notin HostActions

\* Both actions can be found, and nothing else.
Actions ==
  /\ host_action_ = default_actions_
  /\ Len(host_action_) >= 2
  /\ host_action_[1] = "/guideaction" /\ host_action_[2] = "/testaction"
  /\ \A i \in DOMAIN host_action_ : host_action_[i] \in HostActions

WorkerStep(w) ==
  \/ \E r \in Requests : Accept(w, r)
  \/ AcceptFails(w) \/ ServeStep(w) \/ StrategyStep(w)

\* Nothing of worker u changes, and the actions stay.
Untouched(u) ==
  /\ pc'[u] = pc[u] /\ rc'[u] = rc[u] /\ conn'[u] = conn[u] /\ envp'[u] = envp[u]
  /\ request'[u] = request[u] /\ read'[u] = read[u] /\ at'[u] = at[u] /\ look'[u] = look[u]
  /\ values'[u] = values[u] /\ emitted'[u] = emitted[u] /\ out'[u] = out[u]

USE DEF Goto, Put, client, actions, PrepareReturns, OutputHeader, Cleared, Finished, Accepted,
        Header, LastChunk

\* Only PrepareStg::processInit touches the actions.
LEMMA WorkerKeepsActions ==
  ASSUME NEW w \in Workers, WorkerStep(w)
  PROVE  UNCHANGED actions
  BY DEF WorkerStep, StrategyStep, ServeStep, Accept, AcceptFails, Emit, SetShareValue,
     InitRequest, ReadBody, CheckResult, ClearValues, ResetStrategy, AllReset, RunReturns, AllRun,
     Process, FindNext, Find, ResponseError, SetHeader, WriteRaw, PutEmitted, FinishRequest,
     DeleteObjects, DestroyValueHolder

\* A step of one worker leaves the others alone.
LEMMA OneWorkerSteps ==
  ASSUME TypeOK, NEW w \in Workers, WorkerStep(w), NEW u \in Workers, u # w
  PROVE  Untouched(u)
  <1>1. CASE \E r \in Requests : Accept(w, r)
    BY <1>1 DEF Accept, Untouched, TypeOK
  <1>2. CASE AcceptFails(w) \/ StrategyStep(w)
    BY <1>2 DEF AcceptFails, StrategyStep, Emit, SetShareValue, Untouched, TypeOK
  <1>3. CASE InitRequest(w) \/ ReadBody(w) \/ CheckResult(w) \/ ClearValues(w)
    BY <1>3 DEF InitRequest, ReadBody, CheckResult, ClearValues, Untouched, TypeOK
  <1>4. CASE ResetStrategy(w) \/ AllReset(w) \/ RunReturns(w) \/ AllRun(w) \/ Process(w)
    BY <1>4 DEF ResetStrategy, AllReset, RunReturns, AllRun, Process, Untouched, TypeOK
  <1>5. CASE FindNext(w) \/ Find(w) \/ SetHeader(w)
    BY <1>5 DEF FindNext, Find, SetHeader, Untouched, TypeOK
  <1>6. CASE ResponseError(w) \/ WriteRaw(w) \/ PutEmitted(w)
    BY <1>6 DEF ResponseError, WriteRaw, PutEmitted, Untouched, TypeOK
  <1>7. CASE FinishRequest(w) \/ DeleteObjects(w) \/ DestroyValueHolder(w)
    BY <1>7 DEF FinishRequest, DeleteObjects, DestroyValueHolder, Untouched, TypeOK
  <1>8. QED
    BY <1>1, <1>2, <1>3, <1>4, <1>5, <1>6, <1>7 DEF WorkerStep, ServeStep

-----------------------------------------------------------------------------
\* A step between the test of rc and FCGX_Finish_r.
InService(w) ==
  /\ UNCHANGED client
  /\ pc[w] \in {"body", "clear", "reset", "run", "put"} \cup Answering
  /\ pc'[w] \in {"body", "check", "reset", "run", "put", "finish", "ended"} \cup Answering
  /\ pc[w] = "put" => pc'[w] = "finish"

LEMMA ServiceSteps ==
  ASSUME TypeOK, NEW w \in Workers, ServeStep(w), ~InitRequest(w), ~CheckResult(w),
         ~FinishRequest(w), ~DeleteObjects(w), ~DestroyValueHolder(w)
  PROVE  InService(w)
  <1> USE DEF InService, Answering, TypeOK
  <1>1. CASE ReadBody(w) \/ ClearValues(w)
    BY <1>1 DEF ReadBody, ClearValues
  <1>2. CASE ResetStrategy(w)
    BY <1>2 DEF ResetStrategy
  <1>3. CASE AllReset(w) \/ AllRun(w)
    BY <1>3 DEF AllReset, AllRun
  <1>4. CASE RunReturns(w)
    BY <1>4 DEF RunReturns, Running
  <1>5. CASE Process(w)
    BY <1>5 DEF Process, Running
  <1>6. CASE FindNext(w) \/ Find(w)
    BY <1>6 DEF FindNext, Find
  <1>7. CASE ResponseError(w) \/ SetHeader(w) \/ WriteRaw(w)
    BY <1>7 DEF ResponseError, SetHeader, WriteRaw
  <1>8. CASE PutEmitted(w)
    BY <1>8 DEF PutEmitted
  <1>9. QED
    BY <1>1, <1>2, <1>3, <1>4, <1>5, <1>6, <1>7, <1>8 DEF ServeStep

LEMMA ConnectionStep ==
  ASSUME TypeOK, NEW w \in Workers, Connection(w), WorkerStep(w)
  PROVE  Connection(w)'
  <1>1. CASE \E r \in Requests : Accept(w, r)
    BY <1>1 DEF Accept, Connection, Active, Answering, TypeOK
  <1>2. CASE AcceptFails(w) \/ StrategyStep(w)
    BY <1>2 DEF AcceptFails, StrategyStep, Emit, SetShareValue, Connection, Active, Answering, TypeOK
  <1>3. CASE InitRequest(w) \/ CheckResult(w)
    <2>1. /\ UNCHANGED client /\ pc[w] \in {"init", "check"}
          /\ pc'[w] \in {"init", "check", "body", "clear", "ended"}
          /\ pc'[w] = "init" => pc[w] = "init"
          /\ pc'[w] = "body" => pc[w] = "init" /\ envp[w] = "live"
          /\ pc'[w] = "clear" => rc[w] = "ok"
      BY <1>3 DEF InitRequest, CheckResult, TypeOK
    <2>2. rc[w] \in {"ok", "error"}
      BY DEF TypeOK
    <2>3. QED
      BY <2>1, <2>2 DEF Connection, Active, Answering
  <1>4. CASE ServeStep(w) /\ ~InitRequest(w) /\ ~CheckResult(w) /\ ~FinishRequest(w)
             /\ ~DeleteObjects(w) /\ ~DestroyValueHolder(w)
    <2>1. InService(w)
      BY <1>4, ServiceSteps
    <2>2. conn[w] = "open" /\ envp[w] = "live" /\ rc[w] = "ok"
      BY <2>1 DEF InService, Connection, Active
    <2>3. conn'[w] = "open" /\ envp'[w] = "live" /\ rc'[w] = "ok"
      BY <2>1, <2>2 DEF InService
    <2>4. QED
      BY <2>1, <2>3 DEF InService, Connection, Active, Answering
  <1>5. CASE FinishRequest(w) \/ DeleteObjects(w) \/ DestroyValueHolder(w)
    BY <1>5 DEF FinishRequest, DeleteObjects, DestroyValueHolder,
       Connection, Active, Answering, TypeOK
  <1>6. QED
    BY <1>1, <1>2, <1>3, <1>4, <1>5 DEF WorkerStep, ServeStep

\* Only ReadBody reads.
LEMMA ReadElsewhere ==
  ASSUME TypeOK, NEW w \in Workers, ServeStep(w), ~InitRequest(w), ~CheckResult(w),
         ~FinishRequest(w), ~DeleteObjects(w), ~DestroyValueHolder(w), ~ReadBody(w)
  PROVE  pc[w] # "body" /\ pc'[w] \notin {"body", "check"} /\ read' = read
  <1>1. CASE ClearValues(w) \/ ResetStrategy(w) \/ AllReset(w) \/ AllRun(w) \/ PutEmitted(w)
    BY <1>1 DEF ClearValues, ResetStrategy, AllReset, AllRun, PutEmitted, TypeOK
  <1>2. CASE RunReturns(w) \/ Process(w)
    BY <1>2 DEF RunReturns, Process, Running, TypeOK
  <1>3. CASE FindNext(w) \/ Find(w)
    BY <1>3 DEF FindNext, Find, TypeOK
  <1>4. CASE ResponseError(w) \/ SetHeader(w) \/ WriteRaw(w)
    BY <1>4 DEF ResponseError, SetHeader, WriteRaw, TypeOK
  <1>5. QED
    BY <1>1, <1>2, <1>3, <1>4 DEF ServeStep

LEMMA BodyStep ==
  ASSUME TypeOK, NEW w \in Workers, Connection(w), Body(w), WorkerStep(w)
  PROVE  Body(w)'
  <1>1. CASE \E r \in Requests : Accept(w, r)
    BY <1>1 DEF Accept, Body, Answering, TypeOK
  <1>2. CASE AcceptFails(w) \/ StrategyStep(w)
    BY <1>2 DEF AcceptFails, StrategyStep, Emit, SetShareValue, Body, Answering, TypeOK
  <1>3. CASE ReadBody(w)
    BY <1>3, ChunkSizeAssumption DEF ReadBody, Readable, Body, Answering, TypeOK
  <1>4. CASE InitRequest(w)
    <2>1. request[w].body \in Nat \cup {NoBody}
      BY RequestsAssumption DEF TypeOK, NoRequest
    <2>2. /\ pc[w] = "init" /\ read'[w] = 0 /\ request' = request /\ rc' = rc
          /\ pc'[w] \in {"init", "check", "body"}
          /\ pc'[w] = "body" => request[w].body # NoBody
          /\ pc'[w] = "check" => envp[w] # "live" \/ request[w].body = NoBody
      BY <1>4 DEF InitRequest, TypeOK
    <2>3. rc[w] = "ok" => envp[w] = "live"
      BY <2>2 DEF Connection, Active
    <2>4. rc'[w] = rc[w] /\ request'[w] = request[w]
      BY <2>2
    <2>5. pc'[w] = "body" => request'[w].body \in Nat /\ read'[w] <= request'[w].body
      BY <2>1, <2>2, <2>4
    <2>6. pc'[w] = "check" /\ rc'[w] = "ok" => request'[w].body = NoBody
      BY <2>2, <2>3, <2>4
    <2>7. QED
      BY <2>2, <2>5, <2>6 DEF Body, Answering
  <1>5. CASE CheckResult(w)
    BY <1>5 DEF CheckResult, Body, Answering, TypeOK
  <1>6. CASE FinishRequest(w) \/ DeleteObjects(w) \/ DestroyValueHolder(w)
    BY <1>6 DEF FinishRequest, DeleteObjects, DestroyValueHolder, Body, Answering, TypeOK
  <1>7. CASE ServeStep(w) /\ ~ReadBody(w) /\ ~InitRequest(w) /\ ~CheckResult(w)
             /\ ~FinishRequest(w) /\ ~DeleteObjects(w) /\ ~DestroyValueHolder(w)
    <2>1. InService(w) /\ pc[w] # "body" /\ pc'[w] \notin {"body", "check"} /\ read' = read
      BY <1>7, ServiceSteps, ReadElsewhere
    <2>2. QED
      BY <2>1 DEF InService, Body, Answering
  <1>8. QED
    BY <1>1, <1>2, <1>3, <1>4, <1>5, <1>6, <1>7 DEF WorkerStep

-----------------------------------------------------------------------------
(* The shared values                                                         *)

\* The values change where they are cleared, where a strategy sets one, and with the worker.
LEMMA ValuesElsewhere ==
  ASSUME TypeOK, NEW w \in Workers, InService(w), ServeStep(w), ~ClearValues(w)
  PROVE  values' = values /\ pc[w] # "clear" /\ (pc'[w] = "reset" => pc[w] = "reset")
         /\ (pc[w] = "body" => pc'[w] \in {"body", "check"})
  <1> USE DEF InService, TypeOK, Answering
  <1>1. CASE InitRequest(w) \/ ReadBody(w) \/ CheckResult(w)
    BY <1>1 DEF InitRequest, ReadBody, CheckResult
  <1>2. CASE ResetStrategy(w) \/ AllReset(w) \/ AllRun(w) \/ PutEmitted(w)
    BY <1>2 DEF ResetStrategy, AllReset, AllRun, PutEmitted
  <1>3. CASE RunReturns(w) \/ Process(w)
    BY <1>3 DEF RunReturns, Process, Running
  <1>4. CASE FindNext(w) \/ Find(w)
    BY <1>4 DEF FindNext, Find
  <1>5. CASE ResponseError(w) \/ SetHeader(w) \/ WriteRaw(w)
    BY <1>5 DEF ResponseError, SetHeader, WriteRaw
  <1>6. CASE FinishRequest(w) \/ DeleteObjects(w) \/ DestroyValueHolder(w)
    BY <1>6 DEF FinishRequest, DeleteObjects, DestroyValueHolder
  <1>7. QED
    BY <1>1, <1>2, <1>3, <1>4, <1>5, <1>6 DEF ServeStep

LEMMA OwnStep ==
  ASSUME TypeOK, NEW w \in Workers, Own(w), WorkerStep(w)
  PROVE  Own(w)'
  <1>1. CASE (\E r \in Requests : Accept(w, r)) \/ AcceptFails(w)
    BY <1>1 DEF Accept, AcceptFails, Own, Answering, TypeOK
  <1>2. CASE Emit(w)
    BY <1>2 DEF Emit, Own, TypeOK
  <1>3. ASSUME NEW k \in Keys, SetShareValue(w, k) PROVE Own(w)'
    <2>1. pc' = pc /\ pc[w] = "run"
      BY <1>3 DEF SetShareValue, Running
    <2>2. values'[w] = [x \in DOMAIN values[w] \cup {k} |->
                          IF x = k THEN "this" ELSE values[w][x]]
      BY <1>3 DEF SetShareValue, TypeOK
    <2>3. \A x \in DOMAIN values'[w] : values'[w][x] = "this"
      BY <2>1, <2>2 DEF Own
    <2>4. QED
      BY <2>3 DEF Own
  <1>4. CASE ClearValues(w)
    <2>1. values'[w] = NoValues
      BY <1>4 DEF ClearValues, TypeOK
    <2>2. QED
      BY <2>1 DEF Own, NoValues
  <1>5. CASE InitRequest(w) \/ CheckResult(w)
    BY <1>5 DEF InitRequest, CheckResult, Own, Answering, TypeOK
  <1>6. CASE FinishRequest(w) \/ DeleteObjects(w) \/ DestroyValueHolder(w)
    BY <1>6 DEF FinishRequest, DeleteObjects, DestroyValueHolder, Own, Answering, TypeOK
  <1>7. CASE ServeStep(w) /\ ~InitRequest(w) /\ ~CheckResult(w) /\ ~FinishRequest(w)
             /\ ~DeleteObjects(w) /\ ~DestroyValueHolder(w) /\ ~ClearValues(w)
    <2>1. InService(w)
      BY <1>7, ServiceSteps
    <2>2. values' = values /\ pc[w] # "clear" /\ (pc'[w] = "reset" => pc[w] = "reset")
          /\ (pc[w] = "body" => pc'[w] \in {"body", "check"})
      BY <1>7, <2>1, ValuesElsewhere
    <2>3. QED
      BY <2>1, <2>2 DEF InService, Own, Answering
  <1>8. QED
    BY <1>1, <1>2, <1>3, <1>4, <1>5, <1>6, <1>7 DEF WorkerStep, StrategyStep

-----------------------------------------------------------------------------
(* The search                                                                *)

\* The step that passes an action, or finds it, or misses it.
LEMMA FindStep ==
  ASSUME TypeOK, Actions, NEW w \in Workers, Search(w), FindNext(w) \/ Find(w)
  PROVE  Search(w)'
  <1>1. Len(host_action_) \in Nat /\ look[w] \in 1..Len(host_action_) + 1
        /\ DOMAIN host_action_ = 1..Len(host_action_)
    BY LenProperties DEF TypeOK
  <1>2. /\ pc[w] = "find" /\ AtPrepare(w) /\ UNCHANGED <<request, at, host_action_>>
        /\ \A i \in 1..look[w] - 1 : host_action_[i] # request[w].url
    BY DEF FindNext, Find, Search, Answering
  <1>3. AtPrepare(w)'
    BY <1>2 DEF AtPrepare
  <1>4. CASE FindNext(w)
    <2>1. pc'[w] = "find" /\ look'[w] = look[w] + 1 /\ host_action_[look[w]] # request[w].url
      BY <1>2, <1>4 DEF FindNext, TypeOK
    <2>2. \A i \in 1..look'[w] - 1 : host_action_[i] # request[w].url
      BY <1>1, <1>2, <2>1
    <2>3. QED
      BY <1>2, <1>3, <2>1, <2>2 DEF Search, Answering
  <1>5. CASE Find(w)
    <2>1. look' = look /\ pc'[w] \in {"header", "error"}
          /\ (pc'[w] = "header" => look[w] <= Len(host_action_) /\ host_action_[look[w]] = request[w].url)
          /\ (pc'[w] = "error" => look[w] > Len(host_action_))
      BY <1>5 DEF Find, TypeOK
    <2>2. CASE pc'[w] = "header"
      BY <1>1, <1>2, <1>3, <2>1, <2>2 DEF Search, Answering
    <2>3. CASE pc'[w] = "error"
      <3>1. host_action_[1] # request[w].url /\ host_action_[2] # request[w].url
        BY <1>1, <1>2, <2>1, <2>3 DEF Actions
      <3>2. request[w].url \notin HostActions
        BY <3>1 DEF HostActions, Actions
      <3>3. QED
        BY <1>2, <1>3, <2>1, <2>3, <3>2 DEF Search, Answering
    <2>4. QED
      BY <2>1, <2>2, <2>3
  <1>6. QED
    BY <1>4, <1>5

LEMMA SearchStep ==
  ASSUME TypeOK, Actions, NEW w \in Workers, Search(w), WorkerStep(w)
  PROVE  Search(w)'
  <1>1. CASE (\E r \in Requests : Accept(w, r)) \/ AcceptFails(w)
    BY <1>1 DEF Accept, AcceptFails, Search, Answering, TypeOK
  <1>2. CASE Emit(w) \/ \E k \in Keys : SetShareValue(w, k)
    BY <1>2 DEF Emit, SetShareValue, Running, Search, Answering, TypeOK
  <1>3. CASE InitRequest(w) \/ ReadBody(w) \/ CheckResult(w)
    BY <1>3 DEF InitRequest, ReadBody, CheckResult, Search, Answering, TypeOK
  <1>4. CASE ClearValues(w) \/ ResetStrategy(w) \/ AllReset(w)
    BY <1>4 DEF ClearValues, ResetStrategy, AllReset, Search, Answering, TypeOK
  <1>5. CASE RunReturns(w) \/ AllRun(w)
    BY <1>5 DEF RunReturns, AllRun, Running, Search, Answering, TypeOK
  <1>6. CASE Process(w)
    <2>1. /\ pc[w] = "run" /\ pc'[w] = "find" /\ UNCHANGED <<at, look>>
          /\ at[w] <= Len(Strategies) /\ Strategies[at[w]] = "PrepareStg"
      BY <1>6 DEF Process, Running, TypeOK
    <2>2. at[w] \in DOMAIN Strategies
      BY <2>1, StrategiesAssumption, LenProperties DEF TypeOK
    <2>3. look'[w] = 1 /\ AtPrepare(w)'
      BY <2>1, <2>2 DEF Search, Answering, AtPrepare
    <2>4. QED
      BY <2>1, <2>3 DEF Search, Answering
  <1>7. CASE FindNext(w) \/ Find(w)
    BY <1>7, FindStep
  <1>8. CASE ResponseError(w) \/ WriteRaw(w)
    BY <1>8 DEF ResponseError, WriteRaw, Search, Answering, TypeOK
  <1>9. CASE SetHeader(w)
    BY <1>9 DEF SetHeader, Search, AtPrepare, Answering, TypeOK
  <1>10. CASE PutEmitted(w) \/ FinishRequest(w) \/ DeleteObjects(w) \/ DestroyValueHolder(w)
    BY <1>10 DEF PutEmitted, FinishRequest, DeleteObjects, DestroyValueHolder, Search, Answering, TypeOK
  <1>11. QED
    BY <1>1, <1>2, <1>3, <1>4, <1>5, <1>6, <1>7, <1>8, <1>9, <1>10
    DEF WorkerStep, StrategyStep, ServeStep

-----------------------------------------------------------------------------
(* The response                                                              *)

\* PrepareStg answered already.
Prepared(w) == \E j \in DOMAIN Strategies : j < at[w] /\ Strategies[j] = "PrepareStg"

Answered(w) ==
  IF ~Prepared(w) THEN <<>>
  ELSE IF request[w].url \in HostActions THEN <<"200", request[w].url>> ELSE <<"404">>

\* What was written so far and what is still to be written.
Output(w) ==
  /\ (pc[w] \in {"init", "check"} /\ rc[w] = "ok")
       \/ pc[w] \in {"body", "clear", "reset", "find", "header", "error"} => out[w] = <<>>
  /\ pc[w] = "run" => out[w] = Answered(w)
  /\ pc[w] = "text" => out[w] = <<"200">>
  /\ pc[w] = "put" => out[w] = Answered(w) /\ ~AtPrepare(w)
  /\ pc[w] = "finish" \/ conn[w] = "finished" => Whole(w)

\* What was emitted comes from strategies that were run.
Emitted(w) ==
  /\ pc[w] \in {"accept", "init", "body", "check", "clear", "reset"} => emitted[w] = <<>>
  /\ pc[w] \in {"run", "put"} \cup Answering =>
       \A i \in DOMAIN emitted[w] : emitted[w][i] \in Ran(w) \ {"PrepareStg"}

LEMMA Positions ==
  ASSUME TypeOK, NEW w \in Workers
  PROVE  /\ Len(Strategies) \in Nat /\ DOMAIN Strategies = 1..Len(Strategies)
         /\ at[w] \in 1..Len(Strategies) + 1
  BY StrategiesAssumption, LenProperties DEF TypeOK

\* Behind the last strategy that was run, both views of the answer agree.
LEMMA AnswerIsAnswered ==
  ASSUME TypeOK, NEW w \in Workers, ~AtPrepare(w)
  PROVE  Answer(w) = Answered(w)
  <1>1. "PrepareStg" \in Ran(w) <=> \E j \in DOMAIN Strategies : j <= at[w] /\ Strategies[j] = "PrepareStg"
    BY DEF Ran
  <1>2. "PrepareStg" \in Ran(w) <=> Prepared(w)
    BY <1>1, Positions DEF Prepared, AtPrepare
  <1>3. QED
    BY <1>2 DEF Answer, Answered

\* PrepareStg is in the order once.
LEMMA NotPreparedAt ==
  ASSUME TypeOK, NEW w \in Workers, AtPrepare(w)
  PROVE  ~Prepared(w)
  BY Positions, StrategiesAssumption DEF Prepared, AtPrepare

\* The next strategy.
LEMMA NextStrategy ==
  ASSUME TypeOK, NEW w \in Workers, at[w] <= Len(Strategies), at'[w] = at[w] + 1,
         request'[w] = request[w]
  PROVE  /\ Prepared(w)' <=> Prepared(w) \/ AtPrepare(w)
         /\ Ran(w) \subseteq Ran(w)'
  <1>1. Prepared(w)' <=> Prepared(w) \/ AtPrepare(w)
    BY Positions DEF Prepared, AtPrepare
  <1>2. Ran(w) \subseteq Ran(w)'
    BY Positions DEF Ran
  <1>3. QED
    BY <1>1, <1>2

LEMMA SameWhole ==
  ASSUME NEW w \in Workers, Whole(w), at'[w] = at[w], request'[w] = request[w], out'[w] = out[w]
  PROVE  Whole(w)'
  BY DEF Whole, Answer, Ran

LEMMA EmittedStep ==
  ASSUME TypeOK, NEW w \in Workers, Emitted(w), Search(w), WorkerStep(w)
  PROVE  Emitted(w)'
  <1>1. CASE (\E r \in Requests : Accept(w, r)) \/ AcceptFails(w)
    BY <1>1 DEF Accept, AcceptFails, Emitted, Answering, TypeOK
  <1>2. CASE Emit(w)
    <2>1. /\ pc' = pc /\ pc[w] = "run" /\ at' = at /\ Strategies[at[w]] # "PrepareStg"
          /\ at[w] <= Len(Strategies) /\ emitted'[w] = Append(emitted[w], Strategies[at[w]])
      BY <1>2 DEF Emit, Running, TypeOK
    <2>2. Strategies[at[w]] \in Ran(w) \ {"PrepareStg"} /\ Strategies[at[w]] \in Chunks
      BY <2>1, Positions DEF Ran, Chunks
    <2>3. Ran(w)' = Ran(w)
      BY <2>1 DEF Ran
    <2>4. emitted[w] \in Seq(Chunks) /\ \A i \in DOMAIN emitted[w] : emitted[w][i] \in Ran(w) \ {"PrepareStg"}
      BY <2>1 DEF Emitted, TypeOK
    <2>5. \A i \in DOMAIN emitted'[w] : emitted'[w][i] \in Ran(w) \ {"PrepareStg"}
      BY <2>1, <2>2, <2>4, AppendProperties, LenProperties
    <2>6. QED
      BY <2>1, <2>3, <2>5 DEF Emitted
  <1>3. ASSUME NEW k \in Keys, SetShareValue(w, k) PROVE Emitted(w)'
    BY <1>3 DEF SetShareValue, Emitted, Ran
  <1>4. CASE InitRequest(w) \/ ReadBody(w) \/ CheckResult(w)
    BY <1>4 DEF InitRequest, ReadBody, CheckResult, Emitted, Answering, TypeOK
  <1>5. CASE ClearValues(w) \/ ResetStrategy(w)
    BY <1>5 DEF ClearValues, ResetStrategy, Emitted, Answering, TypeOK
  <1>6. CASE AllReset(w)
    BY <1>6 DEF AllReset, Emitted, Answering, TypeOK
  <1>7. CASE RunReturns(w) \/ ResponseError(w) \/ WriteRaw(w)
    <2>1. /\ pc[w] \in {"run", "error", "text"} /\ pc'[w] \in {"run", "put"}
          /\ emitted' = emitted /\ request' = request
          /\ at'[w] = at[w] \/ (at'[w] = at[w] + 1 /\ at[w] <= Len(Strategies))
      <3>1. CASE RunReturns(w)
        BY <3>1 DEF RunReturns, Running, TypeOK
      <3>2. CASE ResponseError(w)
        BY <3>2, Positions DEF ResponseError, Search, Answering, AtPrepare, TypeOK
      <3>3. CASE WriteRaw(w)
        BY <3>3, Positions DEF WriteRaw, Search, Answering, AtPrepare, TypeOK
      <3>4. QED
        BY <1>7, <3>1, <3>2, <3>3
    <2>2. Ran(w) \subseteq Ran(w)'
      <3>1. CASE at'[w] = at[w]
        BY <3>1 DEF Ran
      <3>2. CASE at'[w] = at[w] + 1 /\ at[w] <= Len(Strategies)
        BY <2>1, <3>2, NextStrategy
      <3>3. QED
        BY <2>1, <3>1, <3>2
    <2>3. QED
      BY <2>1, <2>2 DEF Emitted, Answering
  <1>8. CASE AllRun(w) \/ Process(w)
    BY <1>8 DEF AllRun, Process, Running, Emitted, Answering, Ran, TypeOK
  <1>9. CASE FindNext(w) \/ Find(w) \/ SetHeader(w)
    BY <1>9 DEF FindNext, Find, SetHeader, Emitted, Answering, Ran, TypeOK
  <1>10. CASE PutEmitted(w) \/ FinishRequest(w) \/ DeleteObjects(w) \/ DestroyValueHolder(w)
    BY <1>10 DEF PutEmitted, FinishRequest, DeleteObjects, DestroyValueHolder, Emitted, Answering, TypeOK
  <1>11. QED
    BY <1>1, <1>2, <1>3, <1>4, <1>5, <1>6, <1>7, <1>8, <1>9, <1>10
    DEF WorkerStep, StrategyStep, ServeStep

\* A chunk behind nothing, and behind another.
LEMMA JoinOne ==
  ASSUME NEW S, NEW a \in S, NEW b \in S
  PROVE  <<>> \o <<a>> = <<a>> /\ <<a>> \o <<b>> = <<a, b>>
  <1>1. <<a>> \in Seq(S) /\ <<b>> \in Seq(S) /\ <<a, b>> \in Seq(S)
    OBVIOUS
  <1>2. <<>> \o <<a>> = <<a>>
    BY <1>1, ConcatEmptySeq
  <1>3. Len(<<a>>) = 1 /\ Len(<<b>>) = 1 /\ Len(<<a, b>>) = 2
    OBVIOUS
  <1>4. /\ <<a>> \o <<b>> \in Seq(S)
        /\ Len(<<a>> \o <<b>>) = Len(<<a>>) + Len(<<b>>)
        /\ \A i \in 1..Len(<<a>>) + Len(<<b>>) :
             (<<a>> \o <<b>>)[i] = IF i <= Len(<<a>>) THEN <<a>>[i] ELSE <<b>>[i - Len(<<a>>)]
    BY <1>1, ConcatProperties
  <1>5. (<<a>> \o <<b>>)[1] = a /\ (<<a>> \o <<b>>)[2] = b
    BY <1>4, <1>3
  <1>6. <<a, b>>[1] = a /\ <<a, b>>[2] = b
    OBVIOUS
  <1>7. ASSUME NEW i \in 1..2 PROVE (<<a>> \o <<b>>)[i] = <<a, b>>[i]
    <2>1. i = 1 \/ i = 2
      OBVIOUS
    <2>2. QED
      BY <2>1, <1>5, <1>6
  <1>8. <<a>> \o <<b>> = <<a, b>>
    <2>1. Len(<<a>> \o <<b>>) = Len(<<a, b>>)
      BY <1>4, <1>3
    <2>2. \A i \in 1..Len(<<a>> \o <<b>>) : (<<a>> \o <<b>>)[i] = <<a, b>>[i]
      <3>1. Len(<<a>> \o <<b>>) = 2
        BY <1>4, <1>3
      <3>2. QED
        BY <3>1, <1>7
    <2>3. QED
      BY <1>1, <1>4, <2>1, <2>2, SeqEqual, Zenon
  <1>9. QED
    BY <1>2, <1>8

LEMMA PairOf ==
  \A S : \A a, b \in S :
    <<a, b>> \in Seq(S) /\ Len(<<a, b>>) = 2 /\ <<a, b>>[1] = a /\ <<a, b>>[2] = b
  OBVIOUS

\* What t behind s is made of.
Joined(s, t) ==
  /\ Len(s) <= Len(s \o t)
  /\ \A i \in 1..Len(s) : (s \o t)[i] = s[i]
  /\ \A i \in Len(s) + 1..Len(s \o t) : \E j \in DOMAIN t : (s \o t)[i] = t[j]

LEMMA JoinTwo == \A S : \A s, t \in Seq(S) : Joined(s, t)
  <1> SUFFICES ASSUME NEW S, NEW s \in Seq(S), NEW t \in Seq(S) PROVE Joined(s, t)
    OBVIOUS
  <1>1. /\ Len(s \o t) = Len(s) + Len(t)
        /\ \A i \in 1..Len(s) + Len(t) :
             (s \o t)[i] = IF i <= Len(s) THEN s[i] ELSE t[i - Len(s)]
    BY ConcatProperties
  <1>2. Len(s) \in Nat /\ Len(t) \in Nat /\ DOMAIN t = 1..Len(t)
    BY LenProperties
  <1>3. \A i \in Len(s) + 1..Len(s \o t) : i - Len(s) \in DOMAIN t /\ (s \o t)[i] = t[i - Len(s)]
    BY <1>1, <1>2
  <1>4. QED
    BY <1>1, <1>2, <1>3 DEF Joined

LEMMA ChunkTypes ==
  /\ "200" \in Chunks /\ "404" \in Chunks
  /\ \A x \in HostActions : x \in Chunks
  /\ \A i \in DOMAIN Strategies : Strategies[i] \in Chunks
  BY DEF Chunks

\* The text behind the header, or the 404.
LEMMA AnswerStep ==
  ASSUME TypeOK, NEW w \in Workers, Search(w), Output(w), ResponseError(w) \/ WriteRaw(w), Actions
  PROVE  out'[w] = Answered(w)' /\ pc'[w] = "run"
  <1>1. AtPrepare(w) /\ request' = request /\ at'[w] = at[w] + 1 /\ pc'[w] = "run"
        /\ at[w] <= Len(Strategies)
    BY Positions DEF ResponseError, WriteRaw, Search, Answering, AtPrepare, TypeOK
  <1>2. Prepared(w)'
    BY <1>1, NextStrategy
  <1>3. CASE ResponseError(w)
    <2>1. request[w].url \notin HostActions /\ out[w] = <<>> /\ out'[w] = out[w] \o <<"404">>
      BY <1>3 DEF ResponseError, Search, Answering, Output, TypeOK
    <2>2. out'[w] = <<"404">>
      BY <2>1, JoinOne, ChunkTypes
    <2>3. QED
      BY <1>1, <1>2, <2>1, <2>2 DEF Answered
  <1>4. CASE WriteRaw(w)
    <2>1. look[w] \in DOMAIN host_action_ /\ host_action_[look[w]] = request[w].url
          /\ out[w] = <<"200">> /\ out'[w] = out[w] \o <<host_action_[look[w]]>>
      BY <1>4 DEF WriteRaw, Search, Answering, Output, TypeOK
    <2>2. request[w].url \in HostActions
      BY <2>1 DEF Actions
    <2>3. out'[w] = <<"200", request[w].url>>
      <3>1. host_action_[look[w]] \in Chunks /\ "200" \in Chunks
        BY <2>1, <2>2, ChunkTypes
      <3>2. QED
        BY <2>1, <3>1, JoinOne
    <2>4. QED
      BY <1>1, <1>2, <2>2, <2>3 DEF Answered
  <1>5. QED
    BY <1>1, <1>3, <1>4

\* p->str() goes behind the answer.
LEMMA PutStep ==
  ASSUME TypeOK, NEW w \in Workers, Output(w), Emitted(w), PutEmitted(w)
  PROVE  Whole(w)' /\ pc'[w] = "finish"
  <1>1. /\ pc[w] = "put" /\ pc'[w] = "finish" /\ UNCHANGED <<request, at>>
        /\ out'[w] = out[w] \o emitted[w]
    BY DEF PutEmitted, TypeOK
  <1>2. out[w] = Answer(w)
    BY <1>1, AnswerIsAnswered DEF Output
  <1>3. Answer(w)' = Answer(w) /\ Ran(w)' = Ran(w)
    BY <1>1 DEF Answer, Ran
  <1>4. out[w] \in Seq(Chunks) /\ emitted[w] \in Seq(Chunks)
    BY DEF TypeOK
  <1>5. \A i \in DOMAIN emitted[w] : emitted[w][i] \in Ran(w) \ {"PrepareStg"}
    BY <1>1 DEF Emitted
  <1>6. /\ Len(out[w]) <= Len(out'[w])
        /\ \A i \in 1..Len(out[w]) : out'[w][i] = out[w][i]
        /\ \A i \in Len(out[w]) + 1..Len(out'[w]) :
             \E j \in DOMAIN emitted[w] : out'[w][i] = emitted[w][j]
    <2>1. /\ Len(out[w]) <= Len(out[w] \o emitted[w])
          /\ \A i \in 1..Len(out[w]) : (out[w] \o emitted[w])[i] = out[w][i]
          /\ \A i \in Len(out[w]) + 1..Len(out[w] \o emitted[w]) :
               \E j \in DOMAIN emitted[w] : (out[w] \o emitted[w])[i] = emitted[w][j]
      <3>1. Joined(out[w], emitted[w])
        BY <1>4, JoinTwo, Zenon
      <3>2. QED
        BY <3>1 DEF Joined
    <2>2. QED
      BY <1>1, <2>1
  <1>7. \A i \in Len(out[w]) + 1..Len(out'[w]) : out'[w][i] \in Ran(w) \ {"PrepareStg"}
    BY <1>5, <1>6
  <1>8. QED
    BY <1>1, <1>2, <1>3, <1>6, <1>7 DEF Whole

LEMMA OutputStep ==
  ASSUME TypeOK, Actions, NEW w \in Workers, Connection(w), Search(w), Output(w), Emitted(w),
         WorkerStep(w)
  PROVE  Output(w)'
  <1>1. CASE \E r \in Requests : Accept(w, r)
    BY <1>1 DEF Accept, Output, TypeOK
  <1>2. CASE AcceptFails(w)
    <2>1. /\ pc'[w] = "init" /\ rc'[w] = "error" /\ UNCHANGED <<request, at, out>>
          /\ conn'[w] = "finished" => conn[w] = "finished"
      BY <1>2 DEF AcceptFails, Connection, TypeOK
    <2>2. QED
      BY <2>1, SameWhole DEF Output
  <1>3. CASE Emit(w) \/ \E k \in Keys : SetShareValue(w, k)
    <2>1. pc[w] = "run" /\ UNCHANGED <<pc, rc, conn, request, at, out>>
      BY <1>3 DEF Emit, SetShareValue, Running
    <2>2. conn[w] = "open" /\ out[w] = Answered(w) /\ Answered(w)' = Answered(w)
      BY <2>1 DEF Connection, Active, Output, Answered, Prepared
    <2>3. QED
      BY <2>1, <2>2 DEF Output
  <1>4. CASE InitRequest(w) \/ CheckResult(w)
    <2>1. /\ pc[w] \in {"init", "check"} /\ UNCHANGED <<rc, conn, request, at, out>>
          /\ pc'[w] \in {"init", "check", "body", "clear", "ended"}
          /\ pc'[w] = "body" => envp[w] = "live" /\ pc[w] = "init"
          /\ pc'[w] = "clear" => rc[w] = "ok"
      BY <1>4 DEF InitRequest, CheckResult, TypeOK
    <2>2. pc'[w] = "body" => rc[w] = "ok"
      BY <2>1 DEF Connection, TypeOK
    <2>3. QED
      BY <2>1, <2>2, SameWhole DEF Output
  <1>5. CASE FinishRequest(w) \/ DeleteObjects(w) \/ DestroyValueHolder(w)
    <2>1. /\ pc'[w] \in {"delete", "accept", "gone"} /\ UNCHANGED <<request, at, out>>
          /\ conn'[w] = "finished" => conn[w] = "finished" \/ pc[w] = "finish"
      BY <1>5 DEF FinishRequest, DeleteObjects, DestroyValueHolder, TypeOK
    <2>2. QED
      BY <2>1, SameWhole DEF Output
  <1>6. CASE ServeStep(w) /\ ~InitRequest(w) /\ ~CheckResult(w) /\ ~FinishRequest(w)
             /\ ~DeleteObjects(w) /\ ~DestroyValueHolder(w)
    <2>1. InService(w)
      BY <1>6, ServiceSteps
    <2>2. conn[w] = "open" /\ conn'[w] = "open" /\ pc'[w] # "init" /\ rc'[w] = rc[w]
      BY <2>1 DEF InService, Connection, Active, Answering
    <2>3. CASE ReadBody(w) \/ ClearValues(w) \/ ResetStrategy(w)
      BY <2>2, <2>3 DEF ReadBody, ClearValues, ResetStrategy, Output, TypeOK
    <2>4. CASE AllReset(w)
      <3>1. pc[w] = "reset" /\ pc'[w] = "run" /\ at'[w] = 1 /\ UNCHANGED <<request, out>>
        BY <2>4 DEF AllReset, TypeOK
      <3>2. ~Prepared(w)'
        BY <3>1, Positions DEF Prepared
      <3>3. QED
        BY <2>2, <3>1, <3>2 DEF Output, Answered
    <2>5. CASE RunReturns(w)
      <3>1. /\ pc[w] = "run" /\ UNCHANGED <<request, out>> /\ ~AtPrepare(w)
            /\ at[w] <= Len(Strategies)
            /\ \/ pc'[w] = "run" /\ at'[w] = at[w] + 1
               \/ pc'[w] = "put" /\ at'[w] = at[w]
        BY <2>5 DEF RunReturns, Running, AtPrepare, TypeOK
      <3>2. Answered(w)' = Answered(w)
        <4>1. CASE at'[w] = at[w]
          BY <3>1, <4>1 DEF Answered, Prepared
        <4>2. CASE at'[w] = at[w] + 1
          BY <3>1, <4>2, NextStrategy DEF Answered
        <4>3. QED
          BY <3>1, <4>1, <4>2
      <3>3. pc'[w] = "put" => ~AtPrepare(w)'
        BY <3>1, Positions DEF AtPrepare
      <3>4. QED
        BY <2>2, <3>1, <3>2, <3>3 DEF Output
    <2>6. CASE AllRun(w)
      <3>1. pc[w] = "run" /\ pc'[w] = "put" /\ UNCHANGED <<request, out, at>>
            /\ at[w] > Len(Strategies)
        BY <2>6 DEF AllRun, TypeOK
      <3>2. Answered(w)' = Answered(w) /\ ~AtPrepare(w)'
        BY <3>1, Positions DEF Answered, Prepared, AtPrepare
      <3>3. QED
        BY <2>2, <3>1, <3>2 DEF Output
    <2>7. CASE Process(w)
      <3>1. pc[w] = "run" /\ pc'[w] = "find" /\ UNCHANGED out /\ at[w] <= Len(Strategies)
            /\ Strategies[at[w]] = "PrepareStg"
        BY <2>7 DEF Process, Running, TypeOK
      <3>2. ~Prepared(w)
        BY <3>1, Positions, NotPreparedAt DEF AtPrepare
      <3>3. QED
        BY <2>2, <3>1, <3>2 DEF Output, Answered
    <2>8. CASE FindNext(w) \/ Find(w)
      BY <2>2, <2>8 DEF FindNext, Find, Output, TypeOK
    <2>9. CASE ResponseError(w) \/ WriteRaw(w)
      BY <2>2, <2>9, AnswerStep DEF Output
    <2>10. CASE SetHeader(w)
      <3>1. pc[w] = "header" /\ pc'[w] = "text" /\ out'[w] = out[w] \o <<"200">>
        BY <2>10 DEF SetHeader, TypeOK
      <3>2. out[w] = <<>> /\ out'[w] = <<"200">>
        BY <3>1, JoinOne, ChunkTypes DEF Output
      <3>3. QED
        BY <2>2, <3>1, <3>2 DEF Output
    <2>11. CASE PutEmitted(w)
      BY <2>2, <2>11, PutStep DEF Output
    <2>12. QED
      BY <1>6, <2>3, <2>4, <2>5, <2>6, <2>7, <2>8, <2>9, <2>10, <2>11 DEF ServeStep
  <1>7. QED
    BY <1>1, <1>2, <1>3, <1>4, <1>5, <1>6 DEF WorkerStep, StrategyStep

-----------------------------------------------------------------------------
(* Types                                                                     *)

LEMMA AgedValues ==
  ASSUME NEW v \in SharedValues
  PROVE  [k \in DOMAIN v |-> "earlier"] \in SharedValues
  BY DEF SharedValues

LEMMA SetValues ==
  ASSUME NEW v \in SharedValues, NEW k \in Keys
  PROVE  [x \in DOMAIN v \cup {k} |-> IF x = k THEN "this" ELSE v[x]] \in SharedValues
  <1>1. PICK S \in SUBSET Keys : v \in [S -> {"this", "earlier"}]
    BY DEF SharedValues
  <1>2. [x \in S \cup {k} |-> IF x = k THEN "this" ELSE v[x]]
          \in [S \cup {k} -> {"this", "earlier"}]
    BY <1>1
  <1>3. QED
    BY <1>1, <1>2 DEF SharedValues

LEMMA NoSharedValues == NoValues \in SharedValues
  BY DEF NoValues, SharedValues

\* Where the worker is, and its connection.
LEMMA ControlTypes ==
  ASSUME TypeOK, NEW w \in Workers, WorkerStep(w)
  PROVE  /\ pc' \in [Workers -> Locations]
         /\ rc' \in [Workers -> {"ok", "error"}]
         /\ conn' \in [Workers -> {"none", "open", "finished"}]
         /\ envp' \in [Workers -> {"null", "live", "freed"}]
         /\ heap' \in [Workers -> SUBSET {"Request", "Response"}]
         /\ crashed' \in BOOLEAN
  <1> USE DEF Locations
  <1>t. /\ pc \in [Workers -> Locations]
        /\ rc \in [Workers -> {"ok", "error"}]
        /\ conn \in [Workers -> {"none", "open", "finished"}]
        /\ envp \in [Workers -> {"null", "live", "freed"}]
        /\ heap \in [Workers -> SUBSET {"Request", "Response"}]
        /\ crashed \in BOOLEAN
    BY DEF TypeOK
  <1>1. CASE (\E r \in Requests : Accept(w, r)) \/ AcceptFails(w)
    BY <1>1, <1>t DEF Accept, AcceptFails
  <1>2. CASE Emit(w) \/ \E k \in Keys : SetShareValue(w, k)
    BY <1>2, <1>t DEF Emit, SetShareValue
  <1>3. CASE InitRequest(w) \/ CheckResult(w)
    <2>1. CASE InitRequest(w)
      <3>1. /\ UNCHANGED <<rc, conn, envp>> /\ crashed' \in {crashed, TRUE}
            /\ heap' \in [Workers -> SUBSET {"Request", "Response"}]
        BY <1>t, <2>1 DEF InitRequest
      <3>2. pc' \in [Workers -> Locations]
        BY <1>t, <2>1 DEF InitRequest
      <3>3. QED
        BY <1>t, <3>1, <3>2
    <2>2. CASE CheckResult(w)
      BY <1>t, <2>2 DEF CheckResult
    <2>3. QED
      BY <1>3, <2>1, <2>2
  <1>4. CASE ReadBody(w) \/ ClearValues(w) \/ ResetStrategy(w) \/ AllReset(w)
    BY <1>4, <1>t DEF ReadBody, ClearValues, ResetStrategy, AllReset
  <1>5. CASE RunReturns(w) \/ AllRun(w) \/ Process(w) \/ FindNext(w) \/ Find(w)
    BY <1>5, <1>t DEF RunReturns, AllRun, Process, FindNext, Find
  <1>6. CASE ResponseError(w) \/ WriteRaw(w) \/ SetHeader(w) \/ PutEmitted(w)
    BY <1>6, <1>t DEF ResponseError, WriteRaw, SetHeader, PutEmitted
  <1>7. CASE FinishRequest(w) \/ DeleteObjects(w) \/ DestroyValueHolder(w)
    BY <1>7, <1>t DEF FinishRequest, DeleteObjects, DestroyValueHolder
  <1>8. QED
    BY <1>1, <1>2, <1>3, <1>4, <1>5, <1>6, <1>7 DEF WorkerStep, StrategyStep, ServeStep

\* The request, and the loops over its body and over the strategies.
LEMMA LoopTypes ==
  ASSUME TypeOK, NEW w \in Workers, Body(w), Search(w), WorkerStep(w)
  PROVE  /\ request' \in [Workers -> Requests \cup {NoRequest}]
         /\ read' \in [Workers -> Nat]
         /\ at' \in [Workers -> 1..Len(Strategies) + 1]
  <1>t. /\ request \in [Workers -> Requests \cup {NoRequest}]
        /\ read \in [Workers -> Nat]
        /\ at \in [Workers -> 1..Len(Strategies) + 1]
    BY DEF TypeOK
  <1>1. CASE (\E r \in Requests : Accept(w, r)) \/ AcceptFails(w)
    <2>1. ASSUME NEW r \in Requests, Accept(w, r)
          PROVE  request' \in [Workers -> Requests \cup {NoRequest}] /\ read' = read /\ at' = at
      BY <1>t, <2>1 DEF Accept
    <2>2. CASE AcceptFails(w)
      BY <1>t, <2>2 DEF AcceptFails
    <2>3. QED
      BY <1>1, <1>t, <2>1, <2>2
  <1>2. CASE Emit(w) \/ \E k \in Keys : SetShareValue(w, k)
    BY <1>2, <1>t DEF Emit, SetShareValue
  <1>3. CASE InitRequest(w) \/ CheckResult(w)
    BY <1>3, <1>t DEF InitRequest, CheckResult
  <1>4. CASE ReadBody(w)
    <2>1. /\ pc[w] = "body" /\ UNCHANGED <<request, at>>
          /\ read' = [read EXCEPT ![w] = @ + Readable(w)]
      BY <1>4 DEF ReadBody
    <2>2. Readable(w) \in Nat
      BY <1>t, <2>1, ChunkSizeAssumption DEF Readable, Body
    <2>3. read' \in [Workers -> Nat]
      BY <1>t, <2>1, <2>2
    <2>4. QED
      BY <1>t, <2>1, <2>3
  <1>5. CASE ClearValues(w) \/ ResetStrategy(w) \/ AllReset(w)
    BY <1>5, <1>t, Positions DEF ClearValues, ResetStrategy, AllReset
  <1>6. CASE RunReturns(w) \/ AllRun(w) \/ Process(w)
    BY <1>6, <1>t, Positions DEF RunReturns, AllRun, Process, Running
  <1>7. CASE FindNext(w) \/ Find(w) \/ SetHeader(w) \/ PutEmitted(w)
    BY <1>7, <1>t DEF FindNext, Find, SetHeader, PutEmitted
  <1>8. CASE ResponseError(w) \/ WriteRaw(w)
    <2>1. at[w] \in 1..Len(Strategies)
      BY <1>8, Positions DEF ResponseError, WriteRaw, Search, Answering, AtPrepare
    <2>2. UNCHANGED <<request, read>> /\ at' = [at EXCEPT ![w] = @ + 1]
      BY <1>8 DEF ResponseError, WriteRaw
    <2>3. at[w] + 1 \in 1..Len(Strategies) + 1
      BY <2>1, Positions
    <2>4. QED
      BY <1>t, <2>2, <2>3
  <1>9. CASE FinishRequest(w) \/ DeleteObjects(w) \/ DestroyValueHolder(w)
    BY <1>9, <1>t DEF FinishRequest, DeleteObjects, DestroyValueHolder
  <1>10. QED
    BY <1>1, <1>2, <1>3, <1>4, <1>5, <1>6, <1>7, <1>8, <1>9 DEF WorkerStep, StrategyStep, ServeStep

\* The search, and the values.
LEMMA SearchTypes ==
  ASSUME TypeOK, NEW w \in Workers, WorkerStep(w)
  PROVE  /\ look' \in [Workers -> 1..Len(host_action_) + 1]
         /\ values' \in [Workers -> SharedValues]
  <1>t. /\ look \in [Workers -> 1..Len(host_action_) + 1]
        /\ values \in [Workers -> SharedValues]
        /\ Len(host_action_) \in Nat
    BY LenProperties DEF TypeOK
  <1>1. ASSUME NEW r \in Requests, Accept(w, r)
        PROVE  look' = look /\ values' \in [Workers -> SharedValues]
    BY <1>1, <1>t, AgedValues DEF Accept
  <1>2. CASE AcceptFails(w) \/ Emit(w)
    BY <1>2, <1>t DEF AcceptFails, Emit
  <1>3. ASSUME NEW k \in Keys, SetShareValue(w, k)
        PROVE  look' = look /\ values' \in [Workers -> SharedValues]
    BY <1>3, <1>t, SetValues DEF SetShareValue
  <1>4. CASE InitRequest(w) \/ CheckResult(w) \/ ReadBody(w) \/ ResetStrategy(w) \/ AllReset(w)
    BY <1>4, <1>t DEF InitRequest, CheckResult, ReadBody, ResetStrategy, AllReset
  <1>5. CASE ClearValues(w) \/ DestroyValueHolder(w)
    BY <1>5, <1>t, NoSharedValues DEF ClearValues, DestroyValueHolder
  <1>6. CASE RunReturns(w) \/ AllRun(w) \/ Process(w) \/ Find(w) \/ SetHeader(w) \/ PutEmitted(w)
    BY <1>6, <1>t DEF RunReturns, AllRun, Process, Find, SetHeader, PutEmitted
  <1>7. CASE FindNext(w)
    BY <1>7, <1>t DEF FindNext
  <1>8. CASE ResponseError(w) \/ WriteRaw(w)
    BY <1>8, <1>t DEF ResponseError, WriteRaw
  <1>9. CASE FinishRequest(w) \/ DeleteObjects(w)
    BY <1>9, <1>t DEF FinishRequest, DeleteObjects
  <1>10. QED
    BY <1>1, <1>2, <1>3, <1>4, <1>5, <1>6, <1>7, <1>8, <1>9, <1>t
    DEF WorkerStep, StrategyStep, ServeStep

\* What was emitted and what was written.
LEMMA TextTypes ==
  ASSUME TypeOK, NEW w \in Workers, Search(w), WorkerStep(w)
  PROVE  emitted' \in [Workers -> Seq(Chunks)] /\ out' \in [Workers -> Seq(Chunks)]
  <1>t. emitted \in [Workers -> Seq(Chunks)] /\ out \in [Workers -> Seq(Chunks)]
    BY DEF TypeOK
  <1>e. <<>> \in Seq(Chunks)
    BY EmptySeq
  <1>1. CASE (\E r \in Requests : Accept(w, r)) \/ AcceptFails(w)
    BY <1>1, <1>t, <1>e DEF Accept, AcceptFails
  <1>2. CASE Emit(w)
    <2>1. Strategies[at[w]] \in Chunks
      BY <1>2, Positions DEF Emit, Running, Chunks
    <2>2. Append(emitted[w], Strategies[at[w]]) \in Seq(Chunks)
      BY <1>t, <2>1, AppendProperties
    <2>3. QED
      BY <1>2, <1>t, <2>2 DEF Emit
  <1>3. CASE \E k \in Keys : SetShareValue(w, k)
    BY <1>3, <1>t DEF SetShareValue
  <1>4. CASE InitRequest(w) \/ CheckResult(w) \/ ReadBody(w) \/ ClearValues(w)
    BY <1>4, <1>t DEF InitRequest, CheckResult, ReadBody, ClearValues
  <1>5. CASE ResetStrategy(w) \/ AllReset(w) \/ RunReturns(w) \/ AllRun(w)
    BY <1>5, <1>t DEF ResetStrategy, AllReset, RunReturns, AllRun
  <1>6. CASE Process(w) \/ FindNext(w) \/ Find(w)
    BY <1>6, <1>t DEF Process, FindNext, Find
  <1>7. ASSUME NEW c \in Chunks, Put(w, <<c>>), emitted' = emitted
        PROVE  emitted' \in [Workers -> Seq(Chunks)] /\ out' \in [Workers -> Seq(Chunks)]
    <2>1. <<c>> \in Seq(Chunks)
      BY <1>7
    <2>2. out[w] \o <<c>> \in Seq(Chunks)
      BY <1>t, <2>1, ConcatProperties
    <2>3. QED
      BY <1>7, <1>t, <2>2
  <1>8. CASE ResponseError(w) \/ SetHeader(w)
    BY <1>7, <1>8, ChunkTypes DEF ResponseError, SetHeader
  <1>9. CASE WriteRaw(w)
    <2>1. host_action_[look[w]] \in HostActions
      BY <1>9, LenProperties DEF WriteRaw, Search, Answering, TypeOK
    <2>2. QED
      BY <1>7, <1>9, <2>1, ChunkTypes DEF WriteRaw
  <1>10. CASE PutEmitted(w)
    <2>1. out[w] \o emitted[w] \in Seq(Chunks)
      BY <1>t, ConcatProperties
    <2>2. QED
      BY <1>10, <1>t, <2>1 DEF PutEmitted
  <1>11. CASE FinishRequest(w) \/ DeleteObjects(w) \/ DestroyValueHolder(w)
    BY <1>11, <1>t, <1>e DEF FinishRequest, DeleteObjects, DestroyValueHolder
  <1>12. QED
    BY <1>1, <1>2, <1>3, <1>4, <1>5, <1>6, <1>8, <1>9, <1>10, <1>11
    DEF WorkerStep, StrategyStep, ServeStep

-----------------------------------------------------------------------------
(* The invariant                                                             *)

WorkerInv(w) == Connection(w) /\ Body(w) /\ Own(w) /\ Search(w) /\ Output(w) /\ Emitted(w)

Inv == TypeOK /\ Actions /\ \A w \in Workers : WorkerInv(w)

LEMMA RegisteredPair ==
  /\ Registered \in Seq(HostActions) /\ Len(Registered) = 2
  /\ Registered[1] = "/guideaction" /\ Registered[2] = "/testaction"
  <1>1. "/guideaction" \in HostActions /\ "/testaction" \in HostActions
    BY DEF HostActions
  <1>2. Registered = <<"/guideaction", "/testaction">>
    BY DEF Registered
  <1>3. /\ <<"/guideaction", "/testaction">> \in Seq(HostActions)
        /\ Len(<<"/guideaction", "/testaction">>) = 2
        /\ <<"/guideaction", "/testaction">>[1] = "/guideaction"
        /\ <<"/guideaction", "/testaction">>[2] = "/testaction"
    BY <1>1, PairOf, Zenon
  <1>4. QED
    BY <1>2, <1>3, Zenon

LEMMA InitInv == Init => Inv
  <1> SUFFICES ASSUME Init PROVE Inv
    OBVIOUS
  <1>1. host_action_ = Registered /\ default_actions_ = Registered
    BY DEF Init
  <1>2. Registered \in Seq(HostActions) /\ Len(Registered) = 2
        /\ Registered[1] = "/guideaction" /\ Registered[2] = "/testaction"
    BY RegisteredPair, Zenon
  <1>3. Actions
    <2>1. host_action_ \in Seq(HostActions) /\ Len(host_action_) = 2
      BY <1>1, <1>2
    <2>2. \A i \in DOMAIN host_action_ : host_action_[i] \in HostActions
      BY <2>1, ElementOfSeq, LenProperties
    <2>3. Len(host_action_) >= 2
      BY <2>1
    <2>4. QED
      BY <1>1, <1>2, <2>2, <2>3, Zenon DEF Actions
  <1>4. TypeOK
    <2>1. /\ 1 \in 1..Len(Strategies) + 1
          /\ 1 \in 1..Len(host_action_) + 1
          /\ <<>> \in Seq(Chunks)
      BY <1>1, <1>2, StrategiesAssumption, LenProperties, EmptySeq
    <2>2. /\ look \in [Workers -> 1..Len(host_action_) + 1]
          /\ at \in [Workers -> 1..Len(Strategies) + 1]
          /\ emitted \in [Workers -> Seq(Chunks)] /\ out \in [Workers -> Seq(Chunks)]
          /\ values \in [Workers -> SharedValues]
      BY <2>1, NoSharedValues DEF Init
    <2>3. /\ pc \in [Workers -> Locations]
          /\ rc \in [Workers -> {"ok", "error"}]
          /\ conn \in [Workers -> {"none", "open", "finished"}]
          /\ envp \in [Workers -> {"null", "live", "freed"}]
          /\ heap \in [Workers -> SUBSET {"Request", "Response"}]
      BY DEF Init, Locations
    <2>4. /\ request \in [Workers -> Requests \cup {NoRequest}]
          /\ read \in [Workers -> Nat]
          /\ \A w \in Workers : conn[w] # "open"
      BY DEF Init
    <2>5. crashed \in BOOLEAN
      BY Zenon DEF Init
    <2>6. QED
      BY <1>1, <1>2, <2>2, <2>3, <2>4, <2>5 DEF TypeOK
  <1>5. ASSUME NEW w \in Workers PROVE WorkerInv(w)
    <2>1. /\ pc[w] = "accept" /\ rc[w] = "ok" /\ conn[w] = "none" /\ look[w] = 1
          /\ emitted[w] = <<>>
      BY DEF Init
    <2>2. QED
      BY <2>1 DEF WorkerInv, Connection, Active, Answering, Body, Own, Search, Output, Emitted
  <1>6. QED
    BY <1>3, <1>4, <1>5 DEF Inv

\* What a step of another worker leaves alone.
LEMMA UntouchedInv ==
  ASSUME NEW u \in Workers, WorkerInv(u), Untouched(u), UNCHANGED actions
  PROVE  WorkerInv(u)'
  BY DEF WorkerInv, Untouched, Connection, Active, Answering, Body, Own, Search, AtPrepare,
     Output, Emitted, Answered, Prepared, Whole, Answer, Ran

LEMMA WorkerStepInv ==
  ASSUME Inv, NEW w \in Workers, WorkerStep(w)
  PROVE  Inv'
  <1>1. TypeOK /\ Actions /\ WorkerInv(w)
    BY DEF Inv
  <1>2. WorkerInv(w)'
    BY <1>1, ConnectionStep, BodyStep, OwnStep, SearchStep, OutputStep, EmittedStep DEF WorkerInv
  <1>3. UNCHANGED actions
    BY <1>1, WorkerKeepsActions
  <1>4. ASSUME NEW u \in Workers, u # w PROVE WorkerInv(u)'
    <2>1. Untouched(u)
      BY <1>1, <1>4, OneWorkerSteps
    <2>2. QED
      BY <1>3, <2>1, UntouchedInv DEF Inv
  <1>5. Actions'
    BY <1>1, <1>3 DEF Actions
  <1>6. \A u \in Workers : pc'[u] = "accept" => conn'[u] # "open"
    BY <1>2, <1>4 DEF WorkerInv, Connection
  <1>7. TypeOK'
    BY <1>1, <1>3, <1>6, ControlTypes, LoopTypes, SearchTypes, TextTypes DEF TypeOK, WorkerInv
  <1>8. QED
    BY <1>2, <1>4, <1>5, <1>7 DEF Inv

\* Registering again puts the actions behind those that are there.
LEMMA ProcessInitInv == Inv /\ ProcessInit => Inv'
  <1> SUFFICES ASSUME Inv, ProcessInit PROVE Inv'
    OBVIOUS
  <1> DEFINE old == host_action_
             one == Append(old, Registered[1])
             new == Append(one, Registered[2])
  <1>1. TypeOK /\ Actions
    BY DEF Inv
  <1>2. /\ host_action_' = new /\ default_actions_' = new
        /\ UNCHANGED <<pc, client, heap, read, at, look, values, emitted, out, crashed>>
    BY <1>1 DEF ProcessInit, RegisterAction, Actions
  <1>3. old \in Seq(HostActions) /\ Registered[1] \in HostActions /\ Registered[2] \in HostActions
    BY <1>1, RegisteredPair DEF TypeOK, HostActions
  <1>4. /\ new \in Seq(HostActions) /\ Len(new) = Len(old) + 2
        /\ \A i \in 1..Len(old) : new[i] = old[i]
    <2> HIDE DEF old
    <2>1. /\ one \in Seq(HostActions) /\ Len(one) = Len(old) + 1
          /\ \A i \in 1..Len(old) : one[i] = old[i]
      BY <1>3, AppendProperties
    <2> HIDE DEF one
    <2>2. /\ new \in Seq(HostActions) /\ Len(new) = Len(one) + 1
          /\ \A i \in 1..Len(one) : new[i] = one[i]
      BY <1>3, <2>1, AppendProperties
    <2>3. Len(old) \in Nat
      BY <1>3, LenProperties
    <2>4. QED
      BY <2>1, <2>2, <2>3
  <1>5. Len(old) \in Nat /\ DOMAIN old = 1..Len(old) /\ DOMAIN new = 1..Len(new)
    BY <1>3, <1>4, LenProperties
  <1> HIDE DEF one, new
  <1>6. Actions'
    <2>1. \A i \in DOMAIN new : new[i] \in HostActions
      BY <1>4, ElementOfSeq, <1>5
    <2>2. Len(old) >= 2 /\ old[1] = "/guideaction" /\ old[2] = "/testaction"
      BY <1>1 DEF Actions
    <2>3. Len(new) >= 2 /\ 1 \in 1..Len(old) /\ 2 \in 1..Len(old)
      BY <1>4, <1>5, <2>2
    <2>4. new[1] = old[1] /\ new[2] = old[2]
      BY <1>4, <2>3
    <2>5. QED
      BY <1>2, <2>1, <2>2, <2>3, <2>4, Zenon DEF Actions
  <1>7. TypeOK'
    <2>1. look \in [Workers -> 1..Len(new) + 1]
      BY <1>1, <1>4, <1>5 DEF TypeOK
    <2>2. QED
      BY <1>1, <1>2, <1>4, <2>1 DEF TypeOK
  <1>8. ASSUME NEW w \in Workers PROVE WorkerInv(w)'
    <2>1. WorkerInv(w)
      BY DEF Inv
    <2>2. Search(w)'
      <3>1. look[w] \in 1..Len(old) + 1
        BY <1>1 DEF TypeOK
      <3>2. \A i \in 1..look[w] - 1 : i \in 1..Len(old)
        BY <1>5, <3>1
      <3>3. look[w] \in DOMAIN old => look[w] \in DOMAIN new /\ new[look[w]] = old[look[w]]
        BY <1>4, <1>5
      <3>4. (\A i \in 1..look[w] - 1 : old[i] # request[w].url) =>
              \A i \in 1..look[w] - 1 : new[i] # request[w].url
        BY <1>4, <3>2
      <3>5. QED
        BY <1>2, <2>1, <3>3, <3>4 DEF WorkerInv, Search, Answering, AtPrepare
    <2>3. QED
      BY <1>2, <2>1, <2>2
      DEF WorkerInv, Connection, Active, Answering, Body, Own, Output, Emitted, Answered,
          Prepared, AtPrepare, Whole, Answer, Ran
  <1>9. QED
    BY <1>6, <1>7, <1>8 DEF Inv

LEMMA NextInv == Inv /\ [Next]_vars => Inv'
  <1> SUFFICES ASSUME Inv, [Next]_vars PROVE Inv'
    OBVIOUS
  <1>1. ASSUME NEW w \in Workers, NEW r \in Requests, Accept(w, r) PROVE Inv'
    BY <1>1, WorkerStepInv DEF WorkerStep
  <1>2. ASSUME NEW w \in Workers, AcceptFails(w) \/ ServeStep(w) \/ StrategyStep(w) PROVE Inv'
    BY <1>2, WorkerStepInv DEF WorkerStep
  <1>3. CASE ProcessInit
    BY <1>3, ProcessInitInv
  <1>4. CASE UNCHANGED vars
    <2>1. UNCHANGED actions /\ TypeOK' /\ Actions'
      BY <1>4 DEF vars, Inv, TypeOK, Actions
    <2>2. ASSUME NEW u \in Workers PROVE WorkerInv(u)'
      <3>1. Untouched(u)
        BY <1>4 DEF vars, Untouched
      <3>2. QED
        BY <2>1, <3>1, UntouchedInv DEF Inv
    <2>3. QED
      BY <2>1, <2>2 DEF Inv
  <1>5. QED
    BY <1>1, <1>2, <1>3, <1>4 DEF Next, Stopped

LEMMA SpecInv == Spec => []Inv
  BY InitInv, NextInv, PTL DEF Spec

-----------------------------------------------------------------------------
(* The theorems                                                              *)

\* The variables have their types, and a worker that waits for a request holds no open one, in
\* every schedule of the workers and of PrepareStg::processInit (service_main.cpp:53-77).
THEOREM TypeSafe == Spec => []TypeOK
  <1>1. Inv => TypeOK
    BY DEF Inv
  <1>2. QED
    BY <1>1, SpecInv, PTL

\* A client whose request was finished got one whole response: what PrepareStg answers for its
\* URL, then what the strategies emitted, however often the actions were registered meanwhile
\* (service_main.cpp:53-77, frame.cc:45-98).
THEOREM ResponsesWhole == Spec => []WholeResponse
  <1>1. Inv => WholeResponse
    BY DEF Inv, WorkerInv, Output, WholeResponse
  <1>2. QED
    BY <1>1, SpecInv, PTL

\* The body of a POST is read to its end and no further, whatever its length and the size of the
\* buffer (stream.cc:186-199).
THEOREM BodiesRead == Spec => []BodyReadWhole
  <1>1. Inv => BodyReadWhole
    BY DEF Inv, WorkerInv, Body, BodyReadWhole
  <1>2. QED
    BY <1>1, SpecInv, PTL

\* No strategy finds a value that was shared for an earlier request
\* (StrategyManager.cpp:235, ValueHolder.cpp:41-48).
THEOREM ValuesOwn == Spec => []OwnValuesOnly
  <1>1. Inv => OwnValuesOnly
    BY DEF Inv, WorkerInv, Own, OwnValuesOnly
  <1>2. QED
    BY <1>1, SpecInv, PTL

=============================================================================
