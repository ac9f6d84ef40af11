----------------------------- MODULE RequestLoop -----------------------------
(***************************************************************************)
(* The life of a request in a worker thread: the loop of threadFunc()       *)
(* (service/web-frame/host/service_main.cpp), the Request and Response it   *)
(* allocates, the strategies it runs one after another with the values they *)
(* share (interface/ValueHolder.h), the one strategy of the repository      *)
(* (web-plugins/prepare) with the dispatcher and the actions behind it      *)
(* (common/cwf/frame.cc, web-requests), and the memory that the FastCGI     *)
(* library lends to the loop.                                               *)
(*                                                                         *)
(* The FCGX functions are modelled from the contracts in fcgiapp.h and from *)
(* how the loop uses them; HttpText.tla models what Request::Init makes of  *)
(* the parameters, which are their URL and the length of the body here.     *)
(***************************************************************************)
EXTENDS Integers, Sequences, FiniteSets

CONSTANTS
  Workers,     \* the threads of threadFunc()
  Requests,    \* what clients send: [url, body], body NoBody for a GET
  Strategies,  \* the run order of the strategies, with "PrepareStg" among them
  Keys,        \* of shared values
  ChunkSize,   \* sizeof(buf) in Request::Init
  MaxInits,    \* bound: calls of PrepareStg::processInit
  MayFail      \* what may go wrong, from FailurePoints

NoBody == -1

FailurePoints == {"accept", "reset", "run"}

ASSUME MayFailAssumption == MayFail \subseteq FailurePoints

ASSUME ChunkSizeAssumption == ChunkSize \in Nat \ {0}

ASSUME MaxInitsAssumption == MaxInits \in Nat \ {0}

\* The URL is "" when REQUEST_URI is missing.
ASSUME RequestsAssumption == \A r \in Requests : r.body \in Nat \cup {NoBody}

ASSUME StrategiesAssumption ==
  /\ Strategies \in Seq(STRING)
  /\ \E i \in DOMAIN Strategies : Strategies[i] = "PrepareStg"
  /\ \A i, j \in DOMAIN Strategies : Strategies[i] = Strategies[j] => i = j

VARIABLES
  pc,        \* where each worker is in the loop
  rc,        \* the result of FCGX_Accept_r: "ok" or "error"
  conn,      \* the request in FCGX_Request: "none", "open" or "finished"
  envp,      \* the parameter array of FCGX_Request: "null", "live" or "freed"
  heap,      \* the Request and Response objects of the worker that were not deleted
  request,   \* the request that was accepted last
  read,      \* how much of its body was read
  at,        \* which strategy is next, and in FrameWork::Find
  look,      \* which action Find is at
  values,    \* the worker's ValueHolder: the request each key was set in, "this" or "earlier"
  emitted,   \* the Response's stem_, as long as the Response lives
  out,       \* what was written to the client of that request
  default_actions_,  \* the actions that were registered
  host_action_,      \* the actions the dispatcher searches
  crashed    \* the process was killed

client == <<rc, conn, envp, request>>
actions == <<default_actions_, host_action_>>
vars == <<pc, client, heap, read, at, look, values, emitted, out, actions, crashed>>

Locations == {"accept", "init", "body", "check", "clear", "reset", "run", "find", "header", "text",
              "error", "put", "finish", "delete", "ended", "gone"}

\* The actions PrepareStg::processInit registers, by the URL they match.
HostActions == {"/guideaction", "/testaction"}
Registered == <<"/guideaction", "/testaction">>

NoRequest == [url |-> "none", body |-> NoBody]

NoValues == [k \in {} |-> "this"]

\* The service begins to serve after the first processInit.
Init ==
  /\ pc = [w \in Workers |-> "accept"]
  /\ rc = [w \in Workers |-> "ok"]
  /\ conn = [w \in Workers |-> "none"]
  /\ envp = [w \in Workers |-> "null"]
  /\ heap = [w \in Workers |-> {}]
  /\ request = [w \in Workers |-> NoRequest]
  /\ read = [w \in Workers |-> 0]
  /\ at = [w \in Workers |-> 1]
  /\ look = [w \in Workers |-> 1]
  /\ values = [w \in Workers |-> NoValues]
  /\ emitted = [w \in Workers |-> <<>>]
  /\ out = [w \in Workers |-> <<>>]
  /\ default_actions_ = Registered
  /\ host_action_ = Registered
  /\ crashed = FALSE

Goto(w, l) == pc' = [pc EXCEPT ![w] = l]

\* FCGX_PutStr on the request's stream.
Put(w, chunks) == out' = [out EXCEPT ![w] = @ \o chunks]

-----------------------------------------------------------------------------
(* threadFunc(): accept and initialise                                       *)

\* FCGX_Accept_r finishes the previous request, if the loop has not, and waits for
\* the next one.  What the worker still holds is from then on of an earlier request.
Accept(w, r) ==
  /\ pc[w] = "accept"
  /\ rc' = [rc EXCEPT ![w] = "ok"]
  /\ conn' = [conn EXCEPT ![w] = "open"]
  /\ envp' = [envp EXCEPT ![w] = "live"]
  /\ request' = [request EXCEPT ![w] = r]
  /\ values' = [values EXCEPT ![w] = [k \in DOMAIN values[w] |-> "earlier"]]
  /\ out' = [out EXCEPT ![w] = <<>>]
  /\ Goto(w, "init")
  /\ UNCHANGED <<heap, read, at, look, emitted, actions, crashed>>

\* No request: FCGX_Request was zeroed by FCGX_InitRequest or freed.
AcceptFails(w) ==
  /\ pc[w] = "accept"
  /\ "accept" \in MayFail
  /\ rc' = [rc EXCEPT ![w] = "error"]
  /\ conn' = [conn EXCEPT ![w] = IF @ = "open" THEN "finished" ELSE @]
  /\ envp' = [envp EXCEPT ![w] = IF @ = "live" THEN "freed" ELSE @]
  /\ Goto(w, "init")
  /\ UNCHANGED <<heap, request, read, at, look, values, emitted, out, actions, crashed>>

\* new Request and the parameters: all before rc is looked at.  Reading an array that is not
\* there kills the process or finds anything.
InitRequest(w) ==
  /\ pc[w] = "init"
  /\ heap' = [heap EXCEPT ![w] = @ \cup {"Request"}]
  /\ read' = [read EXCEPT ![w] = 0]
  /\ IF envp[w] = "live"
       THEN Goto(w, IF request[w].body = NoBody THEN "check" ELSE "body") /\ UNCHANGED crashed
       ELSE \/ Goto(w, "check") /\ UNCHANGED crashed
            \/ crashed' = TRUE /\ UNCHANGED pc
  /\ UNCHANGED <<client, at, look, values, emitted, out, actions>>

\* Mutant: a full buffer is the last.
LastChunk_full(readed) == readed <= ChunkSize

\* "readed < sizeof(buf)".
LastChunk(readed) == readed < ChunkSize

\* FCGX_GetStr, which returns less than was asked for at the end of the input only.
Readable(w) ==
  LET left == request[w].body - read[w] IN IF left < ChunkSize THEN left ELSE ChunkSize

\* One turn of the loop that reads the body.
ReadBody(w) ==
  /\ pc[w] = "body"
  /\ read' = [read EXCEPT ![w] = @ + Readable(w)]
  /\ Goto(w, IF LastChunk(Readable(w)) THEN "check" ELSE "body")
  /\ UNCHANGED <<client, heap, at, look, values, emitted, out, actions, crashed>>

Accepted(w) == rc[w] = "ok"

\* new Response, and then rc.
CheckResult(w) ==
  /\ pc[w] = "check"
  /\ heap' = [heap EXCEPT ![w] = @ \cup {"Response"}]
  /\ Goto(w, IF Accepted(w) THEN "clear" ELSE "ended")
  /\ UNCHANGED <<client, read, at, look, values, emitted, out, actions, crashed>>

-----------------------------------------------------------------------------
(* execAllResetAndRun(): shared values and strategies                        *)

\* Mutant: the values are kept when the last run ended early.
Cleared_finished(w) == IF at[w] > Len(Strategies) THEN NoValues ELSE values[w]

\* ValueHolder::clear().
Cleared(w) == NoValues

ClearValues(w) ==
  /\ pc[w] = "clear"
  /\ values' = [values EXCEPT ![w] = Cleared(w)]
  /\ at' = [at EXCEPT ![w] = 1]
  /\ Goto(w, "reset")
  /\ UNCHANGED <<client, heap, read, look, emitted, out, actions, crashed>>

\* One turn of the first loop.  A reset() that fails ends the worker where it is; that of
\* PrepareStg returns true.
ResetStrategy(w) ==
  /\ pc[w] = "reset"
  /\ at[w] <= Len(Strategies)
  /\ \/ at' = [at EXCEPT ![w] = @ + 1] /\ UNCHANGED pc
     \/ "reset" \in MayFail /\ Strategies[at[w]] # "PrepareStg"
        /\ Goto(w, "ended") /\ UNCHANGED at
  /\ UNCHANGED <<client, heap, read, look, values, emitted, out, actions, crashed>>

AllReset(w) ==
  /\ pc[w] = "reset"
  /\ at[w] > Len(Strategies)
  /\ at' = [at EXCEPT ![w] = 1]
  /\ Goto(w, "run")
  /\ UNCHANGED <<client, heap, read, look, values, emitted, out, actions, crashed>>

Running(w) == pc[w] = "run" /\ at[w] <= Len(Strategies)

\* setShareValue() in the run() of a strategy: a key that is in use gets a new cell, and the
\* old one is lost.
SetShareValue(w, k) ==
  /\ Running(w) /\ Strategies[at[w]] # "PrepareStg"
  /\ values' = [values EXCEPT ![w] =
                  [x \in DOMAIN values[w] \cup {k} |-> IF x = k THEN "this" ELSE values[w][x]]]
  /\ UNCHANGED <<pc, client, heap, read, at, look, emitted, out, actions, crashed>>

\* Response::Emit(), once for each strategy.
Emit(w) ==
  /\ Running(w) /\ Strategies[at[w]] # "PrepareStg"
  /\ \A i \in DOMAIN emitted[w] : emitted[w][i] # Strategies[at[w]]
  /\ emitted' = [emitted EXCEPT ![w] = Append(@, Strategies[at[w]])]
  /\ UNCHANGED <<pc, client, heap, read, at, look, values, out, actions, crashed>>

\* run() returns: false ends the request and is no failure of the worker.
RunReturns(w) ==
  /\ Running(w) /\ Strategies[at[w]] # "PrepareStg"
  /\ \/ at' = [at EXCEPT ![w] = @ + 1] /\ UNCHANGED pc
     \/ "run" \in MayFail /\ Goto(w, "put") /\ UNCHANGED at
  /\ UNCHANGED <<client, heap, read, look, values, emitted, out, actions, crashed>>

AllRun(w) ==
  /\ pc[w] = "run"
  /\ at[w] > Len(Strategies)
  /\ Goto(w, "put")
  /\ UNCHANGED <<client, heap, read, at, look, values, emitted, out, actions, crashed>>

-----------------------------------------------------------------------------
(* PrepareStg and the dispatcher                                             *)

RegisterAction(list, action) == Append(list, action)

\* PrepareStg::processInit, called again beside the workers: init() takes a thread for the first
\* one once failed init() calls made sm_instanceNum too low (StrategyManager.tla).  The actions
\* are registered again; assign() writes over those that are there, which are the same, and
\* appends the others, so that a search that is under way goes on.
ProcessInit ==
  /\ Len(default_actions_) < MaxInits * Len(Registered)
  /\ default_actions_' =
       RegisterAction(RegisterAction(default_actions_, Registered[1]), Registered[2])
  /\ host_action_' = default_actions_'
  /\ UNCHANGED <<pc, client, heap, read, at, look, values, emitted, out, crashed>>

\* PrepareStg::run calls FrameWork::Process, which begins to search.
Process(w) ==
  /\ Running(w) /\ Strategies[at[w]] = "PrepareStg"
  /\ Goto(w, "find")
  /\ UNCHANGED <<client, heap, read, at, look, values, emitted, out, actions, crashed>>

\* FrameWork::Find passes an action that does not match.
FindNext(w) ==
  /\ pc[w] = "find"
  /\ look[w] <= Len(host_action_) /\ host_action_[look[w]] # request[w].url
  /\ look' = [look EXCEPT ![w] = @ + 1]
  /\ UNCHANGED <<pc, client, heap, read, at, values, emitted, out, actions, crashed>>

\* It returns the action that matches, or 0 at the end.
Find(w) ==
  /\ pc[w] = "find"
  /\ \/ look[w] <= Len(host_action_) /\ host_action_[look[w]] = request[w].url /\ Goto(w, "header")
     \/ look[w] > Len(host_action_) /\ Goto(w, "error")
  /\ UNCHANGED <<client, heap, read, at, look, values, emitted, out, actions, crashed>>

\* PrepareStg::run returns true, whatever Process() returned.
PrepareReturns(w) ==
  /\ at' = [at EXCEPT ![w] = @ + 1]
  /\ look' = [look EXCEPT ![w] = 1]
  /\ Goto(w, "run")

\* Header::Write to the client: the status stands for the header.
OutputHeader(w, status) == Put(w, <<status>>)

\* ResponseError(HC_NOT_FOUND).
ResponseError(w) ==
  /\ pc[w] = "error"
  /\ OutputHeader(w, "404")
  /\ PrepareReturns(w)
  /\ UNCHANGED <<client, heap, read, values, emitted, actions, crashed>>

\* Mutant: the action leaves the header to the framework.
Header_none(w) == UNCHANGED out

\* What the SetHeader() of the actions sends.
Header(w) == OutputHeader(w, "200")

\* SetHeader() of the action.
SetHeader(w) ==
  /\ pc[w] = "header"
  /\ Header(w)
  /\ Goto(w, "text")
  /\ UNCHANGED <<client, heap, read, at, look, values, emitted, actions, crashed>>

\* WriteRaw() of the action, which returns HC_OK.
WriteRaw(w) ==
  /\ pc[w] = "text"
  /\ Put(w, <<host_action_[look[w]]>>)
  /\ PrepareReturns(w)
  /\ UNCHANGED <<client, heap, read, values, emitted, actions, crashed>>

-----------------------------------------------------------------------------
(* threadFunc(): finish                                                      *)

\* p->str() is what was given to Emit().
PutEmitted(w) ==
  /\ pc[w] = "put"
  /\ Put(w, emitted[w])
  /\ Goto(w, "finish")
  /\ UNCHANGED <<client, heap, read, at, look, values, emitted, actions, crashed>>

\* Mutant: the call is left to the next FCGX_Accept_r.
Finished_later(w) == conn

Finished(w) == [conn EXCEPT ![w] = "finished"]

\* FCGX_Finish_r.
FinishRequest(w) ==
  /\ pc[w] = "finish"
  /\ conn' = Finished(w)
  /\ envp' = [envp EXCEPT ![w] = "freed"]
  /\ Goto(w, "delete")
  /\ UNCHANGED <<rc, request, heap, read, at, look, values, emitted, out, actions, crashed>>

\* delete q and delete p.
DeleteObjects(w) ==
  /\ pc[w] = "delete"
  /\ heap' = [heap EXCEPT ![w] = {}]
  /\ emitted' = [emitted EXCEPT ![w] = <<>>]
  /\ Goto(w, "accept")
  /\ UNCHANGED <<client, read, at, look, values, out, actions, crashed>>

\* The manager and its ValueHolder are on the stack of threadFunc().
DestroyValueHolder(w) ==
  /\ pc[w] = "ended"
  /\ values' = [values EXCEPT ![w] = NoValues]
  /\ Goto(w, "gone")
  /\ UNCHANGED <<client, heap, read, at, look, emitted, out, actions, crashed>>

ServeStep(w) ==
  \/ InitRequest(w) \/ ReadBody(w) \/ CheckResult(w)
  \/ ClearValues(w) \/ ResetStrategy(w) \/ AllReset(w) \/ RunReturns(w) \/ AllRun(w)
  \/ Process(w) \/ FindNext(w) \/ Find(w) \/ ResponseError(w) \/ SetHeader(w) \/ WriteRaw(w)
  \/ PutEmitted(w) \/ FinishRequest(w) \/ DeleteObjects(w) \/ DestroyValueHolder(w)

\* What a strategy may do before it returns.
StrategyStep(w) == Emit(w) \/ \E k \in Keys : SetShareValue(w, k)

\* Every worker has left its loop, or the process died.
Stopped == (crashed \/ \A w \in Workers : pc[w] = "gone") /\ UNCHANGED vars

Next ==
  \/ ~crashed /\ \E w \in Workers, r \in Requests : Accept(w, r)
  \/ ~crashed /\ \E w \in Workers : AcceptFails(w) \/ ServeStep(w) \/ StrategyStep(w)
  \/ ~crashed /\ ProcessInit
  \/ Stopped

Spec == Init /\ [][Next]_vars

\* A worker that has a request keeps running, and its strategies return; clients may stay away
\* for ever.
FairSpec == Spec /\ \A w \in Workers : WF_vars(~crashed /\ ServeStep(w))

-----------------------------------------------------------------------------
(* Properties                                                                *)

SharedValues == UNION {[S -> {"this", "earlier"}] : S \in SUBSET Keys}

\* What a client is sent: headers, the texts of the actions, and what strategies emit.
Chunks == {"200", "404"} \cup HostActions \cup {Strategies[i] : i \in DOMAIN Strategies}

\* Types; a worker that is between two requests holds no open one.
TypeOK ==
  /\ pc \in [Workers -> Locations]
  /\ rc \in [Workers -> {"ok", "error"}]
  /\ conn \in [Workers -> {"none", "open", "finished"}]
  /\ envp \in [Workers -> {"null", "live", "freed"}]
  /\ heap \in [Workers -> SUBSET {"Request", "Response"}]
  /\ request \in [Workers -> Requests \cup {NoRequest}]
  /\ read \in [Workers -> Nat]
  /\ at \in [Workers -> 1..Len(Strategies) + 1]
  /\ look \in [Workers -> 1..Len(host_action_) + 1]
  /\ values \in [Workers -> SharedValues]
  /\ emitted \in [Workers -> Seq(Chunks)]
  /\ out \in [Workers -> Seq(Chunks)]
  /\ default_actions_ \in Seq(HostActions) /\ host_action_ \in Seq(HostActions)
  /\ crashed \in BOOLEAN
  /\ \A w \in Workers : pc[w] = "accept" => conn[w] # "open"

\* The strategies that were run for the request, the last of which may have failed.
Ran(w) == {Strategies[i] : i \in {j \in DOMAIN Strategies : j <= at[w]}}

\* What PrepareStg answers, if it ran.
Answer(w) ==
  IF "PrepareStg" \notin Ran(w) THEN <<>>
  ELSE IF request[w].url \in HostActions THEN <<"200", request[w].url>> ELSE <<"404">>

\* It begins what the client got, and what the strategies emitted follows.
Whole(w) ==
  /\ Len(Answer(w)) <= Len(out[w])
  /\ \A i \in 1..Len(Answer(w)) : out[w][i] = Answer(w)[i]
  /\ \A i \in Len(Answer(w)) + 1..Len(out[w]) : out[w][i] \in Ran(w) \ {"PrepareStg"}

\* A client whose request was finished got one whole response: the header of the first action
\* for its URL and then that action's text, or the 404 header alone, then what the strategies
\* emitted; it got no header only if a strategy before PrepareStg failed.  It does not matter how
\* often the actions were registered (service_main.cpp:53-77, frame.cc:45-98,
\* guideaction.cpp:20-33).
WholeResponse == \A w \in Workers : conn[w] = "finished" => Whole(w)

\* The body of a POST is read to its end and no further, also where it ends with a full buffer
\* (stream.cc:186-199).
BodyReadWhole ==
  \A w \in Workers :
    pc[w] \in {"clear", "reset", "run"} /\ request[w].body # NoBody => read[w] = request[w].body

\* A strategy finds no value that was shared for an earlier request, however that one ended
\* (StrategyManager.cpp:235, ValueHolder.cpp:41-48).
OwnValuesOnly ==
  \A w \in Workers : pc[w] = "run" => \A k \in DOMAIN values[w] : values[w][k] = "this"

\* Every accepted request is finished, unless a reset() fails (the loop then ends
\* with the request open) or the process dies (service_main.cpp:53-77).
AcceptedIsFinished ==
  \A w \in Workers :
    conn[w] = "open" ~> conn[w] = "finished" \/ crashed
      \/ ("reset" \in MayFail /\ pc[w] \in {"ended", "gone"})

\* Request::Init never reads a parameter array that was freed: "DO NOT retain pointers to the
\* envp array [...] since these will be freed by the next call to FCGX_Finish or
\* FCGX_Accept" (fcgiapp.h:199-202).
ReadsLiveParameters == \A w \in Workers : pc[w] = "init" => envp[w] # "freed"

=============================================================================
