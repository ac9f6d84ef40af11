# Verification of cxx_fastcgi

TLA+ models of the FastCGI service framework in this repository: the plug-in
strategies of `service/web-frame`, the threads that run them, the requests they
serve, the logger they share, the plug-in library that owns their providers, and the
parsers and coders for what clients send. TLC checks the models on small instances;
TLAPS proves every safety property of them, and one refinement, for every size.

## The system

| component | source | state | operations | interacts with |
|---|---|---|---|---|
| strategy managers | `interface/StrategyManager.cpp`, `host/service_main.cpp`, `ScopeLocker.h` | one manager per thread: strategies, order; shared: `sm_instanceNum`, `sm_pluma`, `sm_strategyProviders` under `sm_processLock` | `init()`, `~StrategyManager()`, `execAllResetAndRun()`; `main()`, `threadFunc()` | calls the plug-ins' callbacks, Pluma, the request loop |
| dependency graph | `StrategyManager.cpp:228-505`, `tools/StaticTopo.cpp` | `m_stgGraph`, `m_nameStrategyMap`, colours and stack of a search, `m_topoStrategies`, `m_needRun` | `buildStrategyGraph`, `checkCircle`, `generateTopoOrder`, `markRedundantEdge`, `markNeedRunByDepends`, the selection in `execAllResetAndRun()` | part of `init()` and of each request; static-topo prints it |
| request loop | `service_main.cpp:40-86`, `common/cwf/stream.cc`, `web-plugins/prepare`, `web-requests` | the FCGX request of the thread, `Request` and `Response` | accept, `Request::Init`, reset and run, emit, finish | FastCGI library |
| shared values | `interface/ValueHolder.*` | map from a key to a malloc'ed cell, one per manager | `set`, `get`, `exist`, `clear` | strategies share values in it; cleared at each request |
| action registry | `common/cwf/frame.cc` | `default_actions_`, `host_action_` | `RegisterAction`, `InitHost`, `Find` | `PrepareStg::processInit` fills it, workers search it |
| logger | `third-src/c-log/src` | `fp`, `m_mutex`, thread-local `m_buffer` | `log_init`, `log`, `_write`, `loginit`, `logclose` | called by everything, from all threads |
| Pluma | `Pluma/src/Pluma` | known types, providers, additions asked for, loaded libraries | `load`, `loadFromFolder`, `unload`, `unloadAll`, `add`, `confirmAddictions`, `cancelAddictions` | the managers load through it |
| HTTP text | `common/cwf/stream.cc`, `http.cc`, `cookie.h` | none but a cursor | parameters, cookies, attributes, names, status codes, dates | `Request::Init` |
| string encodings | `common/base/stringencode.cc` | positions in source and buffer | `escape`, `encode`, `url_`, `html_`, `xml_` and `hex_` encoders and decoders, `utf8_`, `transform`, `s_transform` | `ParseQuery` decodes with it |

What is hard in it:

* **Concurrency.** Managers of several threads come and go; which of them does the
  process-level work depends on a counter. The logger reads `fp` outside its mutex. The
  actions are searched while they may be registered again.
* **Failure.** Every callback of a plug-in may return false, at every point of a loop,
  and the destructor of a manager runs whether or not its `init()` succeeded.
* **Order.** Set-up follows the dependency graph, tear-down its reverse, requests run
  in it; the FastCGI library hands out memory that the next call takes back; a provider's
  destructor is in a library that has to be closed after it.
* **State that outlives a request.** Shared values, `m_needRun`, the parameter array.
* **Boundaries.** A body that ends with a full buffer; each coder tests for itself whether
  its longest sequence and the final `'\0'` fit, and may run over its own input; the parsers'
  cursors at the end of the text.

What makes each component correct:

* managers: the lock is exclusive, the counter means what the tests of it assume,
  dependencies are up whenever a strategy is, process-level work happens alone, no
  deleted provider is called, nothing is left behind;
* graph: `init()` accepts exactly the well-formed acyclic lists, the order respects
  every dependency, what is printed connects what is connected and no more, a request runs
  what it needs;
* request loop: a finished request got one whole response, bodies are read to the end,
  memory of the library is used while it exists; shared values are the request's own; the
  dispatch does not depend on how often the actions were registered;
* logger: one reopening per rotation, one open file, no call hangs;
* Pluma: a provider is deleted once and before its library is closed;
* coders and parsers: output stays in the buffer, decoding in place reads its input,
  what was written is read back.

## Modules

### StrategyManager, PluginPlatform

State corresponds to the code one to one: `lock` is `sm_processLock`, `instanceNum`,
`pluma` and `loads` are the static members (`loads` counts the batches of providers in
`sm_strategyProviders`, which is never cleared), `topo`, `threadUp` and `pos` belong to
each thread's manager, `procUp` is the process-level state of the plug-ins, `ran` is
what ran in the current request. `edge` holds the outcome of the test `sm_instanceNum
== 0` (or `== 1`), which selects the branch. `failed` is a history variable.

One action per step of a handler: `LockForInit`, `LoadPlugins`, `AddAllStrategy`,
`BuildStrategyGraph`, `ProcessInit`, `ThreadInit`, `InitDone` for `init()`;
`LockForDestroy`, `ThreadDestroy`, `ProcessDestroy`, `DestroyDone` for the destructor;
`Accept`, `AcceptFails`, `Reset`, `ResetDone`, `Run`, `RunDone` for a request;
`Spawn`, `SpawnDone`, `JoinDone` for `main()`. `MayFail` says which calls may fail.
The lists of dependencies range over `DependChoices`, with missing ones and cycles. The graph
is used by its contract (`TopoOrders`); StrategyGraph models how it is met.
A call of a deleted provider is undefined: `AddAllStrategy` may then kill the process or
go on.

`PluginPlatform` is what the managers promise each other, with no lock, counter or loop:
the platform (plug-ins and process-level state) is built by one thread before anybody is a
member, complete while there are members, and dismantled by the last one after it left.
`KeepsPromise` says that StrategyManager implements it, with `Members` the initialised
managers that have not begun to leave, `Mover` the thread in the process-level part of `init()`
or the destructor, and the platform read off `pluma` and `procUp`. The promise ends with the
first `init()` that fails (`Fail` then allows everything).

Several properties carry that hypothesis, `failed = {}`. It is what the code achieves:
after a worker whose `init()` failed, the destructor has counted that worker down
without ever counting it up (`InstanceNumAccounting` says by how much), so a later test
finds the wrong thread to be the last one. Without the hypothesis TLC refutes
`SharedStateUp`, `ProvidersAlive` and `CleanShutdown`; no document
of the repository promises them for that case, so it is no finding of the
project but a hazard it records.

### StrategyGraph

`order`, `out` and `m_nameStrategyMap` are the graph; a name stands for its vertex. The two
loops of `buildStrategyGraph` are `AddVertex` and `AddEdge`; a second strategy of
a name adds edges to the first one's vertex. The depth-first
searches share the actions `Start`, `Examine` and `Finish`, one per event of the boost
visitor, with `phase` as the visitor: `BackEdge` of `checkCircle`, `TopoWith` of
`topological_sort`, `MarkRedundant` of `markRedundantEdge` (whose inner search is
taken by its result, `ExistAnotherPath`), `PrintEdge` of static-topo with and without `-f`.
`out` keeps parallel edges, as `listS` does: an edge is a vertex and a place in its list
(`OutEdges`), and `printed` is the sequence of edges that got a line. `redundant` has pairs, as
marking and printing both ask for `edge(src, dest).first`. So a dependency that a strategy lists
twice is printed twice, without `-f` too, although the usage text says that redundant edges
are removed; `PrintedEdgesReduced` says what holds: no edge is printed twice, parallel edges all or
none, and no pair of strategies that is printed follows from the others.

A request selects by the list of `getRunStrategies()`: `SkipSeparator`, `MarkNeedRun` and
`MarkReturn` are the loop over its names and the recursion of `markNeedRunByDepends` with
its call stack `calls`; `ResetStrategy` and `RunStrategy` are the two loops over
`m_topoStrategies`, each call of which may fail. In this repository `getRunStrategies()` is
a stub that returns `NULL`, for all strategies; the branch for a list is dead code, modelled as
it is written. What `NeededRun` and `CallsReturn` say of it holds once the stub is replaced; of the
code as it stands they say that every strategy runs once, in order, and that init() and
the loops return.

### RequestLoop

`threadFunc()`'s loop with the memory the library lends: `conn` and `envp` follow
`FCGX_Accept_r` and `FCGX_Finish_r` by their contract in `fcgiapp.h`. `out` is the
sequence of chunks written to the client. `InitRequest` comes before `CheckResult`, as
in the code; `ReadBody` is one turn of the loop that reads a body in pieces of `ChunkSize`.

The strategies run in the order `Strategies`. `PrepareStg`, the one of the repository,
searches `host_action_` for the URL (`FindNext`, `Find`), and the action writes a
header and a text to the stream, or the framework its 404. Any other strategy may share values
(`SetShareValue`), emit text (`Emit`, kept in the Response until `PutEmitted`) and fail.
`values` says of each key in the worker's `ValueHolder` in which request it was set.
`ProcessInit` is another manager's `processInit`, which registers the actions again while
workers search them; it can happen after failed `init()` calls, as StrategyManager shows.

### HttpText

What the framework reads: `ParseQuery`, `ParseCookie`, the loop of `HttpParseAttributes`
(`NextAttribute`), the tables of names and of status codes, `HttpDateToSeconds` and, composed
of these, `Request::Init` over an environment and a body (`ReadEntry` per parameter, then
`Complete`). A text is a sequence of `Tokens`: the characters that mean something to a
parser, and runs of others; `Split` is `boost::split()`, with the pairs entered as their
pieces end. Each behaviour is one call, a `job`, on one of the `Inputs`; `given` remembers
what it was written from. What a writer is, is part of the module (`QueryText`, `CookiesText`,
`AttributesText`, `Environment` and the rest of `Writes`): `InputsAssumption` says that the
text of an input is one the job takes, and that where `given` says what it was written
from it is what a writer of that makes. MCHttpText has small sets of such inputs.

What is sent and what is read differ where the parsers lose something, and the properties say how
(`QueryAsRead`, `CookiesAsRead`). The writers encode keys and values alike; the key of a query is
never decoded (`stream.cc:232`), and its value is cut at a NUL that was sent as `%00`
(`stream.cc:215`). A cookie's value is cut at a `*`, a legal character at which `cookie.h:70`
splits although the comment above it names `;` and the space only. Two cases are left out of
`Cookies`: a `*` in a name, which is renamed, and a `=` behind a `*` in a value, from which a cookie
is read that nobody sent. A request with a query is refused exactly if it
has no address or no host; without a query nothing is asked of it, as the assertion in
front of that check is commented out (`stream.cc:201`).

### LogWriter

One `Log_Writer` (`INFO_W` or `WARN_W`, at the level `log_init()` gave it), its threads, which
log on every level, and somebody who moves the file away. Each statement of
`_write()` that another thread can see is a step; `fclose()` and `fp = NULL` are two.
`closes[n]` counts how often the n-th opened file was closed.

### PluginHost

A `PluginManager` and its `Host`. `known` and `listed` are the versions and the providers of
`Host::knownTypes`, `pending` is `addRequests`, `libraries` the map of that name, by the name
`getPluginName()` cuts out of a path. `mapped` counts the handles `dlopen()` returned for a
file and `dlclose()` has not closed, and `dlcloseOnDel` is `DLibrary::sm_dlcloseOnDel`,
without which no handle is ever closed. `objects` numbers the providers, each with its
version and the file that holds its code; `deletes`, `unloaded` and `unmappedCalls` are
history. Paths are sequences of names and names sequences of the parts between their dots,
which is what `resolvePathExtension`, `getPluginName` and `listFiles` look at.

The application calls the API in any order: `RegisterType`, `AddProvider`, `LoadNamed`
(`load()`), `LoadFromFolder`, `Unload`, `UnloadAll`, and the destructor (`dying`).
`Load` is `load()` up to the call of `connectPlugin()`, `HostAdd` each `Host::add()` in it,
`ConnectFails` and `ConnectReturns` what `load()` does when it returns. The destructors are
`UnloadAll`, `CloseLibraries` and `DestroyHost`, as `~PluginManager()` calls `unloadAll()` and
then destroys the host. A plug-in may fail after any of its additions. Deleting a provider
calls its code; the file is noted if it is not mapped.

### StringEncode and Transform

`StringEncode` has, for each coder, what one turn of its loop reads and emits: `used`
characters of the source (0 when it breaks), the sequence `emit`, and `spare` cells the
test of the buffer wants beyond that sequence. Characters are their codes. `Number`
stands for `strtoul()`, without its signs, white space and a second `0x`, which the reference
syntax `&#..;` has no use for.

`Transform` is the loop all coders share, a turn a step: `Looping` the condition of the `while`,
`Fits` the test before the emission (which `hex_encode()` replaces by a limit on the
source, `HexLimit`), `Convert` the body, `Return` the `'\0'` behind the output. The caller either has a
buffer of some length, encodes a text and decodes the result in place, or decodes a
text; or it is `s_transform()`, whose first call asks for the size. In place `source` is what the
caller gave and `buffer` the memory the coder reads. A write beyond the length of the buffer
has no effect in the model; that it happens is what `TypeOK` and `TerminatorFits` see.

### MC and proof modules

`MCStrategyManager`, `MCStrategyGraph`, `MCLogWriter`, `MCRequestLoop`, `MCPluginHost`,
`MCTransform` and `MCHttpText` give the constants their values; they define no behaviour.
`StrategyManagerProofs` (with the refinement), `StrategyGraphProofs`, `RequestLoopProofs`,
`LogWriterProofs`, `PluginHostProofs`, `TransformProofs` and `HttpTextProofs` hold the proofs;
`Iteration` has the lemmas on counting and on recursive functions that the last
two share, and the least element of a set of numbers.

## Runs

| run | question | bounds |
|---|---|---|
| `manager_safety` | do the invariants of the managers hold in every interleaving, with every call failing, and do the managers implement PluginPlatform? | 3 workers and `main()`, 2 strategies (independent, dependent, missing, cyclic), symmetry over workers |
| `manager_liveness` | does `init()` return, does each request end, does shutdown end? | 2 workers, a chain of 2 strategies |
| `graph` | verdict, order, printed graph, selection and run for each list? does every call return? | all lists of dependencies over 3 names (4096), 192 acyclic lists of 4 names, 7 malformed or repeated ones; 7 requests |
| `log` | is the file reopened once per rotation? does each `log()` return? | 3 threads, 3 rotations, one writer |
| `log_race` | (violation) is every file given to `fwrite()` open? | 2 threads, 1 rotation |
| `request_loop` | whole responses, whole bodies, own values, requests finished? | 2 workers, 3 requests (an action; no action and a body of two full buffers; no URL and a short body), a strategy before `PrepareStg`, one shared key, 2 `processInit` |
| `request_params` | (violation) are parameters read only while they exist? | 1 worker |
| `plugin_safety` | are providers owned once, and called while their code is mapped, in any order of calls? | 3 libraries (2 of one name, one with a dot in it) in 2 folders, 3 loads, 4 providers, 2 types with 3 registrations |
| `transform_safety` | does output fit and decode to the text, in place and in buffers of every length? | buffers of 0 to 19, texts of 3 or 4 characters of those each coder treats differently |
| `transform_utf8` | (violation) is room left after `utf8_encode()`? | buffers of 0 to 4 |
| `http` | is what was written as a query, a cookie, attributes, a date or a request read back, but for what `QueryAsRead` and `CookiesAsRead` name? are the tables in step? | up to 3 pairs or 2 attributes with every special character, `%00` and `*` included, any 4 characters for the attributes' cursor, 192 dates in 5 zones, environments in two orders |
| `http_date` | (violation) is every date its timestamp? | the same |

Why the bounds are enough to be interesting: with three workers one can be serving,
one setting up and one leaving at once, which is what it takes to see a wrong "first" or
"last"; three names give every shape of circle (through one, two and three strategies)
and four give diamonds with redundant edges; the seven requests ask for nothing, for
all, for names with and without dependencies in both orders, for an unknown name after a known
one and for a name that is too long; three threads let two wait while a third
reopens the file, and three rotations let the file vanish again at every step of it. A body of
two buffers ends with a full one; two actions registered twice let a search be under way
at every one of them. Two files of one name are what it takes to overwrite an entry of Pluma's
map, and three loads let it happen while a third plug-in fails; a buffer of 19 is longer than
the longest output of a text of three bytes (six characters each), and every shorter one cuts it
somewhere. The time zone of the date jobs is not Greenwich, so that it shows if it is
subtracted once too often.
Symmetry is used only in `manager_safety`, which has no liveness. Deadlock is checked in all runs:
states in which the process has ended or the call has returned loop explicitly.

Fairness: a thread that can take a step takes one (weak fairness per thread, as the
operating system schedules them), and the callbacks of plug-ins return. Nothing is
assumed of clients, of whoever moves log files, of failures, or that a strategy emits or
shares anything. Weak fairness of a
thread that waits for a mutex is justified as the holder releases it after finitely many
steps and, within the bounds, the mutex is taken finitely often.

## Findings

* `log_race`: the logger uses `fp` after releasing the mutex, so a thread can write to
  a file another thread has closed, although the logger's test presents it as thread safe.
* `request_params`: `Request::Init` runs before the result of `FCGX_Accept_r` is
  tested and reads parameters that `fcgiapp.h` says are freed.
* `transform_utf8`: `utf8_encode()` accepts an encoding that takes all that is left of the
  buffer; `stringencode.h:46` says it keeps one cell, and `xml_decode()` writes its `'\0'` there.
* `http_date`: `HttpDateToSeconds` takes "Jan" for June unless it is in capitals, returns the
  offset alone for a numeric zone (less the C library's `timezone`), and adds the offset of a
  named zone that it would have to subtract; `http.h:158` says "Convert RFC1123 date [...] to
  unix timestamp".

## Proofs

All theorems are for any values of the constants that meet the named `ASSUME`s of the modules,
which TLC evaluates in the runs.

**Managers** (`StrategyManagerProofs`): the eight invariants of `manager_safety`, mutual exclusion
and `ProcessLevelExclusive`. `TypeOK` and `MutualExclusion` are inductive together. Under the lock,
`ManagerInv` and `ProcessInv` say how far the loops have come: `threadUp` of a thread in
the middle of `init()` is the prefix of `topo` before `pos`, in the destructor a prefix up
to `pos`; as `topo` is a topological order (part of `TypeOK`), prefixes are closed under
dependencies, which gives `DependencyClosed` and `ThreadInitUndone`. `RequestInv` says the
same of `ran`. `InstanceNumAccounting` needs that failed threads only move towards
`gone` (`FailedLeave`) and lemmas on the cardinality of a set that gains or loses one
element. When nothing has failed, `EdgeInv` relates the remembered test to the count,
so that the first manager is alone and the last one finds no other manager up, from which
`SharedInv`, `MainFirst`, `OneLoad` and `CleanRun` follow: shared state is up while
anyone serves, `main()` comes first, the plug-ins are loaded once, and a clean shutdown
clears all. None of the properties is inductive alone, as
the count is only meaningful with the locations of all threads.

**The promise** (`StrategyManagerProofs`, theorem `Implements`): the platform is a function of
`Members` and `Mover` (`PlatformKnown`), which needs that the last manager takes everything
down (`EmptyIsDown`). So each action is matched to a step of PluginPlatform, or to
none, by what it does to these two. `MembersSafe`, which is proved of the promise alone,
then holds of the managers (`MembersServed`).

**Graph** (`StrategyGraphProofs`): the five invariants of `graph`, for any lists of
strategies and requests. `Reaches` is defined by the sets that are closed under the arcs, so that a
proof exhibits a closed set where it would otherwise follow a path by induction. `BuildInv`
says that the edges are those of the dependencies seen so far. Of a search, `StackInv` says that
the gray vertices are those of the stack, once each, and each has an arc to the next one:
so an arc to a gray vertex closes a circle. `EdgesSeen` and `OrderInv` say that an arc that was examined in a
search without back edges goes to a gray or a black vertex and that `topo` is an order of
the black ones (`Sorted`); an order excludes circles (`SortedAcyclic`), which gives both halves of
`InitVerdict` (`VerdictInv`) and `TopoSorted`. For the selection, `MarkInv` says that what
`calls` still has ahead and what is marked cover what is needed; when the loops are done
the marked set is closed (`Settled`), hence `Needed`. `RanInv` carries the order over to `ran`.
`PrintInv` says that exactly the edges that the search has behind it, and that are shown, got a
line (`BehindStep`, `BehindStays`), and none twice, as an edge is not yet behind when it is
examined (`NotYetBehind`); `PrintedPairs` goes from edges to pairs. That the printed pairs connect as much
as the graph is the least-gap argument: were there an arc that the reduced edges do not
bridge, take one whose ends are nearest in `topo` (`Least`); another path replaces it by arcs
between nearer ends (`ShorterEdges`). That none is superfluous is `ReducedMinimal`.

**Request loop** (`RequestLoopProofs`): the four invariants of `request_loop`. `WorkerInv` is a
conjunction per worker: the connection by location, the body by what was read, the values by whether
they were cleared, the search by the actions passed, the output as the answer that
`PrepareStg` gave so far followed by what was emitted. `Actions` says that both actions are found,
at the same places, in every list `processInit` leaves; a step of one worker leaves the
parts of the others alone (`OneWorkerSteps`), and `ProcessInit` only appends behind what is
being searched.

**Logger** (`LogWriterProofs`): the invariants of `log`. `HolderInv` (the mutex), `OpenInv` and
`ReopenInv` (which files are closed, by the location of the holder) and `CountInv` (a missing file has been
moved away since it was opened, hence opens never exceed rotations by more than one).

**Pluma** (`PluginHostProofs`): the invariants of `plugin_safety`, that a plug-in can only hand over its own
providers, and that the host lists compatible ones only. `OwnedOnce` and `PendingOfLoading` are inductive with `TypeOK`.
`LoadedIsMapped` counts handles: a file that is in the map and connecting again holds two,
as the second load may fail and close its own. `HandleInv` says the same of a file
with listed providers, whose entry in the map a file of the same name may have taken
over; the map alone would not show that it is still mapped. `CompatibleInv` extends `ListedCompatible` to the additions that are still pending,
which stay compatible because the first registration of a type stays. `CodeMapped` follows from
`HandleInv` as `unloadAll()` deletes providers before it closes libraries; what
`unload()` closed is excepted.

**Recursive functions** (`Iteration`). The induction theorems of the library take an
operator as a parameter, which the provers cannot instantiate, so the models' recursive functions
are reasoned about by sets: a set of numbers that holds 0, and with every number below n the
next one, holds all up to n (`Counting`, by the least number that would be missing), and for every first
value and every step there is a function that iterates it (`IterationExists`). So a
recursive definition, which TLA+ makes a `CHOOSE`, is shown to have a value (the iteration),
hence to meet its own equation, and what the value is follows by `Counting`.

**Coders** (`TransformProofs`): the four invariants of `transform_safety`. Lemmas bound what one turn
uses and emits (`IsTurn`). Decoders never
emit more than they use (`Shrinking`), whatever the digits of a character reference say:
it has four characters if it has a digit, and no UTF-8 has more; one without digits has
three, and its value zero takes one byte. Then `UnreadUntouched` is inductive, with `PlaceInv` (the
memory holds the whole source). `TerminatorFits` follows from the test of the buffer, or for
`hex_encode()` from `HexInv` (`bufpos` is twice `srcpos`) and its limit.

`RoundTrip` (theorem `EncodeThenDecode`) says that the decoder undoes the encoder. Each turn of
an encoder makes a piece of code that one turn of the decoder reads as the characters it was made of,
whatever stands behind it (`Reads`); this is a lemma per coder, down to the digits of a reference or an
escape sequence. `Pieces` says that a text and its code are cut into such pieces: a set `cuts`
of pairs of positions, from each of which but the last a piece leads to another. While
encoding, `TripInv` has the cuts of what was read; while decoding, both positions are a
cut and the buffer holds the text up to it, so that every turn goes from a cut to another one.
When the buffer was too short the cuts end earlier, which is why `RoundTrip` promises a part of the text
then. For HTML the text has to be UTF-8, as the encoder reads characters of several bytes.

**HTTP text** (`HttpTextProofs`): the six invariants of `http`, for any tokens and any inputs
that meet `InputsAssumption`. `InputInv` says that the call is one that may be given and `ReadInv` what the
parsers without a loop of their own returned; the rest is about what these compute.

* Queries, forms and cookies (`QueriesAndCookies`). Where a separator stands the loop over the pieces
  can be cut in two: what is entered for `a & b` is what is entered for `b` into what was entered for `a`
  (`PairsAppend`). So each pair more that is written is one entry more (`ReadsOneMore`),
  `insert()` keeps the first value of a key and `Add()` the last. Lemmas on the
  parts of a text say where its first `=` is, and that `Decoded` undoes `Encoded` up to a NUL.
  A cookie's text is cut at its `*`s as well (`CutAtFirst`): the pieces behind the first one have
  no `=` and enter nothing (`RestLacks`).
* Attributes (`AttributesReadBack`). `Placed` says where in the text each attribute stands, from `offs` to
  `ends`; it is shown of what is written by the growth of the joined text (`JoinedLaid`,
  `ShortPlaced`). What stands at a place decides the turn of the loop there (`AttributeRead`: the end of
  the name, the bare or the quoted value, the character behind it), so that
  `AttributesInv` (the first k attributes are read and the loop is behind the k-th) is inductive.
  The quoted value is a recursion towards the end of the text, turned into a count (`QuotedTurns`).
* Requests (`RequestsFromTheServer`). `RequestInv` says what is read of the set of entries before
  the position (`ReadSoFar`). As it is the set that matters, the order does not, and
  neither do entries that are none of the five; the parsers' results then come from
  the theorems above, and the numbers from the value of their digits (`NumeralRead`).
* Names, codes and dates (`NamesAndCodes`, `DatesOfGreenwich`). The tables are compared entry by
  entry. The days of a date are a count of leap years, which `Leaps` turns into the
  quotients of `DayNumber` by induction over the years.
* `TypeOK` (`Types`): no loop runs past its text.

**Model-checked only.** Liveness (`InitReturns`, `RequestsEnd`, `ShutdownEnds`, `CallsReturn`,
`LogReturns`, `AcceptedIsFinished`): the prover has neither fairness nor `ENABLED`.
So every invariant and action property of the passing runs is a theorem, and every
liveness property is left to TLC.

## Not modelled

* Memory ownership of single strategies (`addAllStrategy` leaks the strategy whose
  `initDepends()` fails) and of the cells of a `ValueHolder` (`set()` on a key in use
  loses the old cell); `get()`, which no code of the repository instantiates.
* What `exit()` does to threads still running after a failed `pthread_join`.
* The format and length of log messages, a log file created anew by others.
* Loading the configuration (`loadConf`), and the static counters of the
  actions, whose value is never output.
* Pluma's templates and headers beyond what the managers and the host use, and its platform layer
  for Windows (`uce-dirent.h`).
* Build files, scripts, documentation, examples, the FastCGI library itself.

## What is left

1. StrategyManager composed with PluginHost, in the place of `pluma` and `loads`. Their
   product is large; `PluginPlatform` and the contract `loadFromFolder`, `getProviders`,
   `unloadAll` are the seam.
2. StrategyGraph composed with StrategyManager, in the place of `TopoOrders`; `OrderRight` proves
   that contract, so the composition would add no behaviour.
3. The cells of `ValueHolder`, once a strategy of the repository uses them.
