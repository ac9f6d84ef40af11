------------------------------ MODULE PluginHost ------------------------------
(***************************************************************************)
(* Pluma: the libraries a PluginManager loads and the providers its Host    *)
(* owns (service/web-frame/Pluma/src/Pluma).  A plug-in's connectPlugin()   *)
(* hands providers to Host::add() one by one; load() keeps or deletes them  *)
(* when it returns.  A provider's code is in the library it comes from.     *)
(*                                                                         *)
(* The application calls the API in any order.  A path is the sequence of   *)
(* the names between its slashes, a name the sequence of its parts between  *)
(* the dots: "lib/x.so" is <<lib, <<"x", "so">>>>.  Providers are numbered  *)
(* in the order they are created; the order a host lists them in is left    *)
(* out.                                                                    *)
(***************************************************************************)
EXTENDS Naturals, SequencesExt

CONSTANTS
  Files,      \* the files there are, and what else opendir() refuses: paths
  Folders,    \* the folders there are: paths
  Rank,       \* the order of the files' paths as strings
  Plugins,    \* the files that dlopen() accepts
  Asked,      \* the names and paths the application passes to load() and unload()
  PLUMA_LIB_EXTENSION,
  Types,      \* provider types
  Local,      \* "the provider is of the application"
  Offers,     \* what each connectPlugin() creates and adds, in order
  HostTypes,  \* what the application may register: [type, version, lowest]
  Own,        \* the providers the application may add: [type, version]
  MaxLoads,   \* bound: how many files are loaded
  MaxObjects  \* bound: how many providers are created

Kinds == [type : Types, version : Nat]

ASSUME PluginsAssumption ==
  /\ Local \notin Plugins
  /\ Offers \in [Plugins -> Seq(Kinds)]

ASSUME FilesAssumption == Rank \in [Files -> Nat]

ASSUME HostAssumption ==
  /\ HostTypes \subseteq [type : Types, version : Nat, lowest : Nat]
  /\ Own \subseteq Kinds

ASSUME BoundsAssumption == MaxLoads \in Nat /\ MaxObjects \in Nat

VARIABLES
  phase,        \* what the manager is doing
  dying,        \* its destructor runs
  files,        \* the paths load() and loadFromFolder() still have to load
  loads,        \* how many paths load() was given
  loading,      \* the plug-in whose connectPlugin() runs
  offered,      \* how many providers it has added
  known,        \* Host::knownTypes: versions of the registered types
  listed,       \* Host::knownTypes: the providers
  pending,      \* Host::addRequests
  libraries,    \* PluginManager::libraries, by name
  mapped,       \* how many dlopen() of each file have not been closed
  dlcloseOnDel, \* DLibrary::sm_dlcloseOnDel
  objects,      \* every provider created so far
  deletes,      \* how often each was deleted (history)
  unloaded,     \* the files that unload() has closed (history)
  unmappedCalls \* files whose code was called while it was not mapped (history)

host == <<known, listed, pending>>
memory == <<objects, deletes, unmappedCalls>>
vars == <<phase, dying, files, loads, loading, offered, host, libraries, mapped,
          dlcloseOnDel, memory, unloaded>>

NoTypes == [t \in {} |-> 0]
NoLibraries == [n \in {} |-> Local]

Init ==
  /\ phase = "ready" /\ dying = FALSE
  /\ files = {} /\ loads = 0
  /\ loading = Local /\ offered = 0
  /\ known = NoTypes /\ listed = {} /\ pending = {}
  /\ libraries = NoLibraries
  /\ mapped = [p \in Plugins |-> 0]
  /\ dlcloseOnDel \in BOOLEAN
  /\ objects = <<>> /\ deletes = <<>>
  /\ unloaded = {} /\ unmappedCalls = {}

\* The application calls the manager only between two calls.
Idle == phase = "ready" /\ files = {}

-----------------------------------------------------------------------------
(* Host and Provider                                                         *)

knows(type) == type \in DOMAIN known

\* knownTypes after Host::registerType(): the first registration of a type stays.
Registered(i) == [t \in DOMAIN known \cup {i.type} |->
  IF knows(t) THEN known[t] ELSE [version |-> i.version, lowest |-> i.lowest]]

\* acceptProviderType() and registerType()
RegisterType(i) ==
  /\ Idle
  /\ known' = Registered(i)
  /\ UNCHANGED <<phase, dying, files, loads, loading, offered, listed, pending,
                 libraries, mapped, dlcloseOnDel, memory, unloaded>>

getVersion(type) == IF knows(type) THEN known[type].version ELSE 0

getLowestVersion(type) == IF knows(type) THEN known[type].lowest ELSE 0

isCompatible(kind) ==
  /\ knows(kind.type)
  /\ getLowestVersion(kind.type) <= kind.version
  /\ kind.version <= getVersion(kind.type)

\* Host::validateProvider()
Valid(kind) == knows(kind.type) /\ isCompatible(kind)

New == Len(objects) + 1

\* new XProvider(): a refused one is deleted at once.
Create(kind, from) ==
  /\ Len(objects) < MaxObjects
  /\ objects' = Append(objects, [type |-> kind.type, version |-> kind.version, from |-> from])
  /\ deletes' = Append(deletes, IF Valid(kind) THEN 0 ELSE 1)
  /\ UNCHANGED unmappedCalls

\* The files of providers s whose code is not mapped.
Unmapped(s) == {objects[n].from : n \in {m \in s : objects[m].from # Local
                                                  /\ mapped[objects[m].from] = 0}}

\* delete on each provider of s: a virtual call into its library.
Delete(s) ==
  /\ deletes' = [n \in DOMAIN deletes |-> deletes[n] + (IF n \in s THEN 1 ELSE 0)]
  /\ unmappedCalls' = unmappedCalls \cup Unmapped(s)
  /\ UNCHANGED objects

\* addProvider() and registerProvider(): the host owns the provider, or deletes it.
AddProvider(kind) ==
  /\ Idle
  /\ Create(kind, Local)
  /\ listed' = IF Valid(kind) THEN listed \cup {New} ELSE listed
  /\ UNCHANGED <<phase, dying, files, loads, loading, offered, known, pending,
                 libraries, mapped, dlcloseOnDel, unloaded>>

\* getProviders(): the providers of a type that the host lists.
getProviders(type) == {n \in listed : objects[n].type = type}

-----------------------------------------------------------------------------
(* Paths and folders                                                         *)

HasExtension(path) == Len(Last(path)) > 1

\* The last name of the path, without its extension.
getPluginName(path) == IF HasExtension(path) THEN Front(Last(path)) ELSE Last(path)

\* The path itself, or with the extension of libraries if it has none.
resolvePathExtension(path) ==
  IF HasExtension(path) THEN path ELSE [path EXCEPT ![Len(path)] = Append(@, PLUMA_LIB_EXTENSION)]

\* listFiles(): the files of a folder whose name ends in the extension, a name without a
\* dot being its own extension; with those of the folders below it if recursive.
listFiles(folder, extension, recursive) ==
  {f \in Files : /\ folder \in Folders
                 /\ Last(Last(f)) = extension
                 /\ IF recursive THEN IsPrefix(folder, Front(f)) ELSE Front(f) = folder}

\* What load() may be called with.
Paths == Files \cup {folder \o name : folder \in Folders \cup {<<>>}, name \in Asked}

-----------------------------------------------------------------------------
(* load() and loadFromFolder()                                               *)

LoadFiles(s) ==
  /\ Idle
  /\ files' = s
  /\ UNCHANGED <<phase, dying, loads, loading, offered, host, libraries, mapped,
                 dlcloseOnDel, memory, unloaded>>

\* load(folder, pluginName): the folder may be empty.
LoadNamed(folder, pluginName) == LoadFiles({folder \o pluginName})

LoadFromFolder(folder, recursive) == LoadFiles(listFiles(folder, PLUMA_LIB_EXTENSION, recursive))

\* Mutant: the handle is closed twice.
Closed_twice(p) == IF dlcloseOnDel THEN [mapped EXCEPT ![p] = @ - 2] ELSE mapped

\* delete on a DLibrary.
Closed(p) == IF dlcloseOnDel THEN [mapped EXCEPT ![p] = @ - 1] ELSE mapped

\* The paths of a folder are loaded in the order of list.sort().
NextOf(path) == path \in files /\ \A other \in files \ {path} : Rank[path] < Rank[other]

\* dlopen() of a file, which may be mapped already.
Opened(file) == [mapped EXCEPT ![file] = @ + 1]

\* dlopen() fails; or connectPlugin is missing, and the library stays mapped when deleting
\* it does not close it; or connectPlugin() begins.
Load(path) ==
  LET file == resolvePathExtension(path) IN
  /\ phase = "ready" /\ NextOf(path)
  /\ loads < MaxLoads
  /\ loads' = loads + 1
  /\ files' = files \ {path}
  /\ \/ UNCHANGED <<phase, loading, offered, mapped>>
     \/ /\ file \in Plugins /\ ~dlcloseOnDel
        /\ mapped' = Opened(file)
        /\ UNCHANGED <<phase, loading, offered>>
     \/ /\ file \in Plugins
        /\ mapped' = Opened(file)
        /\ phase' = "connect" /\ loading' = file /\ offered' = 0
  /\ UNCHANGED <<dying, host, libraries, dlcloseOnDel, memory, unloaded>>

\* Host::add() of the plug-in's next provider.
HostAdd ==
  /\ phase = "connect"
  /\ offered < Len(Offers[loading])
  /\ LET kind == Offers[loading][offered + 1] IN
       /\ Create(kind, loading)
       /\ pending' = IF Valid(kind) THEN pending \cup {New} ELSE pending
  /\ offered' = offered + 1
  /\ UNCHANGED <<phase, dying, files, loads, loading, known, listed, libraries, mapped,
                 dlcloseOnDel, unloaded>>

Connected == phase' = "ready" /\ loading' = Local /\ offered' = 0

cancelAddictions ==
  /\ Delete(pending)
  /\ pending' = {}

confirmAddictions ==
  /\ listed' = listed \cup pending
  /\ pending' = {}

\* connectPlugin() returns false: cancelAddictions(), and the library is deleted.
ConnectFails ==
  /\ phase = "connect"
  /\ Connected
  /\ cancelAddictions
  /\ mapped' = Closed(loading)
  /\ UNCHANGED <<dying, files, loads, known, listed, libraries, dlcloseOnDel, unloaded>>

\* connectPlugin() returns true: confirmAddictions(), unless nothing was added.  The
\* library takes its name in the map, whatever was there.
ConnectReturns ==
  /\ phase = "connect"
  /\ Connected
  /\ IF pending = {}
       THEN mapped' = Closed(loading) /\ UNCHANGED <<listed, pending, libraries>>
       ELSE /\ confirmAddictions
            /\ libraries' = [n \in DOMAIN libraries \cup {getPluginName(loading)} |->
                 IF n = getPluginName(loading) THEN loading ELSE libraries[n]]
            /\ UNCHANGED mapped
  /\ UNCHANGED <<dying, files, loads, known, dlcloseOnDel, memory, unloaded>>

-----------------------------------------------------------------------------
(* unload(), unloadAll() and the destructors                                  *)

\* Mutant: the entry of the map stays.
Erased_kept(name) == libraries

Erased(name) == [n \in DOMAIN libraries \ {name} |-> libraries[n]]

isLoaded(path) == getPluginName(path) \in DOMAIN libraries

\* unload() of a name or a path.
Unload(path) ==
  LET name == getPluginName(path) IN
  /\ Idle
  /\ isLoaded(path)
  /\ mapped' = Closed(libraries[name])
  /\ unloaded' = unloaded \cup {libraries[name]}
  /\ libraries' = Erased(name)
  /\ UNCHANGED <<phase, dying, files, loads, loading, offered, host, dlcloseOnDel, memory>>

\* Mutant: clearProviders() deletes the providers but not the list.
AfterClear_kept == listed

AfterClear == {}

\* clearProviders()
ClearProviders ==
  /\ Delete(listed)
  /\ listed' = AfterClear
  /\ UNCHANGED <<known, pending>>

\* Mutant: unloadAll() begins with the libraries.
UnloadAllFirst_libraries == UNCHANGED <<host, memory>>

\* What unloadAll() does before it closes the libraries.
UnloadAllFirst == ClearProviders

\* unloadAll(), called by the application or by ~PluginManager().
UnloadAll ==
  /\ Idle
  /\ UnloadAllFirst
  /\ phase' = "close"
  /\ dying' \in BOOLEAN
  /\ UNCHANGED <<files, loads, loading, offered, libraries, mapped, dlcloseOnDel, unloaded>>

\* The entry of the map under p's name is p.
Held(p) == isLoaded(p) /\ libraries[getPluginName(p)] = p

\* The loop of unloadAll() over the libraries.
CloseLibraries ==
  /\ phase = "close"
  /\ mapped' = [p \in Plugins |-> IF Held(p) THEN Closed(p)[p] ELSE mapped[p]]
  /\ libraries' = NoLibraries
  /\ phase' = IF dying THEN "host" ELSE "ready"
  /\ UNCHANGED <<dying, files, loads, loading, offered, host, dlcloseOnDel, memory, unloaded>>

\* ~Host() clears the providers once more; known goes with the manager.
DestroyHost ==
  /\ phase = "host"
  /\ Delete(listed)
  /\ listed' = AfterClear
  /\ known' = NoTypes
  /\ phase' = "gone"
  /\ UNCHANGED <<dying, files, loads, loading, offered, pending, libraries, mapped,
                 dlcloseOnDel, unloaded>>

\* new Pluma: libraries that are still mapped stay so.
Construct ==
  /\ phase = "gone"
  /\ phase' = "ready" /\ dying' = FALSE
  /\ UNCHANGED <<files, loads, loading, offered, host, libraries, mapped, dlcloseOnDel,
                 memory, unloaded>>

\* The bounds are reached in the middle of a call.
Exhausted ==
  /\ \/ phase = "ready" /\ files # {} /\ loads = MaxLoads
     \/ phase = "connect" /\ Len(objects) = MaxObjects
  /\ UNCHANGED vars

Next ==
  \/ \E i \in HostTypes : RegisterType(i)
  \/ \E kind \in Own : AddProvider(kind)
  \/ \E folder \in Folders \cup {<<>>}, name \in Asked : LoadNamed(folder, name)
  \/ \E folder \in Folders, recursive \in BOOLEAN : LoadFromFolder(folder, recursive)
  \/ \E path \in files : Load(path)
  \/ HostAdd \/ ConnectFails \/ ConnectReturns
  \/ \E path \in Asked : Unload(path)
  \/ UnloadAll \/ CloseLibraries \/ DestroyHost \/ Construct
  \/ Exhausted

Spec == Init /\ [][Next]_vars

-----------------------------------------------------------------------------
(* Properties                                                                *)

Objects == DOMAIN objects

\* Types.
TypeOK ==
  /\ phase \in {"ready", "connect", "close", "host", "gone"}
  /\ dying \in BOOLEAN
  /\ files \in SUBSET Paths
  /\ loads \in 0..MaxLoads
  /\ loading \in Plugins \cup {Local}
  /\ phase = "connect" <=> loading # Local
  /\ offered \in Nat
  /\ \A t \in DOMAIN known : t \in Types /\ known[t] \in [version : Nat, lowest : Nat]
  /\ listed \in SUBSET Objects
  /\ pending \in SUBSET Objects
  /\ \A n \in DOMAIN libraries : libraries[n] \in Plugins /\ getPluginName(libraries[n]) = n
  /\ mapped \in [Plugins -> Nat]
  /\ dlcloseOnDel \in BOOLEAN
  /\ objects \in Seq([type : Types, version : Nat, from : Plugins \cup {Local}])
  /\ deletes \in Seq(Nat) /\ Len(deletes) = Len(objects)
  /\ unloaded \in SUBSET Plugins
  /\ unmappedCalls \in SUBSET Plugins

\* Every provider the host was ever given is owned by it in one place or was deleted,
\* once: refused providers, plug-ins that fail half way, unloadAll() followed by both
\* destructors neither leak one nor delete it twice (Host.cpp:42-74,122-176).
OwnedOnce ==
  /\ listed \cap pending = {}
  /\ \A n \in Objects : deletes[n] = IF n \in listed \cup pending THEN 0 ELSE 1

\* The code of a provider that getProviders() returns or that is pending is mapped, and no
\* destructor of a provider is called after its library was closed, unless unload() was
\* called for the library (PluginManager.cpp:109-128 closes it without asking for its
\* providers).
CodeMapped ==
  /\ \A t \in Types : \A n \in getProviders(t) \cup pending : objects[n].from \in Plugins =>
       mapped[objects[n].from] > 0 \/ objects[n].from \in unloaded
  /\ unmappedCalls \subseteq unloaded

\* A library that the map holds, or that is connecting, has a handle of its own that
\* no other path has closed (PluginManager.cpp:69-128).
LoadedIsMapped ==
  \A p \in Plugins :
    (IF Held(p) THEN 1 ELSE 0) + (IF p = loading THEN 1 ELSE 0) <= mapped[p]

=============================================================================
