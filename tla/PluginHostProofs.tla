-------------------------- MODULE PluginHostProofs --------------------------
(***************************************************************************)
(* The safety of PluginHost for every set of plug-ins, names, offers and    *)
(* registered types, and for any number of loads.                           *)
(***************************************************************************)
EXTENDS PluginHost, TLAPS

\* confirmAddictions() can only adopt providers of the plug-in that is connecting: between
\* two plug-ins nothing is left in addRequests (PluginManager.cpp:63-82).
PendingOfLoading ==
  \A n \in pending : phase = "connect" /\ objects[n].from = loading

\* Whatever is registered later, a listed provider is of a known type and in the range
\* of versions the host accepts (Host.cpp:102-134, Provider.cpp:41-49).
ListedCompatible == \A n \in listed : Valid(objects[n])

\* Once unloadAll() has begun the host owns nothing until it is used again.
ClearedInv == phase \in {"close", "host", "gone"} => listed = {} /\ pending = {}

\* A file the host has providers of has a handle beside that of a second load(), unless
\* unload() closed it: the name of the library may have been taken by another file.
HandleInv ==
  \A n \in listed : objects[n].from \in Plugins /\ objects[n].from \notin unloaded =>
    (IF objects[n].from = loading THEN 1 ELSE 0) + 1 <= mapped[objects[n].from]

\* What a plug-in added is compatible too, and nothing is registered while it connects.
CompatibleInv == \A n \in listed \cup pending : Valid(objects[n])

Inv ==
  /\ TypeOK
  /\ OwnedOnce
  /\ PendingOfLoading
  /\ CompatibleInv
  /\ unmappedCalls \subseteq unloaded
  /\ LoadedIsMapped
  /\ ClearedInv
  /\ HandleInv

USE DEF Kinds, knows, isCompatible, getVersion, getLowestVersion

-----------------------------------------------------------------------------
(* What one call does to the memory of the host                               *)

\* The code of all providers of s is mapped, or unload() was called for it.
Callable(s) ==
  \A n \in s : objects[n].from \in Plugins =>
    mapped[objects[n].from] > 0 \/ objects[n].from \in unloaded

\* A created provider is a record of its type, version and library.
LEMMA ObjectType ==
  ASSUME Inv, NEW n \in Objects
  PROVE  objects[n] \in [type : Types, version : Nat, from : Plugins \cup {Local}]
<1>1. objects \in Seq([type : Types, version : Nat, from : Plugins \cup {Local}])
  BY DEF Inv, TypeOK
<1> DEFINE O == [type : Types, version : Nat, from : Plugins \cup {Local}]
<1> HIDE DEF O
<1>2. objects \in Seq(O) => objects[n] \in O
  BY DEF Objects
<1>3. QED
  BY <1>1, <1>2 DEF O

\* Whatever the host owns may be called: delete finds its code.
LEMMA OwnedCallable ==
  ASSUME Inv
  PROVE  Callable(listed) /\ Callable(pending)
<1>1. ASSUME NEW n \in listed, objects[n].from \in Plugins
      PROVE  mapped[objects[n].from] > 0 \/ objects[n].from \in unloaded
  BY <1>1 DEF Inv, HandleInv, TypeOK
<1>2. ASSUME NEW n \in pending, objects[n].from \in Plugins
      PROVE  mapped[objects[n].from] > 0
  <2>1. objects[n].from = loading
    BY <1>2 DEF Inv, PendingOfLoading
  <2>2. 1 <= mapped[loading]
    BY <1>2, <2>1 DEF Inv, LoadedIsMapped, TypeOK
  <2>3. QED
    BY <2>1, <2>2, <1>2 DEF Inv, TypeOK
<1>3. QED
  BY <1>1, <1>2 DEF Callable

\* clearProviders() and cancelAddictions() delete each of their providers once more.
LEMMA DeleteOwned ==
  ASSUME Inv, NEW s \in {listed, pending}, Delete(s)
  PROVE  /\ unmappedCalls' \in SUBSET Plugins
         /\ unmappedCalls' \subseteq unloaded
         /\ objects' = objects
         /\ deletes' \in Seq(Nat) /\ Len(deletes') = Len(objects)
         /\ \A n \in Objects : deletes'[n] = deletes[n] + (IF n \in s THEN 1 ELSE 0)
<1>1. s \subseteq Objects /\ Callable(s)
  BY OwnedCallable DEF Inv, TypeOK
<1>2. Unmapped(s) \subseteq unloaded
  <2>1. SUFFICES ASSUME NEW n \in s, objects[n].from # Local, mapped[objects[n].from] = 0
                 PROVE  objects[n].from \in unloaded
    BY Zenon DEF Unmapped
  <2>2. objects[n] \in [type : Types, version : Nat, from : Plugins \cup {Local}]
    BY <1>1, ObjectType
  <2>3. objects[n].from \in Plugins
    BY <2>1, <2>2
  <2>4. QED
    BY <1>1, <2>1, <2>3 DEF Callable
<1>3. unmappedCalls' \in SUBSET Plugins /\ unmappedCalls' \subseteq unloaded
  BY <1>2 DEF Inv, TypeOK, Delete
<1>4. /\ deletes' \in Seq(Nat) /\ Len(deletes') = Len(objects)
      /\ \A n \in Objects : deletes'[n] = deletes[n] + (IF n \in s THEN 1 ELSE 0)
  <2>1. deletes \in Seq(Nat) /\ DOMAIN deletes = 1..Len(deletes) /\ Len(deletes) \in Nat
    BY DEF Inv, TypeOK
  <2>2. deletes' \in [1..Len(deletes) -> Nat]
    BY <2>1 DEF Delete
  <2>3. deletes' \in Seq(Nat) /\ Len(deletes') = Len(deletes)
    BY <2>1, <2>2
  <2>4. QED
    BY <2>1, <2>3 DEF Inv, TypeOK, Delete, Objects
<1>5. QED
  BY <1>3, <1>4 DEF Delete

\* A new provider is appended; the earlier ones stay as they are.
LEMMA CreateOwned ==
  ASSUME Inv, NEW kind \in Kinds, NEW from \in Plugins \cup {Local}, Create(kind, from)
  PROVE  /\ New \notin Objects
         /\ Objects' = Objects \cup {New}
         /\ objects' \in Seq([type : Types, version : Nat, from : Plugins \cup {Local}])
         /\ deletes' \in Seq(Nat) /\ Len(deletes') = Len(objects')
         /\ \A n \in Objects : objects'[n] = objects[n] /\ deletes'[n] = deletes[n]
         /\ objects'[New] = [type |-> kind.type, version |-> kind.version, from |-> from]
         /\ deletes'[New] = IF Valid(kind) THEN 0 ELSE 1
         /\ unmappedCalls' = unmappedCalls
<1> DEFINE new == [type |-> kind.type, version |-> kind.version, from |-> from]
           d == IF Valid(kind) THEN 0 ELSE 1
<1>1. new \in [type : Types, version : Nat, from : Plugins \cup {Local}] /\ d \in Nat
  OBVIOUS
<1>2. objects' = Append(objects, new) /\ deletes' = Append(deletes, d) /\ unmappedCalls' = unmappedCalls
  BY DEF Create
<1> HIDE DEF new, d
<1>3. QED
  BY <1>1, <1>2 DEF Inv, TypeOK, Objects, New, new, d

-----------------------------------------------------------------------------
\* The constructor establishes the invariant.
LEMMA InitInv == Init => Inv
<1> SUFFICES ASSUME Init PROVE Inv
  OBVIOUS
<1>1. TypeOK
  <2>1. \A n \in DOMAIN libraries : libraries[n] \in Plugins /\ getPluginName(libraries[n]) = n
    BY DEF Init, NoLibraries
  <2>2. \A t \in DOMAIN known : t \in Types /\ known[t] \in [version : Nat, lowest : Nat]
    BY DEF Init, NoTypes
  <2>3. dying \in BOOLEAN /\ dlcloseOnDel \in BOOLEAN
    BY Zenon DEF Init
  <2>4. QED
    BY <2>1, <2>2, <2>3, BoundsAssumption DEF Init, TypeOK
<1>2. OwnedOnce /\ PendingOfLoading /\ CompatibleInv /\ ClearedInv /\ HandleInv
  BY DEF Init, OwnedOnce, PendingOfLoading, CompatibleInv, ClearedInv, HandleInv, Objects
<1>3. LoadedIsMapped /\ unmappedCalls \subseteq unloaded
  BY PluginsAssumption DEF Init, LoadedIsMapped, Held, isLoaded, NoLibraries
<1>4. QED
  BY <1>1, <1>2, <1>3 DEF Inv

\* registerType() keeps what is registered, so what is listed stays compatible.
LEMMA RegisterTypeInv ==
  ASSUME Inv, NEW i \in HostTypes, RegisterType(i)
  PROVE  Inv'
<1> USE DEF Inv, RegisterType, memory
<1>1. /\ DOMAIN known' = DOMAIN known \cup {i.type}
      /\ \A t \in DOMAIN known : known'[t] = known[t]
      /\ \A t \in DOMAIN known' : t \in Types /\ known'[t] \in [version : Nat, lowest : Nat]
  BY HostAssumption DEF TypeOK, Registered
<1>2. TypeOK'
  BY <1>1 DEF TypeOK, Objects
<1>3. CompatibleInv'
  BY <1>1 DEF CompatibleInv, Valid
<1>4. QED
  BY <1>2, <1>3 DEF OwnedOnce, PendingOfLoading, LoadedIsMapped, Held, isLoaded, ClearedInv,
                    HandleInv, Objects

\* addProvider() lists a valid provider and deletes another.
LEMMA AddProviderInv ==
  ASSUME Inv, NEW kind \in Own, AddProvider(kind)
  PROVE  Inv'
<1> USE DEF Inv, AddProvider
<1>1. kind \in Kinds /\ Create(kind, Local)
  BY HostAssumption
<1>2. /\ New \notin Objects /\ Objects' = Objects \cup {New}
      /\ objects' \in Seq([type : Types, version : Nat, from : Plugins \cup {Local}])
      /\ deletes' \in Seq(Nat) /\ Len(deletes') = Len(objects')
      /\ \A n \in Objects : objects'[n] = objects[n] /\ deletes'[n] = deletes[n]
      /\ objects'[New] = [type |-> kind.type, version |-> kind.version, from |-> Local]
      /\ deletes'[New] = IF Valid(kind) THEN 0 ELSE 1
      /\ unmappedCalls' = unmappedCalls
  BY <1>1, CreateOwned
<1>3. listed \subseteq Objects /\ pending \subseteq Objects
  BY DEF TypeOK
<1>4. TypeOK'
  BY <1>2, <1>3 DEF TypeOK
<1>5. OwnedOnce'
  BY <1>2, <1>3 DEF OwnedOnce
<1>6. PendingOfLoading' /\ ClearedInv'
  BY <1>2, <1>3 DEF PendingOfLoading, ClearedInv, Idle
<1>7. CompatibleInv'
  <2>1. known' = known /\ pending' = pending
    OBVIOUS
  <2>2. SUFFICES ASSUME NEW n \in listed' \cup pending
                 PROVE  Valid(objects[n])'
    BY <2>1 DEF CompatibleInv
  <2>3. CASE n \in listed \cup pending
    BY <1>2, <1>3, <2>1, <2>3 DEF CompatibleInv, Valid
  <2>4. CASE n = New /\ Valid(kind)
    BY <1>2, <2>1, <2>4 DEF Valid
  <2>5. QED
    BY <2>1, <2>2, <2>3, <2>4
<1>8. HandleInv'
  <2>1. SUFFICES ASSUME NEW n \in listed', objects'[n].from \in Plugins, objects'[n].from \notin unloaded
                 PROVE  (IF objects'[n].from = loading THEN 1 ELSE 0) + 1 <= mapped[objects'[n].from]
    BY DEF HandleInv
  <2>2. n # New
    BY <1>2, <2>1, PluginsAssumption
  <2>3. n \in listed /\ objects'[n] = objects[n]
    BY <1>2, <1>3, <2>1, <2>2
  <2>4. QED
    BY <2>1, <2>3 DEF HandleInv
<1>9. LoadedIsMapped' /\ unmappedCalls' \subseteq unloaded'
  BY <1>2 DEF LoadedIsMapped, Held, isLoaded
<1>10. QED
  BY <1>4, <1>5, <1>6, <1>7, <1>8, <1>9

\* Entering load() changes nothing the invariant is about but the paths to load.
LEMMA LoadFilesInv ==
  ASSUME Inv, NEW s \in SUBSET Paths, LoadFiles(s)
  PROVE  Inv'
BY DEF Inv, LoadFiles, host, memory, TypeOK, OwnedOnce, PendingOfLoading, CompatibleInv, Valid,
       LoadedIsMapped, Held, isLoaded, ClearedInv, HandleInv, Objects

\* dlopen() adds a handle, which belongs to the plug-in that begins to connect.
LEMMA LoadInv ==
  ASSUME Inv, NEW path, Load(path)
  PROVE  Inv'
<1> USE DEF Inv, Load, Opened, host, memory
<1> DEFINE p == resolvePathExtension(path)
<1>1. /\ mapped' \in [Plugins -> Nat]
      /\ \A q \in Plugins : mapped'[q] >= mapped[q]
      /\ loading' # loading => /\ p \in Plugins /\ mapped'[p] = mapped[p] + 1
                               /\ loading' = p /\ loading = Local
  <2>1. mapped \in [Plugins -> Nat] /\ loading = Local
    BY DEF TypeOK
  <2>2. CASE UNCHANGED <<phase, loading, offered, mapped>>
    BY <2>1, <2>2
  <2>3. CASE p \in Plugins /\ mapped' = [mapped EXCEPT ![p] = @ + 1] /\ UNCHANGED loading
    BY <2>1, <2>3
  <2>4. CASE p \in Plugins /\ mapped' = [mapped EXCEPT ![p] = @ + 1] /\ loading' = p
    BY <2>1, <2>4
  <2>5. QED
    BY <2>2, <2>3, <2>4
<1>2. TypeOK'
  BY <1>1, BoundsAssumption, PluginsAssumption DEF TypeOK, Objects
<1>3. pending = {}
  BY DEF PendingOfLoading
<1>4. OwnedOnce' /\ PendingOfLoading' /\ CompatibleInv'
  BY <1>3 DEF OwnedOnce, PendingOfLoading, CompatibleInv, Valid, Objects
<1>5. LoadedIsMapped'
  <2>1. SUFFICES ASSUME NEW q \in Plugins
                 PROVE  (IF Held(q) THEN 1 ELSE 0) + (IF q = loading' THEN 1 ELSE 0) <= mapped'[q]
    BY DEF LoadedIsMapped, Held, isLoaded
  <2>2. (IF Held(q) THEN 1 ELSE 0) + (IF q = loading THEN 1 ELSE 0) <= mapped[q]
    BY DEF LoadedIsMapped
  <2>3. mapped[q] \in Nat /\ mapped'[q] \in Nat
    BY <1>1 DEF TypeOK
  <2>4. loading' = loading \/ (loading' = p /\ loading = Local /\ mapped'[p] = mapped[p] + 1)
    BY <1>1
  <2>5. QED
    BY <1>1, <2>2, <2>3, <2>4, PluginsAssumption
<1>6. HandleInv'
  <2>1. SUFFICES ASSUME NEW n \in listed, objects[n].from \in Plugins, objects[n].from \notin unloaded
                 PROVE  (IF objects[n].from = loading' THEN 1 ELSE 0) + 1 <= mapped'[objects[n].from]
    BY DEF HandleInv
  <2>2. (IF objects[n].from = loading THEN 1 ELSE 0) + 1 <= mapped[objects[n].from]
    BY <2>1 DEF HandleInv
  <2>3. QED
    BY <1>1, <2>1, <2>2, PluginsAssumption DEF TypeOK
<1>7. ClearedInv' /\ unmappedCalls' \subseteq unloaded'
  BY <1>3 DEF ClearedInv
<1>8. QED
  BY <1>2, <1>4, <1>5, <1>6, <1>7

\* Host::add() touches addRequests only.
LEMMA HostAddInv ==
  ASSUME Inv, HostAdd
  PROVE  Inv'
<1> USE DEF Inv, HostAdd
<1> DEFINE kind == Offers[loading][offered + 1]
<1>1. loading \in Plugins /\ offered \in Nat
  BY DEF TypeOK
<1>2. kind \in Kinds
  <2> DEFINE K == Kinds
  <2>1. Offers[loading] \in Seq(K)
    BY <1>1, PluginsAssumption
  <2>2. offered + 1 \in 1..Len(Offers[loading])
    BY <1>1, <2>1
  <2> HIDE DEF K
  <2>3. kind \in K
    BY <2>1, <2>2
  <2>4. QED
    BY <2>3 DEF K
<1>3. Create(kind, loading) /\ pending' = IF Valid(kind) THEN pending \cup {New} ELSE pending
  OBVIOUS
<1> HIDE DEF kind
<1>4. /\ New \notin Objects /\ Objects' = Objects \cup {New}
      /\ objects' \in Seq([type : Types, version : Nat, from : Plugins \cup {Local}])
      /\ deletes' \in Seq(Nat) /\ Len(deletes') = Len(objects')
      /\ \A n \in Objects : objects'[n] = objects[n] /\ deletes'[n] = deletes[n]
      /\ objects'[New] = [type |-> kind.type, version |-> kind.version, from |-> loading]
      /\ deletes'[New] = IF Valid(kind) THEN 0 ELSE 1
      /\ unmappedCalls' = unmappedCalls
  BY <1>1, <1>2, <1>3, CreateOwned
<1>5. listed \subseteq Objects /\ pending \subseteq Objects
  BY DEF TypeOK
<1>6. TypeOK'
  BY <1>3, <1>4, <1>5 DEF TypeOK
<1>7. OwnedOnce'
  BY <1>3, <1>4, <1>5 DEF OwnedOnce
<1>8. PendingOfLoading'
  <2>1. SUFFICES ASSUME NEW n \in pending'
                 PROVE  phase = "connect" /\ objects'[n].from = loading
    BY DEF PendingOfLoading
  <2>2. CASE n \in pending
    BY <1>4, <1>5, <2>2 DEF PendingOfLoading
  <2>3. CASE n = New
    BY <1>4, <2>3
  <2>4. QED
    BY <1>3, <2>1, <2>2, <2>3
<1>9. HandleInv'
  BY <1>4, <1>5 DEF HandleInv
<1>10. CompatibleInv'
  <2>1. known' = known /\ listed' = listed
    OBVIOUS
  <2>2. SUFFICES ASSUME NEW n \in listed \cup pending'
                 PROVE  Valid(objects[n])'
    BY <2>1 DEF CompatibleInv
  <2>3. CASE n \in listed \cup pending
    BY <1>4, <1>5, <2>1, <2>3 DEF CompatibleInv, Valid
  <2>4. CASE n = New /\ Valid(kind)
    BY <1>4, <2>1, <2>4 DEF Valid
  <2>5. QED
    BY <1>3, <2>1, <2>2, <2>3, <2>4
<1>11. LoadedIsMapped' /\ ClearedInv' /\ unmappedCalls' \subseteq unloaded'
  BY <1>4 DEF LoadedIsMapped, Held, isLoaded, ClearedInv
<1>12. QED
  BY <1>6, <1>7, <1>8, <1>9, <1>10, <1>11

\* delete on a DLibrary that has a handle of its own leaves the handles of others.
LEMMA CloseOne ==
  ASSUME Inv, NEW p \in Plugins, 1 <= mapped[p]
  PROVE  /\ Closed(p) \in [Plugins -> Nat]
         /\ Closed(p)[p] >= mapped[p] - 1
         /\ \A q \in Plugins : q # p => Closed(p)[q] = mapped[q]
<1>1. mapped \in [Plugins -> Nat]
  BY DEF Inv, TypeOK
<1>2. CASE dlcloseOnDel
  BY <1>1, <1>2 DEF Closed
<1>3. CASE ~dlcloseOnDel
  BY <1>1, <1>3 DEF Closed
<1>4. QED
  BY <1>2, <1>3

\* The connecting plug-in has a handle beside the one the map holds.
LEMMA ConnectingMapped ==
  ASSUME Inv, phase = "connect"
  PROVE  /\ loading \in Plugins
         /\ (IF Held(loading) THEN 1 ELSE 0) + 1 <= mapped[loading]
         /\ 1 <= mapped[loading]
         /\ mapped[loading] \in Nat
BY DEF Inv, TypeOK, LoadedIsMapped

\* The handle that connectPlugin() was found with is closed.
LEMMA CloseLoading ==
  ASSUME Inv, phase = "connect", mapped' = Closed(loading), loading' = Local,
         libraries' = libraries, listed' = listed, unloaded' = unloaded,
         \A n \in listed : objects'[n] = objects[n]
  PROVE  mapped' \in [Plugins -> Nat] /\ LoadedIsMapped' /\ HandleInv'
<1>1. /\ loading \in Plugins
      /\ (IF Held(loading) THEN 1 ELSE 0) + 1 <= mapped[loading]
      /\ 1 <= mapped[loading]
      /\ mapped[loading] \in Nat
  BY ConnectingMapped
<1>2. /\ mapped' \in [Plugins -> Nat]
      /\ mapped'[loading] >= mapped[loading] - 1
      /\ \A q \in Plugins : q # loading => mapped'[q] = mapped[q]
  BY <1>1, CloseOne
<1>3. LoadedIsMapped'
  <2>1. SUFFICES ASSUME NEW q \in Plugins
                 PROVE  (IF Held(q) THEN 1 ELSE 0) <= mapped'[q]
    BY PluginsAssumption DEF LoadedIsMapped, Held, isLoaded
  <2>2. (IF Held(q) THEN 1 ELSE 0) + (IF q = loading THEN 1 ELSE 0) <= mapped[q]
    BY DEF Inv, LoadedIsMapped
  <2>3. mapped[q] \in Nat /\ mapped'[q] \in Nat
    BY <1>2 DEF Inv, TypeOK
  <2>4. QED
    BY <1>1, <1>2, <2>2, <2>3
<1>4. HandleInv'
  <2>1. SUFFICES ASSUME NEW n \in listed, objects[n].from \in Plugins, objects[n].from \notin unloaded
                 PROVE  1 <= mapped'[objects[n].from]
    BY PluginsAssumption DEF HandleInv
  <2>2. (IF objects[n].from = loading THEN 1 ELSE 0) + 1 <= mapped[objects[n].from]
    BY <2>1 DEF Inv, HandleInv
  <2>3. mapped[objects[n].from] \in Nat /\ mapped'[objects[n].from] \in Nat
    BY <1>2, <2>1 DEF Inv, TypeOK
  <2>4. QED
    BY <1>1, <1>2, <2>1, <2>2, <2>3
<1>5. QED
  BY <1>2, <1>3, <1>4

\* A plug-in that fails loses its providers and its own handle.
LEMMA ConnectFailsInv ==
  ASSUME Inv, ConnectFails
  PROVE  Inv'
<1> USE DEF ConnectFails, Connected, cancelAddictions
<1>1. /\ unmappedCalls' \in SUBSET Plugins
      /\ unmappedCalls' \subseteq unloaded
      /\ objects' = objects
      /\ deletes' \in Seq(Nat) /\ Len(deletes') = Len(objects)
      /\ \A n \in Objects : deletes'[n] = deletes[n] + (IF n \in pending THEN 1 ELSE 0)
  BY DeleteOwned
<1>2. mapped' \in [Plugins -> Nat] /\ LoadedIsMapped' /\ HandleInv'
  BY <1>1, CloseLoading
<1>3. TypeOK'
  BY <1>1, <1>2 DEF Inv, TypeOK, Objects
<1>4. OwnedOnce'
  BY <1>1 DEF Inv, TypeOK, OwnedOnce, Objects
<1>5. PendingOfLoading' /\ CompatibleInv' /\ ClearedInv'
  BY <1>1 DEF Inv, PendingOfLoading, CompatibleInv, Valid, ClearedInv
<1>6. QED
  BY <1>1, <1>2, <1>3, <1>4, <1>5 DEF Inv

\* A plug-in that succeeds hands its providers and its handle over.
LEMMA ConnectReturnsInv ==
  ASSUME Inv, ConnectReturns
  PROVE  Inv'
<1> USE DEF ConnectReturns, Connected, confirmAddictions, memory
<1>1. /\ loading \in Plugins
      /\ (IF Held(loading) THEN 1 ELSE 0) + 1 <= mapped[loading]
      /\ 1 <= mapped[loading]
      /\ mapped[loading] \in Nat
  BY ConnectingMapped
<1>2. CASE pending = {}
  <2>1. mapped' \in [Plugins -> Nat] /\ LoadedIsMapped' /\ HandleInv'
    BY <1>2, CloseLoading
  <2>2. TypeOK'
    BY <1>2, <2>1 DEF Inv, TypeOK, Objects
  <2>3. QED
    BY <1>2, <2>1, <2>2 DEF Inv, OwnedOnce, PendingOfLoading, CompatibleInv, Valid,
                            ClearedInv, Objects
<1>3. CASE pending # {}
  <2>1. /\ listed' = listed \cup pending
        /\ pending' = {}
        /\ mapped' = mapped
        /\ DOMAIN libraries' = DOMAIN libraries \cup {getPluginName(loading)}
        /\ libraries'[getPluginName(loading)] = loading
        /\ \A n \in DOMAIN libraries : n # getPluginName(loading) => libraries'[n] = libraries[n]
    BY <1>3
  <2>2. TypeOK'
    BY <1>1, <2>1 DEF Inv, TypeOK, Objects
  <2>3. OwnedOnce' /\ PendingOfLoading' /\ ClearedInv'
    BY <2>1 DEF Inv, OwnedOnce, PendingOfLoading, ClearedInv, Objects
  <2>4. CompatibleInv'
    BY <2>1 DEF Inv, CompatibleInv, Valid
  <2>5. LoadedIsMapped'
    <3>1. SUFFICES ASSUME NEW q \in Plugins
                   PROVE  (IF Held(q)' THEN 1 ELSE 0) <= mapped[q]
      BY <2>1, PluginsAssumption DEF LoadedIsMapped
    <3>2. CASE q = loading
      BY <1>1, <3>2
    <3>3. CASE q # loading
      <4>1. Held(q)' => Held(q)
        BY <2>1, <3>3 DEF Held, isLoaded
      <4>2. (IF Held(q) THEN 1 ELSE 0) <= mapped[q]
        BY <3>3 DEF Inv, LoadedIsMapped, TypeOK
      <4>3. QED
        BY <4>1, <4>2 DEF Inv, TypeOK
    <3>4. QED
      BY <3>2, <3>3
  <2>6. HandleInv'
    <3>1. SUFFICES ASSUME NEW n \in listed \cup pending, objects[n].from \in Plugins,
                          objects[n].from \notin unloaded
                   PROVE  1 <= mapped[objects[n].from]
      BY <2>1, PluginsAssumption DEF HandleInv
    <3>2. QED
      BY OwnedCallable, <3>1 DEF Callable, Inv, TypeOK
  <2>7. QED
    BY <2>2, <2>3, <2>4, <2>5, <2>6 DEF Inv
<1>4. QED
  BY <1>2, <1>3

\* unload() closes the handle of the entry it erases.
LEMMA UnloadInv ==
  ASSUME Inv, NEW path, Unload(path)
  PROVE  Inv'
<1> USE DEF Unload, Idle, host, memory
<1> DEFINE name == getPluginName(path)
           p == libraries[name]
<1>1. loading = Local /\ p \in Plugins /\ getPluginName(p) = name /\ Held(p)
  BY DEF Inv, TypeOK, Held, isLoaded
<1>2. 1 <= mapped[p]
  BY <1>1 DEF Inv, TypeOK, LoadedIsMapped
<1>3. /\ mapped' \in [Plugins -> Nat]
      /\ \A q \in Plugins : q # p => mapped'[q] = mapped[q]
  BY <1>1, <1>2, CloseOne
<1>4. DOMAIN libraries' = DOMAIN libraries \ {name} /\ \A n \in DOMAIN libraries' : libraries'[n] = libraries[n]
  BY DEF Erased
<1>5. unloaded' = unloaded \cup {p}
  OBVIOUS
<1> HIDE DEF p
<1>6. TypeOK'
  BY <1>1, <1>3, <1>4, <1>5 DEF Inv, TypeOK, Objects
<1>7. LoadedIsMapped'
  <2>1. SUFFICES ASSUME NEW q \in Plugins
                 PROVE  (IF Held(q)' THEN 1 ELSE 0) <= mapped'[q]
    BY <1>1, PluginsAssumption DEF LoadedIsMapped
  <2>2. Held(q)' => Held(q) /\ q # p
    BY <1>1, <1>4 DEF Held, isLoaded
  <2>3. (IF Held(q) THEN 1 ELSE 0) <= mapped[q]
    <3>1. (IF Held(q) THEN 1 ELSE 0) + (IF q = loading THEN 1 ELSE 0) <= mapped[q]
      BY DEF Inv, LoadedIsMapped
    <3>2. q # loading /\ mapped[q] \in Nat
      BY <1>1, PluginsAssumption DEF Inv, TypeOK
    <3>3. QED
      BY <3>1, <3>2
  <2>4. QED
    BY <1>3, <2>2, <2>3 DEF Inv, TypeOK
<1>8. HandleInv'
  BY <1>1, <1>3, <1>5 DEF Inv, HandleInv
<1>9. QED
  BY <1>5, <1>6, <1>7, <1>8 DEF Inv, OwnedOnce, PendingOfLoading, CompatibleInv, Valid, ClearedInv,
                          Objects

\* unloadAll() deletes the providers while the libraries are mapped.
LEMMA UnloadAllInv ==
  ASSUME Inv, UnloadAll
  PROVE  Inv'
<1> USE DEF UnloadAll, UnloadAllFirst, ClearProviders, Idle, AfterClear
<1>1. /\ unmappedCalls' \in SUBSET Plugins
      /\ unmappedCalls' \subseteq unloaded
      /\ objects' = objects
      /\ deletes' \in Seq(Nat) /\ Len(deletes') = Len(objects)
      /\ \A n \in Objects : deletes'[n] = deletes[n] + (IF n \in listed THEN 1 ELSE 0)
  BY DeleteOwned
<1>2. listed' = {} /\ pending' = {} /\ pending = {}
  BY DEF Inv, PendingOfLoading
<1>3. TypeOK'
  BY <1>1, <1>2 DEF Inv, TypeOK, Objects
<1>4. OwnedOnce'
  <2>1. SUFFICES ASSUME NEW n \in Objects
                 PROVE  deletes'[n] = 1
    BY <1>1, <1>2 DEF OwnedOnce, Objects
  <2>2. deletes[n] = IF n \in listed THEN 0 ELSE 1
    BY <1>2 DEF Inv, OwnedOnce
  <2>3. QED
    BY <1>1, <2>2
<1>5. QED
  BY <1>1, <1>2, <1>3, <1>4 DEF Inv, PendingOfLoading, CompatibleInv, LoadedIsMapped, Held, isLoaded,
                                ClearedInv, HandleInv

\* Then every library of the map loses its own handle.
LEMMA CloseLibrariesInv ==
  ASSUME Inv, CloseLibraries
  PROVE  Inv'
<1> USE DEF CloseLibraries, host, memory
<1>1. loading = Local /\ listed = {} /\ pending = {}
  BY DEF Inv, TypeOK, ClearedInv
<1>2. mapped' \in [Plugins -> Nat]
  <2>1. SUFFICES ASSUME NEW p \in Plugins
                 PROVE  (IF Held(p) THEN Closed(p)[p] ELSE mapped[p]) \in Nat
    OBVIOUS
  <2>2. CASE Held(p)
    <3>1. 1 <= mapped[p]
      BY <1>1, <2>2 DEF Inv, TypeOK, LoadedIsMapped
    <3>2. QED
      BY <2>2, <3>1, CloseOne
  <2>3. CASE ~Held(p)
    BY <2>3 DEF Inv, TypeOK
  <2>4. QED
    BY <2>2, <2>3
<1>3. DOMAIN libraries' = {}
  BY DEF NoLibraries
<1>4. LoadedIsMapped'
  BY <1>1, <1>2, <1>3, PluginsAssumption DEF LoadedIsMapped, Held, isLoaded
<1>5. TypeOK'
  BY <1>1, <1>2, <1>3 DEF Inv, TypeOK, Objects
<1>6. QED
  BY <1>1, <1>4, <1>5 DEF Inv, OwnedOnce, PendingOfLoading, CompatibleInv, ClearedInv, HandleInv,
                          Objects

\* ~Host() finds nothing left to delete.
LEMMA DestroyHostInv ==
  ASSUME Inv, DestroyHost
  PROVE  Inv'
<1> USE DEF DestroyHost, AfterClear
<1>1. listed = {} /\ pending = {}
  BY DEF Inv, ClearedInv
<1>2. /\ unmappedCalls' \in SUBSET Plugins
      /\ unmappedCalls' \subseteq unloaded
      /\ objects' = objects
      /\ deletes' \in Seq(Nat) /\ Len(deletes') = Len(objects)
      /\ \A n \in Objects : deletes'[n] = deletes[n] + (IF n \in listed THEN 1 ELSE 0)
  BY DeleteOwned
<1>3. DOMAIN known' = {}
  BY DEF NoTypes
<1>4. TypeOK'
  BY <1>1, <1>2, <1>3 DEF Inv, TypeOK, Objects
<1>5. OwnedOnce'
  BY <1>1, <1>2 DEF Inv, TypeOK, OwnedOnce, Objects
<1>6. QED
  BY <1>1, <1>2, <1>4, <1>5 DEF Inv, PendingOfLoading, CompatibleInv, LoadedIsMapped, Held, isLoaded,
                                ClearedInv, HandleInv

\* A new manager starts from what the destructors left.
LEMMA ConstructInv ==
  ASSUME Inv, Construct
  PROVE  Inv'
BY DEF Inv, Construct, host, memory, TypeOK, OwnedOnce, PendingOfLoading, CompatibleInv, Valid,
       LoadedIsMapped, Held, isLoaded, ClearedInv, HandleInv, Objects

\* Stuttering keeps the invariant.
LEMMA StutterInv ==
  ASSUME Inv, UNCHANGED vars
  PROVE  Inv'
BY DEF Inv, vars, host, memory, TypeOK, OwnedOnce, PendingOfLoading, CompatibleInv, Valid,
       LoadedIsMapped, Held, isLoaded, ClearedInv, HandleInv, Objects

\* Every step keeps the invariant.
LEMMA NextInv == Inv /\ [Next]_vars => Inv'
<1> SUFFICES ASSUME Inv, [Next]_vars PROVE Inv'
  OBVIOUS
<1>1. CASE \E i \in HostTypes : RegisterType(i)
  BY <1>1, RegisterTypeInv
<1>2. CASE \E kind \in Own : AddProvider(kind)
  BY <1>2, AddProviderInv
<1>3. CASE \/ \E folder \in Folders \cup {<<>>}, name \in Asked : LoadNamed(folder, name)
           \/ \E folder \in Folders, recursive \in BOOLEAN : LoadFromFolder(folder, recursive)
  <2>1. \A folder, recursive : listFiles(folder, PLUMA_LIB_EXTENSION, recursive) \in SUBSET Paths
    BY DEF listFiles, Paths
  <2>2. \A folder \in Folders \cup {<<>>}, name \in Asked : {folder \o name} \in SUBSET Paths
    BY DEF Paths
  <2>3. CASE \E folder \in Folders, recursive \in BOOLEAN : LoadFromFolder(folder, recursive)
    BY <2>1, <2>3, LoadFilesInv DEF LoadFromFolder
  <2>4. CASE \E folder \in Folders \cup {<<>>}, name \in Asked : LoadNamed(folder, name)
    BY <2>2, <2>4, LoadFilesInv DEF LoadNamed
  <2>5. QED
    BY <1>3, <2>3, <2>4
<1>4. CASE \E path \in files : Load(path)
  BY <1>4, LoadInv
<1>5. CASE HostAdd
  BY <1>5, HostAddInv
<1>6. CASE ConnectFails
  BY <1>6, ConnectFailsInv
<1>7. CASE ConnectReturns
  BY <1>7, ConnectReturnsInv
<1>8. CASE \E path \in Asked : Unload(path)
  BY <1>8, UnloadInv
<1>9. CASE UnloadAll
  BY <1>9, UnloadAllInv
<1>10. CASE CloseLibraries
  BY <1>10, CloseLibrariesInv
<1>11. CASE DestroyHost
  BY <1>11, DestroyHostInv
<1>12. CASE Construct
  BY <1>12, ConstructInv
<1>13. CASE Exhausted \/ UNCHANGED vars
  BY <1>13, StutterInv DEF Exhausted
<1>14. QED
  BY <1>1, <1>2, <1>3, <1>4, <1>5, <1>6, <1>7, <1>8, <1>9, <1>10, <1>11, <1>12, <1>13 DEF Next

\* The invariant holds throughout.
LEMMA AlwaysInv == Spec => []Inv
BY InitInv, NextInv, PTL DEF Spec

-----------------------------------------------------------------------------
(* Results                                                                   *)

\* The types of the variables, for every set of plug-ins and number of loads.
THEOREM Typing == Spec => []TypeOK
<1>1. Inv => TypeOK
  BY DEF Inv
<1>2. QED
  BY <1>1, AlwaysInv, PTL

\* No provider the host was given is leaked or deleted twice (Host.cpp:42-74,122-176).
THEOREM EveryProviderOnce == Spec => []OwnedOnce
<1>1. Inv => OwnedOnce
  BY DEF Inv
<1>2. QED
  BY <1>1, AlwaysInv, PTL

\* A plug-in can only hand over its own providers (PluginManager.cpp:63-82).
THEOREM AdoptsOwnProviders == Spec => []PendingOfLoading
<1>1. Inv => PendingOfLoading
  BY DEF Inv
<1>2. QED
  BY <1>1, AlwaysInv, PTL

\* The providers a host lists stay compatible with it (Host.cpp:102-134).
THEOREM ProvidersCompatible == Spec => []ListedCompatible
<1>1. Inv => ListedCompatible
  BY DEF Inv, CompatibleInv, ListedCompatible
<1>2. QED
  BY <1>1, AlwaysInv, PTL

\* Only unload() takes code away from providers that are still there
\* (PluginManager.cpp:109-128).
THEOREM ProviderCodeMapped == Spec => []CodeMapped
<1>1. Inv => CodeMapped
  BY OwnedCallable DEF Inv, CodeMapped, Callable, getProviders
<1>2. QED
  BY <1>1, AlwaysInv, PTL

\* A loaded or connecting library has a handle of its own (PluginManager.cpp:69-128).
THEOREM LibraryMapped == Spec => []LoadedIsMapped
<1>1. Inv => LoadedIsMapped
  BY DEF Inv
<1>2. QED
  BY <1>1, AlwaysInv, PTL

=============================================================================
