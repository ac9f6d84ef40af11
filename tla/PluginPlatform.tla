--------------------------- MODULE PluginPlatform ---------------------------
(***************************************************************************)
(* What the managers of the process promise each other, without the lock,   *)
(* the counter and the loops that StrategyManager keeps the promise with:   *)
(* the plug-ins and their process-level state (the platform) are built by   *)
(* one thread before anybody is a member, stay complete while there are     *)
(* members, and are dismantled by the last member after it left.  The       *)
(* promise ends with the first init() that fails.                          *)
(***************************************************************************)
CONSTANTS
  Threads,  \* the threads that may become members
  NoThread  \* "nobody is building or dismantling"

VARIABLES
  members,  \* the threads that may call the plug-ins
  mover,    \* the thread that builds or dismantles the platform
  platform, \* "down", "moving", "up", or "part" when it is neither complete nor gone
  broken    \* some init() failed

pvars == <<members, mover, platform, broken>>

Init ==
  /\ members = {}
  /\ mover = NoThread
  /\ platform = "down"
  /\ broken = FALSE

-----------------------------------------------------------------------------
\* The first thread begins to build.
BeginBuild(t) ==
  /\ platform = "down" /\ mover = NoThread /\ members = {}
  /\ mover' = t
  /\ platform' = "moving"
  /\ UNCHANGED members

\* It is the first member of what it built.
EndBuild(t) ==
  /\ mover = t
  /\ mover' = NoThread
  /\ platform' = "up"
  /\ members' = {t}

\* Later threads find the platform up.
Join(t) ==
  /\ platform = "up"
  /\ t \notin members
  /\ members' = members \cup {t}
  /\ UNCHANGED <<mover, platform>>

\* A member that is not the last leaves the platform as it is.
Leave(t) ==
  /\ platform = "up"
  /\ t \in members /\ members # {t}
  /\ members' = members \ {t}
  /\ UNCHANGED <<mover, platform>>

\* The last member leaves and dismantles.
BeginDismantle(t) ==
  /\ platform = "up" /\ mover = NoThread /\ members = {t}
  /\ mover' = t
  /\ platform' = "moving"
  /\ members' = {}

EndDismantle(t) ==
  /\ mover = t /\ members = {}
  /\ mover' = NoThread
  /\ platform' = "down"
  /\ UNCHANGED members

Promise(t) ==
  \/ BeginBuild(t) \/ EndBuild(t) \/ Join(t)
  \/ Leave(t) \/ BeginDismantle(t) \/ EndDismantle(t)

\* After a failed init() nothing is promised.
Fail ==
  /\ broken' = TRUE
  /\ members' \in SUBSET Threads
  /\ mover' \in Threads \cup {NoThread}
  /\ platform' \in {"down", "moving", "up", "part"}

Next ==
  \/ ~broken /\ UNCHANGED broken /\ \E t \in Threads : Promise(t)
  \/ Fail

Spec == Init /\ [][Next]_pvars

-----------------------------------------------------------------------------
(* What a thread may conclude from the promise.                              *)

\* A member finds the platform complete, and nobody moves it meanwhile.
MembersFindItUp ==
  ~broken => (members # {} => platform = "up") /\ (mover # NoThread <=> platform = "moving")

=============================================================================
