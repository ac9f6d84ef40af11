----------------------------- MODULE MCPluginHost -----------------------------
(* Three libraries in a folder and the folder below it: x.so in both, and       *)
(* y.v2.so, whose name has a dot; and a file "so", which listFiles() takes for   *)
(* a library.  The host may register types A and B with several versions.       *)
EXTENDS PluginHost, TLC

CONSTANTS A, B

Lib == <<<<"lib">>>>
Old == Lib \o <<<<"old">>>>
Under(folder, name) == Append(folder, name)

x == Under(Lib, <<"x", "so">>)
y == Under(Lib, <<"y", "v2", "so">>)
oldX == Under(Old, <<"x", "so">>)
noLib == Under(Lib, <<"so">>)

MCFolders == {Lib, Old}
MCFiles == {x, y, oldX, noLib}
MCRank == oldX :> 1 @@ noLib :> 2 @@ x :> 3 @@ y :> 4
MCPlugins == {x, y, oldX}
MCAsked == {<<<<"x">>>>, <<<<"y", "v2">>>>, <<<<"y", "v2", "so">>>>}

Kind(t, v) == [type |-> t, version |-> v]

MCOffers ==
  x :> <<Kind(A, 2)>> @@ y :> <<Kind(A, 1), Kind(B, 1)>> @@ oldX :> <<Kind(B, 3), Kind(A, 2)>>

MCHostTypes ==
  { [type |-> A, version |-> 2, lowest |-> 1], [type |-> A, version |-> 3, lowest |-> 3],
    [type |-> B, version |-> 1, lowest |-> 1] }

MCOwn == {Kind(A, 2)}
=============================================================================
