------------------------- MODULE MCStrategyManager -------------------------
(* Instances of StrategyManager for TLC.                                     *)
EXTENDS StrategyManager, TLC

CONSTANTS a, b, missing

WorkerSymmetry == Permutations(Workers)

\* Independent plug-ins, a chain, a cycle and a dependency that is not installed.
TwoPlugins ==
  {[s \in {a, b} |-> {}],
   [s \in {a, b} |-> IF s = b THEN {a} ELSE {}],
   [s \in {a, b} |-> {a, b} \ {s}],
   [s \in {a, b} |-> IF s = b THEN {missing} ELSE {}]}

\* Only the chain.
ChainOfTwo == {[s \in {a, b} |-> IF s = b THEN {a} ELSE {}]}

\* Every call that may fail, and all of them but pthread_join, which cannot fail
\* for threads that main() created and joins once.
AllFailures == FailurePoints
AllButJoin == FailurePoints \ {"join"}
=============================================================================
