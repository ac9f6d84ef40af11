\* Three workers beside main(), two strategies, every call may fail.
SPECIFICATION Spec
CONSTANTS
  Main = Main
  Workers = {w1, w2, w3}
  NoThread = NoThread
  a = a
  b = b
  missing = missing
  Strategies = {a, b}
  DependChoices <- TwoPlugins
  MayFail <- AllFailures
SYMMETRY WorkerSymmetry
INVARIANTS
  TypeOK
  InstanceNumAccounting
  DependencyClosed
  DependsRanFirst
  ThreadInitUndone
  SharedStateUp
  ProvidersAlive
  CleanShutdown
PROPERTY KeepsPromise
