\* Two workers, the chain of two strategies, every call but pthread_join may fail.
SPECIFICATION FairSpec
CONSTANTS
  Main = Main
  Workers = {w1, w2}
  NoThread = NoThread
  a = a
  b = b
  missing = missing
  Strategies = {a, b}
  DependChoices <- ChainOfTwo
  MayFail <- AllButJoin
PROPERTIES
  InitReturns
  RequestsEnd
  ShutdownEnds
