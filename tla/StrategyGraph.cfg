SPECIFICATION FairSpec
CONSTANTS
  a = a
  b = b
  c = c
  d = d
  x = x
  NoName = NoName
  NULL = NULL
  LongName = LongName
  Inputs <- AllInputs
  Requests <- SomeRequests
INVARIANTS
  TypeOK
  InitVerdict
  TopoSorted
  PrintedEdgesReduced
  NeededRun
PROPERTIES
  CallsReturn
