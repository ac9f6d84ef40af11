SPECIFICATION FairSpec
CONSTANTS
  Workers = {w1, w2}
  Requests <- FewRequests
  Strategies <- BeforePrepare
  Keys = {"user"}
  ChunkSize = 2
  MaxInits = 2
  MayFail = {"accept", "reset", "run"}
INVARIANTS
  TypeOK
  WholeResponse
  BodyReadWhole
  OwnValuesOnly
PROPERTIES
  AcceptedIsFinished
