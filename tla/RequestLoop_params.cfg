SPECIFICATION Spec
CONSTANTS
  Workers = {w1}
  Requests <- FewRequests
  Strategies <- BeforePrepare
  Keys = {"user"}
  ChunkSize = 2
  MaxInits = 1
  MayFail = {"accept"}
INVARIANTS
  ReadsLiveParameters
