SPECIFICATION FairSpec
CONSTANTS
  Threads = {t1, t2, t3}
  NoThread = NoThread
  Writer = "WARN_W"
  InitLevel = 2
  OpenMayFail = TRUE
  MaxRotations = 3
INVARIANTS
  TypeOK
  ReopenedOncePerRotation
PROPERTIES
  LogReturns
