SPECIFICATION Spec
CONSTANTS
  Threads = {t1, t2}
  NoThread = NoThread
  Writer = "WARN_W"
  InitLevel = 2
  OpenMayFail = FALSE
  MaxRotations = 1
INVARIANTS
  WritesOpenFile
