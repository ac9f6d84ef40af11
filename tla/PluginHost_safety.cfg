SPECIFICATION Spec
CONSTANTS
  A = A
  B = B
  Files <- MCFiles
  Folders <- MCFolders
  Rank <- MCRank
  Plugins <- MCPlugins
  Asked <- MCAsked
  PLUMA_LIB_EXTENSION = "so"
  Types = {A, B}
  Local = Local
  Offers <- MCOffers
  HostTypes <- MCHostTypes
  Own <- MCOwn
  MaxLoads = 3
  MaxObjects = 4
INVARIANTS
  TypeOK
  OwnedOnce
  CodeMapped
  LoadedIsMapped
