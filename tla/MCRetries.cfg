SPECIFICATION Spec
CONSTANTS
  Clients = {"A"}
  MaxOps = 3
  Names = {"D", "E", "F", "G", "H", "K", "L"}
  Chunks = {"x", "y"}
  MaxLosses = 1
  PoolSize = 2
  PageEntries = 2
  FullPage = 2
  NoSize = 99
  MaxHandles = 3
  MaxFaults = 1
  ShortWrites = {}
  InitFiles <- TwoFiles
  InitDirs = {}
  Scripts <- PutsOrPathOps
  Retries = 3
  Prompt = FALSE
INVARIANTS
  TypeOK
  CompleteIsDone
  NoHandleLost
CHECK_DEADLOCK FALSE
