SPECIFICATION Spec
CONSTANTS
  Clients = {"A"}
  MaxOps = 2
  Names = {"D", "E", "F", "G", "H", "K", "L"}
  Chunks = {"x", "y"}
  MaxLosses = 0
  PoolSize = 2
  PageEntries = 2
  FullPage = 2
  NoSize = 99
  MaxHandles = 3
  MaxFaults = 0
  ShortWrites = {}
  InitFiles <- TwoFiles
  InitDirs = {}
  Scripts <- TwoDeletes
  Retries = 2
  Prompt = FALSE
INVARIANT CompleteIsDone
CHECK_DEADLOCK FALSE
