SPECIFICATION Spec
CONSTANTS
  Clients = {"A", "B"}
  MaxOps = 1
  Names = {"D", "E", "F", "G", "H", "K", "L"}
  Chunks = {"x", "y"}
  MaxLosses = 0
  PoolSize = 2
  PageEntries = 2
  FullPage = 2
  NoSize = 99
  MaxHandles = 3
  MaxFaults = 0
  ShortWrites = {}
  InitFiles <- OneSmall
  InitDirs = {}
  Scripts <- PutAndDir
  Retries = 2
  Prompt = FALSE
INVARIANTS
  CompleteIsDone
  NoStaleHandle
CHECK_DEADLOCK FALSE
