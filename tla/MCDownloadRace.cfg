SPECIFICATION Spec
CONSTANTS
  Clients = {"A"}
  MaxOps = 1
  Names = {"D", "E", "F", "G", "H", "K", "L"}
  Chunks = {"x", "y"}
  MaxLosses = 0
  PoolSize = 2
  PageEntries = 2
  FullPage = 2
  NoSize = 99
  MaxHandles = 3
  MaxFaults = 0
  ShortWrites = {}
  InitFiles <- OneFile
  InitDirs = {}
  Scripts <- OneGet
  Retries = 2
  Prompt = FALSE
INVARIANT DownloadIsExact
CHECK_DEADLOCK FALSE
