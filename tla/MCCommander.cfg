SPECIFICATION FairSpec
CONSTANTS
  Clients = {"A"}
  MaxOps = 7
  Names = {"D", "E", "F", "G", "H", "K", "L"}
  Chunks = {"x", "y"}
  MaxLosses = 2
  PoolSize = 2
  PageEntries = 2
  FullPage = 2
  NoSize = 99
  MaxHandles = 3
  MaxFaults = 1
  ShortWrites = {"copy_write"}
  InitFiles <- TwoFiles
  InitDirs = {"E"}
  Scripts <- WholeSession
  Retries = 4
  Prompt = TRUE
INVARIANTS
  DownloadIsExact
  ListingIsWhole
  CompleteIsDone
  NoHandleLost
PROPERTY EffectsHappen
CHECK_DEADLOCK FALSE
