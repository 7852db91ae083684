SPECIFICATION FairSpec
CONSTANTS
  P = P
  Q = Q
  Bios = Bios
  None = None
  MaxRuns = 4
  Others <- SomePrograms
  Hooks <- SomeHooks
  MayFail = {"probe", "access_type", "driver_info", "get_address", "release_type", "tsr"}
INVARIANTS
  TypeOK
  ChainsAreWhole
  ReceiverIsThereUnlessLeaked
  AllOrNothing
  OthersStayHooked
PROPERTY UnloadRemoves
CHECK_DEADLOCK FALSE
