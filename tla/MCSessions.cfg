SPECIFICATION FairSpec
CONSTANTS
  Clients = {"A", "B"}
  MAX_SESSIONS = 1
  Lifetime = 1
  Day = 3
  Lines <- ThreeModes
  GraphicsModes = {"graphics"}
  FirstMode = "long"
  Contents = {"a", "b"}
  PacketLines = 2
  MaxChanges = 2
  MaxLosses = 1
INVARIANT TypeOK
PROPERTIES
  KeptAlive
  GoneByDayIsForgotten
  NewcomerIsServed
  ChangesAreShown
