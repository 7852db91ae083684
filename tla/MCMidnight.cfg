SPECIFICATION FairSpec
CONSTANTS
  Clients = {"A"}
  MAX_SESSIONS = 1
  Lifetime = 2
  Day = 6
  Lines <- OneMode
  GraphicsModes = {}
  FirstMode = "long"
  Contents = {"a", "b"}
  PacketLines = 2
  MaxChanges = 0
  MaxLosses = 0
PROPERTY GoneIsForgotten
