SPECIFICATION FairSpec
CONSTANTS
  Clients = {"A", "B"}
  MAX_SESSIONS = 2
  Lifetime = 1
  Day = 4
  Lines <- OneMode
  GraphicsModes = {}
  FirstMode = "long"
  Contents = {"a", "b"}
  PacketLines = 2
  MaxChanges = 0
  MaxLosses = 0
PROPERTY FramesStart
