SPECIFICATION FairSpec
CONSTANTS
  s1 = s1
  s2 = s2
  BS = BS
  SS = {s1, s2}
  NoStation = NoStation
  HeadLength = 3
  DlMapLength = 4
  UlMapLength = 4
  DlDataLength = 5
  TtgLength = 1
  UlDataLength = 5
  BwReqLength = 1
  RangingLength = 1
  FrameDuration = 25
  StartupDelay = 0
  SymbolDuration = 3
  Slots = 2
  SlotLength = 2
  Lossy = FALSE
  MaxQueue = 2
  MaxDownlink = 0
PROPERTIES
  UplinkServed
