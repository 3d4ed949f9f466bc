SPECIFICATION Spec
CONSTANTS
  s1 = s1
  BS = BS
  SS = {s1}
  NoStation = NoStation
  HeadLength = 3
  DlMapLength = 4
  UlMapLength = 4
  DlDataLength = 5
  TtgLength = 1
  UlDataLength = 5
  BwReqLength = 1
  RangingLength = 1
  FrameDuration = 20
  StartupDelay = 0
  SymbolDuration = 3
  Slots = 2
  SlotLength = 2
  Lossy = FALSE
  MaxQueue = 1
  MaxDownlink = 1
PROPERTIES
  FrameCompletes
