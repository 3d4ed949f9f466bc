SPECIFICATION Spec
CONSTANTS
  s1 = s1
  s2 = s2
  BS = BS
  SS = {s1, s2}
  NoStation = NoStation
  HeadLength = 3
  DlMapLength = 4
  UlMapLength = 4
  DlDataLength = 5
  TtgLength = 1
  UlDataLength = 5
  BwReqLength = 1
  RangingLength = 1
  FrameDuration = 24
  StartupDelay = 0
  SymbolDuration = 3
  Slots = 2
  SlotLength = 2
  Lossy = TRUE
  MaxQueue = 2
  MaxDownlink = 1
SYMMETRY Symmetric
INVARIANTS
  TypeOK
  ReportsInTime
  FramesAligned
  SentInPhase
  HalfDuplex
  GrantHonoured
PROPERTIES
  FrameCompletes
