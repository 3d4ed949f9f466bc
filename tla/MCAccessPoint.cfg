SPECIFICATION AccessPointSpec
CHECK_DEADLOCK FALSE
CONSTANTS
  Station = {a, r, u, v}
  Own = a
  Subscriber = {r, u}
  Terminal = {r, v}
  Kinds <- FourKinds
  MaxCID = 3
  MaxPDU = 1
  MaxAway = 1
  PDU = {s1, s2, s3, q}
  Slotted = {s1, s2, s3}
  MaxTries = 2
  None = None
  Fired = Fired
  NoValue = NoValue
  Node = {n1, n2}
  SubBand = {0}
  Value = {0, 15, 40}
  Scale = 4
  Round = 1
  RoundSquare = 1
  Drift = 4
  Deficit = 360
  AlphaLocal = 1
  AlphaRemote = 3
  Complain = FALSE
  Default = 2
  MaxStores = 4
  UplinkSlots = 2
  c1 = c1
  c2 = c2
  Cell = {c1, c2}
  Power <- UnequalPower
  MaxFramesHeard = 3
  FullCircle = 72
  FrameLength = 3
  MaxSectors = 3
  MaxSubsectors = 3
  MaxTime = 14
INVARIANTS ManagerSafe HarqSafe CacheSafe SlotSafe SectorsFair
PROPERTIES FirstMatchStable ImplementsRegister EverySlotDecoded
