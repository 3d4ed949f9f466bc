SPECIFICATION StationSpec
CHECK_DEADLOCK FALSE
CONSTANTS
  BS = BS
  ss1 = ss1
  ss2 = ss2
  Subscriber <- TwoSubscribers
  Slots = 2
  Layers = 2
  SlotLength = 4
  Burst <- HalfOrWhole
  Everyone = Everyone
  Beamforming = TRUE
  NoPattern = NoPattern
  MaxBursts = 2
  MaxFrames = 1
  a1 = a1
  r = r
  AP = {a1}
  FRS = {r}
  UT = {u}
  FixedTo <- RelayIsFixed
  Strategy = "BestRxPower"
  Level = {1, 2}
  MaxAge = 2
  MaxFrame = 4
  NoStation = NoStation
  c1 = c1
  c2 = c2
  c3 = c3
  u1 = u1
  u2 = u2
  unit1 = unit1
  unit2 = unit2
  QueueCID <- TheCIDs
  User = {u1, u2}
  Priority = {1, 2}
  UserOf <- TheUsers
  PriorityOf <- ThePriority
  Unit = {unit1, unit2}
  UnitOf <- TheUnits
  Size = {1, 2}
  FilterReturn = {FALSE}
  None = None
  MaxArrivals = 3
SYMMETRY Symmetry
INVARIANTS AccessSafe MeasurementSafe BypassSafe
PROPERTY AnswersTrue
