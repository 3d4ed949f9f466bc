SPECIFICATION RequestSpec
CHECK_DEADLOCK FALSE
CONSTANTS
  a1 = a1
  r1 = r1
  r2 = r2
  u1 = u1
  NoStation = NoStation
  Station = {a1, r1, r2, u1}
  AP = {a1}
  FRS = {r1, r2}
  UT = {u1}
  OrderedStart = TRUE
  Classes = {"BE"}
  MaxQueued = 3
  QueueLimit = 2
SYMMETRY Symmetric
INVARIANTS RequestsSound AsksForAllThatWaits
