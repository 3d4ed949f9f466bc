SPECIFICATION Spec
CHECK_DEADLOCK FALSE
CONSTANTS
  a1 = a1
  r1 = r1
  u1 = u1
  NoStation = NoStation
  Station = {a1, r1, u1}
  AP = {a1}
  FRS = {r1}
  UT = {u1}
  OrderedStart = TRUE
INVARIANTS
  BasicBelongs
