SPECIFICATION DataSpec
CHECK_DEADLOCK FALSE
CONSTANTS
  a1 = a1
  a2 = a2
  r1 = r1
  u1 = u1
  u2 = u2
  NoStation = NoStation
  Station = {a1, a2, r1, u1, u2}
  AP = {a1, a2}
  FRS = {r1}
  UT = {u1, u2}
  OrderedStart = FALSE
  Classes = {"rtPS", "UGS"}
  Acking = {a2, u1, u2}
  MaxFlows = 2
  MaxAir = 2
SYMMETRY Symmetric
CONSTRAINT RelaysApart
INVARIANTS NoAssertionFails OnCourse AckNamesItsData LearnedRight
