SPECIFICATION FairDataSpec
CHECK_DEADLOCK FALSE
CONSTANTS
  a1 = a1
  r1 = r1
  r2 = r2
  u1 = u1
  u2 = u2

  NoStation = NoStation
  Station = {a1, r1, r2, u1, u2}
  AP = {a1}
  FRS = {r1, r2}
  UT = {u1, u2}
  OrderedStart = TRUE
  Classes = {"rtPS"}
  Acking = {u1}
  MaxFlows = 0
  MaxAir = 2
PROPERTIES
  TerminalIsFound CallTerminates
INVARIANT NeverFails
