SPECIFICATION BypassSpec
CONSTANTS
  c1 = c1
  c2 = c2
  c3 = c3
  u1 = u1
  u2 = u2
  unit1 = unit1
  unit2 = unit2
  QueueCID <- TheCIDs
  User = {u1, u2}
  Priority = {1, 2}
  UserOf <- TheUsers
  PriorityOf <- ThePriority
  Unit = {unit1, unit2}
  UnitOf <- TheUnits
  Size = {1, 2}
  FilterReturn = {TRUE, FALSE}
  None = None
  MaxArrivals = 3
INVARIANT DeliversWhatWasAsked
CHECK_DEADLOCK FALSE
