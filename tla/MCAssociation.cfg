SPECIFICATION Spec
CHECK_DEADLOCK FALSE
CONSTANTS
  a1 = a1
  a2 = a2
  r1 = r1
  r2 = r2
  u1 = u1
  u2 = u2
  NoStation = NoStation
  Station = {a1, a2, r1, r2, u1, u2}
  AP = {a1, a2}
  FRS = {r1, r2}
  UT = {u1, u2}
  OrderedStart = FALSE
SYMMETRY Symmetric
INVARIANTS TypeOK CIDsUnique CIDsUniqueInCell EndpointsAgree MappingsFaithful RelayedPathComplete CellIDAgrees OneConnectionPerQoS UserIsMutual RegistryAgrees
