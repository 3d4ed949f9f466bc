SPECIFICATION CacheSpec
CHECK_DEADLOCK FALSE
CONSTANTS
  Node = {n1}
  SubBand = {0}
  \* 3 mW in units of 2^-12 mW, of which rounding is allowed one.
  Value = {12288}
  Scale = 5
  AlphaLocal = 1
  AlphaRemote = 1
  Round = 1
  RoundSquare = 0
  Drift = 5
  Deficit = 122935
  Complain = FALSE
  Default = 2
  NoValue = NoValue
  MaxStores = 2
INVARIANT DeviationDefined
