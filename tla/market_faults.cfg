SPECIFICATION Spec
CONSTANTS
  s1 = s1
  s2 = s2
  s3 = s3
  Scale = 8
  Spacings = {1}
  Half = 1
  Sessions = {s1, s2, s3}
  Users = {1, 2}
  Items = {"DOGE"}
  Quantities <- SignedQuantities
  Prices = {400}
  OrderIDs = {1, 2}
  PrepareCodes = {1}
  MaxCommands = 3
  MaxFaults = 1
  MaxTime = 0
SYMMETRY SessionSymmetry
INVARIANTS
  TypeOK
  HistoryPaired
PROPERTIES
  RemovalJustified
  BookSpec
  LeftoversArePositive
