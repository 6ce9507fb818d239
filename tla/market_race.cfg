SPECIFICATION Spec
CONSTANTS
  s1 = s1
  s2 = s2
  Scale = 8
  Spacings = {1}
  Half = 1
  Sessions = {s1, s2}
  Users = {1, 2}
  Items = {"DOGE"}
  Quantities = {40, 60}
  Prices = {400}
  OrderIDs = {1}
  PrepareCodes = {}
  MaxCommands = 4
  MaxFaults = 0
  MaxTime = 1
SYMMETRY SessionSymmetry
INVARIANTS
  TradesHonourOrders
  TimePriority
