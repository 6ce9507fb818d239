SPECIFICATION Spec
CONSTANTS
  s1 = s1
  s2 = s2
  Scale = 8
  Spacings = {1}
  Half = 1
  Sessions = {s1, s2}
  Users = {1, 2}
  Items = {"DOGE"}
  Quantities = {60}
  Prices = {400}
  OrderIDs = {1, 2}
  PrepareCodes = {}
  MaxCommands = 3
  MaxFaults = 0
  MaxTime = 0
SYMMETRY SessionSymmetry
PROPERTIES
  RefundsResting
