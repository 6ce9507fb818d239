SPECIFICATION SettledSpec
CONSTANTS
  s1 = s1
  s2 = s2
  Scale = 32
  Spacings = {1, 2, 4}
  Half = 65536
  Sessions = {s1, s2}
  Users = {1, 2}
  Items = {"DOGE", "OMG"}
  Quantities = {3, 33}
  Prices = {31, 9697}
  OrderIDs = {1, 2}
  PrepareCodes = {1}
  MaxCommands = 3
  MaxFaults = 1
  MaxTime = 0
SYMMETRY SessionSymmetry
INVARIANTS
  CreationBounded
PROPERTIES
  ExchangeSpec
