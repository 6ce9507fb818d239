SPECIFICATION SerialSpec
CONSTANTS
  s1 = s1
  s2 = s2
  Scale = 32
  Spacings = {1, 2, 4}
  Half = 65536
  Sessions = {s1, s2}
  Users = {1, 2}
  Items = {"DOGE", "OMG"}
  Quantities <- MixedQuantities
  Prices <- MixedPrices
  OrderIDs = {1, 2}
  PrepareCodes = {}
  MaxCommands = 3
  MaxFaults = 0
  MaxTime = 0
SYMMETRY SessionSymmetry
INVARIANTS
  CreationBounded
  EscrowExact
  RestIsReserved
  CrossedOnlyByRests
PROPERTIES
  TakerSolvent
