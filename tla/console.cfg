SPECIFICATION FairConsole
CONSTANTS
  s1 = s1
  s2 = s2
  Scale = 8
  Spacings = {1}
  Half = 1
  Sessions = {s1, s2}
  Users = {1, 2}
  Items = {"DOGE"}
  Quantities <- MixedQuantities
  Prices = {240, 400}
  OrderIDs = {1, 2}
  PrepareCodes = {1}
  MaxCommands = 2
  MaxFaults = 1
  MaxTime = 1
  Lines <- MixedLines
  TopCount = 1
  MaxLines = 3
INVARIANTS
  NothingMissing
  ShowsTheBest
PROPERTIES
  LineEnds
