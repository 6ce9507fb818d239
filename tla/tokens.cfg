SPECIFICATION Spec
CONSTANTS
  a = a
  sp = sp
  Characters = {a, sp}
  Spaces = {sp}
  InitialCapacities = {1, 4}
  MaxLine = 10
INVARIANTS
  WithinAllocation
  Split
