SPECIFICATION Spec
CONSTANTS
  Ops <- AllOps
  Depths <- SomeDepths
  Results <- TwoResults
  Offsets <- TwoOffsets
  COMPUTED = COMPUTED
  MaxSteps = 3
INVARIANTS
  TypeOK
  AddressesKept
  KnownFaults
