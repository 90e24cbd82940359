SPECIFICATION Spec
CONSTANTS
  Width = 3
  address_mask = 3
  endianMul = 2
  Codes <- SomeCodes
  Pushes <- SomePushes
  Stacks <- SomeStacks
  Worlds <- TwoWorlds
INVARIANTS
  TypeOK
  NamesRight
  ConditionFaithful
  StoreFaithful
CHECK_DEADLOCK FALSE
