SPECIFICATION Spec
CONSTANTS
  MantBits = 5
  ExpBits = 4
  SingleMant = 3
  SingleExp = 3
  IntBits = 4
  LongBits = 7
  LimbBits = 5
  Doubles <- SmallIntegers
INVARIANT IntegerProductsExact
CHECK_DEADLOCK FALSE
