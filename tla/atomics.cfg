SPECIFICATION Spec
CONSTANTS
  MaxLevel = 1
  NumWords = 2
  Requests <- AllKinds
INVARIANT TypeOK
PROPERTIES ImplementsAtomicObject InterruptsComeThrough
