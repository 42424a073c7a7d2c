SPECIFICATION Spec
CONSTANTS
  WordMod = 96
  HeaderSize = 8
  HeapStart = 16
  HeapMax = 66
  MallocSizes = {1, 9}
  ReallocSizes = {3, 14}
  CallocArgs <- MCCallocArgs
  Data = {201, 202}
  MaxBlocks = 3
INVARIANTS TypeOK BlocksSafe
PROPERTY ImplementsAllocator
