SPECIFICATION Spec
CONSTANTS
  Machines <- AllMachines
  Stores <- MCStores
  Strings = {16, 100}
  MaxStrings = 2
INVARIANTS TypeOK HandoffNotOverlaid SegmentsIntact FileIntact LoaderIntact
CHECK_DEADLOCK FALSE
