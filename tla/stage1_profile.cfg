SPECIFICATION Spec
CONSTANTS
  Machines <- FatMachines
  Stores <- FullStores
  Strings = {16, 100}
  MaxStrings = 2
INVARIANT SelectedKernelUsed
CHECK_DEADLOCK FALSE
