SPECIFICATION HandoffSpec
CONSTANTS
  Top = 140
  HeapStart = 40
  HeapMax = 120
  Slots = 2
  AllocSizes = {24, 3}
  Raw = {}
  Contents = {}
  Words = 24
  Magic <- MCMagic
  Phys = 121
  Virt = 122
  KernelSize = 123
  MapStart = 124
  MapLength = 125
  Cmdline <- MCCmdline
INVARIANT HandoffAsDocumented
CHECK_DEADLOCK FALSE
