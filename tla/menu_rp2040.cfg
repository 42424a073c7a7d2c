SPECIFICATION FairSpec
CONSTANTS
  Arch = "rp2040"
  NumOptions = 3
  TimeoutSec = 2
  TicksPerSec = 4
  CounterMod = 2
  StartCounts <- AllCounts
  LoopTicks = 2
  KeysPressed = {"enter"}
  FifoSize = 1
  MaxNow = 9
  MaxTyped = 1
PROPERTY UnattendedBoot
CHECK_DEADLOCK FALSE
