SPECIFICATION FairSpec
CONSTANTS
  Arch = "x64"
  NumOptions = 3
  TimeoutSec = 2
  TicksPerSec = 2
  CounterMod = 16
  StartCounts <- AllCounts
  LoopTicks = 2
  KeysPressed = {"w", "s", "enter", "other", "down"}
  FifoSize = 1
  MaxNow = 7
  MaxTyped = 2
INVARIANTS TypeOK TimeoutOnlyWithoutKeys ChoiceIsWhatWasTyped TimeoutOnTime
PROPERTIES UnattendedBootBeforeWrap KeysAreRead
CHECK_DEADLOCK FALSE
