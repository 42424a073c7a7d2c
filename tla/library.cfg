SPECIFICATION LibrarySpec
CONSTANTS
  MantBits = 5
  ExpBits = 4
  SingleMant = 3
  SingleExp = 3
  IntBits = 4
  LongBits = 8
  LimbBits = 5
  Doubles <- SomeDoubles
  Addr <- Cells
  Fresh = 6
  Requests <- SomeCalls
  Jobs <- SomeJobs
  FifoSize = 2
  NumberBits = 6
  Top = 22
  HeapStart = 3
  HeapMax = 20
  Slots = 2
  AllocSizes = {1, 2}
  Raw = {20}
  Contents = {4, 5}
INVARIANTS TypesOK IntegersSurvive ArithmeticHolds ComparisonsAgree MemoryAsPromised AnswerAsPromised TextArrives LineIsWhatWasTyped ScreenShowsLine WritesArrive
PROPERTY CallsReturn
CHECK_DEADLOCK FALSE
