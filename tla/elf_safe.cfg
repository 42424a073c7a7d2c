SPECIFICATION FairSpec
CONSTANTS
  Addr <- MCAddr
  Mem0 <- MCMem0
  Base <- MCBase
  Images <- SafeImages
INVARIANTS TypeOK OnlyTargetsWritten
PROPERTIES ImplementsSegmentLoad Returns
CHECK_DEADLOCK FALSE
