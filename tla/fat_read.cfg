SPECIFICATION FairSpec
CONSTANTS
  Names <- MCNames
  Images <- ReadImages
INVARIANTS TypeOK CopyWithinBuffer TypeDetected FindsFirstLiveEntry WholeFileLoaded
PROPERTY ReaderReturns
CHECK_DEADLOCK FALSE
