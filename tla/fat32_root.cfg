SPECIFICATION Spec
CONSTANTS
  Names <- MCNames
  Images <- Fat32Images
INVARIANT KernelOnVolumeFound
CHECK_DEADLOCK FALSE
