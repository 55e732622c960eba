SPECIFICATION MCSpec
CONSTANTS
  Names <- MCNames
  CclNames <- MCCclNames
  Durations <- MCDurations
  Category <- MCCategory
  AddBound = 3
  ProcessBound = 3
  DirectTags <- MCDirectTags
  ReverseTags <- MCReverseTags
  KernelNames <- MCKernelNames
  DirectBound = 3
  ReverseBound = 1
INVARIANTS TableMatchesCalls CommMatchesCalls OutputComplete CategoryAsExpected
CHECK_DEADLOCK FALSE
