SPECIFICATION Spec
CONSTANTS
  t1 = t1
  t2 = t2
  Threads <- MCThreads
  Exiter = Exiter
  NoOne = NoOne
  SliceCapacity <- Twos
  Bounded <- OnlyFirst
  FlushImmediately <- No
  Quiescent = TRUE
  CallBound = 9
INVARIANTS TypeOK FileOrder NothingLost SlotInSlice
PROPERTIES ImplementsTraceFile
CHECK_DEADLOCK FALSE
