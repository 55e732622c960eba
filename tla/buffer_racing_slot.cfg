SPECIFICATION Spec
CONSTANTS
  t1 = t1
  t2 = t2
  Threads <- MCThreads
  Exiter = Exiter
  NoOne = NoOne
  SliceCapacity <- Twos
  Bounded <- Yes
  FlushImmediately <- No
  Quiescent = FALSE
  CallBound = 3
INVARIANTS SlotInSlice
CHECK_DEADLOCK FALSE
