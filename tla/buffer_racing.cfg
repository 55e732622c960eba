SPECIFICATION FairSpec
CONSTANTS
  t1 = t1
  t2 = t2
  Threads <- MCThreads
  Exiter = Exiter
  NoOne = NoOne
  SliceCapacity <- TwoAndOne
  Bounded <- Yes
  FlushImmediately <- OnlySecond
  Quiescent = FALSE
  CallBound = 4
INVARIANTS RegisteredIffLive
PROPERTIES TeardownCompletes CallsReturn EventsSurviveTeardown
CHECK_DEADLOCK FALSE
