SPECIFICATION FairRegistrySpec
CONSTANTS
  t1 = t1
  t2 = t2
  n1 = n1
  n2 = n2
  Threads = {t1, t2}
  NoOne = NoOne
  Kinds = {"domain"}
  Names = {n1, n2}
  Garbage = Garbage
  EventBound = 2
  StartBound = 2
INVARIANTS OneNodePerName HandlesUsable StartsUsedOnce
PROPERTIES MutexReleased
CHECK_DEADLOCK FALSE
