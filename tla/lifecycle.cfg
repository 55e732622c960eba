SPECIFICATION Spec
CONSTANTS
  t1 = t1
  t2 = t2
  Threads = {t1, t2}
  Main = t1
  Signals <- MCSignals
  Fault = "SIGSEGV"
  Overlap = FALSE
  StartBound = 5
INVARIANTS TornDownOnce NotFollowed LaunchedIsTraced
CHECK_DEADLOCK FALSE
