SPECIFICATION Spec
CONSTANTS
  t1 = t1
  t2 = t2
  Threads = {t1, t2}
  Main = t1
  Signals <- MCSignals
  Fault = "SIGSEGV"
  Overlap = TRUE
  StartBound = 1
INVARIANTS SummaryBeforeDelete
CHECK_DEADLOCK FALSE
