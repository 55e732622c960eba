SPECIFICATION Spec
CONSTANTS
  Inputs <- MCInputs
  Linked = {1}
  RunBound = 3
INVARIANTS MergedOnce InputsKept ViewServed
CHECK_DEADLOCK FALSE
