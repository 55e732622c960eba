SPECIFICATION Spec
CONSTANTS
  Kernels <- MCKernels
  Files <- MCFiles
  OptionSet <- MCOptions
  Requests <- MCRequests
  ins_per_page = 2
INVARIANTS PagesOfOneInstance ListedAreCharted StallsOnSheets AnswerComplete
CHECK_DEADLOCK FALSE
