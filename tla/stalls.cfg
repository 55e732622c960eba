SPECIFICATION Spec
CONSTANTS
  Programs <- MCPrograms
  CheckBound = 16
  LineLength <- MCLineLength
  page_size = 4
  line_width = 2
INVARIANTS StallsExplained SourceIsClosest ReportComplete
PROPERTIES SearchEnds
CHECK_DEADLOCK FALSE
