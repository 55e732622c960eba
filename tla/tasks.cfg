SPECIFICATION Spec
CONSTANTS
  c1 = c1
  c2 = c2
  Controllers = {c1, c2}
  Conditional = TRUE
  d1 = d1
  d2 = d2
  NoDomain = NoDomain
  Domains = {d1, d2}
  Ccl = TRUE
  Chrome = TRUE
  Types = {"small", "large", "double"}
  TaskBound = 2
  ItemBound = 2
SYMMETRY Symmetry
INVARIANTS LoggedOnceNested SingleOwner Paired PausePrecedes
PROPERTIES ResumeOpens
CHECK_DEADLOCK FALSE
