SPECIFICATION Spec
CONSTANTS
  u = u
  v = v
  now = now
  later = later
  Users <- MCUsers
  Stamps <- MCStamps
  Samples <- MCSamples
  Given <- MCGiven
INVARIANTS OwnProfile PointForEachKernel SharedProfile
CHECK_DEADLOCK FALSE
SYMMETRY MCSymmetry
