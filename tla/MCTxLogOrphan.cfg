CONSTANT
  IndexPages = {p1, p2}
  RecPage = r
  NoPage = NoPage
  MaxRecs = 1
  MaxLog = 9
  MaxStops = 1
SPECIFICATION Spec
INVARIANT
  AtomicRecovery
CONSTRAINT
  OrKeepsOrphans
SYMMETRY
  PageSymmetry
CHECK_DEADLOCK FALSE
