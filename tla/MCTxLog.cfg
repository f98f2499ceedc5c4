CONSTANT
  IndexPages = {p1, p2}
  RecPage = r
  NoPage = NoPage
  MaxRecs = 1
  MaxLog = 9
  MaxStops = 2
SPECIFICATION FairSpec
INVARIANT
  TypeOK
  CrashSafe
  UndoIsRedundant
  SharedIsCommitted
PROPERTY
  ComesUp
CONSTRAINT
  KeepsToPromises
CHECK_DEADLOCK FALSE
