CONSTANT
  Order = 5
  Keys <- DeepKeys
  Records = {101}
  MaxPage = 24
  StaleNext = {0}
  NoNode = NoNode
  NoCall = NoCall
  Bounds <- MCBounds
  Needs = {1, 100}
  Undefined = Undefined
  Preloads <- DeepPreloads
  MaxOps = 2
SPECIFICATION MCFairSpec
INVARIANT
  OneTree
  PagesAreFilled
  Searchable
PROPERTY
  KeysMoveRight
  DivisionEnds
CHECK_DEADLOCK FALSE
