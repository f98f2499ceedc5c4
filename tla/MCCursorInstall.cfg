CONSTANT
  Order = 4
  Keys <- MCKeys
  Records = {101, 102}
  MaxPage = 8
  StaleNext = {0}
  NoNode = NoNode
  NoCall = NoCall
  Bounds <- MCBounds
  Needs = {1}
  Undefined = Undefined
  Conns = {c1, c2}
  Preloads <- MCPreloads
  MaxOps = 2
SPECIFICATION MCSpec
INVARIANT
  UntouchedRowsStay
VIEW
  View
SYMMETRY
  Symmetry
CONSTRAINT
  NobodyAstray
CHECK_DEADLOCK FALSE
