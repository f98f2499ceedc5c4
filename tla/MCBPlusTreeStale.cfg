CONSTANT
  Order = 4
  Keys <- MCKeys
  Records = {101, 102}
  MaxPage = 10
  StaleNext = {0, 3}
  NoNode = NoNode
  NoCall = NoCall
  Bounds <- MCBounds
  Needs = {1, 100}
  Undefined = Undefined
  Preloads <- MCPreloads
  MaxOps = 2
SPECIFICATION MCSpec
INVARIANT
  CopyingHeaderSuffices
CHECK_DEADLOCK FALSE
