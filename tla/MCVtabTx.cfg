CONSTANT
  Conns = {c1, c2, c3}
  Tables = {t1, t2}
  NoOne = NoOne
  NoTable = NoTable
SPECIFICATION Spec
INVARIANT
  OneTransaction
  FlagFollowsLock
  WaitEnds
CONSTRAINT
  AllBegun
SYMMETRY
  Symmetry
CHECK_DEADLOCK FALSE
