CONSTANT
  Conns = {c1, c2}
  Tables = {t1, t2}
  NoOne = NoOne
  NoTable = NoTable
SPECIFICATION Spec
PROPERTY
  CreateLeavesMutex
CHECK_DEADLOCK FALSE
