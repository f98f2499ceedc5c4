CONSTANT
  Half = 2
  MinKey <- MCMinKey
  MaxKey <- MCMaxKey
  Args <- MCArgs
  Data = {d1, d2}
  Missing = Missing
  MaxGen = 2
  MaxTerms = 1
  MaxFilters = 1
SPECIFICATION StmtSpec
PROPERTY
  UpdateReplaces
CHECK_DEADLOCK FALSE
