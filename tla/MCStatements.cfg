CONSTANT
  Half = 2
  MinKey <- MCMinKey
  MaxKey <- MCMaxKey
  Args <- MCArgs
  Data = {d1, d2}
  Missing = Missing
  MaxGen = 2
  MaxTerms = 3
  MaxFilters = 1
SPECIFICATION StmtSpec
INVARIANT
  ScanIsExact
  RowidNamesRow
  LookupFindsRow
  RowsAwaitTheirTurn
PROPERTY
  UpdateInPlace
CONSTRAINT
  TermsAlone
SYMMETRY
  Symmetry
CHECK_DEADLOCK FALSE
