CONSTANT
  Keys <- MCKeys
  MaxCnt = 6
SPECIFICATION FairSpec
INVARIANT
  FindsFirst
PROPERTY
  Returns
CHECK_DEADLOCK FALSE
