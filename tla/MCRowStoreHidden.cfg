CONSTANT
  PAGE_SIZE = 18
  end_fixed = 2
  SlotSize = 1
  MaxPages = 2
  Sizes <- RowSizes
  Word = 1
  MaxColumns = 3
  MaxLen = 2
SPECIFICATION StoreSpec
INVARIANT
  HiddenIsPrimary
CHECK_DEADLOCK FALSE
