CONSTANT
  PAGE_SIZE = 18
  end_fixed = 2
  SlotSize = 1
  MaxPages = 2
  Sizes <- RowSizes
  Word = 1
  MaxColumns = 3
  MaxLen = 3
SPECIFICATION StoreSpec
INVARIANT
  RecordsApart
CHECK_DEADLOCK FALSE
