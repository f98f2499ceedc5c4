CONSTANT
  Capacity = 2
  MaxPage = 4
  Data = {d1, d2}
  ClassOf <- MCTwoClasses
  NoClass = NoClass
SPECIFICATION Spec
INVARIANT
  SlotClassMatches
