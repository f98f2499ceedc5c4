CONSTANT
  Capacity = 2
  MaxPage = 3
  Data = {d1, d2}
  ClassOf <- MCTwoClasses
  NoClass = NoClass
SPECIFICATION Spec
INVARIANT
  TypeOK
  CleanMatchesFile
  MapIsInverse
  DirtyIsMapped
  RefWindow
PROPERTY
  ImplementsPageStore
