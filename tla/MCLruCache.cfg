CONSTANT
  Capacity = 6
SPECIFICATION LruSpec
INVARIANT
  RingIsAgeOrder
  VictimIsOldest
