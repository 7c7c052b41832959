CONSTANTS
  a1 = a1
  a2 = a2
  NoBucket = NoBucket
  IPs = {a1, a2}
  Limit = 2
  Window = 3
  MaxTime = 5

SPECIFICATION Spec
CHECK_DEADLOCK FALSE

INVARIANTS
  TypeOK
  BurstBounded
  RefusalIsEarned
