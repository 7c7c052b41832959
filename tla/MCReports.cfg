CONSTANTS
  j1 = j1
  j2 = j2
  j3 = j3
  Jobs = {j1, j2, j3}
  Codes = {200}
  Times = {1, 2, 3}
  Limits <- MCLimits
  DefaultLimit = 1
  MaxLimit = 2

SPECIFICATION ReportsSpec
CONSTRAINT MCOneReader
SYMMETRY MCSymmetry
CHECK_DEADLOCK FALSE

INVARIANTS
  StatsAddUp
  WalkMissesOnlyTies
