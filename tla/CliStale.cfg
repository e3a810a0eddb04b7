SPECIFICATION Spec
CONSTANTS
  d1 = d1  d2 = d2  d3 = d3
  Downloads = {d1, d2, d3}
  Releases = {1, 2}
  SizeOf <- MCSizeOf
  Limit = 2
  TTL = 2
  MaxRead = 1
  MaxTime = 4
SYMMETRY Symmetric
INVARIANTS
  BoundedStaleness
  DamageHeals
  RegressionNeedsOverlap
CHECK_DEADLOCK FALSE
