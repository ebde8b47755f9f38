SPECIFICATION SearchSpec
CONSTANTS
  assoc = 4
  RRPV_MAX = 3
  MaxRRPV = 5
INVARIANT ChoosesAsStated
PROPERTY SearchEnds
CHECK_DEADLOCK FALSE
