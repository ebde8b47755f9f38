SPECIFICATION Spec
CONSTANTS
  nsets = 4
  assoc = 2
  BIPCTR_MAX = 1
  RRPV_MAX = 3
  PSEL_MAX = 3
  PSEL_INIT = 1
  Blocks <- TwoKinds
  Words = {w1}
  Values = {0}
  Cmds <- ReadOnly
  Flushes = {"cache_flush"}
  MaxRRPV = 6
  Policies = {"DRRIP"}
INVARIANTS CountersWithinBounds
CHECK_DEADLOCK FALSE
