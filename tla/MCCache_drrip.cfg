SPECIFICATION Spec
CONSTANTS
  nsets = 8
  assoc = 2
  BIPCTR_MAX = 1
  RRPV_MAX = 3
  PSEL_MAX = 3
  PSEL_INIT = 1
  Blocks <- Duel
  Words = {w1}
  Values = {0}
  Cmds <- ReadOnly
  Flushes = {}
  MaxRRPV = 5
  Policies = {"LRU", "FIFO", "Random", "NRU", "DRRIP"}
INVARIANTS TypeOK FastHitNeedsNoUpdate VictimExists
CHECK_DEADLOCK FALSE
