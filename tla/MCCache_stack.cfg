SPECIFICATION Spec
CONSTANTS
  nsets = 1
  assoc = 4
  BIPCTR_MAX = 0
  RRPV_MAX = 3
  PSEL_MAX = 3
  PSEL_INIT = 1
  Blocks <- LargeSet
  Words = {w1}
  Values = {0}
  Cmds <- ReadOnly
  Flushes = {"cache_flush", "cache_flush_addr"}
  MaxRRPV = 6
  Policies = {"LRU", "FIFO"}
PROPERTIES StackSpec
VIEW WithoutCall
