SPECIFICATION Spec
CONSTANTS
  nsets = 1
  assoc = 2
  BIPCTR_MAX = 0
  RRPV_MAX = 3
  PSEL_MAX = 3
  PSEL_INIT = 1
  Blocks <- OneSet
  Words = {w1, w2}
  Values = {v1, v2}
  Cmds <- ReadWrite
  Flushes = {"cache_flush", "cache_flush_addr"}
  MaxRRPV = 6
  Policies = {"Random"}
INVARIANTS Coherent
PROPERTIES MemorySpec
SYMMETRY DataSymmetry
VIEW WithoutCall
