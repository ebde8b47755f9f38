--------------------------- MODULE CoherentMemory ---------------------------
(***************************************************************************)
(* What a cache promises to the program above it: it is a memory.  Every    *)
(* call is visible, with its block and word and the value that was read or  *)
(* written, so that no call may go unanswered or be answered for another.   *)
(***************************************************************************)
CONSTANTS Blocks, Words, Values

VARIABLES
  contents,   \* per block and word
  call        \* the last call, and what was read or written

mvars == <<contents, call>>

MInit ==
  /\ contents \in [Blocks -> [Words -> Values]]
  /\ call = [cmd |-> "none"]

MRead(b, x) ==
  /\ call' = [cmd |-> "Read", block |-> b, word |-> x, value |-> contents[b][x]]
  /\ UNCHANGED contents

MWrite(b, x, v) ==
  /\ call' = [cmd |-> "Write", block |-> b, word |-> x, value |-> v]
  /\ contents' = [contents EXCEPT ![b][x] = v]

MFlush == call' = [cmd |-> "cache_flush"] /\ UNCHANGED contents

MFlushBlock(b) == call' = [cmd |-> "cache_flush_addr", block |-> b] /\ UNCHANGED contents

MNext ==
  \/ MFlush
  \/ \E b \in Blocks :
       \/ MFlushBlock(b)
       \/ \E x \in Words : MRead(b, x) \/ \E v \in Values : MWrite(b, x, v)

MSpec == MInit /\ [][MNext]_mvars
=============================================================================
