---------------------------- MODULE RecencyStack ----------------------------
(***************************************************************************)
(* What the LRU and FIFO policies promise: each set is a list of at most    *)
(* capacity blocks, a block that is not there enters at the front, and the  *)
(* list loses its last block when it is full.  Under LRU a block that is    *)
(* accessed again moves to the front.  Every request is visible, so that    *)
(* the list can change, or stay as it is, only as the request asks.         *)
(***************************************************************************)
EXTENDS Naturals, SequencesExt

CONSTANTS Sets, Blocks

VARIABLES
  stack,
  request,     \* the last one
  movesOnHit,  \* TRUE for LRU
  capacity     \* blocks in a set

svars == <<stack, request, movesOnHit, capacity>>

SInit ==
  /\ movesOnHit \in BOOLEAN /\ capacity \in Nat \ {0}
  /\ stack = [s \in Sets |-> <<>>]
  /\ request = <<>>

Without(q, b) == RemoveFirst(q, b)
InFront(q, b) == <<b>> \o Without(q, b)

SAccess(b) ==
  LET s == b[2]
  IN /\ request' = <<"access", b>>
     /\ stack' = [stack EXCEPT ![s] =
                   IF b \in Range(@) THEN IF movesOnHit THEN InFront(@, b) ELSE @
                   ELSE SubSeq(InFront(@, b), 1, Min({capacity, Len(@) + 1}))]

SFlush ==
  /\ request' = <<"flush">>
  /\ stack' = [s \in Sets |-> <<>>]

SFlushBlock(b) ==
  /\ request' = <<"flush", b>>
  /\ stack' = [stack EXCEPT ![b[2]] = Without(@, b)]

SNext ==
  /\ SFlush \/ \E b \in Blocks : SAccess(b) \/ SFlushBlock(b)
  /\ UNCHANGED <<movesOnHit, capacity>>

SSpec == SInit /\ [][SNext]_svars
=============================================================================
