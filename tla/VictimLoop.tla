----------------------------- MODULE VictimLoop -----------------------------
(***************************************************************************)
(* The loops by which cache_access searches the way list for a victim under *)
(* NRU and DRRIP, one iteration per step.  The ways are numbered in list    *)
(* order.                                                                   *)
(***************************************************************************)
EXTENDS VictimChoice

CONSTANTS
  MaxRRPV       \* bound on the RRPV of a block (model only)

ASSUME LoopAssumption ==
  /\ assoc >= 2
  /\ MaxRRPV \in Nat /\ MaxRRPV >= RRPV_MAX

VARIABLES
  policy,          \* "NRU" or "DRRIP"
  blk,             \* the way looked at
  repl,            \* the victim, once found
  NRU_bit, RRPV,
  before           \* NRU_bit and RRPV when the search began (history)

search_vars == <<policy, blk, repl, NRU_bit, RRPV, before>>

NoWay == -1
way_tail == assoc - 1
Searching == repl = NoWay

SearchInit ==
  /\ policy \in {"NRU", "DRRIP"}
  /\ blk = 0
  /\ repl = NoWay
  /\ IF policy = "NRU"
       THEN NRU_bit \in [Ways -> BOOLEAN] /\ RRPV = [w \in Ways |-> RRPV_MAX - 1]
       ELSE NRU_bit = [w \in Ways |-> TRUE] /\ RRPV \in [Ways -> 0..MaxRRPV]
  /\ before = [NRU_bit |-> NRU_bit, RRPV |-> RRPV]

Found == IF policy = "NRU" THEN NRU_bit[blk] ELSE RRPV[blk] = RRPV_MAX

Take ==
  /\ Searching /\ Found
  /\ repl' = blk
  /\ NRU_bit' = IF policy = "NRU" THEN [NRU_bit EXCEPT ![blk] = FALSE] ELSE NRU_bit
  /\ UNCHANGED <<blk, RRPV, before>>

Advance ==
  /\ Searching /\ ~Found /\ blk # way_tail
  /\ blk' = blk + 1
  /\ UNCHANGED <<repl, NRU_bit, RRPV, before>>

\* Mutants: the next pass starts with the head of the list; the bits are not
\* changed at the end of the list.
RestartAtHead ==
  /\ Searching /\ ~Found /\ blk = way_tail
  /\ IF policy = "NRU"
       THEN NRU_bit' = [w \in Ways |-> TRUE] /\ UNCHANGED RRPV
       ELSE /\ \A w \in Ways : RRPV[w] < MaxRRPV + RRPV_MAX
            /\ RRPV' = [w \in Ways |-> RRPV[w] + 1]
            /\ UNCHANGED NRU_bit
  /\ blk' = 0
  /\ UNCHANGED <<repl, before>>
RestartUnchanged ==
  /\ Searching /\ ~Found /\ blk = way_tail
  /\ blk' = 1
  /\ UNCHANGED <<repl, NRU_bit, RRPV, before>>

\* The end of the list: the loop resets the cursor to way_head, and its own
\* increment then steps to the second way.
Restart ==
  /\ Searching /\ ~Found /\ blk = way_tail
  /\ IF policy = "NRU"
       THEN NRU_bit' = [w \in Ways |-> TRUE] /\ UNCHANGED RRPV
       ELSE /\ \A w \in Ways : RRPV[w] < MaxRRPV + RRPV_MAX
            /\ RRPV' = [w \in Ways |-> RRPV[w] + 1]
            /\ UNCHANGED NRU_bit
  /\ blk' = 1
  /\ UNCHANGED <<repl, before>>

SearchNext ==
  /\ Take \/ Advance \/ Restart
  /\ UNCHANGED policy

SearchSpec == SearchInit /\ [][SearchNext]_search_vars /\ WF_search_vars(SearchNext)

-----------------------------------------------------------------------------
(* Properties.                                                             *)

order == [w \in Ways |-> w]

\* The search ends with the way the closed form names, having changed the bits
\* exactly as the closed form says.
ChoosesAsStated ==
  repl # NoWay =>
    IF policy = "NRU"
      THEN /\ ChosenByNRU(order, before.NRU_bit, repl)
           /\ NRU_bit = IF NotUsed(before.NRU_bit) = {}
                          THEN [w \in Ways |-> w # repl]
                          ELSE [before.NRU_bit EXCEPT ![repl] = FALSE]
      ELSE \E n \in 0..RRPV_MAX :
             /\ ChosenByDRRIP(order, before.RRPV, repl, n)
             /\ RRPV = [w \in Ways |-> before.RRPV[w] + n]

\* The search ends whenever the closed form names a way, although every pass
\* but the first leaves out the head of the list.
VictimNamed ==
  IF policy = "NRU"
    THEN \E w \in Ways : ChosenByNRU(order, before.NRU_bit, w)
    ELSE \E w \in Ways, n \in 0..RRPV_MAX : ChosenByDRRIP(order, before.RRPV, w, n)

SearchEnds == VictimNamed ~> (repl # NoWay)
=============================================================================
