------------------------- MODULE SequentialMachine -------------------------
(***************************************************************************)
(* What the out-of-order core promises: a machine that executes one        *)
(* instruction after the other.  pc is the oldest instruction that has not *)
(* been retired; NOPs retire unseen, with the instruction before them.     *)
(***************************************************************************)
EXTENDS ProgramText

VARIABLES pc, exited

Init == pc = 1 /\ exited = FALSE

Retire ==
    /\ ~exited
    /\ \E next \in NextPCs(pc) :
         /\ pc' >= next
         /\ \A p \in next .. pc' - 1 : Inst(p).op = "nop"
    /\ UNCHANGED <<exited, text>>

Exit == ~exited /\ Inst(pc).op = "exit" /\ exited' = TRUE /\ UNCHANGED <<pc, text>>

Next == Retire \/ Exit

Spec == Init /\ [][Next]_<<pc, exited, text>>
=============================================================================
