----------------------------- MODULE MCTomasulo -----------------------------
(***************************************************************************)
(* TLC instances of the Tomasulo simulator.                                 *)
(***************************************************************************)
EXTENDS TomasuloProperties, TLC

Line(op, d, s1, s2) == [op |-> op, dest |-> d, src_1 |-> s1, src_2 |-> s2]

\* A long and a short arithmetic operation, loads and stores on two registers:
\* every program of up to MAX_INST_NUM of these lines is run.
HazardLines == {
  Line("MUL", "F0", "F2", "F4"), Line("ADD", "F0", "F6", "F8"),
  Line("ADD", "F0", "F0", "F2"), Line("SUB", "F2", "F0", "F4"),
  Line("DIV", "F2", "F4", "F0"), Line("LW", "F0", "R2", ""),
  Line("LW", "F2", "R3", ""),    Line("SW", "F0", "R2", ""),
  Line("SW", "F2", "R2", "") }
=============================================================================
