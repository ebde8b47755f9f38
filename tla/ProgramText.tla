---------------------------- MODULE ProgramText ----------------------------
(***************************************************************************)
(* The program that the core of sim-outorder.c runs: its instructions, and *)
(* where each may go.  An instruction is its operation, the registers it   *)
(* reads and writes, the address it accesses and the target of a direct    *)
(* jump.                                                                   *)
(***************************************************************************)
EXTENDS Integers, Sequences

CONSTANT MD_NOP_INST        \* what fetch takes for an instruction outside of the text

VARIABLE text               \* the program, fixed from the start

NOP == [op |-> "nop"]

(* One address stands for all those outside of the text.                   *)
Bogus == Len(text) + 1
PCs == 1 .. Bogus
Inst(pc) == IF pc \in DOMAIN text THEN text[pc] ELSE MD_NOP_INST
Following(pc) == IF pc \in DOMAIN text THEN pc + 1 ELSE Bogus

(* A conditional branch goes either way, an indirect jump to any later     *)
(* instruction: what the program computes is left open.                    *)
NextPCs(pc) ==
    CASE Inst(pc).op = "branch" -> {Following(pc), Inst(pc).target}
      [] Inst(pc).op = "jal" -> {Inst(pc).target}
      [] Inst(pc).op = "jr" -> {p \in DOMAIN text : p > pc}
      [] OTHER -> {Following(pc)}
=============================================================================
