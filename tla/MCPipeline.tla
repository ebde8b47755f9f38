----------------------------- MODULE MCPipeline -----------------------------
(***************************************************************************)
(* Programs and a small core for TLC.                                      *)
(***************************************************************************)
EXTENDS PipelineProperties

I(op, in1, in2, out, addr, target) ==
    [op |-> op, in |-> <<in1, in2, NA>>, out |-> out, addr |-> addr, target |-> target]

Add(out, in1, in2) == I("add", in1, in2, out, 0, 0)
Div(out, in1) == I("div", in1, NA, out, 0, 0)
Load(out, base, addr) == I("load", NA, base, out, addr, 0)
Store(data, base, addr) == I("store", data, base, NA, addr, 0)
Branch(in1, target) == I("branch", in1, NA, NA, 0, target)
Jal(out, target) == I("jal", NA, NA, out, 0, target)
Jr(in1) == I("jr", in1, NA, NA, 0, 0)
Syscall == I("syscall", NA, NA, NA, 0, 0)
Exit == I("exit", NA, NA, NA, 0, 0)
Nop == NOP

(* A load takes its data from an older store, which waits for another load. *)
Forwarding ==
    <<Load("r1", NA, 1), Add("r2", "r1", NA), Store("r2", NA, 1), Load("r1", NA, 1), Exit>>
(* A slow branch; both its paths write what is read where they meet.       *)
SlowBranch ==
    <<Div("r1", NA), Branch("r1", 4), Add("r1", "r1", NA), Add("r2", "r1", "r2"),
      Store("r2", NA, 0), Exit>>
(* Two stores to an address, the first without data; a load of address 0.  *)
HiddenStore ==
    <<Div("r1", NA), Store("r1", NA, 1), Store("r2", NA, 1), Load("r2", NA, 1),
      Load("r1", NA, 0), Exit>>
(* A store whose address is late, and loads after it.                      *)
LateAddress ==
    <<Load("r1", NA, 1), Store("r2", "r1", 0), Load("r2", NA, 0), Exit>>
(* A wrong path waits for a slow operation; the right path reuses its       *)
(* station for an operation that waits for another one.                    *)
StaleLink ==
    <<Div("r1", NA), Load("r2", NA, 1), Branch(NA, 5), Add("r1", "r1", NA),
      Add("r2", "r2", NA), Exit>>
(* A call, an indirect jump and a NOP.                                     *)
Jumps == <<Jal("r1", 3), Add("r2", NA, NA), Add("r2", "r1", NA), Jr("r2"), Nop, Exit>>
(* A branch in the shadow of another; a load in the shadow of both.        *)
NestedBranches ==
    <<Load("r1", NA, 1), Branch("r1", 4), Branch("r2", 5), Load("r2", "r1", 1),
      Add("r2", "r2", NA), Exit>>
(* A system call waits for the machine to drain.                           *)
Drain == <<Div("r1", NA), Syscall, Nop, Branch("r1", 5), Syscall, Exit>>

Default == [inorder_issue |-> FALSE, include_spec |-> TRUE, bugcompat |-> FALSE, perfect |-> FALSE]

Setup(program, opts, cold) == [text |-> program, options |-> opts, uncached |-> cold]

SetupSet ==
    {Setup(p, Default, {}) : p \in {Forwarding, SlowBranch, HiddenStore, LateAddress,
                                    StaleLink, Jumps, NestedBranches, Drain}}
    \cup {Setup(SlowBranch, Default, {1, 4}), Setup(Jumps, Default, 2 .. 6)}
    \cup {Setup(p, [Default EXCEPT !.inorder_issue = TRUE], {}) : p \in {HiddenStore}}
    \cup {Setup(p, [Default EXCEPT !.include_spec = FALSE], {}) : p \in {SlowBranch}}
    \cup {Setup(p, [Default EXCEPT !.bugcompat = TRUE], {}) : p \in {LateAddress}}
    \cup {Setup(p, [Default EXCEPT !.perfect = TRUE], {}) : p \in {Jumps}}
MCRegs == {"r1", "r2"}
FUs == <<[IntALU |-> [oplat |-> 1, issuelat |-> 1]],
         [IntDIV |-> [oplat |-> 5, issuelat |-> 2]],
         [RdPort |-> [oplat |-> 1, issuelat |-> 1], WrPort |-> [oplat |-> 1, issuelat |-> 1]]>>
=============================================================================
