------------------------- MODULE CheckpointedState -------------------------
(***************************************************************************)
(* What the layer of speculative copies promises: a register and a memory  *)
(* of bytes, with a checkpoint to which they return.  A load on a wrong    *)
(* path is exact unless stores of another address or size overlap it,      *)
(* which sim-outorder.c says it does not combine; the old simulator, which *)
(* its options can reproduce, loses such stores.                           *)
(***************************************************************************)
EXTENDS Integers, Sequences

CONSTANTS
    Addrs, Bytes,
    Accesses, Blocks,       \* addresses and sizes of loads and stores, and of copies
    Granted                 \* the accesses that a wrong path may make

VARIABLES
    arch_R, arch_mem,       \* the state at the checkpoint
    R, mem,                 \* the current state
    spec, written, reply,
    lossy                   \* whether stores of a wrong path may be lost

vars == <<arch_R, arch_mem, R, mem, spec, written, reply, lossy>>

Nothing == [of |-> <<>>, data |-> <<>>]

Init ==
    /\ arch_R = 0 /\ R = 0
    /\ arch_mem = [a \in Addrs |-> 0] /\ mem = arch_mem
    /\ spec = FALSE /\ written = {} /\ lossy \in BOOLEAN
    /\ reply = Nothing

Overlap(x, y) == x[1] < y[1] + y[2] /\ y[1] < x[1] + x[2]
Exact(access) == \A w \in written : Overlap(w, access) => w = access /\ ~lossy

ReadRegister ==
    /\ reply' = [of |-> <<>>, data |-> <<R>>]
    /\ UNCHANGED <<arch_R, arch_mem, R, mem, spec, written>>

WriteRegister ==
    /\ R' \in Bytes
    /\ arch_R' = IF spec THEN arch_R ELSE R'
    /\ reply' = Nothing /\ UNCHANGED <<arch_mem, mem, spec, written>>

Load ==
    /\ reply'.of \in Accesses \cup (IF spec THEN {} ELSE Blocks)
    /\ LET a == reply'.of
       IN IF a \in Granted \/ ~spec
          THEN Exact(a) => reply'.data = [k \in 1 .. a[2] |-> mem[a[1] + k - 1]]
          ELSE reply'.data = [k \in 1 .. a[2] |-> 0]
    /\ UNCHANGED <<arch_R, arch_mem, R, mem, spec, written>>

Store ==
    /\ \E a \in Accesses \cup (IF spec THEN {} ELSE Blocks) :
         /\ \A b \in Addrs : mem'[b] # mem[b] => a[1] <= b /\ b < a[1] + a[2]
         /\ written' = IF spec THEN written \cup {a} ELSE written
    /\ arch_mem' = IF spec THEN arch_mem ELSE mem'
    /\ reply' = Nothing /\ UNCHANGED <<arch_R, R, spec>>

Checkpoint == ~spec /\ spec' = TRUE /\ reply' = Nothing
              /\ UNCHANGED <<arch_R, arch_mem, R, mem, written>>

Return ==
    /\ spec /\ spec' = FALSE
    /\ R' = arch_R /\ mem' = arch_mem /\ written' = {}
    /\ reply' = Nothing /\ UNCHANGED <<arch_R, arch_mem>>

Next ==
    /\ ReadRegister \/ WriteRegister \/ Load \/ Store \/ Checkpoint \/ Return
    /\ UNCHANGED lossy

Spec == Init /\ [][Next]_vars
=============================================================================
