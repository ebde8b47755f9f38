------------------------ MODULE SpecStateProperties ------------------------
(***************************************************************************)
(* Properties of the simulated memory and of the speculative state.        *)
(***************************************************************************)
EXTENDS SpecState

(* The two tables, the registers and the modes keep their types.           *)
TypeOK ==
    /\ \A set \in DOMAIN ptab : \A pte \in ToSet(ptab[set]) :
         pte.tag \in Nat /\ pte.page \in [0 .. MD_PAGE_SIZE - 1 -> Bytes]
    /\ \A i \in DOMAIN store_htable : \A ent \in ToSet(store_htable[i]) :
         ent.addr \in Valid /\ ent.data \in [1 .. BufferSize -> Bytes]
    /\ buckets_free \in 0 .. MaxEntries /\ buckets \in 0 .. MaxEntries
    /\ regs_R \in Bytes /\ spec_regs_R \in Bytes
    /\ {spec_mode, bugcompat_mode, use_spec_R} \subseteq BOOLEAN

(* A page has one entry, in the chain of its address, however often it has *)
(* moved to the front: otherwise a store would go to one copy of the page  *)
(* and a load to another.                                                  *)
OneEntry ==
    /\ \A set \in DOMAIN ptab : \A i, j \in DOMAIN ptab[set] :
         ptab[set][i].tag = ptab[set][j].tag => i = j
    /\ \A h \in DOMAIN store_htable : \A i, j \in DOMAIN store_htable[h] :
         /\ HASH_ADDR(store_htable[h][i].addr) = h
         /\ store_htable[h][i].addr = store_htable[h][j].addr => i = j

(* Every entry of the store table that was allocated is in the table or in *)
(* the free list, which gets all of them back when a wrong path ends; only *)
(* bugcompat_mode loses them.                                              *)
EntriesConserved ==
    /\ ~bugcompat_mode => buckets = buckets_free + Entries(store_htable)
    /\ ~spec_mode => Entries(store_htable) = 0 /\ ~use_spec_R

(* The two tables are sound.                                               *)
TablesSound == TypeOK /\ OneEntry /\ EntriesConserved

(* On a wrong path no page is allocated and no byte of memory changes.     *)
WrongPathLeavesMemory ==
    [][spec_mode => Memory' = Memory
                    /\ \A set \in DOMAIN ptab : Len(ptab'[set]) = Len(ptab[set])]_vars

Checkpointed == INSTANCE CheckpointedState WITH
    arch_R <- regs_R, arch_mem <- Memory, R <- GPR, mem <- current, spec <- spec_mode,
    lossy <- bugcompat_mode,
    Granted <- {a \in Accesses : Permitted(a[1], a[2])}

(* Registers and memory are those of a machine with a checkpoint: loads    *)
(* find the stores of their wrong path, and none of these survives it.     *)
IsCheckpointed == Checkpointed!Spec
=============================================================================
