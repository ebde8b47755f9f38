---------------------------- MODULE PagedMemory ----------------------------
(***************************************************************************)
(* The simulated memory of memory.c: an inverted page table, hashed into   *)
(* chains whose entry last used moves to the front.  Pages are allocated,  *)
(* zeroed, when they are first written; what has no page reads as zero.    *)
(* The operators take the page table and return the table an access leaves. *)
(***************************************************************************)
EXTENDS Integers, Sequences, SequencesExt, FiniteSets

CONSTANTS
    MD_PAGE_SIZE,           \* bytes of a page
    MEM_PTAB_SIZE,          \* chains of the page table
    Bytes                   \* values of a byte, with 0

ASSUME MemoryAssumption ==
    /\ MD_PAGE_SIZE \in Nat \ {0} /\ MEM_PTAB_SIZE \in Nat \ {0}
    /\ 0 \in Bytes

MEM_PTAB_SET(addr) == (addr \div MD_PAGE_SIZE) % MEM_PTAB_SIZE
MEM_PTAB_TAG(addr) == addr \div (MD_PAGE_SIZE * MEM_PTAB_SIZE)
MEM_OFFSET(addr) == addr % MD_PAGE_SIZE

mem_init == [set \in 0 .. MEM_PTAB_SIZE - 1 |-> <<>>]

(* The place of the entry for an address in its chain, 0 if it has none.   *)
Entry(ptab, addr) ==
    SelectInSeq(ptab[MEM_PTAB_SET(addr)], LAMBDA pte : pte.tag = MEM_PTAB_TAG(addr))

ToFront(chain, i) == <<chain[i]>> \o RemoveAt(chain, i)

(* MEM_PAGE: the entry that is found moves to the front.                   *)
mem_translate(ptab, addr) ==
    LET i == Entry(ptab, addr)
    IN IF i = 0 THEN ptab ELSE [ptab EXCEPT ![MEM_PTAB_SET(addr)] = ToFront(@, i)]

mem_newpage(ptab, addr) ==
    LET pte == [tag |-> MEM_PTAB_TAG(addr), page |-> [o \in 0 .. MD_PAGE_SIZE - 1 |-> 0]]
    IN [ptab EXCEPT ![MEM_PTAB_SET(addr)] = <<pte>> \o @]

MEM_READ_BYTE(ptab, addr) ==
    IF Entry(ptab, addr) = 0 THEN 0
    ELSE ptab[MEM_PTAB_SET(addr)][Entry(ptab, addr)].page[MEM_OFFSET(addr)]

MEM_TICKLE(ptab, addr) ==
    IF Entry(ptab, addr) = 0 THEN mem_newpage(ptab, addr) ELSE mem_translate(ptab, addr)

MEM_WRITE_BYTE(ptab, addr, value) ==
    [MEM_TICKLE(ptab, addr) EXCEPT ![MEM_PTAB_SET(addr)][1].page[MEM_OFFSET(addr)] = value]

-----------------------------------------------------------------------------
(* Accesses of several bytes, one after the other.  Data is a sequence.    *)

ReadBytes(ptab, addr, n) == [k \in 1 .. n |-> MEM_READ_BYTE(ptab, addr + k - 1)]
\* Mutant: a read allocates the page, as a write does.
AfterReadAllocates(ptab, addr, n) ==
    LET after[k \in 0 .. n] ==
          IF k = 0 THEN ptab ELSE MEM_TICKLE(after[k - 1], addr + k - 1)
    IN after[n]
AfterRead(ptab, addr, n) ==
    LET after[k \in 0 .. n] ==
          IF k = 0 THEN ptab ELSE mem_translate(after[k - 1], addr + k - 1)
    IN after[n]
AfterWrite(ptab, addr, data) ==
    LET after[k \in 0 .. Len(data)] ==
          IF k = 0 THEN ptab ELSE MEM_WRITE_BYTE(after[k - 1], addr + k - 1, data[k])
    IN after[Len(data)]

IsPowerOfTwo(n) == n \in {1, 2, 4, 8}
Aligned(addr, n) == IsPowerOfTwo(n) /\ addr % n = 0

mem_access_fault(addr, n) ==
    CASE ~IsPowerOfTwo(n) \/ n > MD_PAGE_SIZE -> "access"
      [] IsPowerOfTwo(n) /\ n <= MD_PAGE_SIZE /\ addr % n # 0 -> "alignment"
      [] OTHER -> "none"
=============================================================================
