----------------------------- MODULE SpecState -----------------------------
(***************************************************************************)
(* The state that instructions execute on when sim-outorder.c dispatches   *)
(* them: registers and memory, with a layer of copies for the instructions *)
(* of a wrong path.  While spec_mode is set, registers are copied on write *)
(* and memory goes through a hash table of the addresses written; recovery *)
(* forgets both.  One register stands for all.                             *)
(***************************************************************************)
EXTENDS PagedMemory

CONSTANTS
    STORE_HASH_SIZE,        \* chains of the store table
    Valid,                  \* addresses of data (MD_VALID_ADDR)
    Accesses,               \* addresses and sizes of loads and stores
    Blocks,                 \* addresses and sizes that system calls copy or clear
    Addrs,                  \* all addresses
    MaxEntries              \* bound: entries of the store table that are allocated

ASSUME StateAssumption ==
    /\ STORE_HASH_SIZE \in Nat \ {0} /\ MaxEntries \in Nat
    /\ Addrs \subseteq Nat /\ Valid \subseteq Nat
    /\ Accesses \cup Blocks \subseteq Nat \X Nat
    /\ \A a \in Accesses \cup Blocks : {a[1] + k - 1 : k \in 1 .. a[2]} \subseteq Addrs

VARIABLES
    ptab,                   \* memory
    store_htable,           \* written addresses and their bytes, by hash
    buckets_free, buckets,  \* entries in the free list, and allocated in all
    spec_mode, bugcompat_mode,
    regs_R, spec_regs_R, use_spec_R,
    reply,                  \* what the last step read, with address and size (register: <<>>)
    written,                \* history: speculative stores, address and size
    current                 \* history: what memory would be if all stores were done

vars == <<ptab, store_htable, buckets_free, buckets, spec_mode, bugcompat_mode,
          regs_R, spec_regs_R, use_spec_R, reply, written, current>>
memVars == <<ptab, store_htable, buckets_free, buckets, written, current>>
regVars == <<regs_R, spec_regs_R, use_spec_R>>
modes == <<spec_mode, bugcompat_mode>>

(* HASH_ADDR folds the bytes of the address; small addresses have one.     *)
HASH_ADDR(addr) == addr % STORE_HASH_SIZE

Chain(addr) == store_htable[HASH_ADDR(addr)]
Found(addr) == SelectInSeq(Chain(addr), LAMBDA ent : ent.addr = addr)

Data(n) == [1 .. n -> Bytes]
Reply(addr, data) == reply' = [of |-> <<addr, Len(data)>>, data |-> data]
Nothing == [of |-> <<>>, data |-> <<>>]
NoReply == reply' = Nothing
Stored(mem, addr, data) ==
    [a \in Addrs |-> IF a - addr + 1 \in DOMAIN data THEN data[a - addr + 1] ELSE mem[a]]
BufferSize == 8

Init ==
    /\ ptab = mem_init
    /\ store_htable = [i \in 0 .. STORE_HASH_SIZE - 1 |-> <<>>]
    /\ buckets_free = 0 /\ buckets = 0
    /\ spec_mode = FALSE /\ bugcompat_mode \in BOOLEAN
    /\ regs_R = 0 /\ spec_regs_R = 0 /\ use_spec_R = FALSE
    /\ reply = Nothing
    /\ written = {} /\ current = [a \in Addrs |-> 0]

-----------------------------------------------------------------------------
(* Registers.                                                              *)

GPR == IF use_spec_R THEN spec_regs_R ELSE regs_R

GetGPR == reply' = [of |-> <<>>, data |-> <<GPR>>] /\ UNCHANGED <<memVars, regVars, modes>>

SET_GPR(value) ==
    /\ IF spec_mode THEN /\ spec_regs_R' = value /\ use_spec_R' = TRUE
                         /\ UNCHANGED regs_R
       ELSE regs_R' = value /\ UNCHANGED <<spec_regs_R, use_spec_R>>
    /\ NoReply /\ UNCHANGED <<memVars, modes>>

-----------------------------------------------------------------------------
(* Memory, outside of a wrong path: accesses, and the copies of a system   *)
(* call (mem_bcopy, mem_strcpy and mem_bzero), byte by byte and so across  *)
(* pages.                                                                  *)

Loaded(addr, n) ==
    /\ Reply(addr, ReadBytes(ptab, addr, n))
    /\ ptab' = AfterRead(ptab, addr, n)
    /\ UNCHANGED <<store_htable, buckets_free, buckets, written, current, regVars, modes>>

Wrote(addr, data) ==
    /\ ptab' = AfterWrite(ptab, addr, data)
    /\ current' = Stored(current, addr, data)
    /\ NoReply /\ UNCHANGED <<store_htable, buckets_free, buckets, written, regVars, modes>>

(* An access that is not aligned, or too large, is a fault.                *)
mem_access_Read(addr, n) ==
    ~spec_mode /\ mem_access_fault(addr, n) = "none" /\ Loaded(addr, n)
mem_access_Write(addr, data) ==
    ~spec_mode /\ mem_access_fault(addr, Len(data)) = "none" /\ Wrote(addr, data)

mem_bcopy_Read(addr, n) == ~spec_mode /\ Loaded(addr, n)
mem_bcopy_Write(addr, data) == ~spec_mode /\ Wrote(addr, data)
mem_bzero(addr, n) == ~spec_mode /\ Wrote(addr, [k \in 1 .. n |-> 0])

(* A string ends with its first zero, which is copied too.                 *)
IsString(bytes) == \A k \in DOMAIN bytes : bytes[k] = 0 <=> k = Len(bytes)
mem_strcpy_Read(addr, n) ==
    ~spec_mode /\ IsString(ReadBytes(ptab, addr, n)) /\ Loaded(addr, n)
mem_strcpy_Write(addr, data) == ~spec_mode /\ IsString(data) /\ Wrote(addr, data)

-----------------------------------------------------------------------------
(* spec_mem_access.  Accesses that are not aligned, or not to data, read   *)
(* as zero and write nothing.                                              *)

Permitted(addr, n) == Aligned(addr, n) /\ addr \in Valid

(* The table with the entry for an address, if there is one, in front.     *)
Looked(addr) ==
    IF Found(addr) = 0 THEN store_htable
    ELSE [store_htable EXCEPT ![HASH_ADDR(addr)] = ToFront(@, Found(addr))]

spec_mem_Read(addr, n) ==
    /\ spec_mode
    /\ \/ /\ ~Permitted(addr, n)
          /\ Reply(addr, [k \in 1 .. n |-> 0])
          /\ UNCHANGED <<ptab, store_htable>>
       \/ /\ Permitted(addr, n) /\ Found(addr) # 0
          /\ Reply(addr, SubSeq(Chain(addr)[Found(addr)].data, 1, n))
          /\ store_htable' = Looked(addr)
          /\ UNCHANGED ptab
       \/ /\ Permitted(addr, n) /\ Found(addr) = 0
          /\ Reply(addr, ReadBytes(ptab, addr, n))
          /\ ptab' = AfterRead(ptab, addr, n)
          /\ UNCHANGED store_htable
    /\ UNCHANGED <<buckets_free, buckets, written, current, regVars, modes>>

Overwritten(old, data) ==
    [k \in 1 .. BufferSize |-> IF k <= Len(data) THEN data[k] ELSE old[k]]

(* An entry that is in the table is overwritten from its start.            *)
WriteFound(addr, data) ==
    /\ Found(addr) # 0
    /\ store_htable' = [Looked(addr) EXCEPT ![HASH_ADDR(addr)][1].data = Overwritten(@, data)]
    /\ UNCHANGED <<buckets_free, buckets>>

Taken(free) == IF free = 0 THEN 0 ELSE free - 1

(* Otherwise an entry is taken from the free list, or allocated.  With the *)
(* bug that bugcompat_mode keeps, it is not put into the table.            *)
WriteNew(addr, data) ==
    LET zero == [k \in 1 .. BufferSize |-> 0]
        ent == [addr |-> addr, data |-> Overwritten(zero, data)]
    IN /\ Found(addr) = 0
       /\ buckets_free' = Taken(buckets_free)
       /\ buckets' = IF buckets_free = 0 THEN buckets + 1 ELSE buckets
       /\ buckets' <= MaxEntries
       /\ store_htable' = IF bugcompat_mode THEN store_htable
                          ELSE [store_htable EXCEPT ![HASH_ADDR(addr)] = <<ent>> \o @]

spec_mem_Write(addr, data) ==
    /\ spec_mode /\ Permitted(addr, Len(data))
    /\ WriteFound(addr, data) \/ WriteNew(addr, data)
    /\ written' = written \cup {<<addr, Len(data)>>}
    /\ current' = Stored(current, addr, data)
    /\ NoReply /\ UNCHANGED <<ptab, regVars, modes>>

-----------------------------------------------------------------------------
(* ruu_dispatch meets a misprediction; later tracer_recover forgets the    *)
(* wrong path and returns the entries of the table to the free list.       *)

Mispredict == ~spec_mode /\ spec_mode' = TRUE
              /\ NoReply /\ UNCHANGED <<memVars, regVars, bugcompat_mode>>

Memory == [a \in Addrs |-> MEM_READ_BYTE(ptab, a)]
Entries(table) ==
    LET upto[i \in 0 .. STORE_HASH_SIZE] ==
          IF i = 0 THEN 0 ELSE upto[i - 1] + Len(table[i - 1])
    IN upto[STORE_HASH_SIZE]

\* Mutant: the registers keep the copies of the wrong path.
tracer_recover_memory ==
    /\ spec_mode
    /\ spec_mode' = FALSE
    /\ store_htable' = [i \in DOMAIN store_htable |-> <<>>]
    /\ buckets_free' = buckets_free + Entries(store_htable)
    /\ written' = {} /\ current' = Memory
    /\ NoReply /\ UNCHANGED <<ptab, buckets, bugcompat_mode, regVars>>

\* Mutant: the chains are emptied without returning their entries.
tracer_recover_leaks ==
    /\ spec_mode
    /\ spec_mode' = FALSE
    /\ use_spec_R' = FALSE
    /\ store_htable' = [i \in DOMAIN store_htable |-> <<>>]
    /\ written' = {} /\ current' = Memory
    /\ NoReply /\ UNCHANGED <<ptab, buckets_free, buckets, bugcompat_mode, regs_R, spec_regs_R>>

tracer_recover ==
    /\ spec_mode
    /\ spec_mode' = FALSE
    /\ use_spec_R' = FALSE
    /\ store_htable' = [i \in DOMAIN store_htable |-> <<>>]
    /\ buckets_free' = buckets_free + Entries(store_htable)
    /\ written' = {} /\ current' = Memory
    /\ NoReply /\ UNCHANGED <<ptab, buckets, bugcompat_mode, regs_R, spec_regs_R>>

Next ==
    \/ GetGPR \/ \E value \in Bytes : SET_GPR(value)
    \/ \E a \in Accesses :
         \/ mem_access_Read(a[1], a[2]) \/ spec_mem_Read(a[1], a[2])
         \/ \E data \in Data(a[2]) : mem_access_Write(a[1], data) \/ spec_mem_Write(a[1], data)
    \/ \E b \in Blocks :
         \/ mem_bcopy_Read(b[1], b[2]) \/ mem_strcpy_Read(b[1], b[2])
         \/ mem_bzero(b[1], b[2])
         \/ \E data \in Data(b[2]) : mem_bcopy_Write(b[1], data) \/ mem_strcpy_Write(b[1], data)
    \/ Mispredict \/ tracer_recover

Spec == Init /\ [][Next]_vars
=============================================================================
