------------------------- MODULE CacheTimedProperties -------------------------
(***************************************************************************)
(* What the caches of CacheTimed.tla must keep.                             *)
(***************************************************************************)
EXTENDS CacheTimed, FiniteSets

SetsOf(c) == 0..(Geometry(c).nsets - 1)
WaysOf(c) == 1..Geometry(c).assoc
SetOf(c, s) == cache[c].set[s]

\* The address of the block in way w of set s of cache c.
AddressOf(c, s, w) == CACHE_MK_BADDR(Geometry(c), SetOf(c, s).tag[w], s)

\* Every cache keeps its shape.  A block of the instruction cache is never
\* dirty, so that il1_access_fn never panics (sim-outorder.c:499, 507).
TypeOK ==
  /\ machine \in Machines
  /\ written \subseteq Nat
  /\ \/ asked.cmd \in {"none", "cache_flush"}
     \/ asked.cmd \in {"Read", "Write", "cache_flush_addr"} /\ asked.addr \in machine.addrs
  /\ \A c \in machine.caches :
       /\ cache[c].bus_free \in Nat
       /\ cache[c].last_blk \in WaysOf(c) \cup {NULL}
       /\ \A s \in SetsOf(c), w \in WaysOf(c) :
            /\ {SetOf(c, s).way_next[w], SetOf(c, s).way_prev[w],
                SetOf(c, s).hash_next[w]} \subseteq WaysOf(c) \cup {NULL}
            /\ SetOf(c, s).tag[w] \in Nat /\ SetOf(c, s).ready[w] \in Nat
            /\ c = "il1" => ~SetOf(c, s).dirty[w]

\* The way list of every set is one list both ways: from way_head it meets each
\* way once and ends at way_tail, and way_prev leads back.  The assertions of
\* update_way_list (cache.c:201-233) say this of the block it moves.
WayListsSound ==
  \A c \in machine.caches : \A s \in SetsOf(c) :
    LET set == SetOf(c, s)
        q   == WayList(set)
    IN /\ Len(q) = Geometry(c).assoc /\ Range(q) = WaysOf(c)
       /\ q[Len(q)] = set.way_tail
       /\ \A i \in DOMAIN q : set.way_prev[q[i]] = IF i = 1 THEN NULL ELSE q[i - 1]

\* Every block is on the hash chain of its tag, once, valid or not, so that
\* "assert(ent)" of unlink_htab_ent (cache.c:159) holds and a lookup finds it.
OnItsChain ==
  \A c \in machine.caches : Geometry(c).hsize > 0 =>
    \A s \in SetsOf(c), w \in WaysOf(c), i \in 0..(Geometry(c).hsize - 1) :
      LET q == Bucket(SetOf(c, s), i)
      IN Cardinality({j \in DOMAIN q : q[j] = w})
           = IF i = CACHE_HASH(SetOf(c, s).tag[w], Geometry(c).hsize) THEN 1 ELSE 0

\* The caches are well formed.
SetsSound == TypeOK /\ WayListsSound /\ OnItsChain

-----------------------------------------------------------------------------
(* Time.                                                                   *)

WasReplaced(c, s, w) == SetOf(c, s).tag[w] # SetOf(c, s)'.tag[w]

VictimsWaited ==
  \A c \in machine.caches : \A s \in SetsOf(c), w \in WaysOf(c) :
    SetOf(c, s).valid[w] /\ WasReplaced(c, s, w) =>
      /\ SetOf(c, s)'.ready[w] > SetOf(c, s).ready[w]
      /\ SetOf(c, s)'.ready[w] > cache[c].bus_free
      /\ cache'[c].bus_free > cache[c].bus_free

\* "don't replace the block until outstanding misses are satisfied", "stall
\* until the bus to next level of memory is available" (cache.c:604-611): what
\* takes the place of a valid block arrives after that block had arrived and
\* after the transfers the bus had accepted, and the bus is taken in turn.
ReplacementWaits == [][VictimsWaited]_vars

\* Level 2 holds the block in way w of set s of c, and it is there before.
HeldByLevel2(c, s, w) ==
  LET g == Geometry("dl2")
      a == AddressOf(c, s, w)
      t == CACHE_SET(g, a)
  IN \E x \in WaysOf("dl2") :
       /\ SetOf("dl2", t).valid[x] /\ AddressOf("dl2", t, x) = CACHE_BADDR(g, a)
       /\ SetOf("dl2", t).ready[x] <= SetOf(c, s).ready[w]

FillsHeld ==
  \A c \in machine.caches \ {"dl2"} : "dl2" \in machine.caches =>
    \A s \in SetsOf(c), w \in WaysOf(c) : WasReplaced(c, s, w) => HeldByLevel2(c, s, w)'

\* A block enters level 1 no earlier than it is there in level 2, which may be
\* waiting for it itself, and level 2 still holds it when the access is over
\* (write-back first, then the fill: cache.c:613-629).
FilledFromLevel2 == [][FillsHeld]_vars

-----------------------------------------------------------------------------
(* Data.                                                                   *)

DirtyAt(c, a) ==
  \E s \in SetsOf(c), w \in WaysOf(c) :
    IsDirty(SetOf(c, s), w) /\ AddressOf(c, s, w) = CACHE_BADDR(Geometry(c), a)

WritesKept ==
  \A a \in machine.addrs :
    (\E c \in machine.caches : DirtyAt(c, a)) =>
      \/ (\E c \in machine.caches : DirtyAt(c, a))'
      \/ \E c \in machine.caches : CACHE_BADDR(Geometry(c), a) \in written'

\* What the program wrote is in a dirty block until it is written to memory,
\* whichever replacements and flushes move it down (cache.c:613-619, 781-794,
\* 841-855).
NoWriteLost == [][WritesKept]_vars

\* The block of an address in the data cache of machine m, with its set.
DataBlock(m, a) == <<CACHE_BADDR(m.geometry["dl1"], a), CACHE_SET(m.geometry["dl1"], a)>>

\* The sets and blocks of the data caches of all machines.
DataSets == UNION {0..(m.geometry["dl1"].nsets - 1) : m \in Machines}
DataBlocks == UNION {{DataBlock(m, a) : a \in m.addrs} : m \in Machines}

\* The blocks of a set of the data cache in the order of its way list.
DataStack(s) ==
  LET set == SetOf("dl1", s)
      q   == IF s \in SetsOf("dl1") THEN SelectSeq(WayList(set), LAMBDA w : set.valid[w])
             ELSE <<>>
  IN [i \in DOMAIN q |-> <<AddressOf("dl1", s, q[i]), s>>]

\* The last call of the data cache.
DataRequest ==
  CASE asked.cmd \in {"Read", "Write"} -> <<"access", DataBlock(machine, asked.addr)>>
    [] asked.cmd = "cache_flush_addr" -> <<"flush", DataBlock(machine, asked.addr)>>
    [] asked.cmd = "cache_flush" -> <<"flush">>
    [] OTHER -> <<>>

Recency == INSTANCE RecencyStack WITH
  Sets <- DataSets, Blocks <- DataBlocks,
  stack <- [s \in DataSets |-> DataStack(s)], request <- DataRequest,
  capacity <- Geometry("dl1").assoc,
  movesOnHit <- Geometry("dl1").policy = "LRU"

\* Every load, store and flush changes the doubly linked way list, relinked in
\* place with its hash chains, as the recency (or insertion) order the replacement
\* policy is defined by: an LRU hit moves the block that is accessed to the front,
\* and nothing else moves a block (cache.c:567-576, 672-675, 720, 857).
RecencySpec == Recency!SSpec
=============================================================================
