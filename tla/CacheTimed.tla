------------------------------ MODULE CacheTimed ------------------------------
(***************************************************************************)
(* The cache hierarchy of sim-outorder: the timing caches of                *)
(* simplesim-3.0/cache.c, a level 1 instruction and a level 1 data cache    *)
(* over one level 2 cache, or a level 1 cache over memory.                  *)
(*                                                                         *)
(* sim-cache flushes the same caches at system calls, without a clock; here *)
(* a flush may meet fills under way.                                        *)
(*                                                                         *)
(* One call of cache_access, with the calls blk_access_fn makes to the      *)
(* next level, is one step.  All times are relative to sim_cycle and 0      *)
(* when they are past: the code uses ready and bus_free only through        *)
(* BOUND_POS and MAX, which do not tell past times apart.                   *)
(***************************************************************************)
EXTENDS CacheLevel

CONSTANT Machines     \* the configurations a simulation may be started with

\* A machine gives its caches ("none" for a level 2 that is not there), the
\* addresses the program reads and writes and those it is fetched from, its
\* operations, and mem_access_latency of a block.  max_backlog bounds the time
\* the last fill may still take when an access begins (model only).
ASSUME MachineAssumption ==
  \A m \in Machines :
    /\ m.addrs \subseteq Nat /\ m.fetches \subseteq Nat /\ m.cmds \subseteq {"Read", "Write"}
    /\ "dl1" \in m.caches /\ m.caches \subseteq {"il1", "dl1", "dl2"}
    /\ m.flushes \subseteq {"cache_flush", "cache_flush_addr"}
    /\ \A c \in m.caches :
         LET g == m.geometry[c] IN
         /\ g.policy \in {"LRU", "FIFO", "Random"} /\ g.hsize \in Nat
         /\ {g.nsets, g.assoc, g.bsize, g.hit_latency} \subseteq Nat \ {0}
         \* "access spans block" (cache.c:519-523) stops the program otherwise
         /\ "dl2" \in m.caches => m.geometry["dl2"].bsize % g.bsize = 0
         \* address 0 would match the cleared last_tagset; no block lies in part in
         \* the first one of another cache, since sizes are powers of two
         /\ \A d \in m.caches, a \in m.addrs \cup m.fetches :
              CACHE_BADDR(g, a) >= m.geometry[d].bsize

ASSUME TimeAssumption == \A m \in Machines : m.max_backlog \in Nat /\ m.mem_lat \in Nat \ {0}

VARIABLES
  machine,   \* the configuration; never changes
  cache,     \* per cache: its sets, last block to hit, and bus_free
  written,   \* the blocks the last step wrote to memory
  asked      \* history: the last call of the data cache

vars == <<machine, cache, written, asked>>

Geometry(c) == machine.geometry[c]

cache_create(g) ==
  [set |-> [s \in 0..(g.nsets - 1) |-> NewSet(g.assoc, g.hsize)],
   last_tagset |-> NoBlock, last_blk |-> NULL, bus_free |-> 0]

NotAsked == [cmd |-> "none"]

Init ==
  /\ machine \in Machines
  /\ cache = [c \in machine.caches |-> cache_create(machine.geometry[c])]
  /\ written = {}
  /\ asked = NotAsked

-----------------------------------------------------------------------------
(* The miss handlers of sim-outorder.  Below the last level is memory, of   *)
(* which the model keeps the blocks written; "FIXME: unlimited write         *)
(* buffers": a write takes no time.                                         *)

dl2_access_fn(cmd, a, mem, t) ==
  {IF cmd = "Read" THEN [lower |-> mem, lat |-> machine.mem_lat]
   ELSE [lower |-> mem \cup {a}, lat |-> 0]}

\* An access to the level 2 cache, which misses go through to memory.
cache_access_dl2(below, cmd, a, t) ==
  cache_access(dl2_access_fn, below.dl2, Geometry("dl2"), below.mem, cmd, a, t)

\* The state below a level 1 cache: the level 2 cache, if any, and memory.
Level2(cmd, a, below, t) ==
  IF "dl2" \notin machine.caches
  THEN {[lower |-> [below EXCEPT !.mem = r.lower], lat |-> r.lat] :
          r \in dl2_access_fn(cmd, a, below.mem, t)}
  ELSE {[lower |-> [dl2 |-> r.cache, mem |-> r.lower], lat |-> r.lat] :
          r \in cache_access_dl2(below, cmd, a, t)}

\* Mutant: a write-back goes into a write buffer that is never emptied.
dl1_access_fn_buffered(cmd, a, below, t) ==
  IF cmd = "Read" THEN Level2(cmd, a, below, t) ELSE {[lower |-> below, lat |-> 0]}

dl1_access_fn(cmd, a, below, t) ==
  {IF cmd = "Read" THEN r ELSE [r EXCEPT !.lat = 0] : r \in Level2(cmd, a, below, t)}

\* "writes to instruction memory not supported": the program panics.
il1_access_fn(cmd, a, below, t) ==
  IF cmd = "Read" THEN Level2(cmd, a, below, t) ELSE {}

Below(mem) == [dl2 |-> IF "dl2" \in machine.caches THEN cache["dl2"] ELSE NULL, mem |-> mem]

\* The caches once level 1 cache c is C and the state below it is below.
With(c, C, below) ==
  [x \in machine.caches |-> IF x = c THEN C ELSE IF x = "dl2" THEN below.dl2 ELSE cache[x]]

-----------------------------------------------------------------------------
(* The steps of the simulator.                                              *)

\* How long the last fill under way and the buses will take.
Backlog ==
  Max(UNION {{cache[c].bus_free} \cup UNION {Range(cache[c].set[s].ready) : s \in DOMAIN cache[c].set}
             : c \in machine.caches})

Returns(c, outcomes) ==
  \E r \in outcomes :
    /\ cache' = With(c, r.cache, r.lower)
    /\ written' = r.lower.mem
    /\ UNCHANGED machine

\* The accesses to the level 1 caches, at the current cycle.
cache_access_dl1(cmd, a) ==
  cache_access(dl1_access_fn, cache["dl1"], Geometry("dl1"), Below({}), cmd, a, 0)
cache_access_il1(a) ==
  cache_access(il1_access_fn, cache["il1"], Geometry("il1"), Below({}), "Read", a, 0)

\* A load or a store of the pipeline.
DataAccess ==
  \E cmd \in machine.cmds, a \in machine.addrs :
    /\ Backlog <= machine.max_backlog
    /\ Returns("dl1", cache_access_dl1(cmd, a))
    /\ asked' = [cmd |-> cmd, addr |-> a]

\* An instruction fetch.
InstFetch ==
  \E a \in machine.fetches :
    /\ "il1" \in machine.caches
    /\ Backlog <= machine.max_backlog
    /\ Returns("il1", cache_access_il1(a))
    /\ UNCHANGED asked

\* The next simulated cycle.
Sooner(n) == BOUND_POS(n - 1)

AllSooner(set) == [set EXCEPT !.ready = [w \in DOMAIN @ |-> Sooner(@[w])]]

Tick ==
  /\ cache' = [c \in machine.caches |->
       [cache[c] EXCEPT !.bus_free = Sooner(@),
                        !.set = [s \in DOMAIN @ |-> AllSooner(@[s])]]]
  /\ written' = {}
  /\ UNCHANGED <<machine, asked>>

\* Blocks written back one after the other; the last outcomes of all of them.
WriteBacks(blks, below, t) ==
  LET after[i \in 0..Len(blks)] ==
        IF i = 0 THEN {[lower |-> below, lat |-> t]}
        ELSE UNION {{[lower |-> r.lower, lat |-> done.lat + r.lat] :
                       r \in dl1_access_fn("Write", blks[i], done.lower, done.lat)}
                    : done \in after[i - 1]}
  IN after[Len(blks)]

\* Every valid dirty block of C, set by set in the order of the way list.
DirtyBlocks(C, g) ==
  LET OfSet(s) ==
        LET set == C.set[s]
            q   == WayList(set)
            met[i \in 0..Len(q)] ==
              IF i = 0 THEN <<>>
              ELSE IF IsDirty(set, q[i])
                   THEN Append(met[i - 1], CACHE_MK_BADDR(g, set.tag[q[i]], s)) ELSE met[i - 1]
        IN met[Len(q)]
      upto[n \in 0..g.nsets] == IF n = 0 THEN <<>> ELSE upto[n - 1] \o OfSet(n - 1)
  IN upto[g.nsets]

Invalidated(C, g) ==
  [C EXCEPT !.last_tagset = NoBlock, !.last_blk = NULL,
            !.set = [s \in DOMAIN @ |->
                       [@[s] EXCEPT !.valid = [w \in 1..g.assoc |-> FALSE]]]]

\* flush_on_syscalls: the data caches are flushed, level 1 first.
cache_flush ==
  /\ "cache_flush" \in machine.flushes
  /\ Backlog <= machine.max_backlog
  /\ LET C == cache["dl1"]
         g == Geometry("dl1")
     IN \E r \in WriteBacks(DirtyBlocks(C, g), Below({}), g.hit_latency) :
          LET D    == r.lower.dl2
              two  == "dl2" \in machine.caches
              rest == IF two THEN Range(DirtyBlocks(D, Geometry("dl2"))) ELSE {}
              low  == IF two THEN [r.lower EXCEPT !.dl2 = Invalidated(D, Geometry("dl2"))]
                      ELSE r.lower
          IN /\ cache' = With("dl1", Invalidated(C, g), low)
             /\ written' = r.lower.mem \cup rest
  /\ asked' = [cmd |-> "cache_flush"]
  /\ UNCHANGED machine

\* Flush the block of one address out of the level 1 data cache.
cache_flush_addr ==
  \E a \in machine.addrs :
    /\ "cache_flush_addr" \in machine.flushes
    /\ Backlog <= machine.max_backlog
    /\ LET C == cache["dl1"]
           g == Geometry("dl1")
           s == CACHE_SET(g, a)
           hits == Lookup(C.set[s], g.hsize, CACHE_TAG(g, a))
           w == CHOOSE x \in hits : TRUE
           flushed == [C EXCEPT
             !.last_tagset = NoBlock, !.last_blk = NULL,
             !.set[s] = update_way_list([@ EXCEPT !.valid[w] = FALSE], w, "Tail")]
           dirty == hits # {} /\ C.set[s].dirty[w]
       IN \E r \in WriteBacks(IF dirty THEN <<CACHE_BADDR(g, a)>> ELSE <<>>, Below({}),
                              g.hit_latency) :
            /\ cache' = With("dl1", IF hits = {} THEN C ELSE flushed, r.lower)
            /\ written' = r.lower.mem
    /\ asked' = [cmd |-> "cache_flush_addr", addr |-> a]
    /\ UNCHANGED machine

Next == DataAccess \/ InstFetch \/ Tick \/ cache_flush \/ cache_flush_addr

Spec == Init /\ [][Next]_vars
=============================================================================
