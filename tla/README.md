# Models and proofs for the Advanced-Architecture projects

The repository holds three course projects: a cache simulator with new
replacement policies (`Project1`), a Tomasulo simulator (`Project2`) and branch
prediction experiments on SimpleScalar 3.0 (`Project3`).  This directory holds
TLA+ models of their own logic, TLC configurations that check them on small
instances, and proofs that TLAPS checks for every instance.

## 1. Inventory

### Parts, their state and operations

| Part | Code | State | Operations |
|---|---|---|---|
| Tomasulo simulator | `Project2/main.c`, `tomasulo.c`, `tomasulo.h` | instruction table with four time stamps per instruction, four arrays of reservation stations, eight FP registers, cycle / program / commit counters | `read_inst`; per cycle: decrement timers, `commit`, `writeback` (with `update_RS`, `reset_*`), completion, register marking, `find_idle_*` + `set_idle_*`, start of execution (`check_reg`), `check_finish` |
| Cache | `Project1/cache.c`, `cache.h` | per set a list of blocks (tag, status, ready time, NRU bit, RRPV), hash chains, fast-hit record, PSEL and BIP counters, bus and statistics | `cache_create`, `cache_access`, `cache_probe`, `cache_flush`, `cache_flush_addr` |
| Branch predictor | `Project3/.../bpred.c` | two-bit tables, per-address histories (PAg), chooser, BTB sets with LRU lists, return-address stack | `bpred_lookup`, `bpred_update`, `bpred_recover`, `bpred_after_priming` |
| Out-of-order core | `Project3/.../sim-outorder.c` | RUU and LSQ rings, event queue, ready queue, fetch queue, create vectors, speculative state | `ruu_fetch`, `ruu_dispatch`, `ruu_issue`, `lsq_refresh`, `ruu_writeback`, `ruu_recover`, `ruu_commit` |
| Functional units | `Project3/.../resource.c` | per unit a busy counter | `res_get` |
| Original cache | `Project3/.../cache.c` | as above, LRU, FIFO and Random only | `cache_access`, `cache_flush`, `cache_flush_addr`, and the miss handlers of `sim-outorder.c` that connect the levels |
| Timed event queue | `Project3/.../eventq.c` | a list of events in time order | no simulator calls it |
| Memory | `Project3/.../memory.c` | a hashed page table | `mem_translate`, `mem_newpage`, `mem_access` |
| SimpleScalar infrastructure | loader, syscall, options, stats, eval, dlite, symbol, range, eio, ptrace, misc, other simulators | | parsing, printing, I/O |

What makes each of them correct:

| Part | Properties |
|---|---|
| Tomasulo simulator | data dependences are respected; the columns it prints are in order; stations and instructions correspond; nothing waits for what will not come; it ends |
| Cache | its client sees a memory; it never holds two copies of a block; the way list is the order its policy needs; a search for a victim ends; counters keep their width |
| Branch predictor | an update trains the entries its lookup used; counters saturate; a BTB set's LRU list holds each entry once; after a recovery the return-address stack is what it was at the branch |
| Out-of-order core | commits in program order the instructions of the correct path and no others; no stale event or ready-queue entry acts on a reused station; every operand that is waited for is produced; loads see earlier stores; a wrong path leaves registers and memory as they were; every program ends |
| Functional units | a unit is given to one operation at a time, for as long as it occupies it |
| Original cache | the lists of a set stay linked; a block is replaced only after its fill and when the bus is free; dirty data moves down and is never dropped |
| Memory | a page belongs to one chain and keeps what was stored; a read of an untouched page is zero |

### How they interact

The three projects do not link to each other.  The Tomasulo simulator is one
program.  `Project1/cache.c` replaces SimpleScalar's `cache.c` and is called by
`sim-cache` (one access per memory reference, a miss handler calls the next
level).  `bpred.c` is called by `sim-bpred`, one lookup followed by one update
per branch, and by `sim-outorder`, which looks up at fetch, updates at dispatch,
writeback or commit, and recovers the return-address stack after a
misprediction, so that lookups and updates of different branches interleave.
`sim-outorder` executes instructions when it dispatches them, on wrong paths on
speculative copies of registers and memory, and then follows them through a
timing model, whose loads, stores and fetches go to two level 1 caches over one
level 2 cache.

### What is hard

Everything is single-threaded C; the difficulty is in orders of steps over many
cycles: passes over stations that read what earlier passes wrote, results that
wake up consumers by register name, waiting that may form cycles, counters that
saturate or wrap, lists that are reordered in place, and predictor state that
changes between a lookup and the update that belongs to it.  `PROJECT.json`
lists each hazard at its line.

## 2. Tomasulo simulator

`Tomasulo.tla` models `main()` and every function of `tomasulo.c` that changes
state.  Each pass of the main loop is one action and `phase` names the pass that
runs next, so the order of the passes is part of the model.

| Action | Code |
|---|---|
| `ReadInst(line)`, `ReadEnd` | `read_inst`, tomasulo.c:14-61 |
| `Tick` | `cycle_counter++` and the four decrement loops, main.c:36-58 |
| `Commit` | `commit`, tomasulo.c:462-485 |
| `Writeback` | `writeback`, `update_RS`, `reset_RS`, `reset_RS_LS`, `reset_REG`, tomasulo.c:418-541 |
| `Complete` | main.c:63-87 |
| `Refresh` | "Check register depedency", main.c:88-120 |
| `Issue` | `find_idle_*`, `set_idle_*`, main.c:121-164 |
| `Start` | "Check ready or not", `check_reg`, `check_finish`, main.c:165-201 |

The four station arrays are one set of numbers in the order the passes visit
them.  A station's copies of its instruction's fields are read through
`inst_ptr`; `Vj`/`Vk` are the complement of `Qj`/`Qk`; the `valid` and
`inst_ptr` fields of a register are only ever written and are left out.  Both
`set_idle_add` and `set_idle_mult` are the action `set_idle_alu`: they differ in
the station class and the latency only.

`TomasuloProperties.tla` states the properties; `OutOfOrderCore.tla` is the
abstract machine (issue and commit in program order, completion in any order,
limited stations, results written back together) that the simulator implements
under the mapping `Core`, which reads the stage of an instruction off its time
stamps.

| Run | Question |
|---|---|
| `tomasulo_safety` | all programs of at most four lines: types, `StationOwnership`, `NoLostWakeup`, `Timestamps`, `CommitIndexInTable`, `RightWhenRenamed`, `WedgedOnlyByStore`; the simulator implements `OutOfOrderCore` (`CoreSpec`); the table is printed unless the machine wedges on a store (`FinishesOrWedges`) |
| `tomasulo_wedge` | finding: the main loop may never end |

*Bounds.*  Nine lines on registers F0 and F2 (with F4, F6, F8 as sources that are
never written) give every mix of read-after-write, write-after-read and
write-after-write dependences between loads, stores and operations of short and
long latency; four lines are enough for an instruction with two producers, a
younger writer and a store between them.  One load, one store, two adders and
one multiplier make every class but the adders fill up.  Latencies are scaled
down (2/2/2/4/6 instead of 2/2/2/10/40); their order is kept.  `MaxCycle` only
stops programs that wedge: `FinishesOrWedges` fails if it stopped another one.
Because wedged programs stop at that bound, and finished ones stop, these runs
do not check deadlock.  The run that ends in a finding needs three lines.

*Fairness.*  Weak fairness of `ReadEnd` and of the passes: the program is one
thread and nothing in it blocks; the trace file is finite.

*What the runs show.*  With distinct destination registers all dependences hold
and the final registers are right.  With reused destinations they are not:
a source names a register, not its producer, and the first writer to finish
wakes the reader (`SourcesWritten` alone fails, without the hypothesis `Renamed`), and an arithmetic instruction
whose sources are ready starts when it issues, without `check_reg`
(tomasulo.c:212), so that it may overtake an older writer of its destination
(`LastWriterWins` alone fails).  A store that waits for a
younger writer of its register, which waits for the commit of an older
instruction behind that store, stops the machine for ever (`tomasulo_wedge`);
`WedgedOnlyByStore` says that this is the only way it can stop.

## 3. Cache

`Cache.tla` models one cache of `Project1/cache.c`.  A call of an operation is
one step: the program is sequential and the only callback, the miss handler, is
the next level, which the model represents by the function `memory`.

| Definition | Code |
|---|---|
| `Init`, `set_type` | `cache_create`, cache.c:318-437 |
| `FastHit` | the `last_tagset` shortcut and "**FAST HIT**", cache.c:568-573, 844-872 |
| `SlowHit`, `Touch` | lookup in the way list or hash chain and "**HIT**", cache.c:575-594, 800-842 |
| `Miss`, `Replace*`, `WrittenBack` | "**MISS**": victim, write-back, refill, cache.c:596-797 |
| `AtHead`, `AtTail` | `update_way_list`, cache.c:204-270 |
| `cache_probe` | cache.c:878-911 |
| `cache_flush`, `cache_flush_addr` | cache.c:914-1003 |

A block address is a pair of tag and set, so that address arithmetic is left
out; the way list of a set is the rank of each way; both lookups (list and hash
chain) find a block by tag and valid bit and are one definition.  `policy` is a
variable that `Init` sets and nothing changes: the runs that compare policies
need one state space only.

`VictimChoice.tla` says in closed form which way the searches of NRU and DRRIP
choose; `VictimLoop.tla` runs the loops of the code one iteration per step, with
the cursor that is set to the head and then advanced past it, and is checked to
agree with the closed form.  `CoherentMemory.tla` (a memory with words) and
`RecencyStack.tla` (a bounded stack of blocks per set: LRU, or FIFO when a hit
does not move its block) are the abstract specifications that `CacheProperties`
shows the cache to implement as `MemorySpec` and `StackSpec`.  In both, every
request is visible: `call`, a history variable of `Cache`, is the last call with
its command, its block, its word and the word that was read or written, and both
specifications have a variable for it.  A read may then answer only for the word
and block that were asked for, a write cannot be dropped, and a hit that should
move its block has to move that block; a step that leaves the request and
everything else as they are is the same call once more, after which the memory
and the stack are as they were.

| Run | Instance | Question |
|---|---|---|
| `cache_memory` | one set, two ways, three blocks of two words, random replacement, both flushes | `Coherent` (`OneCopy`, `CleanIsInMemory`, `FastHitIsHit`), `MemorySpec` |
| `cache_stack` | one set, four ways, five blocks, LRU and FIFO, both flushes | `StackSpec` |
| `cache_drrip` | an SRRIP set, a BRRIP set and a follower of two ways, five policies | `TypeOK`, `FastHitNeedsNoUpdate`, `VictimExists` |
| `cache_search` | the search loops from every setting of four ways | `ChoosesAsStated`, `SearchEnds` |
| `cache_bounds` | an SRRIP set and a BRRIP set under DRRIP; finding: the RRPV of a head and `PSEL` exceed `RRPV_MAX` and `PSEL_MAX` | `CountersWithinBounds` |

*Bounds.*  Sets of a cache share nothing but the last hit, `PSEL` and `BIPCTR`,
so data properties need one set, with one block more than ways to evict from it.
Random replacement makes every choice any policy can make, and is therefore the
policy under which coherence is checked.  Order properties use four ways, where
head, tail and two middle places differ.  The counters are scaled to one or two
bits.  Words and values are only copied, which makes permuting them a symmetry;
it is used for `cache_memory`, which checks no liveness.  `call` would multiply the
states; `cache_memory` and `cache_stack` compare states without it (`VIEW
WithoutCall`).  No step reads `call`, so two states that differ in it alone have
the same successors, and TLC compares every step it generates with the abstract
specification, also one whose target it has seen; the step's request is the `call`
of that target, which the step alone determines.  `MaxRRPV` stops the
RRPV of a head that grows without bound; it leaves room for several increments
above `RRPV_MAX`.  The runs in which that bound
can bite (every run with DRRIP) do not check deadlock, nor does `cache_search`,
whose loops end; `cache_memory` and `cache_stack` do.  The only fairness is that
of `VictimLoop`: a loop that can go on does.

*Conditions on use*, stated as assumptions where the constants are declared: set
and way numbers are powers of two (`cache_create` refuses others); DRRIP has at
least `BIPCTR_MAX + 1` sets (`cache_create` would divide by zero); NRU and DRRIP
have two ways (with one, a failed search leaves `repl` uninitialised); the
program never uses block 0, whose address equals the cleared `last_tagset`.

*What the runs show.*  The RRPV of the head can exceed its bound because the
cursor restarts at `way_head` and the loop increment steps past it: such a block
cannot be evicted until it is hit.  `PSEL` is incremented also at `PSEL_MAX`
(cache.c:654) and saturates at `PSEL_MAX + 1`, which takes one bit more than
`PSEL_LENGTH`.  Both bounds are those of cache.c:68-71; `cache_bounds` asks that at
least one of them be kept, so that its trace ends where neither is.  The number of dedicated sets follows from
`BIPCTR_LENGTH`, not from the 32 of the comment (cache.c:371-376): with 32 sets
every set is an SRRIP set, and with a BIPCTR of 7 bits 128 sets are dedicated to
each policy.  Nevertheless a victim is always found as
long as blocks are not flushed one by one.  After `cache_flush_addr`, which
moves ways within the list, several blocks can overshoot and `VictimExists`
fails: the search would not end.  No simulator of the repository calls
`cache_flush_addr`; the run and the theorem exclude it.

The step function of this model was also compared with the compiled `cache.c`
on random call sequences under all five policies (way order, status bits, NRU
bits, RRPVs, counters, block contents, next level and returned words after every
call), with the counter lengths scaled as in the runs.

## 4. Out-of-order core

`Pipeline.tla` models the main loop of `sim-outorder.c`.  The stages of a cycle
run in the order of `sim_main`, from commit back to fetch, and one iteration of
the loop of a stage is one step; `stage` and `count` say where the program is.

| Action | Code |
|---|---|
| `ruu_commit` | sim-outorder.c:2133-2274, one station (with its access) retires |
| `ruu_release_fu` | in the step that ends commit, 1792-1803 |
| `ruu_writeback`, `ruu_writeback_done` | 2381-2517, the next event that is due; recovery (`Squash`, `Recovered`) is part of the step |
| `lsq_refresh` | 2530-2596 |
| `ruu_issue`, `ruu_issue_done` | 2611-2845, one link of the ready queue; then the rest is put back |
| `ruu_dispatch`, `ruu_dispatch_exit`, `ruu_dispatch_done` | 3701-4135, one fetched instruction |
| `ruu_fetch`, `ruu_fetch_miss`, `ruu_fetch_done` | 4201-4340, one fetched instruction, or a miss |

`Stations.tla` holds the data structures: a station with its tag, the links of
the output chains, the event and the ready queue with their orders, the
creation vectors and `ruu_link_idep` / `ruu_install_odep`.  A link carries the
tag its station had, and a stale link is recognised as in the code
(`RSLINK_VALID`).  `ProgramText.tla` is the program that is simulated.  An
instruction is executed when it is dispatched, as in the code; the model keeps
only what the timing depends on: its operands, its unit, its address, and where
it goes next, which is chosen freely.  The predictor's answers, the latencies of
the caches and the TLBs, and which fetches miss are chosen freely too: sections
6 and 7 model these parts.  The predictor may answer any address of the text, and
also 1, "taken" without a target (bpred.c:660, 666-667), which like every address
outside of the text is `Bogus`: there fetch takes `MD_NOP_INST`
(sim-outorder.c:4264-4269).  Whether that takes a station depends on the target.  On
PISA its word is the no-op of the decoder, `MD_NOP_OP`; on Alpha, for which the
experiments were compiled, it adds the zero register to itself (alpha.c:75), which
decodes to an addition like any other (`ZeroAdd`).  It is a constant: the run takes
`ZeroAdd`, the proofs hold for both (`BogusAssumption`).  `res_get` of `resource.c` is `res_get` in
`Pipeline`; the busy counters are `busy`.

`SequentialMachine.tla` is the abstract specification: one instruction after
the other, NOPs (which get no station) unseen.  `InProgramOrder` maps the
oldest instruction that has not retired to its program counter.

| Run | Instance | Question |
|---|---|---|
| `core` | eight programs, some also with a cold instruction cache, in-order issue, no issue on wrong paths, `bugcompat_mode` or perfect prediction; four RUU and three LSQ stations, three units, widths of two | `TypeOK`, `RingsInStep`, `OperandsAwaited`, `CreatorsAreLatest`, `ScheduledOnce` (with `EventsInOrder`), `LinksConserved`, `LoadsAfterStores`, `SpeculationContained`, `InProgramOrder`, `Exits` |

*Bounds.*  The programs are the smallest that reach the cases of the stages:
forwarding, a hidden store, a store whose address is late, a branch whose wrong
path writes what the right one reads, a squash that leaves a live link to a
station that is reused, branches on a wrong path, calls and indirect jumps, and
a system call that drains the machine.  Both rings wrap around, and both fill
up.  Latencies of 1 and 5 let operations complete in any order.  All addresses
outside of the text are one address.  `MAX_RS_LINKS` is the size of the pool,
20 here; `LinksConserved` shows that none is lost and that it is never exhausted.

*Fairness.*  `WF_vars(Next)`: `sim_main` is a loop of one thread that nothing
blocks.  Nothing is assumed of the free choices; every program here exits on
all of its paths.  The run checks deadlock: an exited program stutters.

*What the run shows.*  The simulated core is sound under squashes and reuse of
stations.  One thing is less than the code intends: `lsq_refresh` hides the
address of a store without data by overwriting it with 0 (sim-outorder.c:2569),
so that a load of address 0 is then held back without need; it is late, not
wrong.

## 5. Speculative state and simulated memory

`PagedMemory.tla` is the page table of `memory.c`: chains that move what they
find to the front, pages that are allocated by the first write, reads of pages
that are not there (zero), and the checks of `mem_access`.  `SpecState.tla` is
what instructions execute on: registers and memory, with the copies of a wrong
path (`use_spec_R`, the store table `store_htable` of `spec_mem_access`), which
`tracer_recover` forgets.  One register stands for all, since the bit maps treat
them alike.  A load or a store is one step; so is a block copy of a system call.

`CheckpointedState.tla` is the abstract specification, a register and a memory
with a checkpoint to which they return; `IsCheckpointed` maps the page table and
the layers to it.  A load of a wrong path is exact unless it overlaps a store of
that path with another address or size, which the code says it does not combine
(sim-outorder.c:3051-3052), and unless `bugcompat_mode` is set, which loses the
entries it allocates.

| Run | Instance | Question |
|---|---|---|
| `spec_state` | two pages of two bytes in one chain, three addresses that share two chains of the store table, accesses that span, overlap and are not aligned | `TablesSound` (`TypeOK`, `OneEntry`, `EntriesConserved`), `WrongPathLeavesMemory`, `IsCheckpointed` |

*Bounds.*  `MaxEntries` bounds the entries of the store table, 2 here: one more
than a chain of one.  Bytes are bits: they are only copied.  Host faults of a
non-speculative access end the program and are not steps.

## 6. Branch predictor

`Bpred.tla` models `bpred.c` with all classes of predictor, driven as
`sim-outorder.c` drives it.  A branch is looked up by `ruu_fetch`, goes through
`ruu_dispatch`, `ruu_writeback` and `ruu_commit`, and trains the predictor at
the stage the option `-bpred:spec_update` names; other branches are looked up
and train in between.  A mispredicted branch squashes the younger ones and
recovers the return-address stack.  Any branch may follow any other, with any of
its outcomes.  `dir_update`, which carries the counters a lookup has consulted
to the update, is kept with the branch as pointers into the tables.

`RecentBranches.tla` is the abstract BTB: in every set the branches taken last, in
order (`TakenLast`).  Its variable `taken` is the branch that is taken and trains,
with its set, which `entered`, a history variable of `Bpred`, gives it: it is this
branch that must come to the front, and no other may move.  A branch that is taken
twice in a row leaves its set as it is, which is then what the abstract step does.  `top`, `callers`, `disturbed` and `lost_path` are history: the
return-address stack as the right path alone would have made it.

| Run | Instance | Question |
|---|---|---|
| `bpred` | 12 predictors with tables of one or two entries, each with the branches that reach one of its parts, up to three in flight | `TablesSound` (`TypeOK`, `LinkedWays`), `TOSRecovered`, `ReturnsToCaller`, `TakenLast`, `RightPathTrains` |
| `bpred_width` | the same | finding: `TwoBitCounters` |

*Bounds.*  `max_flight` bounds the branches in flight; three are a branch, one
on its wrong path and one that remains when the first recovers.  A BTB set of
four ways has head, tail and two middle places, a return-address stack of two
entries wraps around.

*What the runs show.*  The width of a counter (two bits for the GAg component,
three for the PAg one) is decided by the chooser's value at the time of the
update, which may have changed since the lookup, so that a two-bit counter
reaches 7 (`bpred_width`).  Met while translating, and modelled as they are:
the prediction that is returned takes a three-bit PAg counter as taken from 2 on
(bpred.c:666, 672), while the chooser's and `bpred_update`'s midpoint is 4;
`xor` makes the history alone the index (bpred.c:489); `bpred_recover` restores
the stack as it was before the mispredicted branch, also when that branch is a
call or a return, whose own push or pop is then undone; a direct jump that
redirects fetch at dispatch recovers no push or pop of the instructions it
drops; the static predictor "taken" returns a target of 0 or 1, never an
address; and with training at write-back wrong paths train.

## 7. The timing caches

`CacheSets.tla` has the sets of `simplesim-3.0/cache.c` as the code links them:
`way_next`, `way_prev`, `hash_next` and the heads, relinked in place by
`update_way_list`, `link_htab_ent` and `unlink_htab_ent`. The code of these
functions is the same in `Project1/cache.c`. `CacheLevel.tla` is `cache_access`
with its latency: a hit on a block that is still on its way, the wait for a
victim's own fill, the bus, write-back and refill. Its parameter
`blk_access_fn` is the miss handler, the member of the same name in the code;
`cache_access_dl2`, `cache_access_dl1` and `cache_access_il1` are its uses, one
for each cache. `CacheTimed.tla` connects two level 1 caches, a level 2 cache
and memory through the handlers of `sim-outorder.c`, and has the accesses of
the pipeline, the clock and the flush functions as actions. An access with all
it causes in lower levels is one step, as it is one call in the code.

| Run | Instance | Question |
|---|---|---|
| `timed` | two level 1 caches (one and two ways) over a hashed level 2 cache with blocks of twice the size, flushed as at system calls; and a three-way cache over memory, given four blocks, with flushes of single blocks | `SetsSound` (`TypeOK`, `WayListsSound`, `OnItsChain`), `ReplacementWaits`, `FilledFromLevel2`, `NoWriteLost`, `RecencySpec` |

`RecencySpec` is `StackSpec` of section 3 for the data cache, through
`RecencyStack` with the requests of this cache: `asked` is the last load, store
or flush of it.  The other two caches run the same `cache_access`.

*Bounds.*  Times are relative to the current cycle, and past times are 0, which
is exact because the code uses them through `BOUND_POS` and `MAX` only.
`max_backlog` bounds the time fills and buses are ahead when an access begins: 1
is enough for a hit and for a replacement of a block that is on its way, in
either level, since the latencies of memory exceed it.  Two ways and three
blocks of data over one level 2 set make dirty evictions cascade; three ways have
a middle for the list.  Data is what is dirty, not bytes: `sim-outorder` keeps
no contents in its caches.

*Conditions on use.*  No access to block 0, whose address equals the cleared
`last_tagset` (as in section 3): the fast path would go through a null pointer.
Level 2 is asked for the blocks of level 1, and so no block of these begins within
block 0 of level 2 (`MachineAssumption`): with sizes that are powers of two this
follows from the first, and programs are loaded far above.  A block of level 2 is
made of whole blocks of level 1, since `cache_access` stops the program with
"access spans block" (cache.c:519-523) when it is asked for more.

*Met while translating*, and modelled as they are: a fill into an invalid way
neither waits for nor takes the bus; a write-back and the fill that caused it
share one bus cycle; a flush forgets fills that are under way; and an access to
level 2 at a later time changes level 2 at once.

## 8. Proofs

All theorems hold for every value of the constants that satisfies the named
assumptions.  `ProofFacts.tla` holds the facts that several proofs use, about
least and greatest elements, loops over the naturals, and sequences from which an
element is taken out; the first part of `PipelineProofs.tla` says what the operators
of `Stations.tla` do to the lists of links, one lemma per operator.

| Theorem | Statement |
|---|---|
| `TomasuloProofs!Invariance`, `TypeCorrect`, `Ownership`, `CommitInBounds` | `Spec => []IInv`, `[]TypeOK`, `[]StationOwnership`, `[]CommitIndexInTable` |
| `TomasuloProofs!StampsInOrder`, `WakeupsArrive`, `OnlyStoresWedge` | `Spec => []Timestamps`, `[]NoLostWakeup`, `[]WedgedOnlyByStore` |
| `TomasuloProofs!RenamedProgramsAreRight` | `Spec => []RightWhenRenamed` |
| `TomasuloProofs!ImplementsCore` | the simulator implements `OutOfOrderCore`: `Spec => CoreSpec` |
| `PipelineProofs!Invariant`, `CoreTypesKept`, `RingsKeptInStep` | `Spec => []IInv`, `[]TypeOK`, `[]RingsInStep` |
| `DataflowProofs!EachScheduledOnce`, `SpeculationIsContained` | `Spec => []ScheduledOnce`, `[]SpeculationContained` |
| `PipelineProofs!RetiresInProgramOrder` | the core implements `SequentialMachine`: `Spec => InProgramOrder` |
| `DataflowProofs!DataflowInvariant` | `Spec => [](IInv /\ RegistersInv /\ AccessesInv /\ LinksKept)` |
| `DataflowProofs!OperandsWaited`, `CreatorsNamed` | `Spec => []OperandsAwaited`, `[]CreatorsAreLatest` |
| `DataflowProofs!LoadsFollowStores` | `Spec => []LoadsAfterStores` |
| `DataflowProofs!LinksNeverLost` | `Spec => []LinksAccounted`: `LinksConserved` but for the size of the pool |
| `SpecStateProofs!Tables`, `TablesAreSound` | `Spec => []TablesInv`, `[]TablesSound` |
| `SpecStateProofs!WrongPathIsHarmless` | `Spec => WrongPathLeavesMemory` |
| `SpecStateProofs!PathIsKnown` | `Spec => []PathInv` |
| `SpecStateProofs!ImplementsCheckpoint` | the two layers implement `CheckpointedState`: `Spec => IsCheckpointed` |
| `BpredProofs!WrongPathsDoNotTrain` | `Spec => RightPathTrains` |
| `BpredProofs!TopRecovered`, `CallersReturnedTo` | `Spec => []TOSRecovered`, `[]ReturnsToCaller` |
| `BpredProofs!Tables`, `TablesAreSound` | `Spec => []TablesInv`, `[]TablesSound` |
| `BpredProofs!RemembersTaken` | the BTB implements `RecentBranches`: `Spec => TakenLast` |
| `CacheProofs!CoherenceInvariance`, `Coherence` | `Spec => []Coherent`, that is `OneCopy /\ CleanIsInMemory /\ FastHitIsHit` |
| `CacheProofs!IsMemory` | the cache implements a memory: `Spec => MemorySpec` |
| `CacheProofs!CacheTypes` | `Spec => []TypeOK` |
| `CacheProofs!WayLists` | `Spec => [](WayListIsOrder /\ FastHitNeedsNoUpdate)` |
| `CacheProofs!IsRecencyStack` | under LRU and FIFO: `Spec => StackSpec` |
| `CacheTimedProofs!SearchFindsVictim` | of `VictimLoop`: `SearchSpec => []ChoosesAsStated` |
| `CacheTimedProofs!CachesInvariance`, `SetsAreSound` | of `CacheTimed`: `Spec => []CachesInvariant`, `[]SetsSound` |
| `CacheTimedProofs!VictimsWait`, `FillsComeFromLevel2`, `WritesAreKept` | `Spec => ReplacementWaits`, `FilledFromLevel2`, `NoWriteLost` |
| `CacheProofs!SearchTerminates` | without `cache_flush_addr`: `Spec => [](OnlyHeadOvershoots /\ VictimExists)` |

*Tomasulo* (assumptions `StationsAssumption`, `CyclesAssumption`,
`SizeAssumption`, `LinesAssumption`).  `StationOwnership` is not inductive: that
the instruction to issue has no station yet follows only from the meaning of the
two counters (`Bookkeeping`: instruction i is issued iff it is below
`program_counter`, committed iff below `commit_count`), that its class is known
from `Decoded`, that a station which completes has a running timer from `Timers`,
and that `commit` stays in the table from `CommitInRange`, which relates it to
the phase in which the loop tests for the end.  `IInv` is their conjunction; one
lemma per pass shows that it is preserved.

*Tomasulo, order.*  Each of these invariants stands on `IInv`.  `TimeInv` adds to
`Timestamps` that a stamp is never in the future, and in the past from the tick
to the pass that writes its column (`StampsPast`: two events of an instruction
cannot fall into one cycle because the passes run from the last stage to the
first), and that the cycles a station has left account for the latency of its
instruction (`TimersKept`).  `WaitInv` adds to `NoLostWakeup` that a station
still waiting at the tick has been passed over for a reason (`NoneToStart`).  In
a wedged machine the instruction at the head of the commit order, all of whose
predecessors have committed, could issue if it has no station (none of its class
is in use by an older one) and start if it has one and is no store (a producer it
waits for would be an older instruction in flight): it is a store.

*Tomasulo, data.*  Where no destination is reused, a mark stays on a register as
long as its only writer is in flight (`WritersMark`), and a source field of a
waiting station is empty only if all earlier writers of the register have
broadcast (`SourcesTracked`); a value that has been broadcast stays
(`ValuesKept`).  The same steps fail without `Renamed`, where the first writer to
finish clears the mark of the other.

*Tomasulo, refinement.*  `ImplementsCore` maps every pass to the step of
`OutOfOrderCore` of the same name, or to none when it finds nothing to do.  That
a step of the simulator has room in the class of stations is an argument about
sizes: the instructions in flight of a class map injectively to its busy
stations, so that an idle one means fewer than the capacity.  `MapInv` holds what
the mapping needs beyond the other invariants.

*Out-of-order core* (`SizesAssumption`, `WidthsAssumption`, `SetupsAssumption`:
what the decoder makes of a program, `UnitsAssumption`: an operation takes its
unit at least one cycle, `LinksAssumption`: the pool of links is not empty,
`BogusAssumption`: what lies outside of the text writes no register).  `IInv` is the conjunction
of six parts, each about one hazard, and none inductive alone:

* `CoreTypes`, `RingTypes` and `FetchInv`: the types, and that head, tail and
  count of the three rings agree modulo their sizes.  `FetchInv` also says that
  each fetched instruction leads to the next one in the queue, unless it is a
  control instruction.
* `LinksInv`: a good link (`RSLINK_VALID`) refers to a station in flight; the
  ready queue, what issue still visits and the event queue have one for exactly
  the stations that are `queued`, or `issued` and not `completed`; the operand of
  a good link in an output chain still waits; and no station is ahead of its
  operands (`Progress`).  A squash and a completion only grow tags, which is why
  stale links may stay where they are.
* `EventsInOrder`: the events are sorted, so that those that are due are a prefix
  and the next one is the oldest of them.
* `Structure`: both rings are in the order of `seq`; a computation of an address
  and its access have subsequent numbers, which pairs the two rings from either
  end (`Pairs`), so that commit and recovery take as many stations from the one
  as from the other; at most one station recovers, and what is younger is
  speculative (`Contained`); and the path (`Flow`): a station goes where its
  program may go, and only NOPs lie between where it leads and the next station
  of the right path, or what is dispatched next.

`Flow` says nothing of the first station of a wrong path: its predecessor is the
branch that recovers, and the recovery that drops it makes `recover_PC`, which is
the branch's own next address, what is dispatched next.  One lemma per action
shows that it keeps each part and either retires what is oldest or leaves
`OldestPC` alone, which is the refinement: a commit is a `Retire` of
`SequentialMachine`, a dispatched NOP in an empty core too, and the exit, which is
dispatched only when the RUU is empty, an `Exit`.

*Out-of-order core, values* (`DataflowProofs`, on top of `IInv`).  `RegistersInv`
says what the links stand for.  `Awaiting`: an operand is ready exactly if no
station in flight is its `Provider`, the youngest of those older than its own
that write its register, not yet completed, and otherwise the provider's output
chain, and no other, has a good link to it.  `Creating`: both creation vectors
name the latest writer that is not complete, of the stations that survive a
recovery and of all.  `Outputs`: only the first of the two chains is used, a
store has none (`SetupsAssumption` demands that a store writes no register,
where `ruu_issue` panics with "store creates result"), and a chain is empty once
its station has no value to give.  None of these is inductive alone: a
dispatched operand is linked to what the creation vector names, so `Awaiting`
needs `Creating`; a completion empties a chain and wakes exactly what `Awaiting`
says waits for it; a recovery drops the youngest stations, which provide nothing
to those that stay, and falls back on the first vector, which never named them.
`ScheduledOnce` tells a good link from a stale one to the same station.

*Out-of-order core, loads.*  `AccessesInv` says that a load that is scheduled
is `Served`: each older store knows its address, and one to its address that
lacks data is hidden by a later one.  Only `lsq_refresh` schedules loads.  Its
scan is a loop that stops at the first store without address and keeps a table
of the addresses whose data is missing; the loop invariant `Scanned` says that
the table holds the address of each store that blocks a load at the current
place, and `LoopStates` carries it through the queue.

*Out-of-order core, links.*  `LinksKept` says that what the lists hold, `HeldNow`
for the pool, the ready queue and the chains, adds up with the event queue and the
issue in progress to the size of the pool.  A helper that only hands links on holds
as many as before, which is one lemma each for the wake-up, the refresh, the install
and what issue puts back (`WokenHolds`, `RefreshedHolds`, `InstallHolds`,
`AllPutBackHolds`); a squash and a completion free exactly the chains they empty
(`EmptiedCounted`), counted as places (`ChainPlaces`).  An operand takes one link
from the pool and puts it in one chain (`LinkIdepHolds`), and an issue moves the
visited link to the event queue, puts it back, or frees it.  That a station without
a value to give has an empty chain is `Outputs` of `RegistersInv`.

*Speculative state* (`MemoryAssumption`: a page and the page table have a size, and
zero is a byte; `StateAssumption`: addresses are naturals, and the accesses lie in
the addresses under study).  `TablesInv` says that every chain of the page table
(`SoundPages`) and of the store table (`SoundStores`) holds only what belongs in it,
once; that the entries which are not in the table are free (`Counted`); and that
outside a wrong path the table is empty and the speculative registers unused
(`Modes`).  A move to the front puts the places of a chain in another order and drops
none (`Reordered`), so that every address keeps its byte (`SameBytes`) or its entry
(`SameData`): a load moves pages and changes no memory.  An access of several bytes
is a loop over them; `LoopStates` carries what holds for the bytes so far through
it.  `PathInv` relates the tables to what the wrong path has stored: a byte that
differs from memory is `Explained` by a store, an entry is `Caused` by one, and a
store that overlaps no other is `Kept`, with its latest bytes, unless
`bugcompat_mode` is set.  The refinement maps each instruction to the step of
`CheckpointedState` of its kind: a load whose only overlapping store is one of
the same address and size finds its entry, by `Kept`; one that overlaps none finds no
entry, by `Caused`, and reads memory, which is right by `Explained`.  Recovery
returns to a memory that the wrong path has not changed.

*Branch predictor* (`ConfigsAssumption`: what a predictor is).  `PathInv` says
that whatever is on a wrong path, in flight or still to be fetched, is there because
of an older misprediction that nobody has dealt with (`WrongHasCause`,
`LostHasCause`), that branches are dispatched in order, and that `spec_mode` is
set exactly as long as one dispatched branch, and only one, will be recovered
from (`OneRecovers`).  A branch dispatched without `spec_mode` then has no older
cause, and neither has the oldest branch, the one that commits.  `StackInv` stands
on it: fetch is on the right path, and the top of the return stack is `top`, or a
branch in flight that is not dealt with has saved it (`TopFollowed`), and as long
as nothing has overwritten them the callers lie below the top, innermost first
(`CallersOnStack`).

*Branch predictor, tables* (also `RegistersAssumption`: the powers of two up to
2^30 are positive, which the provers do not know of `^`).  `TablesTyped` holds
the ranges of the counters and registers, the update records of the branches in
flight (`RecordTyped`: what they point at exists, and only a combination has a
counter that chooses, so that only there the limit can be 7), and `WaysInv`: in
every set there is a list of all ways that the links follow (`ListedBy`), with
the ways that hold a branch in front.  A splice moves one place of this list to
the front, through the cases of head, middle and tail (`SplicedThread`), and a
branch that enters takes the place of itself or the last one (`EnteredList`).
That the links then have `n - 1` steps, both ways alike, and that no set of ways
but one with the tail is closed under them follows from the list (`LinkedSet`).
The list is also the refinement: `Order` of a set is the branches of the list
(`ListedOrder`), and an update with a taken branch does to the list of its set what
`TakenBranch` of this branch does (`EnteredOrder`), whether the branch was there or
not and the set was full or not, and leaves the other sets alone.

*Cache, contents* (`GeometryAssumption`, `BlocksAssumption`, `ClientAssumption`).
`CoherenceInv` adds to the three properties the types and `Resident` (a valid
way holds a block of the program, so that its write-back goes to a block of the
next level).  `FastHitIsHit` is what makes the shortcut harmless, `OneCopy` makes
the copy a lookup finds the only one, `CleanIsInMemory` makes a silent eviction
lose nothing.  The lemmas `HitEffect`, `MissEffect`, `FlushEffect` and
`FlushAddrEffect` say what each operation does to the contents a client sees;
the refinement follows from them, call by call: the word that `CACHE_BCOPY` hands
over is the one the client sees at this block and word, because the way it comes from
is the only copy or has just been filled from the next level, and a flush leaves the
contents alone (`CopyEffect`, `Answered`, `FlushRequests`).

*Cache, search* (the last part of `CacheTimedProofs`, `WaysAssumption`, `LoopAssumption`).  The
loop invariant says what the passes over the list have in common with the state
in which the search began: the first pass has found nothing so far and changed
nothing; a second one of NRU begins with all bits set at the way it ends with;
and the pass of DRRIP after n increments has passed over every reachable way
(all but the head) that was n below `RRPV_MAX`, none of which has been
incremented beyond it (`LaterPass`).

*Cache, replacement* (also `WaysAssumption`, `DRRIPAssumption`).
`ReplacementInv` holds the types, `WayListIsOrder`, `OnlyHeadOvershoots`,
`OnlyDRRIPOvershoots` (needed because `policy` is one variable for all of them)
and `FastHitNeedsNoUpdate`.  That the DRRIP search ends is then an argument
about one set: some way is not at the head, that way does not overshoot, and the
greatest RRPV among such ways reaches `RRPV_MAX` after finitely many increments.

*Cache, stack* (the policies LRU and FIFO, as in the run).  `StackSpec` needs
one more invariant, `InvalidLast`: no way list has an invalid block before a valid
one.  Then the ranks, a permutation of the ways by the pigeonhole principle
(`PlacesTaken`), list the blocks of a set without gaps (`StackIsListed`), and a hit,
a miss and a flush of a block are what they do to this list: `HitToFront`,
`MissToFront` and `FlushedOut`, of the block that `call` names.  A fast hit
changes no rank; that it moves its block to the front nevertheless holds because
the block is there already (`FastHitNeedsNoUpdate`).  A miss evicts only from a full list, because its
victim, the tail, is invalid in any other.

*Timing caches* (`CacheTimedProofs`, `MachineAssumption`, `TimeAssumption`).
`SetsSound` walks along the links of a set; the invariant names what the walks
meet.  For every set there is a list of all its ways, each once, that
`way_head`, `way_next`, `way_prev` and `way_tail` follow (`ListIn`), and for every
hash chain a list of the ways whose tags have its hash (`Chained`), but for the
blocks of `out`: between `unlink_htab_ent` and `link_htab_ent` the victim is on no
chain, which is when its tag changes.  `WayUnlinked`, `HeadEntered` and
`TailEntered` are the cases of `update_way_list`, and `EntUnlinked` and `EntLinked`
those of the hash chains; `WalkIs` says that walking along the links gives the list.
Two facts about blocks join them in `BlocksOK`.  A block of level 1 has an address
at which level 2 has no block 0 (`Floor`): level 2 is asked for no other, so that
its own fast path is sound.  And a block is dirty only in a cache that is written
to (`CmdsOf`), so that the instruction cache never has one to write back.  An access
is a composition of these steps in up to two caches (`HitOK`, `VictimOK`,
`FilledOK`, then `Level2Cache`, `DataCache` and `TextCache`); a flush is one per
dirty block of the list that `DirtyBlocks` collects (`DirtyFrom`, `WrittenBack`).
`SetsSound` also gives `asked` its type, which needs no more than that a call names
an address of the machine (`AskedOK`).

*Timing caches, time and dirty data.*  `ReplacementWaits`, `FilledFromLevel2` and
`NoWriteLost` are about steps, and a step is a call that may replace blocks in two
caches, twice in level 2.  `Accessed` says what one access does to one cache:
`Waited` (the bus and the blocks that stay are ready no sooner, and what takes the
place of a block waited for it and for the bus), `There` (the block that was asked
for is in the cache when the access returns), and that what is `Pending`, that is
dirty, stays so or is written back.  It holds of `cache_access` at any level
(`HitOK`, `VictimOK`, `FilledOK`), `Waited` composes (`WaitedOn`), and so a call as a
whole is `Carried`: what level 1 writes back becomes pending in level 2 by the access
that writes it, and what it fills is there in level 2 when the handler returns, since
the fill is the last access to level 2 of the call.  That one block of level 2 covers
the whole block of level 1 is the condition "access spans block" of section 7.

Model-checked only:

* `FinishesOrWedges`, `SearchEnds` and `Exits`: liveness under fairness is out of
  reach of the proof system.
* The last conjunct of `LinksConserved` of the core, `rslink_free > 0`.  The pool lasts
  only if it is large enough: the code stops with a fatal error when it runs out,
  where the model lets the number fall below one, and the size that suffices depends
  on how many stale links wait in the queues.
* `RecencySpec`, the recency order of the timing caches.  `IsRecencyStack` proves the
  same statement of `Project1/cache.c`, whose way lists are ranks; here they are links.
* `NeverWedged`, `CountersWithinBounds` and `TwoBitCounters` are false.

## 9. Not modelled

* Statistics everywhere, pipetraces, the debugger, and the printed layout.
* The execution of instructions (`ss.def`, `pisa.def`, `alpha.def`): a table of
  expressions over registers and memory, without a protocol of its own.  The
  core keeps operands, addresses and next addresses.
* The TLBs: the code of section 7 with a handler of fixed latency.
* `eventq.c`: no simulator calls it.
* `bpred_after_priming`: no simulator calls it.
* The other simulators (`sim-safe`, `sim-fast`, `sim-profile`, `sim-cache`,
  `sim-bpred`, `sim-eio`): loops that call the modelled parts once per
  instruction, without a clock and without a wrong path.
* Loaders, system calls, options, statistics, expression evaluator, symbol
  tables, EIO traces, the lexer of `libexo` and the two sets of machine
  definitions: vendored parsing, data and host I/O, which is most of the lines
  of the repository.  Their behaviour is their data.
* Parsing of the Tomasulo simulator's trace beyond the fields that matter, and
  the experiment scripts.

## 10. Plan

The four parts the projects are about, the Tomasulo simulator, the caches, the
predictor and the core, are modelled and checked, and the invariants the runs
check are proved for every value of the constants, but for those listed at the end of
section 8.  What could follow:

1. The rest of `LinksConserved`: with `LinksAccounted`, a bound on the stale links
   in the queues, from the widths and the longest latency, bounds what the pool needs.
2. `RecencySpec` from the list of ways (`ListIn`), as `IsRecencyStack` is from the ranks.

The composition of `Pipeline` with `Bpred` and `CacheTimed` instead of free
choices would check no more of the core, whose properties hold for every answer
of theirs, and is not planned.
