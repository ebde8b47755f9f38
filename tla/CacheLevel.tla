------------------------------ MODULE CacheLevel ------------------------------
(***************************************************************************)
(* cache_access of simplesim-3.0/cache.c: one access to one cache of the    *)
(* hierarchy, at time t relative to sim_cycle.                              *)
(*                                                                         *)
(* C is the cache, g its geometry and lower the state of all that is below  *)
(* it.  An access is the set of its outcomes, since the victim may be       *)
(* random: the new cache, the new state below, and the latency.             *)
(*                                                                         *)
(* blk_access_fn(cmd, block, lower, t), the function of the cache that       *)
(* accesses the next level, is the set of the new states below with the      *)
(* latencies.                                                              *)
(***************************************************************************)
EXTENDS CacheSets

\* Mutant: a block that is still on its way is returned as a hit.
HitLatencyEager(g, ready, t) == g.hit_latency

HitLatency(g, ready, t) == Max2(g.hit_latency, ready - t)

\* Mutant: a hit leaves the block where it is under LRU too.
TouchedInPlace(g, set, fast, w) == set

\* A fast hit skips the reordering a slow hit makes under LRU.
Touched(g, set, fast, w) ==
  IF ~fast /\ g.policy = "LRU" THEN update_way_list(set, w, "Head") ELSE set

CacheHit(C, g, lower, cmd, a, t, w) ==
  LET s    == CACHE_SET(g, a)
      fast == C.last_tagset = CACHE_BADDR(g, a)
      set  == [C.set[s] EXCEPT !.dirty[w] = @ \/ cmd = "Write"]
  IN [cache |-> [C EXCEPT
        !.set[s] = Touched(g, set, fast, w),
        !.last_tagset = CACHE_BADDR(g, a),
        !.last_blk = w],
      lower |-> lower,
      lat |-> HitLatency(g, set.ready[w], t)]

\* The block to replace, and the set once it is relinked.
Replaced(set, g) ==
  IF g.policy = "Random" THEN {[blk |-> w, set |-> set] : w \in 1..g.assoc}
  ELSE {[blk |-> set.way_tail, set |-> update_way_list(set, set.way_tail, "Head")]}

\* Mutant: the outstanding fill of the victim is not waited for.
StallUntilFilledNever(set, w, t) == 0

\* A valid block waits for its own outstanding fill, then for the bus.
StallUntilFilled(set, w, t) == BOUND_POS(set.ready[w] - t)

StallForBus(C, t) == BOUND_POS(C.bus_free - t)

\* When the transfers begin: at once if the victim, in way w, is not valid.
Stalls(C, set, w, t) ==
  IF ~set.valid[w] THEN 0
  ELSE LET filled == StallUntilFilled(set, w, t) IN filled + StallForBus(C, t + filled)

\* The victim w is written back, wb, and the block of a is read, f, from start on.
Filled(C, g, set, w, cmd, a, t, start, wb, f) ==
  LET lat == start + wb.lat + f.lat
      new == [set EXCEPT !.tag[w] = CACHE_TAG(g, a), !.valid[w] = TRUE,
                         !.dirty[w] = cmd = "Write", !.ready[w] = t + lat]
  IN [cache |-> [set |-> [C.set EXCEPT ![CACHE_SET(g, a)] = link_htab_ent(new, g.hsize, w)],
                 last_tagset |-> NoBlock, last_blk |-> NULL,
                 bus_free |-> IF set.valid[w] THEN Max2(C.bus_free, t + start) + 1
                              ELSE C.bus_free],
      lower |-> f.lower, lat |-> lat]

CacheMiss(blk_access_fn(_, _, _, _), C, g, lower, cmd, a, t) ==
  LET s == CACHE_SET(g, a)
      Missed(r) ==
        LET w     == r.blk
            set   == unlink_htab_ent(r.set, g.hsize, w)
            start == Stalls(C, set, w, t)
            writebacks ==
              IF IsDirty(set, w)
              THEN blk_access_fn("Write", CACHE_MK_BADDR(g, set.tag[w], s), lower, t + start)
              ELSE {[lower |-> lower, lat |-> 0]}
        IN UNION {{Filled(C, g, set, w, cmd, a, t, start, wb, f)
                    : f \in blk_access_fn("Read", CACHE_BADDR(g, a), wb.lower,
                                          t + start + wb.lat)}
                  : wb \in writebacks}
  IN UNION {Missed(r) : r \in Replaced(C.set[s], g)}

cache_access(blk_access_fn(_, _, _, _), C, g, lower, cmd, a, t) ==
  LET hits == IF C.last_tagset = CACHE_BADDR(g, a) THEN {C.last_blk}
              ELSE Lookup(C.set[CACHE_SET(g, a)], g.hsize, CACHE_TAG(g, a))
  IN IF hits # {} THEN {CacheHit(C, g, lower, cmd, a, t, CHOOSE w \in hits : TRUE)}
     ELSE CacheMiss(blk_access_fn, C, g, lower, cmd, a, t)
=============================================================================
