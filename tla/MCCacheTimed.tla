---------------------------- MODULE MCCacheTimed ----------------------------
(***************************************************************************)
(* TLC instances of the timing caches.                                      *)
(***************************************************************************)
EXTENDS CacheTimedProperties

Cache(policy, assoc, hsize, bsize, hit) ==
  [policy |-> policy, nsets |-> 1, assoc |-> assoc, hsize |-> hsize, bsize |-> bsize,
   hit_latency |-> hit]

\* Both level 1 caches over one level 2 cache with larger blocks, looked up by hash.
TwoLevels(policy) ==
  [caches |-> {"il1", "dl1", "dl2"},
   geometry |-> [il1 |-> Cache("LRU", 1, 0, 1, 1),
                 dl1 |-> Cache(policy, 2, 0, 1, 1),
                 dl2 |-> Cache(policy, 2, 2, 2, 1)],
   addrs |-> {2, 4, 5}, fetches |-> {6}, mem_lat |-> 2, max_backlog |-> 1,
   cmds |-> {"Read", "Write"}, flushes |-> {"cache_flush"}]

\* A data cache over memory, with enough ways to have a middle and fewer than blocks.
OneLevel ==
  [caches |-> {"dl1"}, geometry |-> [dl1 |-> Cache("LRU", 3, 0, 1, 1)],
   addrs |-> 1..4, fetches |-> {}, mem_lat |-> 1, max_backlog |-> 0,
   cmds |-> {"Read"}, flushes |-> {"cache_flush_addr"}]

BothMachines == {TwoLevels("LRU"), OneLevel}
=============================================================================
