------------------------------ MODULE CacheSets ------------------------------
(***************************************************************************)
(* One set of a cache of simplesim-3.0/cache.c as the code links it: the    *)
(* way list (way_head, way_tail, way_prev, way_next), which orders the      *)
(* blocks for replacement, and the hash bucket chains (hash, hash_next),    *)
(* which a highly associative cache looks blocks up in.                     *)
(*                                                                         *)
(* At the end the macros for addresses and times that cache.c shares.       *)
(*                                                                         *)
(* A set is a record of these pointers and of the blocks' tag, status and   *)
(* ready fields; ways are 1..n, NULL is 0, hsize is 0 without hash table.   *)
(***************************************************************************)
EXTENDS Integers, SequencesExt, FiniteSets

NULL == 0

-----------------------------------------------------------------------------
(* Walking a list: the ways met from first on, at most n of them.          *)

Walk(first, next, n) ==
  LET at[i \in 1..n] == IF i = 1 THEN first
                        ELSE IF at[i - 1] = NULL THEN NULL ELSE next[at[i - 1]]
  IN SubSeq(at, 1, Cardinality({i \in 1..n : at[i] # NULL}))

IsDirty(set, w) == set.valid[w] /\ set.dirty[w]

CACHE_HASH(key, hsize) == key % hsize

WayList(set) == Walk(set.way_head, set.way_next, Len(set.tag))

Bucket(set, i) == Walk(set.hash[i], set.hash_next, Len(set.tag))

\* The valid blocks with this tag that a lookup comes across.
Lookup(set, hsize, tag) ==
  LET met == IF hsize = 0 THEN WayList(set) ELSE Bucket(set, CACHE_HASH(tag, hsize))
  IN {w \in Range(met) : set.tag[w] = tag /\ set.valid[w]}

-----------------------------------------------------------------------------
(* The hash chains.                                                        *)

link_htab_ent(set, hsize, w) ==
  IF hsize = 0 THEN set
  ELSE LET i == CACHE_HASH(set.tag[w], hsize)
       IN [set EXCEPT !.hash_next[w] = set.hash[i], !.hash[i] = w]

\* Mutant: the block is taken to be the first of its chain.
unlink_htab_ent_first(set, hsize, w) ==
  IF hsize = 0 THEN set
  ELSE [set EXCEPT !.hash[CACHE_HASH(set.tag[w], hsize)] = set.hash_next[w],
                   !.hash_next[w] = NULL]

\* The block before w on its chain is the one whose hash_next leads to it.
unlink_htab_ent(set, hsize, w) ==
  IF hsize = 0 THEN set
  ELSE LET i     == CACHE_HASH(set.tag[w], hsize)
           prevs == {x \in Range(Bucket(set, i)) : set.hash_next[x] = w}
           after == set.hash_next[w]
       IN IF set.hash[i] = w
          THEN [set EXCEPT !.hash[i] = after, !.hash_next[w] = NULL]
          ELSE [set EXCEPT !.hash_next =
                  [x \in DOMAIN @ |-> IF x = w THEN NULL
                                      ELSE IF x \in prevs THEN after ELSE @[x]]]

-----------------------------------------------------------------------------
(* The way list.                                                           *)

UnlinkedWay(set, w) ==
  LET p == set.way_prev[w]
      n == set.way_next[w]
  IN CASE p = NULL               -> [set EXCEPT !.way_head = n, !.way_prev[n] = NULL]
       [] p # NULL /\ n = NULL   -> [set EXCEPT !.way_tail = p, !.way_next[p] = NULL]
       [] OTHER                  -> [set EXCEPT !.way_next[p] = n, !.way_prev[n] = p]

LinkedHead(set, w) ==
  [set EXCEPT !.way_next[w] = set.way_head, !.way_prev[w] = NULL,
              !.way_prev[set.way_head] = w, !.way_head = w]

LinkedTail(set, w) ==
  [set EXCEPT !.way_prev[w] = set.way_tail, !.way_next[w] = NULL,
              !.way_next[set.way_tail] = w, !.way_tail = w]

\* A block that is at that end already, or alone, stays where it is.
update_way_list(set, w, where) ==
  CASE where = "Head" /\ set.way_prev[w] # NULL -> LinkedHead(UnlinkedWay(set, w), w)
    [] where = "Tail" /\ set.way_next[w] # NULL -> LinkedTail(UnlinkedWay(set, w), w)
    [] OTHER -> set

-----------------------------------------------------------------------------
(* Creation: each way in turn enters at the head of the way list and of     *)
(* the chain of tag 0.                                                      *)

NewSet(n, hsize) ==
  [way_head |-> n, way_tail |-> 1,
   way_next |-> [w \in 1..n |-> w - 1],
   way_prev |-> [w \in 1..n |-> IF w = n THEN NULL ELSE w + 1],
   hash      |-> [i \in 0..(hsize - 1) |-> IF i = 0 THEN n ELSE NULL],
   hash_next |-> [w \in 1..n |-> IF hsize = 0 THEN NULL ELSE w - 1],
   tag   |-> [w \in 1..n |-> 0],
   valid |-> [w \in 1..n |-> FALSE],
   dirty |-> [w \in 1..n |-> FALSE],
   ready |-> [w \in 1..n |-> 0]]

-----------------------------------------------------------------------------
(* Addresses, in a cache of geometry g, and times.                         *)

NoBlock == 0   \* last_tagset = 0

CACHE_SET(g, a)  == (a \div g.bsize) % g.nsets
CACHE_TAG(g, a)  == a \div (g.bsize * g.nsets)
CACHE_BADDR(g, a) == a - (a % g.bsize)
CACHE_MK_BADDR(g, tag, s) == (tag * g.nsets + s) * g.bsize

Max2(x, y) == IF x > y THEN x ELSE y

BOUND_POS(n) == Max2(0, n)
=============================================================================
