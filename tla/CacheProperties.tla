--------------------------- MODULE CacheProperties ---------------------------
(***************************************************************************)
(* What the cache of Cache.tla must keep.                                   *)
(***************************************************************************)
EXTENDS Cache, FiniteSets

Contents == [Words -> Values]

\* What a call leaves behind: an access the word it read or wrote.
Calls ==
  {NoCall} \cup [cmd : {"cache_flush"}] \cup [cmd : {"cache_flush_addr"}, block : Blocks]
    \cup [cmd : Cmds, block : Blocks, word : Words, value : Values]

\* Every variable keeps its type: no counter falls below 0 (cache.c:642-729), and
\* BIPCTR stays in its range.  PSEL and the RRPVs do not (see CountersWithinBounds).
TypeOK ==
  /\ policy \in Policies
  /\ tag \in [Sets -> [Ways -> Nat]]
  /\ valid \in [Sets -> [Ways -> BOOLEAN]]
  /\ dirty \in [Sets -> [Ways -> BOOLEAN]]
  /\ data \in [Sets -> [Ways -> Contents]]
  /\ rank \in [Sets -> [Ways -> Ways]]
  /\ NRU_bit \in [Sets -> [Ways -> BOOLEAN]]
  /\ RRPV \in [Sets -> [Ways -> Nat]]
  /\ BIPCTR \in 0..BIPCTR_MAX
  /\ PSEL \in Nat
  /\ last_tagset \in Blocks \cup {NoBlock}
  /\ last_blk \in Ways \cup {NoWay}
  /\ memory \in [Blocks -> Contents]
  /\ call \in Calls

\* A block is in one way of its set only, so that a lookup that stops at the
\* first match (cache.c:575-594) finds the copy every write went to.
OneCopy ==
  \A s \in Sets : \A w, x \in Ways :
    valid[s][w] /\ valid[s][x] /\ tag[s][w] = tag[s][x] => w = x

\* A valid block that is not dirty is what the next level holds: dropping it
\* without a write-back (cache.c:743-766) loses nothing.
CleanIsInMemory ==
  \A s \in Sets, w \in Ways :
    valid[s][w] /\ ~dirty[s][w] => data[s][w] = memory[<<tag[s][w], s>>]

\* The block a fast hit goes to without a lookup (cache.c:568-573) is valid and
\* is the block that is asked for.
FastHitIsHit ==
  last_tagset # NoBlock => last_blk \in Hits(last_tagset)

\* The copies of the cache are coherent.
Coherent == OneCopy /\ CleanIsInMemory /\ FastHitIsHit

\* "this block hit last, no change in the way list" (cache.c:859): a fast hit
\* skips the replacement update a slow hit would make, and nothing is lost,
\* because that update would change nothing.
FastHitNeedsNoUpdate ==
  last_tagset # NoBlock =>
    LET s == last_tagset[2]
    IN /\ policy = "LRU" => rank[s][last_blk] = 0
       /\ policy = "NRU" => ~NRU_bit[s][last_blk]
       /\ policy = "DRRIP" => RRPV[s][last_blk] = 0

\* The way list of every set holds each way once (update_way_list keeps it so).
WayListIsOrder ==
  \A s \in Sets : \A w, x \in Ways : rank[s][w] = rank[s][x] => w = x

-----------------------------------------------------------------------------
(* The program above sees a memory.                                        *)

\* A block's contents are where a lookup would find them.
ContentsOf(b) ==
  IF cache_probe(b) THEN data[b[2]][CHOOSE w \in Hits(b) : TRUE] ELSE memory[b]

Image == INSTANCE CoherentMemory WITH
  contents <- [b \in Blocks |-> ContentsOf(b)]

\* A read of a word of a block returns what was last written to it, a write
\* changes that word and no other, and a flush none, through hits, misses and
\* write-backs, whatever the replacement policy does (cache.c:535-1003).
MemorySpec == Image!MSpec

-----------------------------------------------------------------------------
(* LRU and FIFO.                                                           *)

ValidWays(s) == {w \in Ways : valid[s][w]}

\* The blocks of a set in the order of the way list.
Stack(s) == [i \in 1..Cardinality(ValidWays(s)) |->
               <<tag[s][CHOOSE w \in Ways : rank[s][w] = i - 1], s>>]

\* The last call, whose command and word do not matter here.
Request ==
  CASE call.cmd \in Cmds -> <<"access", call.block>>
    [] call.cmd = "cache_flush_addr" -> <<"flush", call.block>>
    [] call.cmd = "cache_flush" -> <<"flush">>
    [] OTHER -> <<>>

Recency == INSTANCE RecencyStack WITH
  stack <- [s \in Sets |-> Stack(s)], request <- Request,
  capacity <- assoc, movesOnHit <- policy = "LRU"

\* Every access changes the way list as LRU, or FIFO, says of the block that is
\* accessed: a block that hits comes to the front, or stays where it is, and one
\* that misses takes the place of the block used, or inserted, longest ago, or of
\* an invalidated one, which are behind all valid ones; a fast hit needs no
\* reordering (cache.c:604-610, 815-821, 859, 997-998).
StackSpec == Recency!SSpec

-----------------------------------------------------------------------------
(* DRRIP.                                                                  *)

Overshoot(s) == {w \in Ways : RRPV[s][w] > RRPV_MAX}

\* As long as no block is moved in the list, only the head can exceed RRPV_MAX:
\* the search skips it after its first pass (cache.c:721-726).
OnlyHeadOvershoots ==
  "cache_flush_addr" \notin Flushes =>
    \A s \in Sets : \A w \in Overshoot(s) : rank[s][w] = 0

\* The victim search of a miss ends: some way is distant or can become so.
VictimExists ==
  policy = "DRRIP" =>
    \A s \in Sets : \E w \in Ways, n \in 0..RRPV_MAX :
      ChosenByDRRIP(rank[s], RRPV[s], w, n)

\* "Calculate Counter Upper bound" (cache.c:68-71) makes RRPV_MAX the bound of
\* the RRPVs and PSEL_MAX that of PSEL.  This asks for less, that one of the two
\* bounds be kept; a run finds a state that keeps neither.  The head of a list
\* leaves its bound because the search skips it and increments it nevertheless
\* (cache.c:721-726), and PSEL because it is incremented at PSEL_MAX (cache.c:654).
CountersWithinBounds == (\A s \in Sets : Overshoot(s) = {}) \/ PSEL <= PSEL_MAX
=============================================================================
