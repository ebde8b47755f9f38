-------------------------------- MODULE Cache --------------------------------
(***************************************************************************)
(* The set-associative write-back cache of Project1/cache.c, with its five  *)
(* replacement policies: LRU, FIFO, Random, NRU and DRRIP.                  *)
(*                                                                         *)
(* One call of cache_access, cache_flush or cache_flush_addr is one step.   *)
(* A block address is a pair <<tag, set>>.  The way list of a set is the    *)
(* rank of each of its ways, 0 for way_head; a hit is found by tag whether  *)
(* the code walks the way list or a hash chain.  The next level (the        *)
(* blk_access_fn the creator of the cache supplies) is the function         *)
(* memory.  Latencies and statistics are not modelled here.                 *)
(***************************************************************************)
EXTENDS VictimChoice

CONSTANTS
  nsets,
  Policies,      \* the policies a cache is created with
  BIPCTR_MAX, PSEL_MAX, PSEL_INIT,   \* the DRRIP counters
  Blocks,        \* the block addresses the program uses
  Words, Values, \* the words of a block and what they may hold
  Cmds, Flushes, \* what the client asks for: accesses and flushes
  MaxRRPV        \* bound on the RRPV of a block (model only)

ASSUME GeometryAssumption ==
  /\ nsets \in Nat \ {0}
  \* cache_create refuses other sizes
  /\ \E k \in 0..nsets : nsets = 2^k
  /\ \E k \in 0..assoc : assoc = 2^k
  /\ Policies \subseteq {"LRU", "FIFO", "Random", "NRU", "DRRIP"}
  \* with one way, a failed search of NRU or DRRIP leaves repl uninitialised
  /\ Policies \cap {"NRU", "DRRIP"} # {} => assoc >= 2

ASSUME DRRIPAssumption ==
  /\ BIPCTR_MAX \in Nat /\ PSEL_MAX \in Nat \ {0}
  /\ PSEL_INIT \in 0..PSEL_MAX /\ MaxRRPV \in Nat
  \* cache_create divides by nsets / (BIPCTR_MAX + 1)
  /\ "DRRIP" \in Policies => nsets >= BIPCTR_MAX + 1

\* Block 0 would match the cleared last_tagset; no program accesses it.
ASSUME BlocksAssumption == Blocks \subseteq (Nat \X (0..(nsets - 1))) \ {<<0, 0>>}

ASSUME ClientAssumption ==
  /\ Cmds \subseteq {"Read", "Write"}
  /\ Flushes \subseteq {"cache_flush", "cache_flush_addr"}

Sets == 0..(nsets - 1)
NoBlock == <<0, 0>>   \* last_tagset = 0
NoWay   == -1         \* last_blk = NULL
NoCall  == [cmd |-> "none"]

VARIABLES
  policy,                    \* chosen at creation
  tag, valid, dirty, data,   \* per set and way: the block
  rank,                      \* per set and way: position in the way list
  NRU_bit, RRPV,             \* per set and way: replacement state
  BIPCTR, PSEL,
  last_tagset, last_blk,     \* the last block to hit
  memory,                    \* the next level, per block and word
  call                       \* history: the last call, with the word it copied

blocks      == <<tag, valid, dirty, data>>
replacement == <<rank, NRU_bit, RRPV, BIPCTR, PSEL>>
lasthit     == <<last_tagset, last_blk>>
vars        == <<policy, blocks, replacement, lasthit, memory, call>>

-----------------------------------------------------------------------------
(* Creation.                                                               *)

\* Which sets are dedicated to one of the two insertion policies of DRRIP.
set_type(s) ==
  LET spacing == nsets \div (BIPCTR_MAX + 1)
  IN CASE s % spacing = 0 -> "SRRIP"
       [] s % spacing # 0 /\ (s + 1) % spacing = 0 -> "BRRIP"
       [] OTHER -> "FOLLOWER"

\* Blocks are inserted at the head of the way list one after the other.
Init ==
  /\ policy \in Policies
  /\ tag     = [s \in Sets |-> [w \in Ways |-> 0]]
  /\ valid   = [s \in Sets |-> [w \in Ways |-> FALSE]]
  /\ dirty   = [s \in Sets |-> [w \in Ways |-> FALSE]]
  /\ memory \in [Blocks -> [Words -> Values]]
  /\ \E v \in Values : data = [s \in Sets |-> [w \in Ways |-> [x \in Words |-> v]]]
  /\ rank    = [s \in Sets |-> [w \in Ways |-> assoc - 1 - w]]
  /\ NRU_bit = [s \in Sets |-> [w \in Ways |-> TRUE]]
  /\ RRPV    = [s \in Sets |-> [w \in Ways |-> RRPV_MAX - 1]]
  /\ BIPCTR = 0
  /\ PSEL = PSEL_INIT
  /\ last_tagset = NoBlock
  /\ last_blk = NoWay
  /\ call = NoCall

-----------------------------------------------------------------------------
(* Lookup and the way list.                                                *)

Hits(b) == {w \in Ways : tag[b[2]][w] = b[1] /\ valid[b[2]][w]}

cache_probe(b) == Hits(b) # {}

\* update_way_list: the other ways keep their order.
AtHead(s, w) == [x \in Ways |-> IF x = w THEN 0
                                ELSE IF rank[s][x] < rank[s][w] THEN rank[s][x] + 1
                                ELSE rank[s][x]]
AtTail(s, w) == [x \in Ways |-> IF x = w THEN assoc - 1
                                ELSE IF rank[s][x] > rank[s][w] THEN rank[s][x] - 1
                                ELSE rank[s][x]]

-----------------------------------------------------------------------------
(* Selection of the block to replace: w is the victim in set s.            *)

ReplaceTail(s, w) ==
  /\ policy \in {"LRU", "FIFO"}
  /\ rank[s][w] = assoc - 1
  /\ rank' = [rank EXCEPT ![s] = AtHead(s, w)]
  /\ UNCHANGED <<NRU_bit, RRPV, BIPCTR, PSEL>>

ReplaceRandom(s, w) ==
  /\ policy = "Random"
  /\ UNCHANGED replacement

ReplaceNRU(s, w) ==
  /\ policy = "NRU"
  /\ ChosenByNRU(rank[s], NRU_bit[s], w)
  /\ NRU_bit' = [NRU_bit EXCEPT ![s] =
                   [x \in Ways |-> x # w /\ (@[x] \/ NotUsed(@) = {})]]
  /\ UNCHANGED <<rank, RRPV, BIPCTR, PSEL>>

\* The most significant bit of PSEL tells a follower which policy to follow.
FollowsBRRIP == PSEL \div ((PSEL_MAX + 1) \div 2) # 0

\* Whether a block inserted into set s is inserted by the BRRIP policy.
InsertsBRRIP(s) == \/ set_type(s) = "BRRIP"
                   \/ set_type(s) = "FOLLOWER" /\ FollowsBRRIP

\* Mutant: the counter holds 2^RRPV_LENGTH.
InsertionRRPVTooHigh(s) ==
  IF InsertsBRRIP(s) /\ BIPCTR # 0 THEN RRPV_MAX + 1 ELSE RRPV_MAX - 1

InsertionRRPV(s) ==
  IF InsertsBRRIP(s) /\ BIPCTR # 0 THEN RRPV_MAX ELSE RRPV_MAX - 1

\* Mutant: PSEL is decremented at 0.
NextPSELUnguarded(s) ==
  CASE set_type(s) = "SRRIP" /\ PSEL <= PSEL_MAX -> PSEL + 1
    [] set_type(s) = "BRRIP" -> PSEL - 1
    [] OTHER -> PSEL

\* A miss in a dedicated set votes against the policy of the set.
NextPSEL(s) ==
  CASE set_type(s) = "SRRIP" /\ PSEL <= PSEL_MAX -> PSEL + 1
    [] set_type(s) = "BRRIP" /\ PSEL > 0         -> PSEL - 1
    [] OTHER -> PSEL

ReplaceDRRIP(s, w) ==
  /\ policy = "DRRIP"
  /\ \E n \in 0..RRPV_MAX :
       /\ ChosenByDRRIP(rank[s], RRPV[s], w, n)
       /\ \A x \in Ways : RRPV[s][x] + n <= MaxRRPV
       /\ RRPV' = [RRPV EXCEPT ![s] =
                     [x \in Ways |-> IF x = w THEN InsertionRRPV(s) ELSE RRPV[s][x] + n]]
  /\ PSEL' = NextPSEL(s)
  /\ BIPCTR' = IF InsertsBRRIP(s)
                 THEN IF BIPCTR = BIPCTR_MAX THEN 0 ELSE BIPCTR + 1
                 ELSE BIPCTR
  /\ UNCHANGED <<rank, NRU_bit>>

Replace(s, w) ==
  ReplaceTail(s, w) \/ ReplaceRandom(s, w) \/ ReplaceNRU(s, w) \/ ReplaceDRRIP(s, w)

-----------------------------------------------------------------------------
(* cache_access.                                                           *)

Commands == [cmd : Cmds \cap {"Read"}, word : Words] \cup
            [cmd : Cmds \cap {"Write"}, word : Words, value : Values]

\* Mutant: a write to a block that is there is not copied.
CopyNewOnly(b, c, w, content) ==
  /\ data' = [data EXCEPT ![b[2]][w] =
                IF c.cmd = "Write" /\ ~cache_probe(b) THEN [content EXCEPT ![c.word] = c.value]
                ELSE content]
  /\ call' = [cmd |-> c.cmd, block |-> b, word |-> c.word,
               value |-> IF c.cmd = "Read" THEN content[c.word] ELSE c.value]

\* CACHE_BCOPY between the caller and the way w of b's set, which holds content:
\* the word read is the caller's answer.
Copy(b, c, w, content) ==
  \/ /\ c.cmd = "Read"
     /\ data' = [data EXCEPT ![b[2]][w] = content]
     /\ call' = [cmd |-> "Read", block |-> b, word |-> c.word, value |-> content[c.word]]
  \/ /\ c.cmd = "Write"
     /\ data' = [data EXCEPT ![b[2]][w] = [content EXCEPT ![c.word] = c.value]]
     /\ call' = [cmd |-> "Write", block |-> b, word |-> c.word, value |-> c.value]

\* Mutant: a write that hits fast does not make the block dirty.
FastHitStaysClean(b, c) ==
  LET s == b[2]
      w == last_blk
  IN /\ last_tagset = b
     /\ Copy(b, c, w, data[s][w])
     /\ UNCHANGED <<tag, valid, dirty, replacement, lasthit, memory>>

FastHit(b, c) ==
  LET s == b[2]
      w == last_blk
  IN /\ last_tagset = b
     /\ Copy(b, c, w, data[s][w])
     /\ dirty' = [dirty EXCEPT ![s][w] = @ \/ c.cmd = "Write"]
     /\ UNCHANGED <<tag, valid, replacement, lasthit, memory>>

\* Mutant: a hit under NRU leaves the bit set.
TouchNotNRU(s, w) ==
  /\ rank' = IF policy = "LRU" THEN [rank EXCEPT ![s] = AtHead(s, w)] ELSE rank
  /\ RRPV' = IF policy = "DRRIP" THEN [RRPV EXCEPT ![s][w] = 0] ELSE RRPV
  /\ UNCHANGED <<NRU_bit, BIPCTR, PSEL>>

\* Mutant: a hit does not move the block under LRU either.
TouchInPlace(s, w) ==
  /\ NRU_bit' = IF policy = "NRU" THEN [NRU_bit EXCEPT ![s][w] = FALSE] ELSE NRU_bit
  /\ RRPV' = IF policy = "DRRIP" THEN [RRPV EXCEPT ![s][w] = 0] ELSE RRPV
  /\ UNCHANGED <<rank, BIPCTR, PSEL>>

\* The replacement state of a way that hits.
Touch(s, w) ==
  /\ rank' = IF policy = "LRU" THEN [rank EXCEPT ![s] = AtHead(s, w)] ELSE rank
  /\ NRU_bit' = IF policy = "NRU" THEN [NRU_bit EXCEPT ![s][w] = FALSE] ELSE NRU_bit
  /\ RRPV' = IF policy = "DRRIP" THEN [RRPV EXCEPT ![s][w] = 0] ELSE RRPV
  /\ UNCHANGED <<BIPCTR, PSEL>>

SlowHit(b, c) ==
  LET s == b[2]
  IN /\ last_tagset # b
     /\ \E w \in Hits(b) :
          /\ Copy(b, c, w, data[s][w])
          /\ dirty' = [dirty EXCEPT ![s][w] = @ \/ c.cmd = "Write"]
          /\ Touch(s, w)
          /\ last_tagset' = b
          /\ last_blk' = w
     /\ UNCHANGED <<tag, valid, memory>>

\* The next level after way w of set s has been written back, if need be.
WrittenBack(s, w) ==
  IF valid[s][w] /\ dirty[s][w]
    THEN [memory EXCEPT ![<<tag[s][w], s>>] = data[s][w]]
    ELSE memory

Miss(b, c) ==
  LET s == b[2]
  IN /\ last_tagset # b
     /\ ~cache_probe(b)
     /\ \E w \in Ways :
          /\ Replace(s, w)
          /\ memory' = WrittenBack(s, w)
          /\ tag' = [tag EXCEPT ![s][w] = b[1]]
          /\ valid' = [valid EXCEPT ![s][w] = TRUE]
          /\ Copy(b, c, w, memory'[b])
          /\ dirty' = [dirty EXCEPT ![s][w] = c.cmd = "Write"]
     /\ last_tagset' = NoBlock
     /\ last_blk' = NoWay

cache_access(b, c) == FastHit(b, c) \/ SlowHit(b, c) \/ Miss(b, c)

-----------------------------------------------------------------------------
(* The flush functions.                                                    *)

\* The dirty bit of an invalidated block stays as it is.
cache_flush ==
  /\ "cache_flush" \in Flushes
  /\ memory' = [b \in Blocks |->
       IF \E w \in Hits(b) : dirty[b[2]][w]
         THEN data[b[2]][CHOOSE w \in Hits(b) : dirty[b[2]][w]]
         ELSE memory[b]]
  /\ valid' = [s \in Sets |-> [w \in Ways |-> FALSE]]
  /\ last_tagset' = NoBlock
  /\ last_blk' = NoWay
  /\ call' = [cmd |-> "cache_flush"]
  /\ UNCHANGED <<tag, dirty, data, replacement>>

cache_flush_addr(b) ==
  LET s == b[2]
  IN /\ "cache_flush_addr" \in Flushes
     /\ \E w \in Hits(b) :
          /\ memory' = WrittenBack(s, w)
          /\ valid' = [valid EXCEPT ![s][w] = FALSE]
          /\ rank' = [rank EXCEPT ![s] = AtTail(s, w)]
     /\ last_tagset' = NoBlock
     /\ last_blk' = NoWay
     /\ call' = [cmd |-> "cache_flush_addr", block |-> b]
     /\ UNCHANGED <<tag, dirty, data, NRU_bit, RRPV, BIPCTR, PSEL>>

Next ==
  /\ \/ \E b \in Blocks, c \in Commands : cache_access(b, c)
     \/ cache_flush
     \/ \E b \in Blocks : cache_flush_addr(b)
  /\ UNCHANGED policy

Spec == Init /\ [][Next]_vars
=============================================================================
