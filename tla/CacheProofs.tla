----------------------------- MODULE CacheProofs -----------------------------
(***************************************************************************)
(* Proofs about the cache: whatever the policy, the geometry and the flush  *)
(* functions used, the client sees a memory, and the replacement state is   *)
(* sound.                                                                   *)
(***************************************************************************)
EXTENDS CacheProperties, ProofFacts, SequenceTheorems, FiniteSetTheorems, TLAPS

BlockTypes ==
  /\ tag \in [Sets -> [Ways -> Nat]]
  /\ valid \in [Sets -> [Ways -> BOOLEAN]]
  /\ dirty \in [Sets -> [Ways -> BOOLEAN]]
  /\ data \in [Sets -> [Ways -> Contents]]
  /\ memory \in [Blocks -> Contents]
  /\ call \in Calls

\* A valid way holds a block of the program.
Resident ==
  \A s \in Sets, w \in Ways : valid[s][w] => <<tag[s][w], s>> \in Blocks

\* Everything but the record of the last hit.
StoredInv == BlockTypes /\ Resident /\ OneCopy /\ CleanIsInMemory

LastTypes == last_tagset \in Blocks \cup {NoBlock} /\ last_blk \in Ways \cup {NoWay}

CoherenceInv == StoredInv /\ LastTypes /\ FastHitIsHit

-----------------------------------------------------------------------------
(* Lemmas about data.                                                      *)

\* A block address is a pair of a tag and a set, and is not NoBlock.
LEMMA BlockShape ==
  ASSUME NEW b \in Blocks
  PROVE  b[1] \in Nat /\ b[2] \in Sets /\ b = <<b[1], b[2]>> /\ b # NoBlock
BY BlocksAssumption DEF Sets, NoBlock

\* An update of one way of one set changes that way only.
LEMMA UpdateWay ==
  ASSUME NEW S, NEW f \in [Sets -> [Ways -> S]],
         NEW s \in Sets, NEW w \in Ways, NEW v \in S
  PROVE  /\ [f EXCEPT ![s][w] = v] \in [Sets -> [Ways -> S]]
         /\ \A t \in Sets, x \in Ways :
              [f EXCEPT ![s][w] = v][t][x] = IF t = s /\ x = w THEN v ELSE f[t][x]
OBVIOUS

\* What is copied into a way, and what the client gets (CACHE_BCOPY).
Transfer(c, content) ==
  IF c.cmd = "Write" THEN [content EXCEPT ![c.word] = c.value] ELSE content

\* What an access that finds content leaves as the last call.
Answered(b, c, content) ==
  \/ /\ c.cmd = "Read"
     /\ call' = [cmd |-> "Read", block |-> b, word |-> c.word, value |-> content[c.word]]
  \/ /\ c.cmd = "Write" /\ c.value \in Values
     /\ call' = [cmd |-> "Write", block |-> b, word |-> c.word, value |-> c.value]

\* What CACHE_BCOPY leaves in a way and returns to the client.
LEMMA CopyEffect ==
  ASSUME NEW b \in Blocks, NEW c \in Commands, NEW w \in Ways,
         NEW content \in Contents, BlockTypes, Copy(b, c, w, content)
  PROVE  /\ Transfer(c, content) \in Contents
         /\ data' = [data EXCEPT ![b[2]][w] = Transfer(c, content)]
         /\ c.word \in Words
         /\ call' \in Calls
         /\ Answered(b, c, content)
<1>1. /\ c.word \in Words /\ c.cmd \in Cmds /\ c.cmd \in {"Read", "Write"}
      /\ c.cmd = "Write" => c.value \in Values
  BY DEF Commands
<1>2. content[c.word] \in Values
  BY <1>1 DEF Contents
<1>3. CASE c.cmd = "Read"
  BY <1>1, <1>2, <1>3 DEF Copy, Contents, Transfer, Answered, Calls
<1>4. CASE c.cmd = "Write"
  BY <1>1, <1>4 DEF Copy, Contents, Transfer, Answered, Calls
<1> QED BY <1>1, <1>3, <1>4

\* The contents of a cached block are in the way that holds it.
Located ==
  \A b \in Blocks : /\ \A w \in Hits(b) : ContentsOf(b) = data[b[2]][w]
                    /\ Hits(b) = {} => ContentsOf(b) = memory[b]

\* A block is where its hit is, or in the next level.
LEMMA Location == StoredInv => Located
<1> SUFFICES ASSUME StoredInv, NEW b \in Blocks
             PROVE  /\ \A w \in Hits(b) : ContentsOf(b) = data[b[2]][w]
                    /\ Hits(b) = {} => ContentsOf(b) = memory[b]
  BY DEF Located
<1> b[2] \in Sets
  BY BlockShape
<1>1. \A w, x \in Hits(b) : w = x
  BY DEF StoredInv, OneCopy, Hits
<1>2. ASSUME NEW w \in Hits(b)
      PROVE  ContentsOf(b) = data[b[2]][w]
  <2>1. (CHOOSE x \in Hits(b) : TRUE) = w
    BY <1>1, <1>2
  <2> QED BY <2>1, <1>2 DEF ContentsOf, cache_probe
<1> QED BY <1>2 DEF ContentsOf, cache_probe

-----------------------------------------------------------------------------
(* What each step does to the contents.                                    *)

\* The effect of an access on the memory the client sees.
Accessed(b, c) ==
  /\ \A e \in Blocks :
       ContentsOf(e)' = IF e = b THEN Transfer(c, ContentsOf(b)) ELSE ContentsOf(e)
  /\ c.word \in Words
  /\ Answered(b, c, ContentsOf(b))

\* A hit reads or writes the block asked for and no other (cache.c:827-889).
LEMMA HitEffect ==
  ASSUME NEW b \in Blocks, NEW c \in Commands, NEW w \in Hits(b),
         StoredInv,
         Copy(b, c, w, data[b[2]][w]),
         dirty' = [dirty EXCEPT ![b[2]][w] = @ \/ c.cmd = "Write"],
         UNCHANGED <<tag, valid, memory>>
  PROVE  StoredInv' /\ Accessed(b, c)
<1> DEFINE s == b[2]
           new == Transfer(c, data[s][w])
<1>1. s \in Sets /\ w \in Ways /\ valid[s][w] /\ tag[s][w] = b[1] /\ b = <<tag[s][w], s>>
  BY BlockShape DEF Hits
<1>2. data[s][w] \in Contents
  BY <1>1 DEF StoredInv, BlockTypes
<1>3. /\ new \in Contents
      /\ data' = [data EXCEPT ![s][w] = new]
      /\ c.word \in Words
      /\ call' \in Calls
      /\ Answered(b, c, data[s][w])
  BY <1>1, <1>2, CopyEffect DEF StoredInv
<1>4. /\ data' \in [Sets -> [Ways -> Contents]]
      /\ \A t \in Sets, x \in Ways :
           data'[t][x] = IF t = s /\ x = w THEN new ELSE data[t][x]
  <2> data \in [Sets -> [Ways -> Contents]]
    BY DEF StoredInv, BlockTypes
  <2> HIDE DEF new
  <2> QED BY <1>1, <1>3, UpdateWay
<1>5. /\ dirty' \in [Sets -> [Ways -> BOOLEAN]]
      /\ \A t \in Sets, x \in Ways :
           dirty'[t][x] = IF t = s /\ x = w THEN dirty[s][w] \/ c.cmd = "Write"
                          ELSE dirty[t][x]
  <2> dirty \in [Sets -> [Ways -> BOOLEAN]]
    BY DEF StoredInv, BlockTypes
  <2>1. dirty' = [dirty EXCEPT ![s][w] = dirty[s][w] \/ c.cmd = "Write"]
    BY <1>1
  <2>2. (dirty[s][w] \/ c.cmd = "Write") \in BOOLEAN
    OBVIOUS
  <2> QED BY <1>1, <2>1, <2>2, UpdateWay
<1>6. BlockTypes' /\ Resident' /\ OneCopy'
  BY <1>3, <1>4, <1>5 DEF StoredInv, BlockTypes, Resident, OneCopy
<1>7. CleanIsInMemory'
  <2> SUFFICES ASSUME NEW t \in Sets, NEW x \in Ways, valid'[t][x], ~dirty'[t][x]
               PROVE  data'[t][x] = memory'[<<tag'[t][x], t>>]
    BY DEF CleanIsInMemory
  <2>1. ~dirty[t][x]
    BY <1>5
  <2>2. data[t][x] = memory[<<tag[t][x], t>>]
    BY <2>1 DEF StoredInv, CleanIsInMemory
  <2>3. CASE t = s /\ x = w
    <3>1. c.cmd # "Write"
      BY <1>5, <2>3
    <3>2. new = data[s][w]
      BY <3>1 DEF Transfer
    <3>3. data'[t][x] = data[t][x]
      BY <1>4, <2>3, <3>2
    <3> QED BY <2>2, <3>3
  <2>4. CASE ~(t = s /\ x = w)
    <3>1. data'[t][x] = data[t][x]
      BY <1>4, <2>4
    <3> QED BY <2>2, <3>1
  <2> QED BY <2>3, <2>4
<1>8. Located /\ Located'
  <2>1. StoredInv'
    BY <1>6, <1>7 DEF StoredInv
  <2> QED BY <2>1, Location, PTL
<1>9. \A e \in Blocks : Hits(e)' = Hits(e)
  BY DEF Hits
<1>10. ASSUME NEW e \in Blocks
       PROVE  ContentsOf(e)' = IF e = b THEN new ELSE ContentsOf(e)
  <2>1. CASE e = b
    BY <2>1, <1>1, <1>4, <1>8, <1>9 DEF Located
  <2>2. CASE e # b /\ Hits(e) = {}
    BY <2>2, <1>8, <1>9 DEF Located
  <2>3. CASE e # b /\ Hits(e) # {}
    <3> PICK x \in Hits(e) : TRUE
      BY <2>3
    <3>1. x \in Ways /\ e[2] \in Sets /\ ~(e[2] = s /\ x = w)
      BY <2>3, <1>1, BlockShape DEF Hits
    <3>2. data'[e[2]][x] = data[e[2]][x]
      BY <3>1, <1>4
    <3>3. ContentsOf(e)' = data'[e[2]][x] /\ ContentsOf(e) = data[e[2]][x]
      BY <1>8, <1>9 DEF Located
    <3> QED BY <2>3, <3>2, <3>3
  <2> QED BY <2>1, <2>2, <2>3
<1>11. ContentsOf(b) = data[s][w]
  BY <1>8 DEF Located
<1> QED BY <1>3, <1>6, <1>7, <1>10, <1>11 DEF StoredInv, Accessed

\* A miss: the victim w is written back, the block is fetched into its way.
LEMMA MissEffect ==
  ASSUME NEW b \in Blocks, NEW c \in Commands, NEW w \in Ways,
         StoredInv,
         Hits(b) = {},
         memory' = WrittenBack(b[2], w),
         tag' = [tag EXCEPT ![b[2]][w] = b[1]],
         valid' = [valid EXCEPT ![b[2]][w] = TRUE],
         Copy(b, c, w, memory'[b]),
         dirty' = [dirty EXCEPT ![b[2]][w] = c.cmd = "Write"]
  PROVE  StoredInv' /\ Accessed(b, c)
<1> DEFINE s == b[2]
           new == Transfer(c, memory[b])
           old == <<tag[s][w], s>>
<1>1. s \in Sets /\ b[1] \in Nat /\ b = <<b[1], s>>
  BY BlockShape
<1>2. valid[s][w] => old \in Blocks /\ old # b
  BY <1>1 DEF Hits, StoredInv, Resident
<1>3. /\ memory' \in [Blocks -> Contents]
      /\ memory'[b] = memory[b]
      /\ memory[b] \in Contents
      /\ \A e \in Blocks :
           memory'[e] = IF valid[s][w] /\ dirty[s][w] /\ e = old
                          THEN data[s][w] ELSE memory[e]
  BY <1>1, <1>2 DEF WrittenBack, StoredInv, BlockTypes
<1>4. /\ new \in Contents
      /\ data' = [data EXCEPT ![s][w] = new]
      /\ c.word \in Words
      /\ call' \in Calls
      /\ Answered(b, c, memory[b])
  <2> Copy(b, c, w, memory[b]) /\ BlockTypes
    BY <1>3 DEF StoredInv
  <2> QED BY <1>1, <1>3, CopyEffect
<1>5. /\ data' \in [Sets -> [Ways -> Contents]]
      /\ \A t \in Sets, x \in Ways :
           data'[t][x] = IF t = s /\ x = w THEN new ELSE data[t][x]
  <2> data \in [Sets -> [Ways -> Contents]]
    BY DEF StoredInv, BlockTypes
  <2> HIDE DEF new
  <2> QED BY <1>1, <1>4, UpdateWay
<1>6. /\ dirty' \in [Sets -> [Ways -> BOOLEAN]]
      /\ \A t \in Sets, x \in Ways :
           dirty'[t][x] = IF t = s /\ x = w THEN c.cmd = "Write" ELSE dirty[t][x]
  <2> dirty \in [Sets -> [Ways -> BOOLEAN]]
    BY DEF StoredInv, BlockTypes
  <2>1. (c.cmd = "Write") \in BOOLEAN
    OBVIOUS
  <2> QED BY <1>1, <2>1, UpdateWay
<1>7. /\ valid' \in [Sets -> [Ways -> BOOLEAN]]
      /\ \A t \in Sets, x \in Ways :
           valid'[t][x] <=> valid[t][x] \/ (t = s /\ x = w)
  BY <1>1 DEF StoredInv, BlockTypes
<1>8. /\ tag' \in [Sets -> [Ways -> Nat]]
      /\ \A t \in Sets, x \in Ways :
           tag'[t][x] = IF t = s /\ x = w THEN b[1] ELSE tag[t][x]
  <2> tag \in [Sets -> [Ways -> Nat]]
    BY DEF StoredInv, BlockTypes
  <2> QED BY <1>1, UpdateWay
<1>9. BlockTypes' /\ Resident'
  <2>1. BlockTypes'
    BY <1>3, <1>4, <1>5, <1>6, <1>7, <1>8 DEF BlockTypes
  <2>2. ASSUME NEW t \in Sets, NEW x \in Ways, valid'[t][x]
        PROVE  <<tag'[t][x], t>> \in Blocks
    <3>1. CASE t = s /\ x = w
      BY <3>1, <1>1, <1>8
    <3>2. CASE ~(t = s /\ x = w)
      BY <2>2, <3>2, <1>7, <1>8 DEF StoredInv, Resident
    <3> QED BY <3>1, <3>2
  <2> QED BY <2>1, <2>2 DEF Resident
<1>10. OneCopy'
  <2> SUFFICES ASSUME NEW t \in Sets, NEW x \in Ways, NEW y \in Ways,
                      valid'[t][x], valid'[t][y], tag'[t][x] = tag'[t][y], x # y
               PROVE  FALSE
    BY DEF OneCopy
  <2>1. CASE t = s /\ (x = w \/ y = w)
    BY <2>1, <1>7, <1>8 DEF Hits
  <2>2. CASE ~(t = s /\ (x = w \/ y = w))
    BY <2>2, <1>7, <1>8 DEF StoredInv, OneCopy
  <2> QED BY <2>1, <2>2
<1>11. CleanIsInMemory'
  <2> SUFFICES ASSUME NEW t \in Sets, NEW x \in Ways, valid'[t][x], ~dirty'[t][x]
               PROVE  data'[t][x] = memory'[<<tag'[t][x], t>>]
    BY DEF CleanIsInMemory
  <2>1. CASE t = s /\ x = w
    <3>0. dirty'[t][x] <=> c.cmd = "Write"
      BY <2>1, <1>6
    <3>1. tag'[t][x] = b[1] /\ data'[t][x] = new /\ c.cmd # "Write"
      BY <2>1, <3>0, <1>5, <1>8
    <3>2. new = memory[b]
      BY <3>1 DEF Transfer
    <3> QED BY <2>1, <3>1, <3>2, <1>1, <1>3
  <2>2. CASE ~(t = s /\ x = w)
    <3> DEFINE e == <<tag[t][x], t>>
    <3>1. valid[t][x] /\ ~dirty[t][x] /\ data'[t][x] = data[t][x] /\ tag'[t][x] = tag[t][x]
      BY <2>2, <1>5, <1>6, <1>7, <1>8
    <3>2. e \in Blocks /\ data[t][x] = memory[e]
      BY <3>1 DEF StoredInv, Resident, CleanIsInMemory
    <3>3. ~(valid[s][w] /\ e = old)
      BY <3>1, <2>2, <1>1 DEF StoredInv, OneCopy
    <3> QED BY <3>1, <3>2, <3>3, <1>3
  <2> QED BY <2>1, <2>2
<1>12. StoredInv'
  BY <1>9, <1>10, <1>11 DEF StoredInv
<1>13. Located /\ Located'
  BY <1>12, Location, PTL
<1>14. w \in Hits(b)' /\ \A e \in Blocks : e # b => Hits(e)' = Hits(e) \ (IF e = old THEN {w} ELSE {})
  <2>1. w \in Hits(b)'
    BY <1>1, <1>7, <1>8 DEF Hits
  <2>2. ASSUME NEW e \in Blocks, e # b
        PROVE  Hits(e)' = Hits(e) \ (IF e = old THEN {w} ELSE {})
    <3> e = <<e[1], e[2]>> /\ e[2] \in Sets
      BY BlockShape
    <3> QED BY <2>2, <1>1, <1>7, <1>8 DEF Hits
  <2> QED BY <2>1, <2>2
<1>15. ASSUME NEW e \in Blocks
       PROVE  ContentsOf(e)' = IF e = b THEN new ELSE ContentsOf(e)
  <2> e = <<e[1], e[2]>> /\ e[2] \in Sets
    BY BlockShape
  <2>1. CASE e = b
    BY <2>1, <1>1, <1>5, <1>13, <1>14 DEF Located
  <2>2. CASE e # b /\ e = old /\ valid[s][w]
    <3>1. w \in Hits(e) /\ Hits(e) = {w}
      BY <2>2, <1>1 DEF Hits, StoredInv, OneCopy
    <3>2. ContentsOf(e) = data[s][w]
      BY <2>2, <3>1, <1>13 DEF Located
    <3>3. Hits(e)' = {}
      BY <2>2, <3>1, <1>14
    <3>4. ContentsOf(e)' = memory'[e]
      BY <3>3, <1>13 DEF Located
    <3>5. memory'[e] = data[s][w]
      BY <2>2, <1>1, <1>3 DEF StoredInv, CleanIsInMemory
    <3> QED BY <2>2, <3>2, <3>4, <3>5
  <2>3. CASE e # b /\ ~(e = old /\ valid[s][w])
    <3>1. Hits(e)' = Hits(e) /\ ~(w \in Hits(e) /\ e[2] = s)
      BY <2>3, <1>1, <1>14 DEF Hits
    <3>2. memory'[e] = memory[e]
      BY <2>3, <1>3
    <3>3. CASE Hits(e) = {}
      BY <2>3, <3>1, <3>2, <3>3, <1>13 DEF Located
    <3>4. CASE Hits(e) # {}
      <4> PICK x \in Hits(e) : TRUE
        BY <3>4
      <4>1. data'[e[2]][x] = data[e[2]][x]
        BY <3>1, <1>5 DEF Hits
      <4>2. ContentsOf(e)' = data'[e[2]][x] /\ ContentsOf(e) = data[e[2]][x]
        BY <3>1, <1>13 DEF Located
      <4> QED BY <2>3, <4>1, <4>2
    <3> QED BY <3>3, <3>4
  <2> QED BY <2>1, <2>2, <2>3
<1>16. ContentsOf(b) = memory[b]
  BY <1>13 DEF Located
<1> QED BY <1>4, <1>12, <1>15, <1>16 DEF Accessed

Preserved == \A e \in Blocks : ContentsOf(e)' = ContentsOf(e)

\* What the flush functions leave as the last call.
Flushed ==
  \/ call' = [cmd |-> "cache_flush"]
  \/ \E b \in Blocks : call' = [cmd |-> "cache_flush_addr", block |-> b]

\* cache_flush writes back what is dirty and loses nothing (cache.c:945-970).
LEMMA FlushEffect ==
  ASSUME StoredInv, cache_flush
  PROVE  StoredInv' /\ Preserved /\ Flushed
<1>1. /\ \A s \in Sets, w \in Ways : ~valid'[s][w]
      /\ valid' \in [Sets -> [Ways -> BOOLEAN]]
  BY DEF cache_flush
<1>2. ASSUME NEW e \in Blocks
      PROVE  memory'[e] = ContentsOf(e) /\ ContentsOf(e) \in Contents
  <2> e[2] \in Sets /\ e = <<e[1], e[2]>>
    BY BlockShape
  <2> memory[e] \in Contents
    BY DEF StoredInv, BlockTypes
  <2>1. ASSUME NEW w \in Hits(e)
        PROVE  /\ Hits(e) = {w}
               /\ ContentsOf(e) = data[e[2]][w]
               /\ data[e[2]][w] \in Contents
               /\ ~dirty[e[2]][w] => data[e[2]][w] = memory[e]
    <3>1. Hits(e) = {w}
      BY <2>1 DEF Hits, StoredInv, OneCopy
    <3>2. ContentsOf(e) = data[e[2]][w]
      BY <2>1, Location DEF Located
    <3>3. w \in Ways /\ valid[e[2]][w] /\ tag[e[2]][w] = e[1]
      BY <2>1 DEF Hits
    <3> QED BY <3>1, <3>2, <3>3 DEF StoredInv, BlockTypes, CleanIsInMemory
  <2>2. memory'[e] = IF \E w \in Hits(e) : dirty[e[2]][w]
                       THEN data[e[2]][CHOOSE w \in Hits(e) : dirty[e[2]][w]]
                       ELSE memory[e]
    BY DEF cache_flush
  <2>3. CASE \E w \in Hits(e) : dirty[e[2]][w]
    <3>1. (CHOOSE w \in Hits(e) : dirty[e[2]][w]) \in Hits(e)
      BY <2>3
    <3> QED BY <2>1, <2>2, <2>3, <3>1
  <2>4. CASE Hits(e) = {}
    BY <2>2, <2>4, Location DEF Located
  <2>5. CASE Hits(e) # {} /\ ~\E w \in Hits(e) : dirty[e[2]][w]
    BY <2>1, <2>2, <2>5
  <2> QED BY <2>3, <2>4, <2>5
<1>3. memory' \in [Blocks -> Contents]
  <2>1. memory' = [e \in Blocks |-> memory'[e]]
    BY DEF cache_flush
  <2> QED BY <1>2, <2>1
<1>4. StoredInv' /\ Flushed
  <2>1. call' = [cmd |-> "cache_flush"] /\ call' \in Calls
    BY DEF cache_flush, Calls
  <2> QED BY <1>1, <1>3, <2>1 DEF cache_flush, StoredInv, BlockTypes, Resident, OneCopy,
             CleanIsInMemory, Flushed
<1>5. \A e \in Blocks : Hits(e)' = {}
  BY <1>1, BlockShape DEF Hits
<1>6. Located'
  BY <1>4, Location, PTL
<1>7. \A e \in Blocks : ContentsOf(e)' = memory'[e]
  BY <1>5, <1>6 DEF Located
<1> QED BY <1>2, <1>4, <1>7 DEF Preserved, cache_flush

\* cache_flush_addr writes back its block if dirty and loses nothing.
LEMMA FlushAddrEffect ==
  ASSUME NEW b \in Blocks, StoredInv, cache_flush_addr(b)
  PROVE  StoredInv' /\ Preserved /\ Flushed
<1> PICK w \in Hits(b) : /\ memory' = WrittenBack(b[2], w)
                         /\ valid' = [valid EXCEPT ![b[2]][w] = FALSE]
  BY DEF cache_flush_addr
<1> UNCHANGED <<tag, dirty, data>>
  BY DEF cache_flush_addr
<1>0. call' \in Calls /\ Flushed
  BY DEF cache_flush_addr, Calls, Flushed
<1> DEFINE s == b[2]
<1>1. s \in Sets /\ w \in Ways /\ valid[s][w] /\ b = <<tag[s][w], s>>
  BY BlockShape DEF Hits
<1>2. /\ valid' \in [Sets -> [Ways -> BOOLEAN]]
      /\ \A t \in Sets, x \in Ways :
           valid'[t][x] <=> valid[t][x] /\ ~(t = s /\ x = w)
  BY <1>1 DEF StoredInv, BlockTypes
<1>3. /\ memory' \in [Blocks -> Contents]
      /\ \A e \in Blocks :
           memory'[e] = IF dirty[s][w] /\ e = b THEN data[s][w] ELSE memory[e]
  BY <1>1 DEF WrittenBack, StoredInv, BlockTypes
<1>4. BlockTypes' /\ Resident' /\ OneCopy'
  BY <1>0, <1>2, <1>3 DEF StoredInv, BlockTypes, Resident, OneCopy
<1>5. CleanIsInMemory'
  <2> SUFFICES ASSUME NEW t \in Sets, NEW x \in Ways, valid'[t][x], ~dirty[t][x]
               PROVE  data[t][x] = memory'[<<tag[t][x], t>>]
    BY DEF CleanIsInMemory
  <2>1. valid[t][x] /\ ~(t = s /\ x = w)
    BY <1>2
  <2>2. <<tag[t][x], t>> \in Blocks /\ data[t][x] = memory[<<tag[t][x], t>>]
    BY <2>1 DEF StoredInv, Resident, CleanIsInMemory
  <2>3. <<tag[t][x], t>> # b
    BY <2>1, <1>1 DEF StoredInv, OneCopy
  <2> QED BY <2>2, <2>3, <1>3
<1>6. StoredInv'
  BY <1>4, <1>5 DEF StoredInv
<1>7. Located /\ Located'
  BY <1>6, Location, PTL
<1>8. ASSUME NEW e \in Blocks
      PROVE  ContentsOf(e)' = ContentsOf(e)
  <2> e[2] \in Sets /\ e = <<e[1], e[2]>>
    BY BlockShape
  <2>1. CASE e = b
    <3>1. Hits(e) = {w}
      BY <2>1, <1>1 DEF Hits, StoredInv, OneCopy
    <3>2. Hits(e)' = {}
      BY <2>1, <1>2, <3>1 DEF Hits
    <3>3. ContentsOf(e) = data[s][w] /\ ContentsOf(e)' = memory'[e]
      BY <2>1, <3>1, <3>2, <1>7 DEF Located
    <3>4. memory'[e] = data[s][w]
      BY <2>1, <1>1, <1>3 DEF StoredInv, CleanIsInMemory
    <3> QED BY <3>3, <3>4
  <2>2. CASE e # b
    <3>1. Hits(e)' = Hits(e)
      BY <2>2, <1>1, <1>2 DEF Hits
    <3>2. memory'[e] = memory[e]
      BY <2>2, <1>3
    <3>3. CASE Hits(e) = {}
      BY <3>1, <3>2, <3>3, <1>7 DEF Located
    <3>4. CASE Hits(e) # {}
      BY <3>1, <3>4, <1>7 DEF Located
    <3> QED BY <3>3, <3>4
  <2> QED BY <2>1, <2>2
<1> QED BY <1>0, <1>6, <1>8 DEF Preserved

-----------------------------------------------------------------------------
(* The invariant.                                                          *)

\* An empty cache is coherent.
LEMMA InitCoherent == Init => CoherenceInv
<1> SUFFICES ASSUME Init PROVE CoherenceInv
  OBVIOUS
<1> PICK v \in Values : data = [s \in Sets |-> [w \in Ways |-> [x \in Words |-> v]]]
  BY DEF Init
<1>1. BlockTypes
  BY DEF Init, BlockTypes, Contents, Calls
<1>2. Resident /\ OneCopy /\ CleanIsInMemory
  BY DEF Init, Resident, OneCopy, CleanIsInMemory
<1> QED BY <1>1, <1>2 DEF Init, CoherenceInv, StoredInv, LastTypes, FastHitIsHit

\* A hit leaves the blocks where they are, and the way it finds is the block.
LEMMA FastHitEffect ==
  ASSUME NEW b \in Blocks, NEW c \in Commands, CoherenceInv, FastHit(b, c)
  PROVE  CoherenceInv' /\ Accessed(b, c)
<1>1. last_blk \in Hits(b)
  BY BlockShape DEF FastHit, CoherenceInv, FastHitIsHit
<1>2. /\ Copy(b, c, last_blk, data[b[2]][last_blk])
      /\ dirty' = [dirty EXCEPT ![b[2]][last_blk] = @ \/ c.cmd = "Write"]
      /\ UNCHANGED <<tag, valid, memory, last_tagset, last_blk>>
  BY DEF FastHit, lasthit
<1>3. StoredInv' /\ Accessed(b, c)
  <2> StoredInv
    BY DEF CoherenceInv
  <2> QED BY <1>1, <1>2, HitEffect
<1>4. LastTypes' /\ FastHitIsHit'
  BY <1>2 DEF CoherenceInv, LastTypes, FastHitIsHit, Hits
<1> QED BY <1>3, <1>4 DEF CoherenceInv

\* A hit in the lists leaves a coherent cache and records itself.
LEMMA SlowHitEffect ==
  ASSUME NEW b \in Blocks, NEW c \in Commands, CoherenceInv, SlowHit(b, c)
  PROVE  CoherenceInv' /\ Accessed(b, c)
<1> PICK w \in Hits(b) :
      /\ Copy(b, c, w, data[b[2]][w])
      /\ dirty' = [dirty EXCEPT ![b[2]][w] = @ \/ c.cmd = "Write"]
      /\ last_tagset' = b
      /\ last_blk' = w
  BY DEF SlowHit
<1>1. UNCHANGED <<tag, valid, memory>>
  BY DEF SlowHit
<1>2. StoredInv' /\ Accessed(b, c)
  <2> StoredInv
    BY DEF CoherenceInv
  <2> QED BY <1>1, HitEffect
<1>3. LastTypes' /\ FastHitIsHit'
  BY <1>1 DEF LastTypes, FastHitIsHit, Hits
<1> QED BY <1>2, <1>3 DEF CoherenceInv

\* A miss leaves a coherent cache and records the way it filled.
LEMMA MissCoherent ==
  ASSUME NEW b \in Blocks, NEW c \in Commands, CoherenceInv, Miss(b, c)
  PROVE  CoherenceInv' /\ Accessed(b, c)
<1> PICK w \in Ways :
      /\ memory' = WrittenBack(b[2], w)
      /\ tag' = [tag EXCEPT ![b[2]][w] = b[1]]
      /\ valid' = [valid EXCEPT ![b[2]][w] = TRUE]
      /\ Copy(b, c, w, memory'[b])
      /\ dirty' = [dirty EXCEPT ![b[2]][w] = c.cmd = "Write"]
  BY DEF Miss
<1>1. Hits(b) = {} /\ StoredInv
  BY DEF Miss, cache_probe, CoherenceInv
<1>2. StoredInv' /\ Accessed(b, c)
  BY <1>1, MissEffect
<1>3. LastTypes' /\ FastHitIsHit'
  BY DEF Miss, LastTypes, FastHitIsHit
<1> QED BY <1>2, <1>3 DEF CoherenceInv

\* Every step is an access of some block or leaves the contents as they are; a call
\* that is no access is a flush.
LEMMA StepEffect ==
  ASSUME CoherenceInv, [Next]_vars
  PROVE  /\ CoherenceInv'
         /\ \/ \E b \in Blocks, c \in Commands : Accessed(b, c)
            \/ Preserved /\ (Flushed \/ UNCHANGED call)
<1>1. ASSUME NEW b \in Blocks, NEW c \in Commands, cache_access(b, c)
      PROVE  CoherenceInv' /\ Accessed(b, c)
  BY <1>1, FastHitEffect, SlowHitEffect, MissCoherent DEF cache_access
<1>2. ASSUME cache_flush
      PROVE  CoherenceInv' /\ Preserved /\ Flushed
  <2>1. StoredInv' /\ Preserved /\ Flushed
    BY <1>2, FlushEffect DEF CoherenceInv
  <2>2. LastTypes' /\ FastHitIsHit'
    BY <1>2 DEF cache_flush, LastTypes, FastHitIsHit
  <2> QED BY <2>1, <2>2 DEF CoherenceInv
<1>3. ASSUME NEW b \in Blocks, cache_flush_addr(b)
      PROVE  CoherenceInv' /\ Preserved /\ Flushed
  <2>1. StoredInv' /\ Preserved /\ Flushed
    BY <1>3, FlushAddrEffect DEF CoherenceInv
  <2>2. LastTypes' /\ FastHitIsHit'
    BY <1>3 DEF cache_flush_addr, LastTypes, FastHitIsHit
  <2> QED BY <2>1, <2>2 DEF CoherenceInv
<1>4. ASSUME UNCHANGED vars
      PROVE  CoherenceInv' /\ Preserved /\ UNCHANGED call
  BY <1>4 DEF vars, blocks, lasthit, CoherenceInv, StoredInv, BlockTypes, Resident,
     OneCopy, CleanIsInMemory, LastTypes, FastHitIsHit, Hits, Preserved,
     ContentsOf, cache_probe
<1> QED BY <1>1, <1>2, <1>3, <1>4 DEF Next

\* The inductive invariant of the copies: types, one copy per block, clean copies
\* equal to the next level, and a fast-hit record that names its block.
THEOREM CoherenceInvariance == Spec => []CoherenceInv
<1>1. CoherenceInv /\ [Next]_vars => CoherenceInv'
  BY StepEffect
<1> QED BY InitCoherent, <1>1, PTL DEF Spec

\* Copies are unique, clean copies agree with the next level, and the fast path
\* goes to the block that is asked for, in every reachable state.
THEOREM Coherence == Spec => []Coherent
<1>1. CoherenceInv => Coherent
  BY DEF Coherent, CoherenceInv, StoredInv
<1> QED BY CoherenceInvariance, <1>1, PTL

-----------------------------------------------------------------------------
(* The cache implements a memory.                                          *)

ContentsTyped == \A b \in Blocks : ContentsOf(b) \in Contents

\* What the client sees of a block is a block.
LEMMA ContentsTypes == CoherenceInv => ContentsTyped
<1> SUFFICES ASSUME CoherenceInv, NEW b \in Blocks
             PROVE  ContentsOf(b) \in Contents
  BY DEF ContentsTyped
<1> BlockTypes /\ Located /\ b[2] \in Sets
  BY Location, BlockShape DEF CoherenceInv, StoredInv
<1>1. CASE Hits(b) = {}
  BY <1>1 DEF Located, BlockTypes
<1>2. CASE Hits(b) # {}
  <2> PICK w \in Hits(b) : TRUE
    BY <1>2
  <2> w \in Ways /\ ContentsOf(b) = data[b[2]][w]
    BY DEF Hits, Located
  <2> QED BY DEF BlockTypes
<1> QED BY <1>1, <1>2

contentsImage == [b \in Blocks |-> ContentsOf(b)]

\* An access of the cache is an access of the memory, to the same block and word.
LEMMA AccessedIsAccess ==
  ASSUME NEW b \in Blocks, NEW c \in Commands, Accessed(b, c), ContentsTyped
  PROVE  Image!MNext
<1>1. CASE c.cmd = "Read"
  <2>1. contentsImage' = contentsImage
    <3>1. \A e \in Blocks : ContentsOf(e)' = ContentsOf(e)
      BY <1>1 DEF Accessed, Transfer
    <3> QED BY <3>1 DEF contentsImage
  <2>2. /\ c.word \in Words
        /\ call' = [cmd |-> "Read", block |-> b, word |-> c.word,
                    value |-> contentsImage[b][c.word]]
    BY <1>1 DEF Accessed, Answered, contentsImage
  <2>3. Image!MRead(b, c.word)
    BY <2>1, <2>2 DEF Image!MRead, contentsImage
  <2> QED BY <2>2, <2>3 DEF Image!MNext
<1>2. CASE c.cmd = "Write"
  <2>1. /\ c.word \in Words /\ c.value \in Values
        /\ call' = [cmd |-> "Write", block |-> b, word |-> c.word, value |-> c.value]
    BY <1>2 DEF Accessed, Answered
  <2>2. contentsImage' = [contentsImage EXCEPT ![b][c.word] = c.value]
    <3>1. \A e \in Blocks :
            ContentsOf(e)' = IF e = b THEN [ContentsOf(b) EXCEPT ![c.word] = c.value]
                             ELSE ContentsOf(e)
      BY <1>2 DEF Accessed, Transfer
    <3> QED BY <3>1 DEF contentsImage
  <2>3. Image!MWrite(b, c.word, c.value)
    BY <2>1, <2>2 DEF Image!MWrite, contentsImage
  <2> QED BY <2>1, <2>3 DEF Image!MNext
<1> QED BY <1>1, <1>2 DEF Commands

\* A flush of the cache is a flush of the memory, and no call is no step of it.
LEMMA PreservedIsFlush ==
  ASSUME Preserved, Flushed \/ UNCHANGED call
  PROVE  [Image!MNext]_(Image!mvars)
<1>1. contentsImage' = contentsImage
  BY DEF Preserved, contentsImage
<1>2. CASE UNCHANGED call
  BY <1>1, <1>2 DEF Image!mvars, contentsImage
<1>3. CASE call' = [cmd |-> "cache_flush"]
  BY <1>1, <1>3 DEF Image!MNext, Image!MFlush, contentsImage
<1>4. ASSUME NEW b \in Blocks, call' = [cmd |-> "cache_flush_addr", block |-> b]
      PROVE  Image!MNext
  <2>1. Image!MFlushBlock(b)
    BY <1>1, <1>4 DEF Image!MFlushBlock, contentsImage
  <2> QED BY <2>1 DEF Image!MNext
<1> QED BY <1>2, <1>3, <1>4 DEF Flushed

\* Whatever the geometry, the policy and the flushes, the client of the cache
\* sees a memory: a read of a word of a block returns what was last written to it,
\* a write changes that word only, and a flush nothing (cache.c:535-1003).
THEOREM IsMemory == Spec => MemorySpec
<1>1. Spec => []CoherenceInv
  BY CoherenceInvariance
<1>2. Init => Image!MInit
  <2> SUFFICES ASSUME Init PROVE Image!MInit
    OBVIOUS
  <2>1. ContentsTyped /\ call = [cmd |-> "none"]
    BY InitCoherent, ContentsTypes DEF Init, NoCall
  <2> QED BY <2>1 DEF ContentsTyped, Contents, Image!MInit
<1>3. CoherenceInv /\ [Next]_vars => [Image!MNext]_(Image!mvars)
  BY StepEffect, ContentsTypes, AccessedIsAccess, PreservedIsFlush
<1> QED BY <1>1, <1>2, <1>3, PTL DEF Spec, MemorySpec, Image!MSpec

-----------------------------------------------------------------------------
(* The replacement state: its types, the order of the way lists, the fast  *)
(* path, and the victim search of DRRIP.                                   *)

ReplacementTypes ==
  /\ policy \in Policies
  /\ rank \in [Sets -> [Ways -> Ways]]
  /\ NRU_bit \in [Sets -> [Ways -> BOOLEAN]]
  /\ RRPV \in [Sets -> [Ways -> Nat]]
  /\ BIPCTR \in 0..BIPCTR_MAX
  /\ PSEL \in 0..(PSEL_MAX + 1)

\* Only DRRIP changes RRPVs.
OnlyDRRIPOvershoots == policy # "DRRIP" => \A s \in Sets : Overshoot(s) = {}

ReplacementInv ==
  /\ ReplacementTypes
  /\ WayListIsOrder
  /\ OnlyHeadOvershoots
  /\ OnlyDRRIPOvershoots
  /\ FastHitNeedsNoUpdate

-----------------------------------------------------------------------------
(* The way list of one set.                                                *)

\* Moving a way to either end keeps the list a list of all ways.
LEMMA MoveKeepsOrder ==
  ASSUME NEW s \in Sets, NEW w \in Ways, rank[s] \in [Ways -> Ways],
         \A x, y \in Ways : rank[s][x] = rank[s][y] => x = y
  PROVE  /\ AtHead(s, w) \in [Ways -> Ways]
         /\ AtTail(s, w) \in [Ways -> Ways]
         /\ \A x, y \in Ways : AtHead(s, w)[x] = AtHead(s, w)[y] => x = y
         /\ \A x, y \in Ways : AtTail(s, w)[x] = AtTail(s, w)[y] => x = y
         /\ AtHead(s, w)[w] = 0
<1> assoc \in Nat \ {0}
  BY WaysAssumption
<1>1. \A x \in Ways : rank[s][x] \in 0..(assoc - 1)
  BY DEF Ways
<1> assoc - 1 \in Ways
  BY DEF Ways
<1>2. AtHead(s, w) \in [Ways -> Ways]
  <2>1. ASSUME NEW x \in Ways PROVE AtHead(s, w)[x] \in 0..(assoc - 1)
    BY <1>1 DEF AtHead
  <2>2. AtHead(s, w) = [x \in Ways |-> AtHead(s, w)[x]]
    BY DEF AtHead
  <2> QED BY <2>1, <2>2 DEF Ways
<1>3. AtTail(s, w) \in [Ways -> Ways]
  <2>1. ASSUME NEW x \in Ways PROVE AtTail(s, w)[x] \in 0..(assoc - 1)
    BY <1>1 DEF AtTail
  <2>2. AtTail(s, w) = [x \in Ways |-> AtTail(s, w)[x]]
    BY DEF AtTail
  <2> QED BY <2>1, <2>2 DEF Ways
<1>4. ASSUME NEW x \in Ways, NEW y \in Ways, AtHead(s, w)[x] = AtHead(s, w)[y]
      PROVE  x = y
  BY <1>1, <1>4 DEF AtHead
<1>5. ASSUME NEW x \in Ways, NEW y \in Ways, AtTail(s, w)[x] = AtTail(s, w)[y]
      PROVE  x = y
  <2>1. \A z \in Ways : z # w => rank[s][z] # rank[s][w]
    OBVIOUS
  <2> QED BY <1>1, <1>5, <2>1 DEF AtTail
<1> QED BY <1>2, <1>3, <1>4, <1>5 DEF AtHead

-----------------------------------------------------------------------------
(* The replacement state of one miss.                                      *)

\* The saturating PSEL and BIP counters keep their ranges.
LEMMA CounterTypes ==
  ASSUME NEW s \in Sets, ReplacementTypes
  PROVE  /\ InsertionRRPV(s) \in 0..RRPV_MAX
         /\ NextPSEL(s) \in 0..(PSEL_MAX + 1)
<1> RRPV_MAX \in Nat \ {0} /\ PSEL_MAX \in Nat /\ PSEL \in 0..(PSEL_MAX + 1)
  BY WaysAssumption, DRRIPAssumption DEF ReplacementTypes
<1>1. InsertionRRPV(s) \in {RRPV_MAX, RRPV_MAX - 1}
  BY DEF InsertionRRPV
<1>2. NextPSEL(s) = PSEL \/ (PSEL <= PSEL_MAX /\ NextPSEL(s) = PSEL + 1)
                         \/ (PSEL > 0 /\ NextPSEL(s) = PSEL - 1)
  BY DEF NextPSEL
<1> QED BY <1>1, <1>2

\* What a miss does to the replacement state of the set it misses in.
LEMMA ReplaceEffect ==
  ASSUME NEW s \in Sets, NEW w \in Ways, ReplacementTypes, WayListIsOrder,
         OnlyHeadOvershoots, OnlyDRRIPOvershoots, Replace(s, w), UNCHANGED policy
  PROVE  /\ ReplacementTypes' /\ WayListIsOrder'
         /\ OnlyHeadOvershoots' /\ OnlyDRRIPOvershoots'
<1> rank[s] \in [Ways -> Ways] /\ RRPV_MAX \in Nat \ {0} /\ BIPCTR_MAX \in Nat
  BY WaysAssumption, DRRIPAssumption DEF ReplacementTypes
<1>1. CASE ReplaceTail(s, w)
  <2>1. /\ AtHead(s, w) \in [Ways -> Ways]
        /\ \A x, y \in Ways : AtHead(s, w)[x] = AtHead(s, w)[y] => x = y
    BY MoveKeepsOrder DEF WayListIsOrder
  <2>2. /\ rank' = [rank EXCEPT ![s] = AtHead(s, w)]
        /\ policy # "DRRIP"
        /\ UNCHANGED <<NRU_bit, RRPV, BIPCTR, PSEL>>
    BY <1>1 DEF ReplaceTail
  <2>3. ReplacementTypes' /\ WayListIsOrder'
    BY <2>1, <2>2 DEF ReplacementTypes, WayListIsOrder
  <2>4. OnlyDRRIPOvershoots' /\ OnlyHeadOvershoots'
    BY <2>2 DEF OnlyDRRIPOvershoots, OnlyHeadOvershoots, Overshoot
  <2> QED BY <2>3, <2>4
<1>2. CASE ReplaceRandom(s, w)
  BY <1>2 DEF ReplaceRandom, replacement, ReplacementTypes, WayListIsOrder,
     OnlyHeadOvershoots, OnlyDRRIPOvershoots, Overshoot
<1>3. CASE ReplaceNRU(s, w)
  <2>1. NRU_bit' \in [Sets -> [Ways -> BOOLEAN]]
    <3> DEFINE bits == [x \in Ways |-> x # w /\ (NRU_bit[s][x] \/ NotUsed(NRU_bit[s]) = {})]
    <3>1. NRU_bit' = [NRU_bit EXCEPT ![s] = bits]
      BY <1>3 DEF ReplaceNRU, ReplacementTypes
    <3>2. bits \in [Ways -> BOOLEAN]
      OBVIOUS
    <3> HIDE DEF bits
    <3> QED BY <3>1, <3>2 DEF ReplacementTypes
  <2> QED BY <1>3, <2>1 DEF ReplaceNRU, ReplacementTypes, WayListIsOrder,
          OnlyHeadOvershoots, OnlyDRRIPOvershoots, Overshoot
<1>4. CASE ReplaceDRRIP(s, w)
  <2> PICK n \in 0..RRPV_MAX :
        /\ ChosenByDRRIP(rank[s], RRPV[s], w, n)
        /\ RRPV' = [RRPV EXCEPT ![s] =
                      [x \in Ways |-> IF x = w THEN InsertionRRPV(s) ELSE RRPV[s][x] + n]]
    BY <1>4 DEF ReplaceDRRIP
  <2>1. policy = "DRRIP" /\ UNCHANGED <<rank, NRU_bit>> /\ PSEL' = NextPSEL(s)
    BY <1>4 DEF ReplaceDRRIP
  <2>2. /\ RRPV' \in [Sets -> [Ways -> Nat]]
        /\ \A t \in Sets, x \in Ways :
             RRPV'[t][x] = IF t = s THEN IF x = w THEN InsertionRRPV(s) ELSE RRPV[s][x] + n
                           ELSE RRPV[t][x]
    <3> DEFINE next == [x \in Ways |-> IF x = w THEN InsertionRRPV(s) ELSE RRPV[s][x] + n]
    <3>1. next \in [Ways -> Nat]
      BY CounterTypes DEF ReplacementTypes
    <3> QED BY <3>1 DEF ReplacementTypes
  <2>3. BIPCTR' \in 0..BIPCTR_MAX
    <3>1. \/ BIPCTR' = BIPCTR
          \/ BIPCTR' = 0
          \/ BIPCTR # BIPCTR_MAX /\ BIPCTR' = BIPCTR + 1
      BY <1>4 DEF ReplaceDRRIP
    <3> QED BY <3>1 DEF ReplacementTypes
  <2>4. ReplacementTypes' /\ WayListIsOrder'
    <3>1. PSEL' \in 0..(PSEL_MAX + 1)
      BY <2>1, CounterTypes
    <3>2. RRPV' \in [Sets -> [Ways -> Nat]]
      BY <2>2
    <3> QED BY <2>1, <2>3, <3>1, <3>2 DEF ReplacementTypes, WayListIsOrder
  <2>5. ASSUME "cache_flush_addr" \notin Flushes,
               NEW t \in Sets, NEW x \in Ways, RRPV'[t][x] > RRPV_MAX
        PROVE  rank[t][x] = 0
    <3>1. CASE t # s
      BY <2>2, <2>5, <3>1 DEF OnlyHeadOvershoots, Overshoot
    <3>2. CASE t = s /\ x = w
      BY <2>2, <2>5, <3>2, CounterTypes
    <3>3. CASE t = s /\ x # w /\ n = 0
      BY <2>2, <2>5, <3>3 DEF OnlyHeadOvershoots, Overshoot, ReplacementTypes
    <3>4. CASE t = s /\ x # w /\ n # 0
      <4>1. \A y \in Approaching(rank[s], RRPV[s]) : RRPV[s][y] + n <= RRPV_MAX
        BY <3>4 DEF ChosenByDRRIP
      <4>2. Distant(RRPV[s]) = {}
        BY <3>4 DEF ChosenByDRRIP
      <4>3. RRPV[s][x] # RRPV_MAX /\ ~(x \in Approaching(rank[s], RRPV[s]))
        BY <2>2, <2>5, <3>4, <4>1, <4>2 DEF Distant, ReplacementTypes
      <4>4. RRPV[s][x] \in Nat /\ rank[s][x] \in Nat
        <5>1. rank[s][x] \in Ways
          OBVIOUS
        <5>2. rank[s][x] \in Nat
          BY <5>1, WaysAssumption DEF Ways
        <5> QED BY <5>2 DEF ReplacementTypes
      <4>5. CASE RRPV[s][x] > RRPV_MAX
        BY <2>5, <3>4, <4>5 DEF OnlyHeadOvershoots, Overshoot
      <4>6. CASE RRPV[s][x] < RRPV_MAX
        BY <3>4, <4>3, <4>4, <4>6 DEF Approaching
      <4> QED BY <4>3, <4>4, <4>5, <4>6
    <3> QED BY <3>1, <3>2, <3>3, <3>4
  <2>6. OnlyHeadOvershoots' /\ OnlyDRRIPOvershoots'
    BY <2>1, <2>5 DEF OnlyHeadOvershoots, OnlyDRRIPOvershoots, Overshoot
  <2> QED BY <2>4, <2>6
<1> QED BY <1>1, <1>2, <1>3, <1>4 DEF Replace

-----------------------------------------------------------------------------
(* The invariant.                                                          *)

\* cache_create establishes the replacement invariant.
LEMMA InitReplacement == Init => ReplacementInv
<1> SUFFICES ASSUME Init PROVE ReplacementInv
  OBVIOUS
<1> assoc \in Nat \ {0} /\ RRPV_MAX \in Nat \ {0}
  BY WaysAssumption
<1>1. /\ \A s \in Sets, w \in Ways : rank[s][w] = assoc - 1 - w
      /\ \A s \in Sets, w \in Ways : RRPV[s][w] = RRPV_MAX - 1
  BY DEF Init
<1>2. ReplacementTypes
  <2>1. rank \in [Sets -> [Ways -> Ways]]
    BY DEF Init, Ways
  <2> QED BY <2>1, DRRIPAssumption DEF Init, ReplacementTypes
<1>3. WayListIsOrder
  BY <1>1 DEF WayListIsOrder, Ways
<1>4. \A s \in Sets : Overshoot(s) = {}
  BY <1>1 DEF Overshoot
<1>5. FastHitNeedsNoUpdate
  BY DEF Init, FastHitNeedsNoUpdate
<1> QED BY <1>2, <1>3, <1>4, <1>5
        DEF ReplacementInv, OnlyHeadOvershoots, OnlyDRRIPOvershoots

\* A slow hit makes the block it hits the most recently used one.
LEMMA TouchEffect ==
  ASSUME NEW b \in Blocks, NEW w \in Ways, ReplacementInv,
         Touch(b[2], w), last_tagset' = b, last_blk' = w, UNCHANGED policy
  PROVE  ReplacementInv'
<1> DEFINE s == b[2]
<1> s \in Sets
  BY BlocksAssumption DEF Sets
<1> rank[s] \in [Ways -> Ways] /\ RRPV_MAX \in Nat
  BY WaysAssumption DEF ReplacementInv, ReplacementTypes
<1>1. /\ AtHead(s, w) \in [Ways -> Ways]
      /\ \A x, y \in Ways : AtHead(s, w)[x] = AtHead(s, w)[y] => x = y
      /\ AtHead(s, w)[w] = 0
  BY MoveKeepsOrder DEF ReplacementInv, WayListIsOrder
<1>2. CASE policy = "LRU"
  <2>1. rank' = [rank EXCEPT ![s] = AtHead(s, w)] /\ UNCHANGED <<NRU_bit, RRPV, BIPCTR, PSEL>>
    BY <1>2 DEF Touch
  <2>2. ReplacementTypes' /\ WayListIsOrder'
    BY <1>1, <2>1 DEF ReplacementInv, ReplacementTypes, WayListIsOrder
  <2>3. OnlyHeadOvershoots' /\ OnlyDRRIPOvershoots'
    BY <1>2, <2>1 DEF ReplacementInv, OnlyHeadOvershoots, OnlyDRRIPOvershoots, Overshoot
  <2>4. FastHitNeedsNoUpdate'
    BY <1>1, <1>2, <2>1 DEF FastHitNeedsNoUpdate, ReplacementInv, ReplacementTypes
  <2> QED BY <2>2, <2>3, <2>4 DEF ReplacementInv
<1>3. CASE policy = "NRU"
  <2>1. NRU_bit' = [NRU_bit EXCEPT ![s][w] = FALSE] /\ UNCHANGED <<rank, RRPV, BIPCTR, PSEL>>
    BY <1>3 DEF Touch
  <2>2. NRU_bit' \in [Sets -> [Ways -> BOOLEAN]] /\ ~NRU_bit'[s][w]
    BY <2>1 DEF ReplacementInv, ReplacementTypes
  <2> QED BY <1>3, <2>1, <2>2 DEF ReplacementInv, ReplacementTypes, WayListIsOrder,
          OnlyHeadOvershoots, OnlyDRRIPOvershoots, Overshoot, FastHitNeedsNoUpdate
<1>4. CASE policy = "DRRIP"
  <2>1. RRPV' = [RRPV EXCEPT ![s][w] = 0] /\ UNCHANGED <<rank, NRU_bit, BIPCTR, PSEL>>
    BY <1>4 DEF Touch
  <2>2. /\ RRPV' \in [Sets -> [Ways -> Nat]]
        /\ \A t \in Sets, x \in Ways :
             RRPV'[t][x] = IF t = s /\ x = w THEN 0 ELSE RRPV[t][x]
    BY <2>1 DEF ReplacementInv, ReplacementTypes
  <2>3. ReplacementTypes' /\ WayListIsOrder'
    BY <2>1, <2>2 DEF ReplacementInv, ReplacementTypes, WayListIsOrder
  <2>4. OnlyHeadOvershoots' /\ OnlyDRRIPOvershoots'
    BY <1>4, <2>1, <2>2 DEF ReplacementInv, OnlyHeadOvershoots, OnlyDRRIPOvershoots, Overshoot
  <2>5. FastHitNeedsNoUpdate'
    BY <1>4, <2>2 DEF FastHitNeedsNoUpdate
  <2> QED BY <2>3, <2>4, <2>5 DEF ReplacementInv
<1>5. CASE policy \notin {"LRU", "NRU", "DRRIP"}
  <2>1. UNCHANGED <<rank, NRU_bit, RRPV, BIPCTR, PSEL>>
    BY <1>5 DEF Touch
  <2> QED BY <1>5, <2>1 DEF ReplacementInv, ReplacementTypes, WayListIsOrder,
          OnlyHeadOvershoots, OnlyDRRIPOvershoots, Overshoot, FastHitNeedsNoUpdate
<1> QED BY <1>2, <1>3, <1>4, <1>5

\* Every operation of the cache preserves the replacement invariant.
LEMMA StepReplacement ==
  ASSUME ReplacementInv, [Next]_vars
  PROVE  ReplacementInv'
<1>1. ASSUME NEW b \in Blocks, NEW c \in Commands, FastHit(b, c), UNCHANGED policy
      PROVE  ReplacementInv'
  BY <1>1 DEF FastHit, replacement, lasthit, ReplacementInv, ReplacementTypes,
     WayListIsOrder, OnlyHeadOvershoots, OnlyDRRIPOvershoots, Overshoot, FastHitNeedsNoUpdate
<1>2. ASSUME NEW b \in Blocks, NEW c \in Commands, SlowHit(b, c), UNCHANGED policy
      PROVE  ReplacementInv'
  <2> PICK w \in Hits(b) : Touch(b[2], w) /\ last_tagset' = b /\ last_blk' = w
    BY <1>2 DEF SlowHit
  <2> w \in Ways
    BY DEF Hits
  <2> QED BY <1>2, TouchEffect
<1>3. ASSUME NEW b \in Blocks, NEW c \in Commands, Miss(b, c), UNCHANGED policy
      PROVE  ReplacementInv'
  <2> PICK w \in Ways : Replace(b[2], w)
    BY <1>3 DEF Miss
  <2>1. b[2] \in Sets
    BY BlocksAssumption DEF Sets
  <2>2. FastHitNeedsNoUpdate'
    BY <1>3 DEF Miss, FastHitNeedsNoUpdate
  <2> QED BY <1>3, <2>1, <2>2, ReplaceEffect DEF ReplacementInv
<1>4. ASSUME cache_flush, UNCHANGED policy
      PROVE  ReplacementInv'
  BY <1>4 DEF cache_flush, replacement, ReplacementInv, ReplacementTypes,
     WayListIsOrder, OnlyHeadOvershoots, OnlyDRRIPOvershoots, Overshoot, FastHitNeedsNoUpdate
<1>5. ASSUME NEW b \in Blocks, cache_flush_addr(b), UNCHANGED policy
      PROVE  ReplacementInv'
  <2> DEFINE s == b[2]
  <2> PICK w \in Hits(b) : rank' = [rank EXCEPT ![s] = AtTail(s, w)]
    BY <1>5 DEF cache_flush_addr
  <2>1. s \in Sets /\ w \in Ways
    BY BlocksAssumption DEF Sets, Hits
  <2>2. /\ AtTail(s, w) \in [Ways -> Ways]
        /\ \A x, y \in Ways : AtTail(s, w)[x] = AtTail(s, w)[y] => x = y
    <3>1. /\ rank[s] \in [Ways -> Ways]
          /\ \A x, y \in Ways : rank[s][x] = rank[s][y] => x = y
      BY <2>1 DEF ReplacementInv, ReplacementTypes, WayListIsOrder
    <3> HIDE DEF s
    <3> QED BY <2>1, <3>1, MoveKeepsOrder
  <2>3. "cache_flush_addr" \in Flushes /\ UNCHANGED <<NRU_bit, RRPV, BIPCTR, PSEL>>
        /\ last_tagset' = NoBlock
    BY <1>5 DEF cache_flush_addr
  <2>4. ReplacementTypes' /\ WayListIsOrder'
    BY <1>5, <2>1, <2>2, <2>3 DEF ReplacementInv, ReplacementTypes, WayListIsOrder
  <2>5. OnlyHeadOvershoots' /\ OnlyDRRIPOvershoots' /\ FastHitNeedsNoUpdate'
    BY <1>5, <2>3 DEF ReplacementInv, OnlyHeadOvershoots, OnlyDRRIPOvershoots, Overshoot,
       FastHitNeedsNoUpdate
  <2> QED BY <2>4, <2>5 DEF ReplacementInv
<1>6. ASSUME UNCHANGED vars
      PROVE  ReplacementInv'
  BY <1>6 DEF vars, replacement, lasthit, ReplacementInv, ReplacementTypes,
     WayListIsOrder, OnlyHeadOvershoots, OnlyDRRIPOvershoots, Overshoot, FastHitNeedsNoUpdate
<1> QED BY <1>1, <1>2, <1>3, <1>4, <1>5, <1>6 DEF Next, cache_access

\* The inductive invariant of the replacement state: types, way lists that are
\* orders, and RRPVs that exceed RRPV_MAX at the head of a list only.
THEOREM ReplacementInvariance == Spec => []ReplacementInv
<1>1. ReplacementInv /\ [Next]_vars => ReplacementInv'
  BY StepReplacement
<1> QED BY InitReplacement, <1>1, PTL DEF Spec

\* Every variable keeps its type, for every geometry and policy.
THEOREM CacheTypes == Spec => []TypeOK
<1>1. CoherenceInv /\ ReplacementInv => TypeOK
  BY DRRIPAssumption DEF CoherenceInv, StoredInv, BlockTypes, LastTypes, ReplacementInv,
     ReplacementTypes, TypeOK
<1> QED BY CoherenceInvariance, ReplacementInvariance, <1>1, PTL

\* The way lists stay orders of all ways, and a fast hit leaves out no update of
\* the replacement state (cache.c:859), for every policy.
THEOREM WayLists == Spec => [](WayListIsOrder /\ FastHitNeedsNoUpdate)
<1>1. ReplacementInv => WayListIsOrder /\ FastHitNeedsNoUpdate
  BY DEF ReplacementInv
<1> QED BY ReplacementInvariance, <1>1, PTL

-----------------------------------------------------------------------------
(* The victim search of DRRIP ends.                                        *)

\* A nonempty set of ways has a first one in the list.
LEMMA FirstExists ==
  ASSUME NEW S \in SUBSET Ways, S # {}, NEW order \in [Ways -> Ways]
  PROVE  \E w \in Ways : FirstOf(S, order, w)
<1> DEFINE R == {order[w] : w \in S}
<1>1. R \in SUBSET Nat /\ R # {}
  <2>1. \A w \in S : order[w] \in Ways
    OBVIOUS
  <2>2. \A x \in Ways : x \in Nat
    BY WaysAssumption DEF Ways
  <2> QED BY <2>1, <2>2
<1>2. PICK r \in R : \A q \in R : r <= q
  <2> HIDE DEF R
  <2> QED BY <1>1, LeastElement
<1> PICK w \in S : order[w] = r
  OBVIOUS
<1> QED BY <1>2 DEF FirstOf

\* Without cache_flush_addr the search of a miss ends: some way has RRPV_MAX, or
\* some way that the later passes look at can reach it (cache.c:642-729).
LEMMA VictimFound ==
  ASSUME ReplacementInv, "cache_flush_addr" \notin Flushes
  PROVE  VictimExists
<1> SUFFICES ASSUME policy = "DRRIP", NEW s \in Sets
             PROVE  \E w \in Ways, n \in 0..RRPV_MAX : ChosenByDRRIP(rank[s], RRPV[s], w, n)
  BY DEF VictimExists
<1> DEFINE order == rank[s]
           rrpv == RRPV[s]
<1>1. order \in [Ways -> Ways] /\ rrpv \in [Ways -> Nat] /\ RRPV_MAX \in Nat \ {0}
  BY WaysAssumption DEF ReplacementInv, ReplacementTypes
<1>2. CASE Distant(rrpv) # {}
  <2>1. PICK w \in Ways : FirstOf(Distant(rrpv), order, w)
    <3> Distant(rrpv) \in SUBSET Ways
      BY DEF Distant
    <3> QED BY <1>1, <1>2, FirstExists
  <2>2. ChosenByDRRIP(order, rrpv, w, 0)
    BY <2>1 DEF ChosenByDRRIP
  <2> QED BY <1>1, <2>2
<1>3. CASE Distant(rrpv) = {}
  <2> DEFINE A == Approaching(order, rrpv)
  <2>1. \A x \in Ways : order[x] # 0 => x \in A
    <3> SUFFICES ASSUME NEW x \in Ways, order[x] # 0 PROVE x \in A
      OBVIOUS
    <3>1. rrpv[x] # RRPV_MAX
      BY <1>3 DEF Distant
    <3>2. ~(rrpv[x] > RRPV_MAX)
      BY DEF ReplacementInv, OnlyHeadOvershoots, Overshoot
    <3>3. order[x] \in Ways /\ rrpv[x] \in Nat
      BY <1>1
    <3>4. order[x] > 0
      BY <3>3, WaysAssumption DEF Ways
    <3> QED BY <1>1, <3>1, <3>2, <3>3, <3>4 DEF Approaching
  <2>2. A # {}
    <3>1. 0 \in Ways /\ 1 \in Ways
      BY WaysAssumption, GeometryAssumption DEF ReplacementInv, ReplacementTypes, Ways
    <3>2. order[0] # 0 \/ order[1] # 0
      BY <3>1 DEF ReplacementInv, WayListIsOrder
    <3> QED BY <2>1, <3>1, <3>2
  <2>3. PICK y \in A : \A x \in A : rrpv[x] <= rrpv[y]
    <3> DEFINE V == {rrpv[x] : x \in A}
    <3>1. V \in SUBSET (0..RRPV_MAX) /\ V # {}
      BY <1>1, <2>2 DEF Approaching
    <3>2. PICK m \in V : \A v \in V : v <= m
      <4> HIDE DEF V
      <4> QED BY <1>1, <3>1, GreatestElement
    <3> QED BY <3>2
  <2> DEFINE n == RRPV_MAX - rrpv[y]
             B == {x \in A : rrpv[x] + n = RRPV_MAX}
  <2>4. y \in Ways /\ rrpv[y] \in Nat /\ rrpv[y] < RRPV_MAX
    BY <1>1 DEF Approaching
  <2>5. n \in 1..RRPV_MAX /\ y \in B
    BY <1>1, <2>4
  <2>6. \A x \in A : rrpv[x] + n <= RRPV_MAX
    <3> SUFFICES ASSUME NEW x \in A PROVE rrpv[x] + n <= RRPV_MAX
      OBVIOUS
    <3>1. rrpv[x] \in Nat /\ rrpv[x] <= rrpv[y]
      BY <1>1, <2>3 DEF Approaching
    <3> QED BY <1>1, <2>4, <3>1
  <2>7. PICK w \in Ways : FirstOf(B, order, w)
    <3>1. B \in SUBSET Ways /\ B # {}
      BY <2>5 DEF Approaching
    <3> HIDE DEF B
    <3> QED BY <1>1, <3>1, FirstExists
  <2>8. ChosenByDRRIP(order, rrpv, w, n)
    BY <1>3, <2>5, <2>6, <2>7 DEF ChosenByDRRIP
  <2> QED BY <1>1, <2>5, <2>8
<1> QED BY <1>2, <1>3

\* In a cache whose blocks are never flushed one by one only the head of a way
\* list exceeds RRPV_MAX, and every miss under DRRIP finds a victim.
THEOREM SearchTerminates ==
  "cache_flush_addr" \notin Flushes =>
    (Spec => [](OnlyHeadOvershoots /\ VictimExists))
<1> SUFFICES ASSUME "cache_flush_addr" \notin Flushes
             PROVE  Spec => [](OnlyHeadOvershoots /\ VictimExists)
  OBVIOUS
<1>1. ReplacementInv => OnlyHeadOvershoots /\ VictimExists
  BY VictimFound DEF ReplacementInv
<1> QED BY ReplacementInvariance, <1>1, PTL

-----------------------------------------------------------------------------
(* LRU and FIFO: the way list is a recency, or insertion, order.            *)

\* The first n ways of the list are the valid ones.
FilledTo(rk, vd, n) == n \in 0..assoc /\ \A w \in Ways : vd[w] <=> rk[w] < n

\* No way list has an invalid block before a valid one.
InvalidLast == \A s \in Sets : \E n \in 0..assoc : FilledTo(rank[s], valid[s], n)

\* rk is the order of a way list.
IsOrder(rk) == rk \in [Ways -> Ways] /\ \A w, x \in Ways : rk[w] = rk[x] => w = x

\* The way in place i of the list.
Place(rk, i) == CHOOSE w \in Ways : rk[w] = i - 1

\* The first n blocks of the list of set s.
Listed(rk, tg, s, n) == [i \in 1..n |-> <<tg[Place(rk, i)], s>>]

\* Every place of the list is taken by one way.
LEMMA PlacesTaken ==
  ASSUME NEW rk, IsOrder(rk), NEW i \in 1..assoc
  PROVE  /\ Place(rk, i) \in Ways /\ rk[Place(rk, i)] = i - 1
         /\ \A w \in Ways : rk[w] = i - 1 => w = Place(rk, i)
<1>1. IsFiniteSet(Ways)
  BY WaysAssumption, FS_Interval DEF Ways
<1>2. rk \in Injection(Ways, Ways)
  BY DEF IsOrder, Injection, IsInjective
<1>3. rk \in Surjection(Ways, Ways)
  BY <1>1, <1>2, FS_Injection
<1>4. i - 1 \in Ways
  BY WaysAssumption DEF Ways
<1>5. \E w \in Ways : rk[w] = i - 1
  BY <1>3, <1>4 DEF Surjection
<1> QED BY <1>5 DEF Place, IsOrder

\* The stack that ways with these ranks, valid bits and tags make.
StackOf(rk, vd, tg, s) ==
  [i \in 1..Cardinality({w \in Ways : vd[w]}) |-> <<tg[CHOOSE w \in Ways : rk[w] = i - 1], s>>]

\* The blocks of a set in the order of the list.
LEMMA StackIsListed ==
  ASSUME NEW s, NEW rk, IsOrder(rk), NEW vd, NEW tg, NEW n, FilledTo(rk, vd, n)
  PROVE  StackOf(rk, vd, tg, s) = Listed(rk, tg, s, n)
<1> DEFINE V == {w \in Ways : vd[w]}
<1> DEFINE f == [w \in V |-> rk[w]]
<1>1. assoc \in Nat \ {0} /\ n \in 0..assoc /\ n \in Nat
  BY WaysAssumption DEF FilledTo
<1>2. V = {w \in Ways : rk[w] < n}
  BY DEF FilledTo
<1>3. \A w \in Ways : rk[w] \in Nat
  BY <1>1 DEF IsOrder, Ways
<1>4. f \in [V -> 0..n-1]
  BY <1>1, <1>2, <1>3
<1>5. f \in Injection(V, 0..n-1)
  BY <1>2, <1>4 DEF Injection, IsInjective, IsOrder
<1>6. ASSUME NEW j \in 0..n-1 PROVE \E w \in V : f[w] = j
  <2>1. j + 1 \in 1..assoc
    BY <1>1
  <2>2. Place(rk, j + 1) \in Ways /\ rk[Place(rk, j + 1)] = j
    BY <2>1, PlacesTaken
  <2> QED BY <1>1, <1>2, <2>2
<1>7. f \in Surjection(V, 0..n-1)
  BY <1>4, <1>6 DEF Surjection
<1>8. IsFiniteSet(0..n-1) /\ Cardinality(0..n-1) = n
  BY <1>1, FS_Interval
<1>9. Cardinality(V) = n
  BY <1>5, <1>7, <1>8, FS_Injection
<1> QED BY <1>9 DEF StackOf, Listed, Place

-----------------------------------------------------------------------------
(* Moving a way in the list.                                               *)

LEMMA MovedToHead ==
  ASSUME NEW s \in Sets, NEW w \in Ways, IsOrder(rank[s])
  PROVE  /\ IsOrder(AtHead(s, w))
         /\ Place(AtHead(s, w), 1) = w
         /\ \A i \in 2..rank[s][w] + 1 : Place(AtHead(s, w), i) = Place(rank[s], i - 1)
         /\ \A i \in rank[s][w] + 2..assoc : Place(AtHead(s, w), i) = Place(rank[s], i)
<1> DEFINE rk == rank[s]
<1> DEFINE rk2 == AtHead(s, w)
<1>1. assoc \in Nat \ {0} /\ \A x \in Ways : rk[x] \in 0..assoc-1
  BY WaysAssumption DEF IsOrder, Ways
<1>2. IsOrder(rk2)
  BY MoveKeepsOrder DEF IsOrder
<1>3. \A x \in Ways : rk2[x] = IF x = w THEN 0 ELSE IF rk[x] < rk[w] THEN rk[x] + 1 ELSE rk[x]
  BY DEF AtHead
<1> HIDE DEF rk2
<1>4. Place(rk2, 1) = w
  <2>1. 1 \in 1..assoc /\ rk2[w] = 1 - 1
    BY <1>1, <1>3
  <2> QED BY <1>2, <2>1, PlacesTaken
<1>5. ASSUME NEW i \in 2..rk[w] + 1 PROVE Place(rk2, i) = Place(rk, i - 1)
  <2>1. i \in 1..assoc /\ i - 1 \in 1..assoc
    BY <1>1
  <2>2. Place(rk, i - 1) \in Ways /\ rk[Place(rk, i - 1)] = (i - 1) - 1
    BY <2>1, PlacesTaken
  <2>3. rk2[Place(rk, i - 1)] = i - 1
    BY <1>1, <1>3, <2>2
  <2> QED BY <1>2, <2>1, <2>2, <2>3, PlacesTaken
<1>6. ASSUME NEW i \in rk[w] + 2..assoc PROVE Place(rk2, i) = Place(rk, i)
  <2>1. i \in 1..assoc
    BY <1>1
  <2>2. Place(rk, i) \in Ways /\ rk[Place(rk, i)] = i - 1
    BY <2>1, PlacesTaken
  <2>3. rk2[Place(rk, i)] = i - 1
    BY <1>1, <1>3, <2>2
  <2> QED BY <1>2, <2>1, <2>2, <2>3, PlacesTaken
<1> QED BY <1>2, <1>4, <1>5, <1>6 DEF rk2

LEMMA MovedToTail ==
  ASSUME NEW s \in Sets, NEW w \in Ways, IsOrder(rank[s])
  PROVE  /\ IsOrder(AtTail(s, w))
         /\ \A i \in 1..rank[s][w] : Place(AtTail(s, w), i) = Place(rank[s], i)
         /\ \A i \in rank[s][w] + 1..assoc - 1 : Place(AtTail(s, w), i) = Place(rank[s], i + 1)
<1> DEFINE rk == rank[s]
<1> DEFINE rk2 == AtTail(s, w)
<1>1. assoc \in Nat \ {0} /\ \A x \in Ways : rk[x] \in 0..assoc-1
  BY WaysAssumption DEF IsOrder, Ways
<1>2. IsOrder(rk2)
  BY MoveKeepsOrder DEF IsOrder
<1>3. \A x \in Ways : rk2[x] = IF x = w THEN assoc - 1
                               ELSE IF rk[x] > rk[w] THEN rk[x] - 1 ELSE rk[x]
  BY DEF AtTail
<1> HIDE DEF rk2
<1>5. ASSUME NEW i \in 1..rk[w] PROVE Place(rk2, i) = Place(rk, i)
  <2>1. i \in 1..assoc
    BY <1>1
  <2>2. Place(rk, i) \in Ways /\ rk[Place(rk, i)] = i - 1
    BY <2>1, PlacesTaken
  <2>3. rk2[Place(rk, i)] = i - 1
    BY <1>1, <1>3, <2>2
  <2> QED BY <1>2, <2>1, <2>2, <2>3, PlacesTaken
<1>6. ASSUME NEW i \in rk[w] + 1..assoc - 1 PROVE Place(rk2, i) = Place(rk, i + 1)
  <2>1. i \in 1..assoc /\ i + 1 \in 1..assoc
    BY <1>1
  <2>2. Place(rk, i + 1) \in Ways /\ rk[Place(rk, i + 1)] = (i + 1) - 1
    BY <2>1, PlacesTaken
  <2>3. rk2[Place(rk, i + 1)] = i - 1
    BY <1>1, <1>3, <2>2
  <2> QED BY <1>2, <2>1, <2>2, <2>3, PlacesTaken
<1> QED BY <1>2, <1>5, <1>6 DEF rk2

-----------------------------------------------------------------------------
(* The operators of the stack.                                             *)

\* A block that is in the list once is taken out of it.
OnceAt(q, b, j) ==
  j \in 1..Len(q) /\ q[j] = b /\ \A i \in 1..Len(q) : q[i] = b => i = j

LEMMA TakenOut ==
  ASSUME NEW S, NEW q \in Seq(S), NEW b, NEW j, OnceAt(q, b, j)
  PROVE  Recency!Without(q, b) \in Seq(S) /\ LessPlace(q, j, Recency!Without(q, b))
<1>1. j \in 1..Len(q) /\ q[j] = b /\ \A i \in 1..Len(q) : q[i] = b => i = j
  BY DEF OnceAt
<1> DEFINE I == {i \in 1..Len(q) : q[i] = b}
<1>2. I = {j} /\ DOMAIN q = 1..Len(q)
  BY <1>1, LenProperties
<1>3. Recency!Min(I) = j
  BY <1>1, <1>2 DEF Recency!Min
<1>4. Recency!SelectInSeq(q, LAMBDA v : v = b) = j
  BY <1>2, <1>3 DEF Recency!SelectInSeq
<1>5. Recency!Without(q, b) = Recency!RemoveAt(q, j)
  BY <1>1, <1>2, <1>4 DEF Recency!Without, Recency!RemoveFirst
<1>6. Recency!Without(q, b) = Cut(q, j)
  BY <1>5 DEF Recency!RemoveAt, Cut
<1> QED BY <1>1, <1>6, PlaceCut

LEMMA NotThere ==
  ASSUME NEW q, NEW b, \A i \in 1..Len(q) : q[i] # b
  PROVE  Recency!Without(q, b) = q
BY DEF Recency!Without, Recency!RemoveFirst

-----------------------------------------------------------------------------
(* What the steps do to the blocks of one set.                             *)

\* The blocks of a set.
BlocksOf(s) == Nat \X {s}

IsList(q, rk, tg, s, n) ==
  /\ q \in Seq(BlocksOf(s)) /\ Len(q) = n
  /\ \A i \in 1..n : q[i] = <<tg[Place(rk, i)], s>>

LEMMA ListedIsSequence ==
  ASSUME NEW s \in Sets, NEW rk, IsOrder(rk), NEW tg \in [Ways -> Nat], NEW n \in 0..assoc
  PROVE  IsList(Listed(rk, tg, s, n), rk, tg, s, n)
<1>1. assoc \in Nat \ {0} /\ n \in Nat
  BY WaysAssumption
<1>2. \A i \in 1..n : <<tg[Place(rk, i)], s>> \in BlocksOf(s)
  <2>1. \A i \in 1..n : i \in 1..assoc
    BY <1>1
  <2> QED BY <2>1, PlacesTaken DEF BlocksOf
<1> QED BY <1>1, <1>2 DEF Listed, IsList

\* A block is in the list once, at the place of its way.
LEMMA ListedOnce ==
  ASSUME NEW s \in Sets, IsOrder(rank[s]), tag[s] \in [Ways -> Nat], OneCopy,
         NEW n \in 0..assoc, FilledTo(rank[s], valid[s], n),
         NEW w \in Ways, valid[s][w]
  PROVE  /\ rank[s][w] + 1 \in 1..n
         /\ Listed(rank[s], tag[s], s, n)[rank[s][w] + 1] = <<tag[s][w], s>>
         /\ \A i \in 1..n : Listed(rank[s], tag[s], s, n)[i] = <<tag[s][w], s>> => i = rank[s][w] + 1
<1>1. assoc \in Nat \ {0} /\ n \in Nat /\ rank[s][w] \in 0..assoc-1
  BY WaysAssumption DEF IsOrder, Ways
<1>2. rank[s][w] + 1 \in 1..n
  BY <1>1 DEF FilledTo
<1>3. Place(rank[s], rank[s][w] + 1) = w
  <2>1. rank[s][w] + 1 \in 1..assoc /\ rank[s][w] = (rank[s][w] + 1) - 1
    BY <1>1
  <2> QED BY <2>1, PlacesTaken
<1>4. ASSUME NEW i \in 1..n, Listed(rank[s], tag[s], s, n)[i] = <<tag[s][w], s>>
      PROVE  i = rank[s][w] + 1
  <2> DEFINE x == Place(rank[s], i)
  <2>1. i \in 1..assoc
    BY <1>1
  <2>2. x \in Ways /\ rank[s][x] = i - 1
    BY <2>1, PlacesTaken
  <2>3. valid[s][x]
    BY <1>1, <2>2 DEF FilledTo
  <2>4. tag[s][x] = tag[s][w]
    BY <1>4 DEF Listed
  <2>5. x = w
    BY <2>2, <2>3, <2>4 DEF OneCopy
  <2> QED BY <1>1, <2>2, <2>5
<1> QED BY <1>2, <1>3, <1>4 DEF Listed

\* Under LRU a hit moves the block to the front.
LEMMA HitToFront ==
  ASSUME NEW s \in Sets, IsOrder(rank[s]), tag[s] \in [Ways -> Nat], OneCopy,
         NEW n \in 0..assoc, FilledTo(rank[s], valid[s], n),
         NEW w \in Ways, valid[s][w]
  PROVE  /\ FilledTo(AtHead(s, w), valid[s], n)
         /\ Listed(AtHead(s, w), tag[s], s, n)
              = Recency!InFront(Listed(rank[s], tag[s], s, n), <<tag[s][w], s>>)
<1> DEFINE rk == rank[s]
<1> DEFINE rk2 == AtHead(s, w)
<1> DEFINE b == <<tag[s][w], s>>
<1> DEFINE q == Listed(rk, tag[s], s, n)
<1> DEFINE u == Recency!Without(q, b)
<1>1. assoc \in Nat \ {0} /\ n \in Nat /\ \A x \in Ways : rk[x] \in 0..assoc-1
  <2>1. assoc \in Nat \ {0} /\ n \in Nat
    BY WaysAssumption
  <2>2. \A x \in Ways : rk[x] \in Ways
    BY DEF IsOrder
  <2> QED BY <2>1, <2>2 DEF Ways
<1>2. /\ rk[w] + 1 \in 1..n /\ q[rk[w] + 1] = b
      /\ \A i \in 1..n : q[i] = b => i = rk[w] + 1
  BY ListedOnce
<1>3. q \in Seq(BlocksOf(s)) /\ Len(q) = n
  BY ListedIsSequence DEF IsList
<1>4. b \in BlocksOf(s)
  BY DEF BlocksOf
<1>5. FilledTo(rk2, valid[s], n)
  <2>1. ASSUME NEW x \in Ways PROVE rk2[x] < n <=> rk[x] < n
    BY <1>1, <1>2 DEF AtHead
  <2> QED BY <2>1 DEF FilledTo
<1>6. /\ IsOrder(rk2) /\ Place(rk2, 1) = w
      /\ \A i \in 2..rk[w] + 1 : Place(rk2, i) = Place(rk, i - 1)
      /\ \A i \in rk[w] + 2..assoc : Place(rk2, i) = Place(rk, i)
  BY MovedToHead
<1> DEFINE q2 == Listed(rk2, tag[s], s, n)
<1>7. /\ q2 \in Seq(BlocksOf(s)) /\ Len(q2) = n
      /\ \A i \in 1..n : q2[i] = <<tag[s][Place(rk2, i)], s>>
  BY <1>6, ListedIsSequence DEF IsList
<1>8. \A i \in 1..n : q[i] = <<tag[s][Place(rk, i)], s>>
  BY ListedIsSequence DEF IsList
<1> HIDE DEF q, q2, rk2, rk, b
<1>9. /\ u \in Seq(BlocksOf(s)) /\ Len(u) = n - 1
      /\ \A i \in 1..n - 1 : u[i] = IF i < rk[w] + 1 THEN q[i] ELSE q[i + 1]
  <2> DEFINE j == rk[w] + 1
  <2>1. OnceAt(q, b, j)
    BY <1>2, <1>3 DEF OnceAt
  <2> HIDE DEF j
  <2>2. u \in Seq(BlocksOf(s)) /\ LessPlace(q, j, u)
    BY <1>3, <2>1, TakenOut
  <2> QED BY <1>3, <2>2 DEF j, LessPlace
<1> HIDE DEF u
<1>10. /\ <<b>> \o u \in Seq(BlocksOf(s)) /\ Len(<<b>> \o u) = n
       /\ (<<b>> \o u)[1] = b
       /\ \A i \in 2..n : (<<b>> \o u)[i] = u[i - 1]
  BY <1>1, <1>4, <1>9, PutInFront
<1>11. ASSUME NEW i \in 1..n PROVE q2[i] = (<<b>> \o u)[i]
  <2>1. CASE i = 1
    BY <1>6, <1>7, <1>10, <2>1 DEF b
  <2>2. CASE i \in 2..rk[w] + 1
    <3>1. i - 1 \in 1..n /\ i - 1 \in 1..n - 1 /\ i - 1 < rk[w] + 1 /\ i \in 2..n
      BY <1>1, <2>2
    <3>2. (<<b>> \o u)[i] = q[i - 1]
      BY <1>9, <1>10, <3>1
    <3> QED BY <1>6, <1>7, <1>8, <2>2, <3>1, <3>2
  <2>3. CASE i \in rk[w] + 2..n
    <3>1. i - 1 \in 1..n - 1 /\ ~(i - 1 < rk[w] + 1) /\ i \in 2..n /\ i - 1 + 1 = i
          /\ i \in rk[w] + 2..assoc
      BY <1>1, <2>3
    <3>2. (<<b>> \o u)[i] = q[i]
      BY <1>9, <1>10, <3>1
    <3> QED BY <1>6, <1>7, <1>8, <3>1, <3>2
  <2>4. i = 1 \/ i \in 2..rk[w] + 1 \/ i \in rk[w] + 2..n
    BY <1>1
  <2> QED BY <2>1, <2>2, <2>3, <2>4
<1>12. q2 = <<b>> \o u
  BY <1>7, <1>10, <1>11, SeqEqual
<1> QED BY <1>5, <1>12 DEF Recency!InFront, rk, rk2, b, q, q2, u

\* What a miss of tag t makes of way w and of a list of n blocks: m are the
\* blocks after it, tg the tags and vd the valid bits.
MissMakes(s, w, t, n, m, tg, vd) ==
  /\ m = IF n = assoc THEN n ELSE n + 1
  /\ tg = [tag[s] EXCEPT ![w] = t]
  /\ vd = [valid[s] EXCEPT ![w] = TRUE]
MissLeaves(s, w, t, n, m, tg, vd) ==
  LET q == Listed(rank[s], tag[s], s, n) IN
    /\ m \in 0..assoc /\ tg \in [Ways -> Nat]
    /\ FilledTo(AtHead(s, w), vd, m)
    /\ \A i \in DOMAIN q : q[i] # <<t, s>>
    /\ Listed(AtHead(s, w), tg, s, m)
         = SubSeq(Recency!InFront(q, <<t, s>>), 1, Recency!Min({assoc, n + 1}))

\* A set does not hold a tag.
Lacks(s, t) == \A x \in Ways : valid[s][x] => tag[s][x] # t

LEMMA MissToFront ==
  ASSUME NEW s \in Sets, IsOrder(rank[s]), tag[s] \in [Ways -> Nat],
         NEW n \in 0..assoc, FilledTo(rank[s], valid[s], n),
         NEW w \in Ways, rank[s][w] = assoc - 1, NEW t \in Nat, Lacks(s, t),
         valid[s] \in [Ways -> BOOLEAN],
         NEW m, NEW tg, NEW vd, MissMakes(s, w, t, n, m, tg, vd)
  PROVE  MissLeaves(s, w, t, n, m, tg, vd)
<1>0. /\ m = IF n = assoc THEN n ELSE n + 1
      /\ tg = [tag[s] EXCEPT ![w] = t] /\ vd = [valid[s] EXCEPT ![w] = TRUE]
      /\ \A x \in Ways : valid[s][x] => tag[s][x] # t
  BY DEF MissMakes, Lacks
<1> DEFINE rk == rank[s]
<1> DEFINE rk2 == AtHead(s, w)
<1> DEFINE b == <<t, s>>
<1> DEFINE q == Listed(rk, tag[s], s, n)
<1>1. assoc \in Nat \ {0} /\ n \in Nat /\ \A x \in Ways : rk[x] \in 0..assoc-1
  <2>1. assoc \in Nat \ {0} /\ n \in Nat
    BY WaysAssumption
  <2>2. \A x \in Ways : rk[x] \in Ways
    BY DEF IsOrder
  <2> QED BY <2>1, <2>2 DEF Ways
<1>2. /\ q \in Seq(BlocksOf(s)) /\ Len(q) = n
      /\ \A i \in 1..n : q[i] = <<tag[s][Place(rk, i)], s>>
  BY ListedIsSequence DEF IsList
<1>3. b \in BlocksOf(s) /\ tg \in [Ways -> Nat] /\ m \in 1..assoc
  BY <1>0, <1>1 DEF BlocksOf
<1>4. ASSUME NEW i \in 1..n PROVE q[i] # b
  <2>1. i \in 1..assoc
    BY <1>1
  <2>2. Place(rk, i) \in Ways /\ rk[Place(rk, i)] = i - 1
    BY <2>1, PlacesTaken
  <2>3. valid[s][Place(rk, i)]
    BY <1>1, <2>2 DEF FilledTo
  <2> QED BY <1>0, <1>2, <2>2, <2>3
<1>5. FilledTo(rk2, vd, m)
  <2>1. ASSUME NEW x \in Ways PROVE vd[x] <=> rk2[x] < m
    <3>1. CASE x = w
      BY <1>0, <1>1, <1>3, <3>1 DEF AtHead
    <3>2. CASE x # w
      <4>1. rk[x] < assoc - 1
        <5>1. rk[x] # assoc - 1
          BY <3>2 DEF IsOrder
        <5> QED BY <1>1, <5>1
      <4>2. rk2[x] = rk[x] + 1 /\ vd[x] = valid[s][x]
        BY <1>0, <1>1, <3>2, <4>1 DEF AtHead
      <4>3. valid[s][x] <=> rk[x] < n
        BY DEF FilledTo
      <4>4. rk[x] < n <=> rk[x] + 1 < m
        BY <1>0, <1>1, <4>1
      <4> QED BY <4>2, <4>3, <4>4
    <3> QED BY <3>1, <3>2
  <2> QED BY <1>3, <2>1 DEF FilledTo
<1>6. /\ IsOrder(rk2) /\ Place(rk2, 1) = w
      /\ \A i \in 2..rk[w] + 1 : Place(rk2, i) = Place(rk, i - 1)
  BY MovedToHead
<1> DEFINE q2 == Listed(rk2, tg, s, m)
<1>7. /\ q2 \in Seq(BlocksOf(s)) /\ Len(q2) = m
      /\ \A i \in 1..m : q2[i] = <<tg[Place(rk2, i)], s>>
  <2>1. m \in 0..assoc
    BY <1>3
  <2> HIDE DEF rk2
  <2>2. IsList(Listed(rk2, tg, s, m), rk2, tg, s, m)
    BY <1>3, <1>6, <2>1, ListedIsSequence
  <2> QED BY <2>2 DEF IsList
<1>8. Recency!Min({assoc, n + 1}) = m
  BY <1>0, <1>1 DEF Recency!Min
<1>9. Recency!Without(q, b) = q
  BY <1>2, <1>4, NotThere
<1> HIDE DEF q, q2, rk2, rk, b
<1>10. /\ <<b>> \o q \in Seq(BlocksOf(s)) /\ Len(<<b>> \o q) = n + 1
       /\ (<<b>> \o q)[1] = b
       /\ \A i \in 2..n + 1 : (<<b>> \o q)[i] = q[i - 1]
  BY <1>2, <1>3, PutInFront
<1> DEFINE f == <<b>> \o q
<1> DEFINE g == SubSeq(f, 1, m)
<1>11. /\ g \in Seq(BlocksOf(s)) /\ Len(g) = m
       /\ \A i \in 1..m : g[i] = f[i]
  <2>1. m \in 1..n + 1
    BY <1>0, <1>1
  <2>2. \A i \in 1..m : f[i] \in BlocksOf(s)
    BY <1>1, <1>10, <2>1, ElementOfSeq
  <2>3. 1 \in Int /\ m \in Int
    BY <1>3
  <2> HIDE DEF f
  <2> QED BY <1>3, <2>2, <2>3, SubSeqProperties
<1>12. ASSUME NEW i \in 1..m PROVE q2[i] = g[i]
  <2>1. CASE i = 1
    BY <1>0, <1>3, <1>6, <1>7, <1>10, <1>11, <2>1 DEF b
  <2>2. CASE i # 1
    <3>1. i \in 2..n + 1 /\ i - 1 \in 1..n /\ i \in 2..rk[w] + 1 /\ i - 1 \in 1..assoc /\ i - 1 # assoc
      BY <1>0, <1>1, <2>2 DEF rk
    <3>2. g[i] = q[i - 1]
      BY <1>10, <1>11, <3>1
    <3>3. Place(rk, i - 1) \in Ways /\ rk[Place(rk, i - 1)] = (i - 1) - 1
      BY <3>1, PlacesTaken DEF rk
    <3>4. Place(rk, i - 1) # w
      BY <1>1, <3>1, <3>3 DEF rk
    <3>5. tg[Place(rk, i - 1)] = tag[s][Place(rk, i - 1)]
      BY <1>0, <3>3, <3>4
    <3>6. q2[i] = <<tg[Place(rk, i - 1)], s>>
      BY <1>6, <1>7, <3>1
    <3>7. q[i - 1] = <<tag[s][Place(rk, i - 1)], s>>
      BY <1>2, <3>1
    <3> QED BY <3>2, <3>5, <3>6, <3>7
  <2> QED BY <2>1, <2>2
<1> HIDE DEF g
<1>13. q2 = g
  BY <1>7, <1>11, <1>12, SeqEqual
<1>14. \A i \in DOMAIN q : q[i] # b
  BY <1>2, <1>4, LenProperties
<1>15. m \in 0..assoc
  BY <1>3
<1> QED BY <1>3, <1>5, <1>8, <1>9, <1>13, <1>14, <1>15
        DEF MissLeaves, Recency!InFront, rk, rk2, b, q, q2, f, g

\* A flushed block leaves the list: vd are the valid bits without it.
LEMMA FlushedOut ==
  ASSUME NEW s \in Sets, IsOrder(rank[s]), tag[s] \in [Ways -> Nat], OneCopy,
         NEW n \in 0..assoc, FilledTo(rank[s], valid[s], n),
         NEW w \in Ways, valid[s][w], valid[s] \in [Ways -> BOOLEAN],
         NEW vd, vd = [valid[s] EXCEPT ![w] = FALSE]
  PROVE  /\ n - 1 \in 0..assoc /\ FilledTo(AtTail(s, w), vd, n - 1)
         /\ Listed(AtTail(s, w), tag[s], s, n - 1)
              = Recency!Without(Listed(rank[s], tag[s], s, n), <<tag[s][w], s>>)
<1> DEFINE rk == rank[s]
<1> DEFINE rk2 == AtTail(s, w)
<1> DEFINE b == <<tag[s][w], s>>
<1> DEFINE q == Listed(rk, tag[s], s, n)
<1> DEFINE u == Recency!Without(q, b)
<1>1. assoc \in Nat \ {0} /\ n \in Nat /\ \A x \in Ways : rk[x] \in 0..assoc-1
  <2>1. assoc \in Nat \ {0} /\ n \in Nat
    BY WaysAssumption
  <2>2. \A x \in Ways : rk[x] \in Ways
    BY DEF IsOrder
  <2> QED BY <2>1, <2>2 DEF Ways
<1>2. /\ rk[w] + 1 \in 1..n /\ q[rk[w] + 1] = b
      /\ \A i \in 1..n : q[i] = b => i = rk[w] + 1
  BY ListedOnce
<1>3. q \in Seq(BlocksOf(s)) /\ Len(q) = n /\ n - 1 \in 0..assoc
  <2>1. n - 1 \in 0..assoc
    BY <1>1, <1>2
  <2> QED BY <2>1, ListedIsSequence DEF IsList
<1>5. FilledTo(rk2, vd, n - 1)
  <2>1. ASSUME NEW x \in Ways PROVE vd[x] <=> rk2[x] < n - 1
    <3>1. CASE x = w
      BY <1>1, <1>2, <3>1 DEF AtTail
    <3>2. CASE x # w
      <4>1. rk[x] # rk[w]
        BY <3>2 DEF IsOrder
      <4>2. vd[x] = valid[s][x] /\ (valid[s][x] <=> rk[x] < n)
        BY <3>2 DEF FilledTo
      <4>3. rk2[x] = IF rk[x] > rk[w] THEN rk[x] - 1 ELSE rk[x]
        BY <3>2 DEF AtTail
      <4>4. rk2[x] < n - 1 <=> rk[x] < n
        BY <1>1, <1>2, <4>1, <4>3
      <4> QED BY <4>2, <4>4
    <3> QED BY <3>1, <3>2
  <2> QED BY <1>3, <2>1 DEF FilledTo
<1>6. /\ IsOrder(rk2)
      /\ \A i \in 1..rk[w] : Place(rk2, i) = Place(rk, i)
      /\ \A i \in rk[w] + 1..assoc - 1 : Place(rk2, i) = Place(rk, i + 1)
  BY MovedToTail
<1> DEFINE q2 == Listed(rk2, tag[s], s, n - 1)
<1>7. /\ q2 \in Seq(BlocksOf(s)) /\ Len(q2) = n - 1
      /\ \A i \in 1..n - 1 : q2[i] = <<tag[s][Place(rk2, i)], s>>
  BY <1>3, <1>6, ListedIsSequence DEF IsList
<1>8. \A i \in 1..n : q[i] = <<tag[s][Place(rk, i)], s>>
  BY ListedIsSequence DEF IsList
<1> HIDE DEF q, q2, rk2, rk, b
<1>9. /\ u \in Seq(BlocksOf(s)) /\ Len(u) = n - 1
      /\ \A i \in 1..n - 1 : u[i] = IF i < rk[w] + 1 THEN q[i] ELSE q[i + 1]
  <2> DEFINE j == rk[w] + 1
  <2>1. OnceAt(q, b, j)
    BY <1>2, <1>3 DEF OnceAt
  <2> HIDE DEF j
  <2>2. u \in Seq(BlocksOf(s)) /\ LessPlace(q, j, u)
    BY <1>3, <2>1, TakenOut
  <2> QED BY <1>3, <2>2 DEF j, LessPlace
<1> HIDE DEF u
<1>11. ASSUME NEW i \in 1..n - 1 PROVE q2[i] = u[i]
  <2>1. CASE i < rk[w] + 1
    <3>1. i \in 1..rk[w] /\ i \in 1..n
      BY <1>1, <2>1
    <3> QED BY <1>6, <1>7, <1>8, <1>9, <2>1, <3>1
  <2>2. CASE ~(i < rk[w] + 1)
    <3>1. i \in rk[w] + 1..assoc - 1 /\ i + 1 \in 1..n
      BY <1>1, <1>2, <2>2
    <3> QED BY <1>6, <1>7, <1>8, <1>9, <2>2, <3>1
  <2> QED BY <2>1, <2>2
<1>12. q2 = u
  BY <1>7, <1>9, <1>11, SeqEqual
<1> QED BY <1>3, <1>5, <1>12 DEF rk, rk2, b, q, q2, u

-----------------------------------------------------------------------------
(* The steps.                                                              *)

StackNow == [s \in Sets |-> Stack(s)]

\* The sets of the list are orders, with their invalid blocks last.
ListInv == WayListIsOrder /\ InvalidLast /\ rank \in [Sets -> [Ways -> Ways]]

LEMMA StackOfSet ==
  ASSUME NEW s \in Sets
  PROVE  /\ Stack(s) = StackOf(rank[s], valid[s], tag[s], s)
         /\ Stack(s)' = StackOf(rank'[s], valid'[s], tag'[s], s)
BY DEF Stack, StackOf, ValidWays

LEMMA OrderOfSet ==
  ASSUME ListInv, NEW s \in Sets
  PROVE  IsOrder(rank[s]) /\ \E n \in 0..assoc : FilledTo(rank[s], valid[s], n)
BY DEF ListInv, WayListIsOrder, InvalidLast, IsOrder

\* A step that changes one set.
LEMMA OneSetChanges ==
  ASSUME ListInv, NEW s \in Sets, NEW q, Stack(s)' = q,
         NEW m \in 0..assoc, FilledTo(rank'[s], valid'[s], m),
         \A t \in Sets : t # s => /\ rank'[t] = rank[t] /\ valid'[t] = valid[t]
                                  /\ tag'[t] = tag[t]
  PROVE  InvalidLast' /\ StackNow' = [StackNow EXCEPT ![s] = q]
<1>1. ASSUME NEW t \in Sets, t # s PROVE Stack(t)' = Stack(t)
  BY <1>1, StackOfSet
<1>2. InvalidLast'
  <2>1. ASSUME NEW t \in Sets PROVE \E n \in 0..assoc : FilledTo(rank'[t], valid'[t], n)
    <3>1. CASE t = s
      BY <3>1
    <3>2. CASE t # s
      BY <3>2, OrderOfSet
    <3> QED BY <3>1, <3>2
  <2> QED BY <2>1 DEF InvalidLast, FilledTo
<1> QED BY <1>1, <1>2 DEF StackNow

\* A step that leaves tags, valid bits and ranks alone.
LEMMA NoSetChanges ==
  ASSUME ListInv, UNCHANGED <<rank, valid, tag>>
  PROVE  InvalidLast' /\ StackNow' = StackNow
BY DEF ListInv, InvalidLast, FilledTo, StackNow, Stack, ValidWays

\* The request each operation leaves behind.
LEMMA CopyRequests ==
  ASSUME NEW b \in Blocks, NEW c \in Commands, NEW w, NEW content, Copy(b, c, w, content)
  PROVE  Request' = <<"access", b>>
<1>1. call'.cmd = c.cmd /\ call'.block = b /\ c.cmd \in Cmds
  BY DEF Commands, Copy
<1>2. call'.cmd # "cache_flush" /\ call'.cmd # "cache_flush_addr"
  BY <1>1, ClientAssumption
<1> QED BY <1>1, <1>2 DEF Request

LEMMA FlushRequests ==
  /\ call' = [cmd |-> "cache_flush"] => Request' = <<"flush">>
  /\ \A b \in Blocks :
       call' = [cmd |-> "cache_flush_addr", block |-> b] => Request' = <<"flush", b>>
<1>1. "cache_flush" \notin Cmds /\ "cache_flush_addr" \notin Cmds
  BY ClientAssumption
<1> QED BY <1>1 DEF Request

\* What a hit does to the way list of its set: LRU moves the way, FIFO does not.
HitOrders(s, w) ==
  rank' = IF policy = "LRU" THEN [rank EXCEPT ![s] = AtHead(s, w)] ELSE rank

\* The block that is accessed comes to the front, or stays where it is.
LEMMA HitStack ==
  ASSUME CoherenceInv, ListInv, UNCHANGED <<policy, valid, tag>>,
         NEW b \in Blocks, NEW w \in Hits(b), HitOrders(b[2], w),
         Request' = <<"access", b>>
  PROVE  InvalidLast' /\ Recency!SAccess(b)
<1> DEFINE s == b[2]
<1>1. s \in Sets /\ b = <<b[1], s>>
  BY BlockShape
<1>2. w \in Ways /\ valid[s][w] /\ tag[s][w] = b[1]
  BY DEF Hits
<1>3. IsOrder(rank[s]) /\ tag[s] \in [Ways -> Nat] /\ OneCopy
  BY <1>1, OrderOfSet DEF CoherenceInv, StoredInv, BlockTypes
<1>4. PICK n \in 0..assoc : FilledTo(rank[s], valid[s], n)
  BY <1>1, OrderOfSet
<1> DEFINE q == Listed(rank[s], tag[s], s, n)
<1>5. Stack(s) = q
  BY <1>1, <1>3, <1>4, StackOfSet, StackIsListed
<1>6. b \in Recency!Range(q)
  <2>1. rank[s][w] + 1 \in 1..n /\ q[rank[s][w] + 1] = <<tag[s][w], s>>
    BY <1>1, <1>2, <1>3, <1>4, ListedOnce
  <2>2. DOMAIN q = 1..n
    BY DEF Listed
  <2> QED BY <1>1, <1>2, <2>1, <2>2 DEF Recency!Range
<1>7. StackNow[s] = q
  BY <1>1, <1>5 DEF StackNow
<1>8. CASE policy # "LRU"
  <2>1. InvalidLast' /\ StackNow' = StackNow
    BY <1>8, NoSetChanges DEF HitOrders
  <2>2. StackNow' = [StackNow EXCEPT ![s] = q]
    BY <1>7, <2>1 DEF StackNow
  <2> HIDE DEF q
  <2>3. Recency!SAccess(b)
    BY <1>1, <1>6, <1>7, <1>8, <2>2 DEF Recency!SAccess, StackNow
  <2> QED BY <2>1, <2>3
<1>9. CASE policy = "LRU"
  <2>1. rank' = [rank EXCEPT ![s] = AtHead(s, w)]
    BY <1>9 DEF HitOrders
  <2>2. rank'[s] = AtHead(s, w) /\ valid'[s] = valid[s] /\ tag'[s] = tag[s]
    BY <1>1, <2>1 DEF ListInv
  <2>3. /\ FilledTo(AtHead(s, w), valid[s], n)
        /\ Listed(AtHead(s, w), tag[s], s, n) = Recency!InFront(q, b)
    BY <1>1, <1>2, <1>3, <1>4, HitToFront
  <2>4. IsOrder(AtHead(s, w))
    BY <1>1, <1>2, <1>3, MovedToHead
  <2>5. Stack(s)' = Recency!InFront(q, b)
    BY <1>1, <2>2, <2>3, <2>4, StackOfSet, StackIsListed
  <2>6. InvalidLast' /\ StackNow' = [StackNow EXCEPT ![s] = Recency!InFront(q, b)]
    BY <1>1, <1>4, <2>1, <2>2, <2>3, <2>5, OneSetChanges
  <2> HIDE DEF q
  <2>7. Recency!SAccess(b)
    BY <1>1, <1>6, <1>7, <1>9, <2>6 DEF Recency!SAccess, StackNow
  <2> QED BY <2>6, <2>7
<1> QED BY <1>8, <1>9

LEMMA SlowHitStack ==
  ASSUME CoherenceInv, ListInv, UNCHANGED policy,
         NEW b \in Blocks, NEW c \in Commands, SlowHit(b, c)
  PROVE  InvalidLast' /\ Recency!SAccess(b)
<1> PICK w \in Hits(b) : Copy(b, c, w, data[b[2]][w]) /\ Touch(b[2], w)
  BY DEF SlowHit
<1>1. HitOrders(b[2], w) /\ UNCHANGED <<valid, tag>>
  BY DEF SlowHit, Touch, HitOrders
<1>2. Request' = <<"access", b>>
  BY CopyRequests
<1> QED BY <1>1, <1>2, HitStack

\* A fast hit leaves the list alone: under LRU its block is at the head already.
LEMMA FastHitStack ==
  ASSUME CoherenceInv, ListInv, FastHitNeedsNoUpdate, UNCHANGED policy,
         NEW b \in Blocks, NEW c \in Commands, FastHit(b, c)
  PROVE  InvalidLast' /\ Recency!SAccess(b)
<1> DEFINE s == b[2]
           w == last_blk
<1>1. last_tagset = b /\ b # NoBlock /\ s \in Sets
  BY BlockShape DEF FastHit
<1>2. w \in Hits(b) /\ w \in Ways
  BY <1>1 DEF CoherenceInv, FastHitIsHit, Hits
<1>3. UNCHANGED <<rank, valid, tag>>
  BY DEF FastHit, replacement
<1>4. Request' = <<"access", b>>
  BY CopyRequests DEF FastHit
<1>5. HitOrders(s, w)
  <2>1. CASE policy # "LRU"
    BY <1>3, <2>1 DEF HitOrders
  <2>2. CASE policy = "LRU"
    <3>1. rank[s][w] = 0
      BY <1>1, <2>2 DEF FastHitNeedsNoUpdate
    <3>2. IsOrder(rank[s])
      BY <1>1, OrderOfSet
    <3>3. ASSUME NEW x \in Ways PROVE AtHead(s, w)[x] = rank[s][x]
      <4>1. rank[s][x] \in Nat
        <5>1. rank[s][x] \in Ways
          BY <3>2 DEF IsOrder
        <5> QED BY <5>1, WaysAssumption DEF Ways
      <4> QED BY <3>1, <4>1 DEF AtHead
    <3>4. AtHead(s, w) = rank[s]
      BY <3>2, <3>3 DEF AtHead, IsOrder
    <3>5. rank = [rank EXCEPT ![s] = AtHead(s, w)]
      BY <3>4 DEF ListInv
    <3> QED BY <1>3, <2>2, <3>5 DEF HitOrders
  <2> QED BY <2>1, <2>2
<1> QED BY <1>2, <1>3, <1>4, <1>5, HitStack

LEMMA MissStack ==
  ASSUME CoherenceInv, ListInv, policy \in {"LRU", "FIFO"},
         NEW b \in Blocks, NEW c \in Commands, Miss(b, c)
  PROVE  InvalidLast' /\ Recency!SAccess(b)
<1> DEFINE s == b[2]
<1>1. s \in Sets /\ b = <<b[1], s>> /\ b[1] \in Nat
  BY BlockShape
<1>2. PICK w \in Ways : /\ Replace(s, w) /\ tag' = [tag EXCEPT ![s][w] = b[1]]
                        /\ valid' = [valid EXCEPT ![s][w] = TRUE]
  BY DEF Miss
<1>3. rank[s][w] = assoc - 1 /\ rank' = [rank EXCEPT ![s] = AtHead(s, w)]
  BY <1>2 DEF Replace, ReplaceTail, ReplaceRandom, ReplaceNRU, ReplaceDRRIP
<1>4. \A x \in Ways : valid[s][x] => tag[s][x] # b[1]
  BY DEF Miss, cache_probe, Hits
<1>5. /\ IsOrder(rank[s]) /\ tag[s] \in [Ways -> Nat] /\ valid[s] \in [Ways -> BOOLEAN]
      /\ tag \in [Sets -> [Ways -> Nat]] /\ valid \in [Sets -> [Ways -> BOOLEAN]]
  BY <1>1, OrderOfSet DEF CoherenceInv, StoredInv, BlockTypes
<1>6. PICK n \in 0..assoc : FilledTo(rank[s], valid[s], n)
  BY <1>1, OrderOfSet
<1> DEFINE t == b[1]
<1> DEFINE tg == tag'[s]
<1> DEFINE vd == valid'[s]
<1> DEFINE m == IF n = assoc THEN n ELSE n + 1
<1> DEFINE q == Listed(rank[s], tag[s], s, n)
<1> DEFINE q2 == Listed(AtHead(s, w), tg, s, m)
<1>7. Stack(s) = q
  BY <1>1, <1>5, <1>6, StackOfSet, StackIsListed
<1>8. /\ rank'[s] = AtHead(s, w) /\ vd = [valid[s] EXCEPT ![w] = TRUE]
      /\ tg = [tag[s] EXCEPT ![w] = t]
      /\ \A x \in Sets : x # s => rank'[x] = rank[x] /\ valid'[x] = valid[x] /\ tag'[x] = tag[x]
  BY <1>1, <1>2, <1>3, <1>5 DEF ListInv
<1>9. MissMakes(s, w, t, n, m, tg, vd)
  BY <1>8 DEF MissMakes
<1>10. Lacks(s, t)
  BY <1>4 DEF Lacks
<1> HIDE DEF m, tg, vd
<1>11. MissLeaves(s, w, t, n, m, tg, vd)
  BY <1>1, <1>3, <1>5, <1>6, <1>9, <1>10, MissToFront
<1>12. /\ m \in 0..assoc /\ FilledTo(AtHead(s, w), vd, m)
       /\ \A i \in DOMAIN q : q[i] # <<t, s>>
       /\ q2 = SubSeq(Recency!InFront(q, <<t, s>>), 1, Recency!Min({assoc, n + 1}))
  BY <1>11 DEF MissLeaves
<1>13. IsOrder(AtHead(s, w))
  BY <1>1, <1>5, MovedToHead
<1>14. Stack(s)' = q2
  <2>1. Stack(s)' = StackOf(AtHead(s, w), vd, tg, s)
    BY <1>1, <1>8, StackOfSet DEF vd, tg
  <2> DEFINE r == AtHead(s, w)
  <2>2. IsOrder(r) /\ FilledTo(r, vd, m)
    BY <1>12, <1>13
  <2> HIDE DEF r
  <2>3. StackOf(r, vd, tg, s) = Listed(r, tg, s, m)
    BY <2>2, StackIsListed
  <2> QED BY <2>1, <2>3 DEF r
<1>15. FilledTo(rank'[s], valid'[s], m)
  BY <1>8, <1>12 DEF vd
<1>16. IsList(q, rank[s], tag[s], s, n)
  BY <1>1, <1>5, ListedIsSequence
<1>17. StackNow[s] = q /\ Len(q) = n
  BY <1>1, <1>7, <1>16 DEF StackNow, IsList
<1>18. b = <<t, s>>
  BY <1>1
<1>19. b \notin Recency!Range(q)
  BY <1>12, <1>18 DEF Recency!Range
<1> HIDE DEF q, q2, s, t
<1>20. InvalidLast' /\ StackNow' = [StackNow EXCEPT ![s] = q2]
  BY <1>1, <1>8, <1>12, <1>14, <1>15, OneSetChanges
<1>21. q2 = SubSeq(Recency!InFront(StackNow[s], b), 1, Recency!Min({assoc, Len(StackNow[s]) + 1}))
  BY <1>12, <1>17, <1>18
<1>22. Request' = <<"access", b>>
  BY CopyRequests DEF Miss
<1>23. Recency!SAccess(b)
  BY <1>1, <1>17, <1>19, <1>20, <1>21, <1>22 DEF Recency!SAccess, StackNow, s
<1> QED BY <1>20, <1>23

LEMMA FlushStack ==
  ASSUME ListInv, cache_flush
  PROVE  InvalidLast' /\ Recency!SFlush
<1>1. rank' = rank /\ valid' = [s \in Sets |-> [w \in Ways |-> FALSE]]
  BY DEF cache_flush, replacement
<1>2. assoc \in Nat /\ 0 \in 0..assoc
  BY WaysAssumption
<1>3. ASSUME NEW s \in Sets PROVE FilledTo(rank'[s], valid'[s], 0) /\ IsOrder(rank'[s])
  <2>1. IsOrder(rank[s])
    BY OrderOfSet
  <2>2. \A w \in Ways : ~(rank[s][w] < 0)
    BY <1>2, <2>1 DEF IsOrder, Ways
  <2> QED BY <1>1, <1>2, <2>1, <2>2 DEF FilledTo
<1>4. InvalidLast'
  BY <1>2, <1>3 DEF InvalidLast, FilledTo
<1>5. ASSUME NEW s \in Sets PROVE Stack(s)' = <<>>
  <2>1. Stack(s)' = Listed(rank'[s], tag'[s], s, 0)
    BY <1>2, <1>3, StackOfSet, StackIsListed
  <2> QED BY <2>1 DEF Listed
<1>6. Request' = <<"flush">>
  BY FlushRequests DEF cache_flush
<1> QED BY <1>4, <1>5, <1>6 DEF Recency!SFlush

LEMMA FlushAddrStack ==
  ASSUME CoherenceInv, ListInv, NEW b \in Blocks, cache_flush_addr(b)
  PROVE  InvalidLast' /\ Recency!SFlushBlock(b)
<1> DEFINE s == b[2]
<1>1. s \in Sets /\ b = <<b[1], s>>
  BY BlockShape
<1>2. PICK w \in Hits(b) : /\ valid' = [valid EXCEPT ![s][w] = FALSE]
                           /\ rank' = [rank EXCEPT ![s] = AtTail(s, w)]
  BY DEF cache_flush_addr
<1>3. tag' = tag
  BY DEF cache_flush_addr
<1>4. w \in Ways /\ valid[s][w] /\ tag[s][w] = b[1]
  BY <1>2 DEF Hits
<1>5. /\ IsOrder(rank[s]) /\ tag[s] \in [Ways -> Nat] /\ OneCopy
      /\ valid[s] \in [Ways -> BOOLEAN] /\ valid \in [Sets -> [Ways -> BOOLEAN]]
  BY <1>1, OrderOfSet DEF CoherenceInv, StoredInv, BlockTypes
<1>6. PICK n \in 0..assoc : FilledTo(rank[s], valid[s], n)
  BY <1>1, OrderOfSet
<1> DEFINE q == Listed(rank[s], tag[s], s, n)
<1>7. Stack(s) = q
  BY <1>1, <1>5, <1>6, StackOfSet, StackIsListed
<1>8. /\ rank'[s] = AtTail(s, w) /\ valid'[s] = [valid[s] EXCEPT ![w] = FALSE]
      /\ tag'[s] = tag[s]
      /\ \A t \in Sets : t # s => rank'[t] = rank[t] /\ valid'[t] = valid[t] /\ tag'[t] = tag[t]
  BY <1>1, <1>2, <1>3, <1>5 DEF ListInv
<1>9. /\ n - 1 \in 0..assoc /\ FilledTo(AtTail(s, w), valid'[s], n - 1)
      /\ Listed(AtTail(s, w), tag[s], s, n - 1) = Recency!Without(q, b)
  BY <1>1, <1>4, <1>5, <1>6, <1>8, FlushedOut
<1>10. IsOrder(AtTail(s, w))
  BY <1>1, <1>4, <1>5, MovedToTail
<1>11. Stack(s)' = Recency!Without(q, b)
  BY <1>1, <1>8, <1>9, <1>10, StackOfSet, StackIsListed
<1>12. InvalidLast' /\ StackNow' = [StackNow EXCEPT ![s] = Recency!Without(q, b)]
  BY <1>1, <1>8, <1>9, <1>11, OneSetChanges
<1>13. StackNow[s] = q
  BY <1>1, <1>7 DEF StackNow
<1> HIDE DEF q
<1>14. Request' = <<"flush", b>>
  BY FlushRequests DEF cache_flush_addr
<1>15. Recency!SFlushBlock(b)
  BY <1>1, <1>12, <1>13, <1>14 DEF Recency!SFlushBlock, StackNow
<1> QED BY <1>12, <1>15

\* Under LRU and FIFO every access changes the way list as the policy says of the
\* block that is accessed: under LRU a block that hits comes to the front, fast or
\* not, under FIFO it stays, and one that misses takes the place of the block used,
\* or inserted, longest ago; blocks that were flushed are replaced before any other
\* (cache.c:604-610, 815-821, 859, 997-998).
THEOREM IsRecencyStack ==
  ASSUME Policies \subseteq {"LRU", "FIFO"}
  PROVE  Spec => StackSpec
<1>1. Init => InvalidLast /\ Recency!SInit
  <2> SUFFICES ASSUME Init PROVE InvalidLast /\ Recency!SInit
    OBVIOUS
  <2>1. assoc \in Nat \ {0} /\ 0 \in 0..assoc
    BY WaysAssumption
  <2>2. ReplacementInv
    BY InitReplacement
  <2>3. ASSUME NEW s \in Sets PROVE FilledTo(rank[s], valid[s], 0) /\ IsOrder(rank[s])
    <3>1. IsOrder(rank[s])
      BY <2>2 DEF ReplacementInv, ReplacementTypes, WayListIsOrder, IsOrder
    <3>2. \A w \in Ways : ~(rank[s][w] < 0)
      BY <2>1, <3>1 DEF IsOrder, Ways
    <3>3. \A w \in Ways : ~valid[s][w]
      BY DEF Init
    <3> QED BY <2>1, <3>1, <3>2, <3>3 DEF FilledTo
  <2>4. ASSUME NEW s \in Sets PROVE Stack(s) = <<>>
    <3>1. Stack(s) = Listed(rank[s], tag[s], s, 0)
      BY <2>1, <2>3, StackOfSet, StackIsListed
    <3> QED BY <3>1 DEF Listed
  <2>5. Request = <<>>
    <3>1. call.cmd = "none" /\ "none" \notin Cmds
      BY ClientAssumption DEF Init, NoCall
    <3> QED BY <3>1 DEF Request
  <2> QED BY <2>1, <2>3, <2>4, <2>5 DEF InvalidLast, Recency!SInit
<1>2. CoherenceInv /\ ReplacementInv /\ InvalidLast /\ [Next]_vars
        => InvalidLast' /\ [Recency!SNext]_(Recency!svars)
  <2> SUFFICES ASSUME CoherenceInv, ReplacementInv, InvalidLast, [Next]_vars
               PROVE  InvalidLast' /\ [Recency!SNext]_(Recency!svars)
    OBVIOUS
  <2>1. ListInv /\ policy \in {"LRU", "FIFO"}
    BY DEF ReplacementInv, ReplacementTypes, ListInv
  <2>2. CASE UNCHANGED vars
    <3>1. UNCHANGED <<rank, valid, tag, policy, call>>
      BY <2>2 DEF vars, blocks, replacement
    <3>2. InvalidLast' /\ StackNow' = StackNow
      BY <2>1, <3>1, NoSetChanges
    <3>3. Request' = Request
      BY <3>1 DEF Request
    <3> QED BY <3>1, <3>2, <3>3 DEF Recency!svars, StackNow
  <2>3. ASSUME NEW b \in Blocks, NEW c \in Commands, cache_access(b, c), UNCHANGED policy
        PROVE  InvalidLast' /\ [Recency!SNext]_(Recency!svars)
    <3>1. InvalidLast' /\ Recency!SAccess(b)
      <4>1. CASE FastHit(b, c)
        BY <2>1, <2>3, <4>1, FastHitStack DEF ReplacementInv
      <4>2. CASE SlowHit(b, c)
        BY <2>1, <2>3, <4>2, SlowHitStack
      <4>3. CASE Miss(b, c)
        BY <2>1, <4>3, MissStack
      <4> QED BY <2>3, <4>1, <4>2, <4>3 DEF cache_access
    <3> QED BY <2>3, <3>1 DEF Recency!SNext
  <2>4. CASE cache_flush /\ UNCHANGED policy
    <3>1. InvalidLast' /\ Recency!SFlush
      BY <2>1, <2>4, FlushStack
    <3> QED BY <2>4, <3>1 DEF Recency!SNext
  <2>5. ASSUME NEW b \in Blocks, cache_flush_addr(b), UNCHANGED policy
        PROVE  InvalidLast' /\ [Recency!SNext]_(Recency!svars)
    <3>1. InvalidLast' /\ Recency!SFlushBlock(b)
      BY <2>1, <2>5, FlushAddrStack
    <3> QED BY <2>5, <3>1 DEF Recency!SNext
  <2> QED BY <2>2, <2>3, <2>4, <2>5 DEF Next
<1> QED BY CoherenceInvariance, ReplacementInvariance, <1>1, <1>2, PTL
        DEF Spec, StackSpec, Recency!SSpec
=============================================================================
