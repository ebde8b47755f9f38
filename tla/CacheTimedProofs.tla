-------------------------- MODULE CacheTimedProofs --------------------------
(***************************************************************************)
(* The timing caches of sim-outorder keep their way lists and hash chains   *)
(* well formed, whatever replacements and flushes relink, for all numbers   *)
(* of sets, ways and buckets: the inductive invariant, CachesInvariant,     *)
(* tells which list of ways the links of every set follow.  The last part   *)
(* is about the loops of the NRU and DRRIP replacement, which walk such a   *)
(* list: they end with the way that VictimChoice states, for every          *)
(* associativity and every width of the counters.                           *)
(***************************************************************************)
EXTENDS CacheTimedProperties, VictimLoop, ProofFacts

-----------------------------------------------------------------------------
(* Lists of ways.                                                          *)

\* What is at place i of q, or NULL where q has no such place.
At(q, i) == IF i \in 1..Len(q) THEN q[i] ELSE NULL

\* No element is in q twice.
Distinct(q) == \A i, j \in 1..Len(q) : q[i] = q[j] => i = j

\* How many the first numbers are.
LEMMA FirstCounted == \A m \in Nat : IsFiniteSet(1..m) /\ Cardinality(1..m) = m
<1> TAKE m \in Nat
<1>1. Cardinality(1..m) = IF 1 > m THEN 0 ELSE m - 1 + 1
  BY FS_Interval
<1> QED
  BY <1>1, IntervalFinite

\* Places lie on one another in a list, or are none.
LEMMA AtPlace ==
  ASSUME NEW S, NEW q \in Seq(S)
  PROVE  /\ Len(q) \in Nat /\ DOMAIN q = 1..Len(q)
         /\ \A i \in 1..Len(q) : q[i] \in S /\ At(q, i) = q[i]
         /\ \A i : i \notin 1..Len(q) => At(q, i) = NULL
BY LenProperties DEF At

\* A list of ways without repetition has at most as many places as there are
\* ways; if as many, then each way has one.
LEMMA WaysOnce ==
  ASSUME NEW n \in Nat, NEW q \in Seq(1..n), Distinct(q)
  PROVE  /\ Len(q) \in 0..n
         /\ Len(q) = n => \A w \in 1..n : \E i \in 1..n : q[i] = w
<1>1. Len(q) \in Nat /\ q \in [1..Len(q) -> 1..n]
  BY LenProperties
<1> DEFINE m == Len(q)
<1>2. q \in Injection(1..m, 1..n)
  BY <1>1 DEF Injection, IsInjective, Distinct
<1>3. IsFiniteSet(1..n) /\ Cardinality(1..n) = n /\ Cardinality(1..m) = m
  BY <1>1, FirstCounted
<1>4. /\ Cardinality(1..m) <= Cardinality(1..n)
      /\ Cardinality(1..m) = Cardinality(1..n) => q \in Surjection(1..m, 1..n)
  BY <1>2, <1>3, FS_Injection
<1>5. m = n => \A w \in 1..n : \E i \in 1..n : q[i] = w
  BY <1>3, <1>4 DEF Surjection
<1>6. m \in Nat /\ m <= n
  BY <1>1, <1>3, <1>4
<1> HIDE DEF m
<1> QED
  BY <1>5, <1>6 DEF m

\* A walk along a list that the links follow meets the list.
LEMMA WalkIs ==
  ASSUME NEW n \in Nat \ {0}, NEW q \in Seq(1..n), Len(q) <= n, NEW first, NEW next,
         first = At(q, 1), \A i \in 1..Len(q) : next[q[i]] = At(q, i + 1)
  PROVE  Walk(first, next, n) = q
<1> DEFINE m == Len(q)
           Met(f) == [i \in 1..n |-> IF i = 1 THEN first
                                     ELSE IF f[i - 1] = NULL THEN NULL ELSE next[f[i - 1]]]
           at == CHOOSE f : f = Met(f)
           all == [i \in 1..n |-> At(q, i)]
<1>1. /\ m \in 0..n /\ DOMAIN q = 1..m
      /\ \A i \in 1..m : q[i] \in 1..n /\ At(q, i) = q[i]
      /\ \A i : i \notin 1..m => At(q, i) = NULL
  BY AtPlace
<1>2. all = Met(all)
  <2>1. ASSUME NEW i \in 1..n, i # 1
        PROVE  At(q, i) = IF At(q, i - 1) = NULL THEN NULL ELSE next[At(q, i - 1)]
    <3>1. CASE i - 1 \in 1..m
      <4>1. At(q, i - 1) = q[i - 1] /\ q[i - 1] # NULL /\ (i - 1) + 1 = i
        BY <1>1, <3>1 DEF NULL
      <4>2. next[q[i - 1]] = At(q, (i - 1) + 1)
        BY <3>1
      <4> QED
        BY <4>1, <4>2
    <3>2. CASE i - 1 \notin 1..m
      <4>1. i \notin 1..m
        BY <1>1, <2>1, <3>2
      <4> QED
        BY <1>1, <3>2, <4>1
    <3> QED
      BY <3>1, <3>2
  <2>2. \A i \in 1..n : i # 1 => i - 1 \in 1..n
    OBVIOUS
  <2> QED
    BY <2>1, <2>2
<1>3. at = Met(at)
  BY <1>2
<1> HIDE DEF at
<1>4. \A i \in 1..n : at[i] = At(q, i)
  <2> DEFINE P == {i \in 0..n : i = 0 \/ at[i] = At(q, i)}
  <2>1. P \in SUBSET (0..n) /\ 0 \in P
    OBVIOUS
  <2>2. ASSUME NEW i \in 1..n, i - 1 \in P PROVE i \in P
    <3>1. at[i] = IF i = 1 THEN first ELSE IF at[i - 1] = NULL THEN NULL ELSE next[at[i - 1]]
      BY <1>3
    <3>2. all[i] = IF i = 1 THEN first ELSE IF all[i - 1] = NULL THEN NULL ELSE next[all[i - 1]]
      BY <1>2
    <3>3. i # 1 => i - 1 \in 1..n /\ at[i - 1] = all[i - 1]
      BY <2>2
    <3>4. at[i] = all[i]
      BY <3>1, <3>2, <3>3
    <3> QED
      BY <3>4
  <2> HIDE DEF P
  <2>3. P = 0..n
    BY <2>1, <2>2, Iteration
  <2> QED
    BY <2>3 DEF P
<1>5. at \in [1..n -> 0..n]
  <2>1. \A i \in 1..n : At(q, i) \in 0..n
    BY <1>1 DEF NULL
  <2>2. at = [i \in 1..n |-> at[i]]
    BY <1>3
  <2> QED
    BY <1>4, <2>1, <2>2
<1>6. {i \in 1..n : at[i] # NULL} = 1..m
  BY <1>1, <1>4 DEF NULL
<1>7. Cardinality(1..m) = m
  BY <1>1, FirstCounted
<1>8. SubSeq(at, 1, m) = q
  <2>1. /\ SubSeq(at, 1, m) \in Seq(0..n) /\ Len(SubSeq(at, 1, m)) = IF 1 <= m THEN m - 1 + 1 ELSE 0
        /\ \A i \in 1..m - 1 + 1 : SubSeq(at, 1, m)[i] = at[1 + i - 1]
    <3>1. at \in Seq(0..n) /\ \A i \in 1..m : at[i] \in 0..n
      BY <1>1, <1>5
    <3>2. 1 \in Int /\ m \in Int
      BY <1>1
    <3> QED
      BY <3>1, <3>2, SubSeqProperties
  <2> DEFINE u == SubSeq(at, 1, m)
  <2>2. u \in Seq(0..n) /\ q \in Seq(0..n) /\ Len(u) = m /\ \A i \in 1..m : u[i] = q[i]
    <3>1. \A i \in 1..m : i \in 1..m - 1 + 1 /\ 1 + i - 1 = i /\ i \in 1..n
      BY <1>1
    <3> QED
      BY <1>1, <1>4, <2>1, <3>1
  <2> HIDE DEF u
  <2> QED
    BY <2>2, SeqEqual DEF u
<1>9. Walk(first, next, n) = SubSeq(at, 1, Cardinality({i \in 1..n : at[i] # NULL}))
  BY DEF Walk, at
<1> QED
  BY <1>6, <1>7, <1>8, <1>9
-----------------------------------------------------------------------------
(* The way list.                                                           *)

\* A set with n ways and h hash chains.
SetType(n, h) ==
  [way_head : 1..n, way_tail : 1..n, way_next : [1..n -> 0..n], way_prev : [1..n -> 0..n],
   hash : [0..(h - 1) -> 0..n], hash_next : [1..n -> 0..n],
   tag : [1..n -> Nat], valid : [1..n -> BOOLEAN], dirty : [1..n -> BOOLEAN],
   ready : [1..n -> Nat]]

\* The fields that the way list leaves alone.
SameBlocks(set, new) ==
  /\ new.hash = set.hash /\ new.hash_next = set.hash_next
  /\ new.tag = set.tag /\ new.valid = set.valid /\ new.dirty = set.dirty /\ new.ready = set.ready

\* The pointers head, tail, next and prev make the list q, both ways.
Links(head, tail, next, prev, q) ==
  /\ Len(q) >= 1 /\ head = q[1] /\ tail = q[Len(q)]
  /\ \A i \in 1..Len(q) : next[q[i]] = At(q, i + 1) /\ prev[q[i]] = At(q, i - 1)

\* The way list of the set is q, which holds no way twice.
ListIn(set, n, q) ==
  /\ q \in Seq(1..n) /\ Distinct(q)
  /\ Links(set.way_head, set.way_tail, set.way_next, set.way_prev, q)

\* A list without one of its elements, which is not the only one.
LEMMA CutList ==
  ASSUME NEW n \in Nat \ {0}, NEW q \in Seq(1..n), Distinct(q), NEW j \in 1..Len(q), Len(q) >= 2
  PROVE  LET u == Cut(q, j) IN
         /\ u \in Seq(1..n) /\ Distinct(u) /\ Len(u) = Len(q) - 1 /\ Len(q) \in Nat
         /\ \A i \in 1..Len(u) : u[i] = (IF i < j THEN q[i] ELSE q[i + 1]) /\ u[i] # q[j]
<1> DEFINE u == Cut(q, j)
<1>1. u \in Seq(1..n) /\ LessPlace(q, j, u)
  BY PlaceCut
<1> HIDE DEF u
<1>2. Len(q) \in Nat /\ Len(u) = Len(q) - 1
      /\ \A i \in 1..Len(u) : u[i] = IF i < j THEN q[i] ELSE q[i + 1]
  BY <1>1, LenProperties DEF LessPlace
<1>3. \A i \in 1..Len(u) : u[i] # q[j]
  <2> TAKE i \in 1..Len(u)
  <2>1. u[i] = (IF i < j THEN q[i] ELSE q[i + 1]) /\ Len(u) = Len(q) - 1 /\ Len(q) \in Nat
    BY <1>2
  <2>2. i \in 1..Len(q) /\ i + 1 \in 1..Len(q)
    BY <2>1
  <2>3. PICK k \in 1..Len(q) : k # j /\ u[i] = q[k]
    <3>1. CASE i < j
      BY <2>1, <2>2, <3>1
    <3>2. CASE ~(i < j)
      <4>1. i + 1 # j /\ u[i] = q[i + 1]
        BY <2>1, <3>2
      <4> QED
        BY <2>2, <4>1
    <3> QED
      BY <3>1, <3>2
  <2> QED
    BY <2>3 DEF Distinct
<1>4. Distinct(u)
  <2>1. SUFFICES ASSUME NEW i \in 1..Len(u), NEW k \in 1..Len(u), u[i] = u[k] PROVE i = k
    BY DEF Distinct
  <2> DEFINE x == IF i < j THEN i ELSE i + 1
             y == IF k < j THEN k ELSE k + 1
  <2>2. x \in 1..Len(q) /\ y \in 1..Len(q) /\ q[x] = q[y]
    <3>1. u[i] = q[x] /\ u[k] = q[y]
      BY <1>2
    <3>2. \A z \in 1..Len(u) : z \in 1..Len(q) /\ z + 1 \in 1..Len(q)
      BY <1>2
    <3>3. x \in 1..Len(q) /\ y \in 1..Len(q)
      BY <3>2
    <3> QED
      BY <2>1, <3>1, <3>3
  <2>3. x = y
    BY <2>2 DEF Distinct
  <2> QED
    BY <1>2, <2>3
<1> QED
  BY <1>1, <1>2, <1>3, <1>4 DEF u

\* A pointer changes.
LEMMA Pointed ==
  ASSUME NEW D, NEW R, NEW f \in [D -> R], NEW x, NEW v \in R
  PROVE  /\ [f EXCEPT ![x] = v] \in [D -> R]
         /\ \A y \in D : [f EXCEPT ![x] = v][y] = IF y = x THEN v ELSE f[y]
OBVIOUS

\* A way is unlinked.
LEMMA WayUnlinked ==
  ASSUME NEW n \in Nat \ {0}, NEW h \in Nat, NEW set \in SetType(n, h), NEW q,
         ListIn(set, n, q), Len(q) >= 2, NEW j \in 1..Len(q)
  PROVE  LET new == UnlinkedWay(set, q[j]) IN
         new \in SetType(n, h) /\ SameBlocks(set, new) /\ ListIn(new, n, Cut(q, j))
<1> DEFINE u == Cut(q, j)
           new == UnlinkedWay(set, q[j])
           m == Len(q)
           w == q[j]
           p == set.way_prev[w]
           x == set.way_next[w]
<1>1. /\ q \in Seq(1..n) /\ Distinct(q) /\ m \in Nat /\ m >= 2
      /\ \A i \in 1..m : q[i] \in 1..n /\ q[i] # NULL /\ At(q, i) = q[i]
      /\ \A i : i \notin 1..m => At(q, i) = NULL
  <2>1. q \in Seq(1..n) /\ Distinct(q)
    BY DEF ListIn
  <2>2. /\ m \in Nat /\ \A i \in 1..m : q[i] \in 1..n /\ At(q, i) = q[i]
        /\ \A i : i \notin 1..m => At(q, i) = NULL
    BY <2>1, AtPlace
  <2>3. \A y \in 1..n : y # NULL
    BY DEF NULL
  <2> QED
    BY <2>1, <2>2, <2>3
<1>2. /\ set.way_head = q[1] /\ set.way_tail = q[m]
      /\ \A i \in 1..m : set.way_next[q[i]] = At(q, i + 1) /\ set.way_prev[q[i]] = At(q, i - 1)
  BY DEF ListIn, Links
<1>3. /\ u \in Seq(1..n) /\ Distinct(u) /\ Len(u) = m - 1
      /\ \A i \in 1..m - 1 : u[i] = (IF i < j THEN q[i] ELSE q[i + 1])
  BY <1>1, CutList
<1>4. /\ \A i \in 1..m - 1 : At(u, i) = u[i]
      /\ \A i : i \notin 1..m - 1 => At(u, i) = NULL
  BY <1>3 DEF At
<1>5. p = At(q, j - 1) /\ x = At(q, j + 1) /\ w \in 1..n
  BY <1>1, <1>2
<1>6. /\ set.way_head \in 1..n /\ set.way_tail \in 1..n /\ set.way_next \in [1..n -> 0..n]
      /\ set.way_prev \in [1..n -> 0..n] /\ NULL \in 0..n /\ j \in 1..m
  <2>1. NULL \in 0..n /\ j \in 1..m
    BY DEF NULL
  <2> QED
    BY <2>1 DEF SetType
<1> HIDE DEF u, w, p, x, m
<1>7. CASE j = 1
  <2>1. p = NULL /\ x = q[2] /\ x \in 1..n
    BY <1>1, <1>5, <1>7
  <2>2. new = [set EXCEPT !.way_head = x, !.way_prev[x] = NULL]
    BY <2>1 DEF UnlinkedWay, p, x, w
  <2>3. /\ new \in SetType(n, h) /\ SameBlocks(set, new)
        /\ new.way_head = x /\ new.way_tail = set.way_tail /\ new.way_next = set.way_next
        /\ new.way_prev = [set.way_prev EXCEPT ![x] = NULL]
    <3> DEFINE f == [set.way_prev EXCEPT ![x] = NULL]
    <3>1. f \in [1..n -> 0..n]
      BY <1>6, Pointed
    <3>2. new = [set EXCEPT !.way_head = x, !.way_prev = f]
      BY <2>2
    <3> HIDE DEF f, new
    <3> QED
      BY <2>1, <3>1, <3>2 DEF SetType, SameBlocks, f
  <2> HIDE DEF new
  <2>4. \A i \in 1..m - 1 : /\ u[i] = q[i + 1] /\ i + 1 \in 1..m /\ i \in 1..m
                            /\ (i + 1) + 1 = i + 2 /\ (i + 1) - 1 = i
    BY <1>1, <1>3, <1>7
  <2>5. ASSUME NEW i \in 1..m - 1
        PROVE  new.way_next[u[i]] = At(u, i + 1) /\ new.way_prev[u[i]] = At(u, i - 1)
    <3>1. set.way_next[u[i]] = At(q, i + 2) /\ set.way_prev[u[i]] = q[i]
      <4>1. /\ u[i] = q[i + 1] /\ i + 1 \in 1..m /\ i \in 1..m
            /\ (i + 1) + 1 = i + 2 /\ (i + 1) - 1 = i
        BY <2>4
      <4>2. /\ set.way_next[q[i + 1]] = At(q, (i + 1) + 1)
            /\ set.way_prev[q[i + 1]] = At(q, (i + 1) - 1)
        BY <1>2, <4>1
      <4> QED
        BY <1>1, <4>1, <4>2
    <3>2. At(q, i + 2) = At(u, i + 1)
      <4>1. CASE i + 1 \in 1..m - 1
        <5>1. u[i + 1] = q[(i + 1) + 1] /\ (i + 1) + 1 \in 1..m
          BY <2>4, <4>1
        <5>2. (i + 1) + 1 = i + 2
          BY <2>4
        <5> QED
          BY <1>1, <1>4, <4>1, <5>1, <5>2
      <4>2. CASE i + 1 \notin 1..m - 1
        <5>1. i + 2 \notin 1..m
          BY <1>1, <4>2
        <5> QED
          BY <1>1, <1>4, <4>2, <5>1
      <4> QED
        BY <4>1, <4>2
    <3>3. u[i] = x => i = 1
      <4>1. i + 1 \in 1..m /\ 2 \in 1..m /\ u[i] = q[i + 1]
        BY <1>1, <2>4
      <4>2. q[i + 1] = q[2] => i + 1 = 2
        BY <1>1, <4>1 DEF Distinct, m
      <4> QED
        BY <2>1, <4>1, <4>2
    <3>4. ASSUME i # 1 PROVE i - 1 \in 1..m - 1 /\ u[i - 1] = q[i] /\ At(u, i - 1) = q[i]
      <4>1. i - 1 \in 1..m - 1 /\ (i - 1) + 1 = i
        BY <1>1, <3>4
      <4> QED
        BY <1>4, <2>4, <4>1
    <3>5. i = 1 => u[i] = x /\ At(u, i - 1) = NULL
      BY <1>4, <2>1, <2>4
    <3> QED
      BY <1>1, <1>6, <2>1, <2>3, <2>4, <3>1, <3>2, <3>3, <3>4, <3>5
  <2>6. new.way_head = u[1] /\ new.way_tail = u[m - 1] /\ m - 1 >= 1
    <3>1. 1 \in 1..m - 1 /\ m - 1 \in 1..m - 1 /\ 1 + 1 = 2 /\ (m - 1) + 1 = m
      BY <1>1
    <3>2. u[1] = q[2] /\ u[m - 1] = q[m]
      BY <2>4, <3>1
    <3> QED
      BY <1>1, <1>2, <2>1, <2>3, <3>2
  <2> QED
    BY <1>3, <2>3, <2>5, <2>6 DEF ListIn, Links, new, u, w
<1>8. CASE j = m
  <2>1. p = q[m - 1] /\ p \in 1..n /\ p # NULL /\ x = NULL
    BY <1>1, <1>5, <1>8
  <2>2. new = [set EXCEPT !.way_tail = p, !.way_next[p] = NULL]
    BY <2>1 DEF UnlinkedWay, p, x, w
  <2>3. /\ new \in SetType(n, h) /\ SameBlocks(set, new)
        /\ new.way_head = set.way_head /\ new.way_tail = p /\ new.way_prev = set.way_prev
        /\ new.way_next = [set.way_next EXCEPT ![p] = NULL]
    <3> DEFINE f == [set.way_next EXCEPT ![p] = NULL]
    <3>1. f \in [1..n -> 0..n]
      BY <1>6, Pointed
    <3>2. new = [set EXCEPT !.way_tail = p, !.way_next = f]
      BY <2>2
    <3> HIDE DEF f, new
    <3> QED
      BY <2>1, <3>1, <3>2 DEF SetType, SameBlocks, f
  <2> HIDE DEF new
  <2>4. \A i \in 1..m - 1 : u[i] = q[i] /\ i \in 1..m /\ i + 1 \in 1..m
    BY <1>1, <1>3, <1>8
  <2>5. ASSUME NEW i \in 1..m - 1
        PROVE  new.way_next[u[i]] = At(u, i + 1) /\ new.way_prev[u[i]] = At(u, i - 1)
    <3>1. set.way_next[u[i]] = q[i + 1] /\ set.way_prev[u[i]] = At(q, i - 1)
      BY <1>1, <1>2, <2>4
    <3>2. At(q, i - 1) = At(u, i - 1)
      <4>1. CASE i = 1
        <5>1. i - 1 \notin 1..m /\ i - 1 \notin 1..m - 1
          BY <4>1
        <5> QED
          BY <1>1, <1>4, <5>1
      <4>2. CASE i # 1
        <5>1. i - 1 \in 1..m /\ i - 1 \in 1..m - 1
          BY <1>1, <4>2
        <5> QED
          BY <1>1, <1>4, <2>4, <5>1
      <4> QED
        BY <4>1, <4>2
    <3>3. u[i] = p => i = m - 1
      BY <1>1, <2>1, <2>4 DEF Distinct, m
    <3>4. ASSUME i # m - 1 PROVE At(u, i + 1) = q[i + 1]
      <4>1. i + 1 \in 1..m - 1
        BY <1>1, <3>4
      <4> QED
        BY <1>4, <2>4, <4>1
    <3>5. i = m - 1 => u[i] = p /\ At(u, i + 1) = NULL
      BY <1>1, <1>4, <2>1, <2>4
    <3> QED
      BY <1>1, <1>6, <2>1, <2>3, <2>4, <3>1, <3>2, <3>3, <3>4, <3>5
  <2>6. new.way_head = u[1] /\ new.way_tail = u[m - 1] /\ m - 1 >= 1
    <3>1. 1 \in 1..m - 1 /\ m - 1 \in 1..m - 1
      BY <1>1
    <3>2. u[1] = q[1] /\ u[m - 1] = q[m - 1]
      BY <2>4, <3>1
    <3> QED
      BY <1>1, <1>2, <2>1, <2>3, <3>2
  <2> QED
    BY <1>3, <2>3, <2>5, <2>6 DEF ListIn, Links, new, u, w
<1>9. CASE j # 1 /\ j # m
  <2>1. /\ p = q[j - 1] /\ p \in 1..n /\ p # NULL /\ x = q[j + 1] /\ x \in 1..n /\ x # NULL
        /\ j \in 2..m - 1
    <3>1. j \in 1..m
      BY DEF m
    <3>2. j \in 2..m - 1 /\ j - 1 \in 1..m /\ j + 1 \in 1..m
      BY <1>1, <1>9, <3>1
    <3>3. /\ At(q, j - 1) = q[j - 1] /\ q[j - 1] \in 1..n /\ q[j - 1] # NULL
          /\ At(q, j + 1) = q[j + 1] /\ q[j + 1] \in 1..n /\ q[j + 1] # NULL
      BY <1>1, <3>2
    <3> QED
      BY <1>5, <3>2, <3>3
  <2>2. new = [set EXCEPT !.way_next[p] = x, !.way_prev[x] = p]
    BY <2>1 DEF UnlinkedWay, p, x, w
  <2>3. /\ new \in SetType(n, h) /\ SameBlocks(set, new)
        /\ new.way_head = set.way_head /\ new.way_tail = set.way_tail
        /\ new.way_next = [set.way_next EXCEPT ![p] = x]
        /\ new.way_prev = [set.way_prev EXCEPT ![x] = p]
    <3> DEFINE f == [set.way_next EXCEPT ![p] = x]
               f2 == [set.way_prev EXCEPT ![x] = p]
    <3>1. f \in [1..n -> 0..n] /\ f2 \in [1..n -> 0..n]
      <4>1. p \in 0..n /\ x \in 0..n
        BY <2>1
      <4> QED
        BY <1>6, <4>1, Pointed
    <3>2. new = [set EXCEPT !.way_next = f, !.way_prev = f2]
      BY <2>2
    <3> HIDE DEF f, f2, new
    <3> QED
      BY <2>1, <3>1, <3>2 DEF SetType, SameBlocks, f, f2
  <2> HIDE DEF new
  <2>5. ASSUME NEW i \in 1..m - 1
        PROVE  new.way_next[u[i]] = At(u, i + 1) /\ new.way_prev[u[i]] = At(u, i - 1)
    <3> DEFINE k == IF i < j THEN i ELSE i + 1
    <3>0. m \in Nat /\ j \in 1..m /\ j - 1 \in 1..m /\ j + 1 \in 1..m /\ k \in 1..m
      BY <1>1, <1>6, <2>1
    <3>1. /\ u[i] = q[k] /\ q[k] \in 1..n
          /\ set.way_next[q[k]] = At(q, k + 1) /\ set.way_prev[q[k]] = At(q, k - 1)
      <4>1. u[i] = q[k]
        BY <1>3
      <4> HIDE DEF k
      <4> QED
        BY <1>1, <1>2, <3>0, <4>1
    <3>2. /\ q[k] = p <=> k = j - 1
          /\ q[k] = x <=> k = j + 1
      <4> HIDE DEF k
      <4>1. (q[k] = q[j - 1] <=> k = j - 1) /\ (q[k] = q[j + 1] <=> k = j + 1)
        BY <1>1, <3>0 DEF Distinct, m
      <4> QED
        BY <2>1, <4>1
    <3>3. new.way_next[u[i]] = (IF k = j - 1 THEN x ELSE At(q, k + 1))
      <4> HIDE DEF k
      <4>1. new.way_next[q[k]] = IF q[k] = p THEN x ELSE set.way_next[q[k]]
        BY <1>6, <2>3, <3>1
      <4> QED
        BY <3>1, <3>2, <4>1
    <3>4. new.way_prev[u[i]] = (IF k = j + 1 THEN p ELSE At(q, k - 1))
      <4> HIDE DEF k
      <4>1. new.way_prev[q[k]] = IF q[k] = x THEN p ELSE set.way_prev[q[k]]
        BY <1>6, <2>3, <3>1
      <4> QED
        BY <3>1, <3>2, <4>1
    <3>5. At(u, i + 1) = (IF k = j - 1 THEN x ELSE At(q, k + 1))
      <4>1. CASE i = m - 1
        <5>1. k = m /\ i + 1 \notin 1..m - 1 /\ k + 1 \notin 1..m /\ m # j - 1
          BY <2>1, <3>0, <4>1
        <5>2. At(u, i + 1) = NULL /\ At(q, k + 1) = NULL
          BY <1>1, <1>4, <5>1
        <5> QED
          BY <5>1, <5>2
      <4>2. CASE i # m - 1
        <5>0. i + 1 \in 1..m - 1 /\ (i + 1) + 1 = i + 2
          BY <3>0, <4>2
        <5>1. At(u, i + 1) = IF i + 1 < j THEN q[i + 1] ELSE q[i + 2]
          BY <1>3, <1>4, <5>0
        <5>2. k + 1 \in 1..m
          BY <2>1, <3>0, <4>2
        <5>3. At(q, k + 1) = q[k + 1]
          BY <1>1, <5>2
        <5> QED
          BY <2>1, <3>0, <5>1, <5>3
      <4> QED
        BY <4>1, <4>2
    <3>6. At(u, i - 1) = (IF k = j + 1 THEN p ELSE At(q, k - 1))
      <4>1. CASE i = 1
        <5>1. k = 1 /\ i - 1 \notin 1..m - 1 /\ k - 1 \notin 1..m /\ 1 # j + 1
          BY <2>1, <3>0, <4>1
        <5>2. At(u, i - 1) = NULL /\ At(q, k - 1) = NULL
          BY <1>1, <1>4, <5>1
        <5> QED
          BY <5>1, <5>2
      <4>2. CASE i # 1
        <5>0. i - 1 \in 1..m - 1 /\ (i - 1) + 1 = i /\ k - 1 \in 1..m
          BY <3>0, <4>2
        <5>1. At(u, i - 1) = IF i - 1 < j THEN q[i - 1] ELSE q[i]
          BY <1>3, <1>4, <5>0
        <5>2. At(q, k - 1) = q[k - 1]
          BY <1>1, <5>0
        <5> QED
          BY <2>1, <3>0, <5>1, <5>2
      <4> QED
        BY <4>1, <4>2
    <3> QED
      BY <3>3, <3>4, <3>5, <3>6
  <2>6. new.way_head = u[1] /\ new.way_tail = u[m - 1] /\ m - 1 >= 1
    <3>1. 1 \in 1..m - 1 /\ m - 1 \in 1..m - 1 /\ 1 < j /\ ~(m - 1 < j) /\ (m - 1) + 1 = m
      BY <1>1, <2>1
    <3>2. u[1] = q[1] /\ u[m - 1] = q[m]
      BY <1>3, <3>1
    <3> QED
      BY <1>1, <1>2, <2>3, <3>2
  <2> QED
    BY <1>3, <2>3, <2>5, <2>6 DEF ListIn, Links, new, u, w
<1> QED
  BY <1>7, <1>8, <1>9

\* A way enters at the head.
LEMMA HeadEntered ==
  ASSUME NEW n \in Nat \ {0}, NEW h \in Nat, NEW set \in SetType(n, h), NEW q,
         ListIn(set, n, q), NEW w \in 1..n, \A i \in 1..Len(q) : q[i] # w
  PROVE  LET new == LinkedHead(set, w) IN
         new \in SetType(n, h) /\ SameBlocks(set, new) /\ ListIn(new, n, <<w>> \o q)
<1> DEFINE u == <<w>> \o q
           new == LinkedHead(set, w)
           m == Len(q)
           x == set.way_head
           f == [set.way_next EXCEPT ![w] = x]
           f1 == [set.way_prev EXCEPT ![w] = NULL]
           f2 == [f1 EXCEPT ![x] = w]
<1>1. /\ q \in Seq(1..n) /\ Distinct(q) /\ m \in Nat /\ m >= 1
      /\ \A i \in 1..m : q[i] \in 1..n /\ q[i] # w /\ At(q, i) = q[i]
      /\ \A i : i \notin 1..m => At(q, i) = NULL
  <2>1. q \in Seq(1..n) /\ Distinct(q) /\ m >= 1
    BY DEF ListIn, Links
  <2> QED
    BY <2>1, AtPlace
<1>2. /\ x = q[1] /\ set.way_tail = q[m]
      /\ \A i \in 1..m : set.way_next[q[i]] = At(q, i + 1) /\ set.way_prev[q[i]] = At(q, i - 1)
  BY DEF ListIn, Links
<1>3. /\ u \in Seq(1..n) /\ Len(u) = m + 1 /\ u[1] = w /\ \A i \in 2..m + 1 : u[i] = q[i - 1]
  BY <1>1, PutInFront
<1>4. /\ \A i \in 1..m + 1 : At(u, i) = u[i]
      /\ \A i : i \notin 1..m + 1 => At(u, i) = NULL
  BY <1>3 DEF At
<1>5. x \in 1..n /\ x \in 0..n /\ w \in 0..n /\ NULL \in 0..n /\ x # w
  BY <1>1, <1>2 DEF NULL
<1>6. set.way_next \in [1..n -> 0..n] /\ set.way_prev \in [1..n -> 0..n]
  BY DEF SetType
<1>7. /\ f \in [1..n -> 0..n] /\ f2 \in [1..n -> 0..n]
      /\ \A y \in 1..n : f[y] = IF y = w THEN x ELSE set.way_next[y]
      /\ \A y \in 1..n : f2[y] = IF y = x THEN w ELSE IF y = w THEN NULL ELSE set.way_prev[y]
  <2>1. /\ f1 \in [1..n -> 0..n]
        /\ \A y \in 1..n : f1[y] = IF y = w THEN NULL ELSE set.way_prev[y]
    BY <1>5, <1>6, Pointed
  <2> HIDE DEF f1
  <2>2. /\ f2 \in [1..n -> 0..n]
        /\ \A y \in 1..n : f2[y] = IF y = x THEN w ELSE f1[y]
    BY <1>5, <2>1, Pointed
  <2>3. /\ f \in [1..n -> 0..n]
        /\ \A y \in 1..n : f[y] = IF y = w THEN x ELSE set.way_next[y]
    BY <1>5, <1>6, Pointed
  <2> QED
    BY <2>1, <2>2, <2>3
<1>8. new = [set EXCEPT !.way_next = f, !.way_prev = f2, !.way_head = w]
  BY DEF LinkedHead
<1> HIDE DEF u, new, m, f, f1, f2
<1>9. /\ new \in SetType(n, h) /\ SameBlocks(set, new)
      /\ new.way_head = w /\ new.way_tail = set.way_tail /\ new.way_next = f /\ new.way_prev = f2
  BY <1>7, <1>8 DEF SetType, SameBlocks
<1>10. ASSUME NEW i \in 1..m + 1
       PROVE  f[u[i]] = At(u, i + 1) /\ f2[u[i]] = At(u, i - 1)
  <2>1. CASE i = 1
    <3>1. u[i] = w /\ i + 1 \in 2..m + 1 /\ i + 1 \in 1..m + 1 /\ (i + 1) - 1 = 1 /\ i - 1 \notin 1..m + 1
      BY <1>1, <1>3, <2>1
    <3>2. At(u, i + 1) = q[1] /\ At(u, i - 1) = NULL
      BY <1>3, <1>4, <3>1
    <3> QED
      BY <1>2, <1>5, <1>7, <3>1, <3>2
  <2>2. CASE i # 1
    <3> DEFINE k == i - 1
    <3>1. k \in 1..m /\ i \in 2..m + 1 /\ k + 1 = i /\ i - 1 = k
      BY <1>1, <2>2
    <3>2. u[i] = q[k] /\ q[k] \in 1..n /\ q[k] # w
      BY <1>1, <1>3, <3>1
    <3> HIDE DEF k
    <3>3. f[u[i]] = At(q, k + 1) /\ f2[u[i]] = IF q[k] = x THEN w ELSE At(q, k - 1)
      <4>1. set.way_next[q[k]] = At(q, k + 1) /\ set.way_prev[q[k]] = At(q, k - 1)
        BY <1>2, <3>1
      <4>2. /\ f[q[k]] = set.way_next[q[k]]
            /\ f2[q[k]] = IF q[k] = x THEN w ELSE set.way_prev[q[k]]
        BY <1>7, <3>2
      <4> QED
        BY <3>2, <4>1, <4>2
    <3>4. At(u, i + 1) = At(q, k + 1)
      <4>1. CASE i = m + 1
        <5>1. i + 1 \notin 1..m + 1 /\ k + 1 \notin 1..m
          BY <1>1, <3>1, <4>1
        <5> QED
          BY <1>1, <1>4, <5>1
      <4>2. CASE i # m + 1
        <5>1. i + 1 \in 2..m + 1 /\ i + 1 \in 1..m + 1 /\ (i + 1) - 1 = k + 1 /\ k + 1 \in 1..m
          BY <1>1, <3>1, <4>2
        <5> QED
          BY <1>1, <1>3, <1>4, <5>1
      <4> QED
        BY <4>1, <4>2
    <3>5. At(u, i - 1) = IF q[k] = x THEN w ELSE At(q, k - 1)
      <4>1. CASE k = 1
        <5>1. i - 1 = 1 /\ 1 \in 1..m + 1
          BY <1>1, <3>1, <4>1
        <5> QED
          BY <1>2, <1>3, <1>4, <4>1, <5>1
      <4>2. CASE k # 1
        <5>1. k \in 2..m + 1 /\ k \in 1..m + 1 /\ k - 1 \in 1..m /\ 1 \in 1..m /\ i - 1 = k
          BY <1>1, <3>1, <4>2
        <5>2. q[k] # x
          BY <1>1, <1>2, <3>1, <4>2, <5>1 DEF Distinct, m
        <5>3. At(u, k) = q[k - 1] /\ At(q, k - 1) = q[k - 1]
          BY <1>1, <1>3, <1>4, <5>1
        <5> QED
          BY <5>1, <5>2, <5>3
      <4> QED
        BY <4>1, <4>2
    <3> QED
      BY <3>3, <3>4, <3>5
  <2> QED
    BY <2>1, <2>2
<1>11. Distinct(u)
  <2>1. SUFFICES ASSUME NEW i \in 1..m + 1, NEW k \in 1..m + 1, u[i] = u[k] PROVE i = k
    BY <1>3 DEF Distinct
  <2>2. \A j \in 1..m + 1 : j # 1 => j \in 2..m + 1 /\ j - 1 \in 1..m /\ u[j] = q[j - 1] /\ u[j] # w
    BY <1>1, <1>3
  <2>3. CASE i = 1 \/ k = 1
    BY <1>3, <2>1, <2>2, <2>3
  <2>4. CASE i # 1 /\ k # 1
    <3>1. i - 1 \in 1..m /\ k - 1 \in 1..m /\ q[i - 1] = q[k - 1]
      BY <2>1, <2>2, <2>4
    <3>2. i - 1 = k - 1
      BY <1>1, <3>1 DEF Distinct, m
    <3> QED
      BY <1>1, <3>2
  <2> QED
    BY <2>3, <2>4
<1>12. new.way_head = u[1] /\ new.way_tail = u[m + 1] /\ m + 1 >= 1
  <2>1. m + 1 \in 2..m + 1 /\ (m + 1) - 1 = m
    BY <1>1
  <2> QED
    BY <1>1, <1>2, <1>3, <1>9, <2>1
<1> QED
  BY <1>3, <1>9, <1>10, <1>11, <1>12 DEF ListIn, Links, u, new

\* A way enters at the tail.
LEMMA TailEntered ==
  ASSUME NEW n \in Nat \ {0}, NEW h \in Nat, NEW set \in SetType(n, h), NEW q,
         ListIn(set, n, q), NEW w \in 1..n, \A i \in 1..Len(q) : q[i] # w
  PROVE  LET new == LinkedTail(set, w) IN
         new \in SetType(n, h) /\ SameBlocks(set, new) /\ ListIn(new, n, Append(q, w))
<1> DEFINE u == Append(q, w)
           new == LinkedTail(set, w)
           m == Len(q)
           x == set.way_tail
           f == [set.way_prev EXCEPT ![w] = x]
           f1 == [set.way_next EXCEPT ![w] = NULL]
           f2 == [f1 EXCEPT ![x] = w]
<1>1. /\ q \in Seq(1..n) /\ Distinct(q) /\ m \in Nat /\ m >= 1
      /\ \A i \in 1..m : q[i] \in 1..n /\ q[i] # w /\ At(q, i) = q[i]
      /\ \A i : i \notin 1..m => At(q, i) = NULL
  <2>1. q \in Seq(1..n) /\ Distinct(q) /\ m >= 1
    BY DEF ListIn, Links
  <2> QED
    BY <2>1, AtPlace
<1>2. /\ set.way_head = q[1] /\ x = q[m]
      /\ \A i \in 1..m : set.way_next[q[i]] = At(q, i + 1) /\ set.way_prev[q[i]] = At(q, i - 1)
  BY DEF ListIn, Links
<1>3. /\ u \in Seq(1..n) /\ Len(u) = m + 1 /\ u[m + 1] = w /\ \A i \in 1..m : u[i] = q[i]
  BY <1>1, AppendProperties
<1>4. /\ \A i \in 1..m + 1 : At(u, i) = u[i]
      /\ \A i : i \notin 1..m + 1 => At(u, i) = NULL
  BY <1>3 DEF At
<1>5. x \in 1..n /\ x \in 0..n /\ w \in 0..n /\ NULL \in 0..n /\ x # w /\ m \in 1..m
  BY <1>1, <1>2 DEF NULL
<1>6. set.way_next \in [1..n -> 0..n] /\ set.way_prev \in [1..n -> 0..n]
  BY DEF SetType
<1>7. /\ f \in [1..n -> 0..n] /\ f2 \in [1..n -> 0..n]
      /\ \A y \in 1..n : f[y] = IF y = w THEN x ELSE set.way_prev[y]
      /\ \A y \in 1..n : f2[y] = IF y = x THEN w ELSE IF y = w THEN NULL ELSE set.way_next[y]
  <2>1. /\ f1 \in [1..n -> 0..n]
        /\ \A y \in 1..n : f1[y] = IF y = w THEN NULL ELSE set.way_next[y]
    BY <1>5, <1>6, Pointed
  <2> HIDE DEF f1
  <2>2. /\ f2 \in [1..n -> 0..n]
        /\ \A y \in 1..n : f2[y] = IF y = x THEN w ELSE f1[y]
    BY <1>5, <2>1, Pointed
  <2>3. /\ f \in [1..n -> 0..n]
        /\ \A y \in 1..n : f[y] = IF y = w THEN x ELSE set.way_prev[y]
    BY <1>5, <1>6, Pointed
  <2> QED
    BY <2>1, <2>2, <2>3
<1>8. new = [set EXCEPT !.way_prev = f, !.way_next = f2, !.way_tail = w]
  BY DEF LinkedTail
<1> HIDE DEF u, new, m, f, f1, f2
<1>9. /\ new \in SetType(n, h) /\ SameBlocks(set, new)
      /\ new.way_head = set.way_head /\ new.way_tail = w /\ new.way_next = f2 /\ new.way_prev = f
  BY <1>7, <1>8 DEF SetType, SameBlocks
<1>10. ASSUME NEW i \in 1..m + 1
       PROVE  f2[u[i]] = At(u, i + 1) /\ f[u[i]] = At(u, i - 1)
  <2>1. CASE i = m + 1
    <3>1. u[i] = w /\ i + 1 \notin 1..m + 1 /\ i - 1 = m /\ m \in 1..m + 1
      BY <1>1, <1>3, <2>1
    <3>2. At(u, i + 1) = NULL /\ At(u, i - 1) = x
      BY <1>2, <1>3, <1>4, <1>5, <3>1
    <3> QED
      BY <1>5, <1>7, <3>1, <3>2
  <2>2. CASE i # m + 1
    <3>1. i \in 1..m /\ i + 1 \in 1..m + 1
      BY <1>1, <2>2
    <3>2. u[i] = q[i] /\ q[i] \in 1..n /\ q[i] # w
      BY <1>1, <1>3, <3>1
    <3>3. f[u[i]] = At(q, i - 1) /\ f2[u[i]] = IF q[i] = x THEN w ELSE At(q, i + 1)
      <4>1. set.way_next[q[i]] = At(q, i + 1) /\ set.way_prev[q[i]] = At(q, i - 1)
        BY <1>2, <3>1
      <4>2. /\ f[q[i]] = set.way_prev[q[i]]
            /\ f2[q[i]] = IF q[i] = x THEN w ELSE set.way_next[q[i]]
        BY <1>7, <3>2
      <4> QED
        BY <3>2, <4>1, <4>2
    <3>4. At(u, i - 1) = At(q, i - 1)
      <4>1. CASE i = 1
        <5>1. i - 1 \notin 1..m + 1 /\ i - 1 \notin 1..m
          BY <4>1
        <5> QED
          BY <1>1, <1>4, <5>1
      <4>2. CASE i # 1
        <5>1. i - 1 \in 1..m + 1 /\ i - 1 \in 1..m
          BY <1>1, <3>1, <4>2
        <5> QED
          BY <1>1, <1>3, <1>4, <5>1
      <4> QED
        BY <4>1, <4>2
    <3>5. At(u, i + 1) = IF q[i] = x THEN w ELSE At(q, i + 1)
      <4>1. CASE i = m
        BY <1>2, <1>3, <1>4, <3>1, <4>1
      <4>2. CASE i # m
        <5>1. i + 1 \in 1..m
          BY <1>1, <3>1, <4>2
        <5>2. q[i] # x
          BY <1>1, <1>2, <1>5, <3>1, <4>2 DEF Distinct, m
        <5> QED
          BY <1>1, <1>3, <1>4, <3>1, <5>1, <5>2
      <4> QED
        BY <4>1, <4>2
    <3> QED
      BY <3>3, <3>4, <3>5
  <2> QED
    BY <2>1, <2>2
<1>11. Distinct(u)
  <2>1. SUFFICES ASSUME NEW i \in 1..m + 1, NEW k \in 1..m + 1, u[i] = u[k] PROVE i = k
    BY <1>3 DEF Distinct
  <2>2. \A j \in 1..m + 1 : j # m + 1 => j \in 1..m /\ u[j] = q[j] /\ u[j] # w
    BY <1>1, <1>3
  <2>3. CASE i = m + 1 \/ k = m + 1
    BY <1>3, <2>1, <2>2, <2>3
  <2>4. CASE i # m + 1 /\ k # m + 1
    <3>1. i \in 1..m /\ k \in 1..m /\ q[i] = q[k]
      BY <2>1, <2>2, <2>4
    <3> QED
      BY <1>1, <3>1 DEF Distinct, m
  <2> QED
    BY <2>3, <2>4
<1>12. new.way_head = u[1] /\ new.way_tail = u[m + 1] /\ m + 1 >= 1
  <2>1. 1 \in 1..m
    BY <1>1
  <2> QED
    BY <1>1, <1>2, <1>3, <1>9, <2>1
<1> QED
  BY <1>3, <1>9, <1>10, <1>11, <1>12 DEF ListIn, Links, u, new

\* update_way_list keeps the list and puts the way at that end of it.
LEMMA ListUpdated ==
  ASSUME NEW n \in Nat \ {0}, NEW h \in Nat, NEW set \in SetType(n, h), NEW q,
         ListIn(set, n, q), Len(q) = n, NEW w \in 1..n, NEW where \in {"Head", "Tail"}
  PROVE  LET new == update_way_list(set, w, where) IN
         /\ new \in SetType(n, h) /\ SameBlocks(set, new)
         /\ \E r : ListIn(new, n, r) /\ Len(r) = n
<1>1. q \in Seq(1..n) /\ Distinct(q) /\ n >= 1
  BY DEF ListIn
<1>2. PICK j \in 1..n : q[j] = w
  BY <1>1, WaysOnce
<1>3. set.way_next[w] = At(q, j + 1) /\ set.way_prev[w] = At(q, j - 1)
  BY <1>2 DEF ListIn, Links
<1> DEFINE u == Cut(q, j)
           s == UnlinkedWay(set, w)
<1>4. ASSUME n >= 2
      PROVE  /\ s \in SetType(n, h) /\ SameBlocks(set, s) /\ ListIn(s, n, u)
             /\ Len(u) = n - 1 /\ \A i \in 1..Len(u) : u[i] # w
  <2>1. j \in 1..Len(q) /\ Len(q) >= 2 /\ s = UnlinkedWay(set, q[j])
    BY <1>2, <1>4
  <2> HIDE DEF u, s
  <2>2. s \in SetType(n, h) /\ SameBlocks(set, s) /\ ListIn(s, n, u)
    BY <2>1, WayUnlinked DEF u
  <2>3. Len(u) = n - 1 /\ \A i \in 1..Len(u) : u[i] # w
    <3>1. /\ u \in Seq(1..n) /\ Distinct(u) /\ Len(u) = Len(q) - 1 /\ Len(q) \in Nat
          /\ \A i \in 1..Len(u) : u[i] = (IF i < j THEN q[i] ELSE q[i + 1]) /\ u[i] # q[j]
      <4> USE DEF u
      <4>1. q \in Seq(1..n) /\ Distinct(q) /\ j \in 1..Len(q) /\ Len(q) >= 2
        BY <1>1, <2>1
      <4> QED
        BY ONLY n \in Nat \ {0}, <4>1, CutList
    <3> QED
      BY <1>2, <3>1
  <2> QED
    BY <2>2, <2>3
<1> HIDE DEF u, s
<1>5. CASE where = "Head" /\ set.way_prev[w] # NULL
  <2>1. j - 1 \in 1..n
    BY <1>3, <1>5 DEF At
  <2>2. n >= 2
    BY <1>2, <2>1
  <2>3. update_way_list(set, w, where) = LinkedHead(s, w)
    BY <1>5 DEF update_way_list, s
  <2> DEFINE new == LinkedHead(s, w)
  <2>4. new \in SetType(n, h) /\ SameBlocks(s, new) /\ ListIn(new, n, <<w>> \o u)
    BY <1>4, <2>2, HeadEntered
  <2>5. Len(<<w>> \o u) = n
    <3>1. u \in Seq(1..n) /\ Len(u) = n - 1
      BY <1>4, <2>2 DEF ListIn
    <3>2. Len(<<w>> \o u) = Len(u) + 1
      BY <3>1, PutInFront
    <3> QED
      BY <3>1, <3>2
  <2> HIDE DEF new
  <2> QED
    BY <1>4, <2>2, <2>3, <2>4, <2>5 DEF SameBlocks, new
<1>6. CASE where = "Tail" /\ set.way_next[w] # NULL
  <2>1. j + 1 \in 1..n
    BY <1>3, <1>6 DEF At
  <2>2. n >= 2
    BY <1>2, <2>1
  <2>3. update_way_list(set, w, where) = LinkedTail(s, w)
    BY <1>6 DEF update_way_list, s
  <2> DEFINE new == LinkedTail(s, w)
  <2>4. new \in SetType(n, h) /\ SameBlocks(s, new) /\ ListIn(new, n, Append(u, w))
    BY <1>4, <2>2, TailEntered
  <2>5. Len(Append(u, w)) = n
    <3>1. u \in Seq(1..n) /\ Len(u) = n - 1
      BY <1>4, <2>2 DEF ListIn
    <3>2. Len(Append(u, w)) = Len(u) + 1
      BY <3>1, AppendProperties
    <3> QED
      BY <3>1, <3>2
  <2> HIDE DEF new
  <2> QED
    BY <1>4, <2>2, <2>3, <2>4, <2>5 DEF SameBlocks, new
<1>7. CASE /\ ~(where = "Head" /\ set.way_prev[w] # NULL)
           /\ ~(where = "Tail" /\ set.way_next[w] # NULL)
  <2>1. update_way_list(set, w, where) = set
    BY <1>7 DEF update_way_list
  <2> QED
    BY <2>1 DEF SameBlocks
<1> QED
  BY <1>5, <1>6, <1>7

-----------------------------------------------------------------------------
(* The hash chains.                                                        *)

\* The chain i of ch holds ways of this hash, each once, along the links.
ChainIn(set, n, h, ch, i) ==
  LET q == ch[i] IN
  /\ Distinct(q) /\ set.hash[i] = At(q, 1)
  /\ \A k \in 1..Len(q) : /\ set.hash_next[q[k]] = At(q, k + 1)
                          /\ CACHE_HASH(set.tag[q[k]], h) = i

\* The chains hold all ways but those of out, which are in none.
Chained(set, n, h, ch, out) ==
  /\ ch \in [0..(h - 1) -> Seq(1..n)]
  /\ \A i \in 0..(h - 1) : ChainIn(set, n, h, ch, i)
  /\ \A i \in 0..(h - 1) : \A k \in 1..Len(ch[i]) : ch[i][k] \notin out
  /\ \A w \in (1..n) \ out : LET q == ch[CACHE_HASH(set.tag[w], h)]
                             IN \E k \in 1..Len(q) : q[k] = w

\* Hashes are numbers of chains.
LEMMA Hashed == \A key \in Nat, h \in Nat \ {0} : CACHE_HASH(key, h) \in 0..(h - 1)
BY DEF CACHE_HASH

\* A walk along a chain meets what is on it.
LEMMA BucketIs ==
  ASSUME NEW n \in Nat \ {0}, NEW h \in Nat, NEW set \in SetType(n, h), NEW ch, NEW out,
         Chained(set, n, h, ch, out), NEW i \in 0..(h - 1)
  PROVE  Bucket(set, i) = ch[i]
<1> DEFINE q == ch[i]
<1>1. q \in Seq(1..n) /\ Distinct(q) /\ set.hash[i] = At(q, 1)
      /\ \A k \in 1..Len(q) : set.hash_next[q[k]] = At(q, k + 1)
  BY DEF Chained, ChainIn
<1>2. Len(set.tag) = n
  <2>1. set.tag \in [1..n -> Nat]
    BY DEF SetType
  <2> QED
    BY <2>1
<1> HIDE DEF q
<1>3. Len(q) <= n
  BY <1>1, WaysOnce
<1>4. Walk(set.hash[i], set.hash_next, n) = q
  BY <1>1, <1>3, WalkIs
<1> QED
  BY <1>2, <1>4 DEF Bucket, q

\* A way is once on the chain of its hash and on no other.
LEMMA OnceOnChain ==
  ASSUME NEW n \in Nat \ {0}, NEW h \in Nat \ {0}, NEW set \in SetType(n, h), NEW ch,
         Chained(set, n, h, ch, {}), NEW w \in 1..n, NEW i \in 0..(h - 1)
  PROVE  LET q == Bucket(set, i)
         IN Cardinality({j \in DOMAIN q : q[j] = w})
              = IF i = CACHE_HASH(set.tag[w], h) THEN 1 ELSE 0
<1> DEFINE q == ch[i]
<1>1. Bucket(set, i) = q
  BY BucketIs
<1>2. /\ q \in Seq(1..n) /\ Distinct(q)
      /\ \A k \in 1..Len(q) : CACHE_HASH(set.tag[q[k]], h) = i
  BY DEF Chained, ChainIn
<1>3. DOMAIN q = 1..Len(q)
  BY <1>2, AtPlace
<1>4. i = CACHE_HASH(set.tag[w], h) => \E k \in 1..Len(q) : q[k] = w
  BY DEF Chained
<1> HIDE DEF q
<1>5. CASE i = CACHE_HASH(set.tag[w], h)
  <2>1. PICK k \in 1..Len(q) : q[k] = w
    BY <1>4, <1>5
  <2>2. {j \in DOMAIN q : q[j] = w} = {k}
    BY <1>2, <1>3, <2>1 DEF Distinct
  <2>3. Cardinality({k}) = 1
    BY FS_Singleton
  <2> QED
    BY <1>1, <1>5, <2>2, <2>3
<1>6. CASE i # CACHE_HASH(set.tag[w], h)
  <2>1. {j \in DOMAIN q : q[j] = w} = {}
    BY <1>2, <1>3, <1>6
  <2>2. Cardinality({}) = 0
    BY FS_EmptySet
  <2> QED
    BY <1>1, <1>6, <2>1, <2>2
<1> QED
  BY <1>5, <1>6

\* A block leaves its chain.
LEMMA EntUnlinked ==
  ASSUME NEW n \in Nat \ {0}, NEW h \in Nat \ {0}, NEW set \in SetType(n, h), NEW ch,
         Chained(set, n, h, ch, {}), NEW w \in 1..n
  PROVE  LET new == unlink_htab_ent(set, h, w) IN
         /\ new \in SetType(n, h)
         /\ new.way_head = set.way_head /\ new.way_tail = set.way_tail
         /\ new.way_next = set.way_next /\ new.way_prev = set.way_prev
         /\ new.tag = set.tag /\ new.valid = set.valid /\ new.dirty = set.dirty
         /\ new.ready = set.ready
         /\ \E ch2 : Chained(new, n, h, ch2, {w})
<1> DEFINE i == CACHE_HASH(set.tag[w], h)
           q == ch[i]
           m == Len(q)
           after == set.hash_next[w]
           prevs == {x \in Range(Bucket(set, i)) : set.hash_next[x] = w}
           new == unlink_htab_ent(set, h, w)
<1>1. /\ set.hash \in [0..(h - 1) -> 0..n] /\ set.hash_next \in [1..n -> 0..n]
      /\ set.tag \in [1..n -> Nat] /\ NULL \in 0..n /\ after \in 0..n
  <2>1. NULL \in 0..n
    BY DEF NULL
  <2>2. set.hash \in [0..(h - 1) -> 0..n] /\ set.hash_next \in [1..n -> 0..n]
      /\ set.tag \in [1..n -> Nat]
    BY DEF SetType
  <2> QED
    BY <2>1, <2>2
<1>2. i \in 0..(h - 1)
  BY <1>1, Hashed
<1>3. /\ q \in Seq(1..n) /\ Distinct(q) /\ set.hash[i] = At(q, 1)
      /\ \A k \in 1..m : set.hash_next[q[k]] = At(q, k + 1)
  BY <1>2 DEF Chained, ChainIn
<1>4. PICK j \in 1..m : q[j] = w
  BY DEF Chained
<1>5. /\ m \in Nat /\ \A k \in 1..m : q[k] \in 1..n /\ q[k] # NULL /\ At(q, k) = q[k]
      /\ \A k : k \notin 1..m => At(q, k) = NULL
  BY <1>3, AtPlace DEF NULL
<1>6. after = At(q, j + 1)
  BY <1>3, <1>4
<1>7. Bucket(set, i) = q
  BY <1>2, BucketIs
<1> DEFINE u == Cut(q, j)
<1>8. /\ u \in Seq(1..n) /\ Len(u) = m - 1
      /\ \A k \in 1..m - 1 : u[k] = IF k < j THEN q[k] ELSE q[k + 1]
  BY <1>3, PlaceCut DEF LessPlace
<1>9. /\ \A k \in 1..m - 1 : At(u, k) = u[k]
      /\ \A k : k \notin 1..m - 1 => At(u, k) = NULL
  BY <1>8 DEF At
<1> HIDE DEF u
<1>10. /\ \A k \in 1..m - 1 : \E x \in 1..m : u[k] = q[x] /\ x # j
       /\ Distinct(u)
  <2> DEFINE X(k) == IF k < j THEN k ELSE k + 1
  <2>1. \A k \in 1..m - 1 : X(k) \in 1..m /\ X(k) # j /\ u[k] = q[X(k)]
    BY <1>5, <1>8
  <2>2. SUFFICES ASSUME NEW k \in 1..m - 1, NEW l \in 1..m - 1, u[k] = u[l] PROVE k = l
    BY <1>8, <2>1 DEF Distinct
  <2>3. X(k) = X(l)
    <3>1. X(k) \in 1..m /\ X(l) \in 1..m /\ u[k] = q[X(k)] /\ u[l] = q[X(l)]
      BY <2>1
    <3> HIDE DEF X
    <3> QED
      BY <1>3, <2>2, <3>1 DEF Distinct
  <2> QED
    BY <1>5, <2>3
<1>11. /\ new \in SetType(n, h)
       /\ new.way_head = set.way_head /\ new.way_tail = set.way_tail
       /\ new.way_next = set.way_next /\ new.way_prev = set.way_prev
       /\ new.tag = set.tag /\ new.valid = set.valid /\ new.dirty = set.dirty
       /\ new.ready = set.ready
       /\ \A x \in 0..(h - 1) : new.hash[x] = IF x = i /\ j = 1 THEN after ELSE set.hash[x]
       /\ \A y \in 1..n : y # w =>
             new.hash_next[y] = IF j # 1 /\ y = q[j - 1] THEN after ELSE set.hash_next[y]
  <2>1. set.hash[i] = w <=> j = 1
    <3>1. 1 \in 1..m
      BY <1>5
    <3> QED
      BY <1>3, <1>4, <1>5, <3>1 DEF Distinct
  <2>2. CASE j = 1
    <3> DEFINE f == [set.hash EXCEPT ![i] = after]
               f2 == [set.hash_next EXCEPT ![w] = NULL]
    <3>1. /\ f \in [0..(h - 1) -> 0..n] /\ f2 \in [1..n -> 0..n]
          /\ \A x \in 0..(h - 1) : f[x] = IF x = i THEN after ELSE set.hash[x]
          /\ \A y \in 1..n : f2[y] = IF y = w THEN NULL ELSE set.hash_next[y]
      BY <1>1, Pointed
    <3>2. new = [set EXCEPT !.hash = f, !.hash_next = f2]
      BY <2>1, <2>2 DEF unlink_htab_ent
    <3> HIDE DEF f, f2, new, after, i
    <3>3. /\ new \in SetType(n, h) /\ new.hash = f /\ new.hash_next = f2
          /\ new.way_head = set.way_head /\ new.way_tail = set.way_tail
          /\ new.way_next = set.way_next /\ new.way_prev = set.way_prev
          /\ new.tag = set.tag /\ new.valid = set.valid /\ new.dirty = set.dirty
          /\ new.ready = set.ready
      BY <3>1, <3>2 DEF SetType
    <3> QED
      BY <2>2, <3>1, <3>3
  <2>3. CASE j # 1
    <3>1. j - 1 \in 1..m /\ (j - 1) + 1 = j
      BY <1>5, <2>3
    <3>2. \A x : x \in prevs <=> x = q[j - 1]
      <4>1. \A x : x \in Range(q) <=> \E k \in 1..m : x = q[k]
        BY <1>3, <1>5, LenProperties DEF Range
      <4>2. \A k \in 1..m : At(q, k + 1) = w <=> k = j - 1
        <5> TAKE k \in 1..m
        <5>1. CASE k + 1 \in 1..m
          <6>1. At(q, k + 1) = w <=> k + 1 = j
            <7>1. q[k + 1] = q[j] <=> k + 1 = j
              BY <1>3, <5>1 DEF Distinct
            <7>2. At(q, k + 1) = q[k + 1]
              BY <1>5, <5>1
            <7> QED
              BY <1>4, <7>1, <7>2
          <6> QED
            BY <1>5, <6>1
        <5>2. CASE k + 1 \notin 1..m
          <6>1. k # j - 1 /\ At(q, k + 1) = NULL /\ w # NULL
            BY <1>4, <1>5, <3>1, <5>2
          <6> QED
            BY <6>1
        <5> QED
          BY <5>1, <5>2
      <4>3. \A k \in 1..m : set.hash_next[q[k]] = w <=> k = j - 1
        BY <1>3, <4>2
      <4>4. \A x : x \in prevs <=> x \in Range(q) /\ set.hash_next[x] = w
        BY <1>7
      <4> HIDE DEF prevs
      <4>5. ASSUME NEW x \in prevs PROVE x = q[j - 1]
        <5>1. PICK k \in 1..m : x = q[k]
          BY <4>1, <4>4
        <5>2. k = j - 1
          BY <4>3, <4>4, <5>1
        <5> QED
          BY <5>1, <5>2
      <4>6. q[j - 1] \in Range(q) /\ set.hash_next[q[j - 1]] = w
        BY <3>1, <4>1, <4>3
      <4> QED
        BY <4>4, <4>5, <4>6
    <3> DEFINE f == [x \in 1..n |-> IF x = w THEN NULL
                                    ELSE IF x \in prevs THEN after ELSE set.hash_next[x]]
    <3>3. f \in [1..n -> 0..n]
      BY <1>1
    <3>4. new = [set EXCEPT !.hash_next = f]
      <4>1. DOMAIN set.hash_next = 1..n
        BY <1>1
      <4> QED
        BY <2>1, <2>3, <4>1 DEF unlink_htab_ent
    <3>5. \A y \in 1..n : y # w => f[y] = IF y = q[j - 1] THEN after ELSE set.hash_next[y]
      BY <3>2
    <3> HIDE DEF f, new, after, i, prevs
    <3>6. /\ new \in SetType(n, h) /\ new.hash = set.hash /\ new.hash_next = f
          /\ new.way_head = set.way_head /\ new.way_tail = set.way_tail
          /\ new.way_next = set.way_next /\ new.way_prev = set.way_prev
          /\ new.tag = set.tag /\ new.valid = set.valid /\ new.dirty = set.dirty
          /\ new.ready = set.ready
      BY <3>3, <3>4 DEF SetType
    <3> QED
      BY <2>3, <3>5, <3>6
  <2> QED
    BY <2>2, <2>3
<1> HIDE DEF new, after, prevs
<1> DEFINE ch2 == [ch EXCEPT ![i] = u]
<1>12. /\ ch2 \in [0..(h - 1) -> Seq(1..n)] /\ ch2[i] = u
       /\ \A x \in 0..(h - 1) : x # i => ch2[x] = ch[x]
  <2>1. ch \in [0..(h - 1) -> Seq(1..n)]
    BY DEF Chained
  <2> HIDE DEF i
  <2> QED
    BY <1>2, <1>8, <2>1
<1>13. ASSUME NEW k \in 1..m - 1 PROVE new.hash_next[u[k]] = At(u, k + 1)
  <2> DEFINE x == IF k < j THEN k ELSE k + 1
  <2>1. x \in 1..m /\ x # j /\ u[k] = q[x] /\ k + 1 \in 1..m /\ m \in Nat /\ j \in 1..m
    <3>1. m \in Nat /\ j \in 1..m /\ k \in 1..m - 1
      BY <1>5
    <3>2. u[k] = IF k < j THEN q[k] ELSE q[k + 1]
      BY <1>8
    <3> HIDE DEF m, q, i, ch2
    <3> QED
      BY <3>1, <3>2
  <2>2. q[x] # w /\ q[x] \in 1..n /\ (j # 1 => (q[x] = q[j - 1] <=> x = j - 1))
    <3>1. q[x] # w /\ q[x] \in 1..n
      BY <1>3, <1>4, <1>5, <2>1 DEF Distinct
    <3>2. j # 1 => j - 1 \in 1..m
      BY <2>1
    <3> QED
      BY <1>3, <2>1, <3>1, <3>2 DEF Distinct
  <2>3. new.hash_next[u[k]] = IF j # 1 /\ x = j - 1 THEN At(q, j + 1) ELSE At(q, x + 1)
    <3>1. set.hash_next[q[x]] = At(q, x + 1)
      BY <1>3, <2>1
    <3>2. new.hash_next[q[x]] = IF j # 1 /\ q[x] = q[j - 1] THEN after ELSE set.hash_next[q[x]]
      BY <1>11, <2>2
    <3> QED
      BY <1>6, <2>1, <2>2, <3>1, <3>2
  <2>4. CASE k = m - 1
    <3>1. k + 1 \notin 1..m - 1 /\ At(u, k + 1) = NULL
      BY <1>9, <2>1, <2>4
    <3>2. CASE k < j
      <4>1. x = j - 1 /\ j # 1 /\ j + 1 \notin 1..m
        BY <2>1, <2>4, <3>2
      <4> QED
        BY <1>5, <2>3, <3>1, <4>1
    <3>3. CASE ~(k < j)
      <4>1. x = m /\ x # j - 1 /\ x + 1 \notin 1..m
        BY <2>1, <2>4, <3>3
      <4> QED
        BY <1>5, <2>3, <3>1, <4>1
    <3> QED
      BY <3>2, <3>3
  <2>5. CASE k # m - 1
    <3>1. k + 1 \in 1..m - 1 /\ (k + 1) + 1 \in 1..m
      BY <2>1, <2>5
    <3>2. At(u, k + 1) = IF k + 1 < j THEN q[k + 1] ELSE q[(k + 1) + 1]
      BY <1>8, <1>9, <3>1
    <3>3. CASE k + 1 < j
      <4>1. x = k /\ x # j - 1 /\ x + 1 = k + 1
        BY <2>1, <3>3
      <4> QED
        BY <1>5, <2>1, <2>3, <3>2, <3>3, <4>1
    <3>4. CASE k + 1 = j
      <4>1. x = j - 1 /\ j # 1 /\ j + 1 = (k + 1) + 1 /\ ~(k + 1 < j)
        BY <2>1, <3>4
      <4> QED
        BY <1>5, <2>3, <3>1, <3>2, <4>1
    <3>5. CASE k + 1 > j
      <4>1. x = k + 1 /\ x # j - 1 /\ x + 1 = (k + 1) + 1 /\ ~(k + 1 < j)
        BY <2>1, <3>5
      <4> QED
        BY <1>5, <2>3, <3>1, <3>2, <4>1
    <3> QED
      BY <2>1, <3>3, <3>4, <3>5
  <2> QED
    BY <2>4, <2>5
<1>14. new.hash[i] = At(u, 1)
  <2>1. CASE j = 1
    <3>1. new.hash[i] = At(q, 2)
      BY <1>2, <1>6, <1>11, <2>1
    <3>2. At(q, 2) = At(u, 1)
      <4>1. CASE m = 1
        <5>1. 2 \notin 1..m /\ 1 \notin 1..m - 1
          BY <4>1
        <5> QED
          BY <1>5, <1>9, <5>1
      <4>2. CASE m # 1
        <5>1. 2 \in 1..m /\ 1 \in 1..m - 1 /\ ~(1 < j) /\ 1 + 1 = 2
          <6>1. m \in Nat /\ 1 \in 1..m
            BY <1>5, <2>1
          <6> HIDE DEF m
          <6> QED
            BY <2>1, <4>2, <6>1
        <5> QED
          BY <1>5, <1>8, <1>9, <5>1
      <4> QED
        BY <4>1, <4>2
    <3> QED
      BY <3>1, <3>2
  <2>2. CASE j # 1
    <3>1. 1 \in 1..m /\ 1 \in 1..m - 1 /\ 1 < j
      BY <1>5, <2>2
    <3>2. new.hash[i] = set.hash[i]
      <4> HIDE DEF i
      <4> QED
        BY <1>2, <1>11, <2>2
    <3>3. At(q, 1) = q[1] /\ At(u, 1) = u[1] /\ u[1] = q[1]
      BY <1>5, <1>8, <1>9, <3>1
    <3> QED
      BY <1>3, <3>2, <3>3
  <2> QED
    BY <2>1, <2>2
<1>15. \A k \in 1..m - 1 : u[k] # w /\ CACHE_HASH(set.tag[u[k]], h) = i
  <2> TAKE k \in 1..m - 1
  <2>1. PICK x \in 1..m : u[k] = q[x] /\ x # j
    BY <1>10
  <2>2. CACHE_HASH(set.tag[q[x]], h) = i
    BY <1>2 DEF Chained, ChainIn
  <2> QED
    BY <1>3, <1>4, <2>1, <2>2 DEF Distinct
<1>16. ASSUME NEW x \in 0..(h - 1), x # i, NEW k \in 1..Len(ch[x])
       PROVE  /\ ch[x][k] \in 1..n /\ ch[x][k] # w
              /\ new.hash_next[ch[x][k]] = set.hash_next[ch[x][k]]
  <2>1. ch[x] \in Seq(1..n) /\ CACHE_HASH(set.tag[ch[x][k]], h) = x
    BY DEF Chained, ChainIn
  <2>2. ch[x][k] \in 1..n
    BY <2>1, AtPlace
  <2>3. j # 1 => CACHE_HASH(set.tag[q[j - 1]], h) = i
    <3>1. j # 1 => j - 1 \in 1..m
      BY <1>5
    <3> QED
      BY <1>2, <3>1 DEF Chained, ChainIn
  <2>4. ch[x][k] # w
    BY <1>16, <2>1
  <2> HIDE DEF i
  <2> QED
    BY <1>11, <1>16, <2>1, <2>2, <2>3, <2>4
<1>17. Chained(new, n, h, ch2, {w})
  <2>1. ASSUME NEW x \in 0..(h - 1) PROVE ChainIn(new, n, h, ch2, x)
    <3>1. CASE x = i
      <4>1. /\ Distinct(u) /\ new.hash[x] = At(u, 1)
            /\ \A k \in 1..Len(u) : /\ new.hash_next[u[k]] = At(u, k + 1)
                                    /\ CACHE_HASH(new.tag[u[k]], h) = x
        <5> HIDE DEF i
        <5> QED
          BY <1>8, <1>10, <1>11, <1>13, <1>14, <1>15, <3>1
      <4> HIDE DEF ch2, i
      <4> QED
        BY <1>12, <3>1, <4>1 DEF ChainIn
    <3>2. CASE x # i
      <4>1. /\ Distinct(ch[x]) /\ set.hash[x] = At(ch[x], 1)
            /\ \A k \in 1..Len(ch[x]) : /\ set.hash_next[ch[x][k]] = At(ch[x], k + 1)
                                        /\ CACHE_HASH(set.tag[ch[x][k]], h) = x
        BY DEF Chained, ChainIn
      <4> HIDE DEF ch2, i
      <4>2. new.hash[x] = set.hash[x] /\ new.tag = set.tag
        BY <1>11, <3>2
      <4>3. ch2[x] = ch[x]
        BY <1>12, <3>2
      <4>4. \A k \in 1..Len(ch[x]) : new.hash_next[ch[x][k]] = set.hash_next[ch[x][k]]
        BY <1>16, <3>2
      <4> QED
        BY <4>1, <4>2, <4>3, <4>4 DEF ChainIn
    <3> QED
      BY <3>1, <3>2
  <2>2. ASSUME NEW x \in 0..(h - 1), NEW k \in 1..Len(ch2[x]) PROVE ch2[x][k] \notin {w}
    <3> HIDE DEF i, ch2
    <3>1. CASE x = i
      BY <1>8, <1>12, <1>15, <2>2, <3>1
    <3>2. CASE x # i
      <4>1. ch2[x] = ch[x]
        BY <1>12, <3>2
      <4>2. ch[x][k] # w
        BY <1>16, <3>2, <4>1
      <4> QED
        BY <4>1, <4>2
    <3> QED
      BY <3>1, <3>2
  <2>3. ASSUME NEW v \in (1..n) \ {w}
        PROVE  LET r == ch2[CACHE_HASH(new.tag[v], h)] IN \E k \in 1..Len(r) : r[k] = v
    <3> DEFINE x == CACHE_HASH(set.tag[v], h)
    <3>1. PICK k \in 1..Len(ch[x]) : ch[x][k] = v
      BY DEF Chained
    <3>2. x \in 0..(h - 1)
      BY <1>1, Hashed
    <3>3. \E l \in 1..Len(ch2[x]) : ch2[x][l] = v
      <4> HIDE DEF x, ch2, i
      <4>1. CASE x = i
        <5>1. k \in 1..m /\ q[k] = v /\ k # j
          BY <1>4, <3>1, <4>1
        <5>2. CASE k < j
          <6>1. k \in 1..m - 1
            BY <1>5, <5>1, <5>2
          <6>2. u[k] = v
            BY <1>8, <5>1, <5>2, <6>1
          <6> QED
            BY <1>8, <1>12, <4>1, <6>1, <6>2
        <5>3. CASE ~(k < j)
          <6>1. k - 1 \in 1..m - 1 /\ ~(k - 1 < j) /\ (k - 1) + 1 = k
            BY <1>5, <5>1, <5>3
          <6>2. u[k - 1] = v
            BY <1>8, <5>1, <6>1
          <6> QED
            BY <1>8, <1>12, <4>1, <6>1, <6>2
        <5> QED
          BY <5>2, <5>3
      <4>2. CASE x # i
        BY <1>12, <3>1, <3>2, <4>2
      <4> QED
        BY <4>1, <4>2
    <3> QED
      BY <1>11, <3>3
  <2> HIDE DEF ch2
  <2> QED
    BY <1>12, <2>1, <2>2, <2>3 DEF Chained
<1> HIDE DEF ch2
<1> QED
  BY <1>11, <1>17 DEF new

\* A block enters the chain of its tag, at the front.
LEMMA EntLinked ==
  ASSUME NEW n \in Nat \ {0}, NEW h \in Nat \ {0}, NEW set \in SetType(n, h), NEW ch,
         NEW w \in 1..n, Chained(set, n, h, ch, {w})
  PROVE  LET new == link_htab_ent(set, h, w) IN
         /\ new \in SetType(n, h)
         /\ new.way_head = set.way_head /\ new.way_tail = set.way_tail
         /\ new.way_next = set.way_next /\ new.way_prev = set.way_prev
         /\ new.tag = set.tag /\ new.valid = set.valid /\ new.dirty = set.dirty
         /\ new.ready = set.ready
         /\ \E ch2 : Chained(new, n, h, ch2, {})
<1> DEFINE i == CACHE_HASH(set.tag[w], h)
           q == ch[i]
           m == Len(q)
           u == <<w>> \o q
           first == set.hash[i]
           f == [set.hash EXCEPT ![i] = w]
           f2 == [set.hash_next EXCEPT ![w] = first]
           new == link_htab_ent(set, h, w)
           ch2 == [ch EXCEPT ![i] = u]
<1>1. /\ set.hash \in [0..(h - 1) -> 0..n] /\ set.hash_next \in [1..n -> 0..n]
      /\ set.tag \in [1..n -> Nat]
  BY DEF SetType
<1>2. i \in 0..(h - 1)
  BY <1>1, Hashed
<1>3. first \in 0..n /\ w \in 0..n
  BY <1>1, <1>2
<1>4. /\ q \in Seq(1..n) /\ Distinct(q) /\ first = At(q, 1)
      /\ \A k \in 1..m : /\ set.hash_next[q[k]] = At(q, k + 1) /\ q[k] # w
                         /\ CACHE_HASH(set.tag[q[k]], h) = i
  BY <1>2 DEF Chained, ChainIn
<1>5. /\ m \in Nat /\ \A k \in 1..m : q[k] \in 1..n /\ At(q, k) = q[k]
      /\ \A k : k \notin 1..m => At(q, k) = NULL
  BY <1>4, AtPlace
<1>6. u \in Seq(1..n) /\ Len(u) = m + 1 /\ u[1] = w /\ \A k \in 2..m + 1 : u[k] = q[k - 1]
  BY <1>4, PutInFront
<1>7. /\ \A k \in 1..m + 1 : At(u, k) = u[k]
      /\ \A k : k \notin 1..m + 1 => At(u, k) = NULL
  BY <1>5, <1>6 DEF At
<1>8. /\ f \in [0..(h - 1) -> 0..n] /\ f2 \in [1..n -> 0..n]
      /\ \A x \in 0..(h - 1) : f[x] = IF x = i THEN w ELSE set.hash[x]
      /\ \A y \in 1..n : f2[y] = IF y = w THEN first ELSE set.hash_next[y]
  BY <1>1, <1>3, Pointed
<1>9. new = [set EXCEPT !.hash_next = f2, !.hash = f]
  BY DEF link_htab_ent
<1>10. ch \in [0..(h - 1) -> Seq(1..n)]
  BY DEF Chained
<1> HIDE DEF u, f, f2, new, first
<1>11. /\ new \in SetType(n, h) /\ new.hash = f /\ new.hash_next = f2
       /\ new.way_head = set.way_head /\ new.way_tail = set.way_tail
       /\ new.way_next = set.way_next /\ new.way_prev = set.way_prev
       /\ new.tag = set.tag /\ new.valid = set.valid /\ new.dirty = set.dirty
       /\ new.ready = set.ready
  BY <1>8, <1>9 DEF SetType
<1>12. /\ ch2 \in [0..(h - 1) -> Seq(1..n)] /\ ch2[i] = u
       /\ \A x \in 0..(h - 1) : x # i => ch2[x] = ch[x]
  <2> HIDE DEF i
  <2> QED
    BY <1>2, <1>6, <1>10
<1>13. \A k \in 2..m + 1 : k - 1 \in 1..m /\ u[k] = q[k - 1] /\ u[k] # w /\ u[k] \in 1..n
  <2> TAKE k \in 2..m + 1
  <2>1. k - 1 \in 1..m
    BY <1>5
  <2>2. u[k] = q[k - 1]
    BY <1>6
  <2>3. q[k - 1] # w /\ q[k - 1] \in 1..n
    BY <1>4, <1>5, <2>1
  <2> HIDE DEF q, m
  <2> QED
    BY <2>1, <2>2, <2>3
<1>14. ASSUME NEW k \in 1..m + 1
       PROVE  f2[u[k]] = At(u, k + 1) /\ CACHE_HASH(set.tag[u[k]], h) = i
  <2>1. CASE k = 1
    <3>1. At(u, 2) = At(q, 1)
      <4>1. CASE m = 0
        <5>1. 2 \notin 1..m + 1 /\ 1 \notin 1..m
          BY <4>1
        <5> QED
          BY <1>5, <1>7, <5>1
      <4>2. CASE m # 0
        <5>1. 2 \in 1..m + 1 /\ 2 \in 2..m + 1 /\ 1 \in 1..m /\ 2 - 1 = 1
          BY <1>5, <4>2
        <5>2. At(u, 2) = u[2] /\ u[2] = q[2 - 1]
          BY <1>6, <1>7, <5>1
        <5>3. At(q, 1) = q[1]
          BY <1>5, <5>1
        <5> QED
          BY <5>1, <5>2, <5>3
      <4> QED
        BY <4>1, <4>2
    <3>2. u[k] = w /\ k + 1 = 2 /\ CACHE_HASH(set.tag[w], h) = i
      BY <1>6, <2>1
    <3>3. f2[w] = first /\ first = At(q, 1)
      BY <1>4, <1>8
    <3> HIDE DEF i
    <3> QED
      BY <3>1, <3>2, <3>3
  <2>2. CASE k # 1
    <3> DEFINE l == k - 1
    <3>1. k \in 2..m + 1 /\ l \in 1..m /\ l + 1 = k
      BY <1>5, <2>2
    <3>2. u[k] = q[l] /\ q[l] # w /\ q[l] \in 1..n
      BY <1>4, <1>5, <1>6, <3>1
    <3> HIDE DEF l
    <3>3. f2[u[k]] = At(q, k) /\ CACHE_HASH(set.tag[u[k]], h) = i
      <4>1. set.hash_next[q[l]] = At(q, l + 1) /\ CACHE_HASH(set.tag[q[l]], h) = i
        BY <1>4, <3>1
      <4> HIDE DEF i
      <4> QED
        BY <1>8, <3>1, <3>2, <4>1
    <3>4. At(u, k + 1) = At(q, k)
      <4>1. CASE k = m + 1
        <5>1. k \notin 1..m /\ k + 1 \notin 1..m + 1
          BY <1>5, <4>1
        <5> QED
          BY <1>5, <1>7, <5>1
      <4>2. CASE k # m + 1
        <5>1. k \in 1..m /\ k + 1 \in 1..m + 1 /\ k + 1 \in 2..m + 1 /\ (k + 1) - 1 = k
          BY <1>5, <4>2
        <5>2. At(u, k + 1) = u[k + 1] /\ u[k + 1] = q[(k + 1) - 1]
          BY <1>6, <1>7, <5>1
        <5>3. At(q, k) = q[k]
          BY <1>5, <5>1
        <5> QED
          BY <5>1, <5>2, <5>3
      <4> QED
        BY <4>1, <4>2
    <3> QED
      BY <3>3, <3>4
  <2> QED
    BY <2>1, <2>2
<1>15. Distinct(u)
  <2>1. SUFFICES ASSUME NEW k \in 1..m + 1, NEW l \in 1..m + 1, u[k] = u[l] PROVE k = l
    BY <1>6 DEF Distinct
  <2>2. CASE k = 1 \/ l = 1
    <3>1. \A x \in 1..m + 1 : x # 1 => u[x] # w
      <4>1. \A x \in 1..m + 1 : x # 1 => x \in 2..m + 1
        OBVIOUS
      <4> QED
        BY <1>13, <4>1
    <3> QED
      BY <1>6, <2>1, <2>2, <3>1
  <2>3. CASE k # 1 /\ l # 1
    <3>1. k \in 2..m + 1 /\ l \in 2..m + 1
      BY <2>3
    <3>2. k - 1 \in 1..m /\ l - 1 \in 1..m /\ q[k - 1] = q[l - 1]
      BY <1>13, <2>1, <3>1
    <3>3. k - 1 = l - 1
      BY <1>4, <3>2 DEF Distinct
    <3> QED
      BY <1>5, <3>3
  <2> QED
    BY <2>2, <2>3
<1>16. Chained(new, n, h, ch2, {})
  <2>1. ASSUME NEW x \in 0..(h - 1) PROVE ChainIn(new, n, h, ch2, x)
    <3>1. CASE x = i
      <4>1. At(u, 1) = w
        <5>1. 1 \in 1..m + 1
          BY <1>5
        <5> QED
          BY <1>6, <1>7, <5>1
      <4>2. /\ Distinct(u) /\ new.hash[x] = At(u, 1)
            /\ \A k \in 1..Len(u) : /\ new.hash_next[u[k]] = At(u, k + 1)
                                    /\ CACHE_HASH(new.tag[u[k]], h) = x
        <5> HIDE DEF i
        <5> QED
          BY <1>2, <1>6, <1>8, <1>11, <1>14, <1>15, <3>1, <4>1
      <4> HIDE DEF ch2, i
      <4> QED
        BY <1>12, <3>1, <4>2 DEF ChainIn
    <3>2. CASE x # i
      <4>1. /\ Distinct(ch[x]) /\ set.hash[x] = At(ch[x], 1)
            /\ \A k \in 1..Len(ch[x]) : /\ set.hash_next[ch[x][k]] = At(ch[x], k + 1)
                                        /\ CACHE_HASH(set.tag[ch[x][k]], h) = x
        BY DEF Chained, ChainIn
      <4>2. \A k \in 1..Len(ch[x]) : ch[x][k] \in 1..n /\ ch[x][k] # w
        <5>1. ch[x] \in Seq(1..n) /\ \A k \in 1..Len(ch[x]) : ch[x][k] # w
          BY DEF Chained
        <5> QED
          BY <5>1, AtPlace
      <4> HIDE DEF ch2, i
      <4>3. new.hash[x] = set.hash[x] /\ new.tag = set.tag /\ ch2[x] = ch[x]
        BY <1>8, <1>11, <1>12, <3>2
      <4>4. \A k \in 1..Len(ch[x]) : new.hash_next[ch[x][k]] = set.hash_next[ch[x][k]]
        BY <1>8, <1>11, <4>2
      <4> QED
        BY <4>1, <4>3, <4>4 DEF ChainIn
    <3> QED
      BY <3>1, <3>2
  <2>2. ASSUME NEW v \in 1..n
        PROVE  LET r == ch2[CACHE_HASH(new.tag[v], h)] IN \E k \in 1..Len(r) : r[k] = v
    <3> DEFINE x == CACHE_HASH(set.tag[v], h)
    <3>1. x \in 0..(h - 1)
      BY <1>1, Hashed
    <3>2. \E k \in 1..Len(ch2[x]) : ch2[x][k] = v
      <4>1. CASE v = w
        <5>1. x = i /\ 1 \in 1..m + 1
          BY <1>5, <4>1
        <5> HIDE DEF x, i, ch2
        <5> QED
          BY <1>6, <1>12, <4>1, <5>1
      <4>2. CASE v # w
        <5>1. PICK k \in 1..Len(ch[x]) : ch[x][k] = v
          BY <4>2 DEF Chained
        <5> HIDE DEF x, ch2, i
        <5>2. CASE x = i
          <6>1. k \in 1..m /\ q[k] = v
            BY <5>1, <5>2
          <6>2. k + 1 \in 2..m + 1 /\ (k + 1) - 1 = k /\ k + 1 \in 1..m + 1
            BY <1>5, <6>1
          <6>3. u[k + 1] = v
            BY <1>6, <6>1, <6>2
          <6> QED
            BY <1>6, <1>12, <5>2, <6>2, <6>3
        <5>3. CASE x # i
          BY <1>12, <3>1, <5>1, <5>3
        <5> QED
          BY <5>2, <5>3
      <4> QED
        BY <4>1, <4>2
    <3> HIDE DEF ch2
    <3> QED
      BY <1>11, <3>2
  <2> HIDE DEF ch2, i
  <2> QED
    BY <1>12, <2>1, <2>2 DEF Chained
<1> QED
  BY <1>11, <1>16 DEF new

\* The chains do not depend on the tags of the blocks that are in none.
LEMMA ChainsKept ==
  ASSUME NEW n \in Nat \ {0}, NEW h \in Nat \ {0}, NEW set, NEW new, NEW ch, NEW out,
         Chained(set, n, h, ch, out), new.hash = set.hash, new.hash_next = set.hash_next,
         \A v \in (1..n) \ out : new.tag[v] = set.tag[v]
  PROVE  Chained(new, n, h, ch, out)
<1>1. ASSUME NEW i \in 0..(h - 1)
      PROVE  \A k \in 1..Len(ch[i]) : new.tag[ch[i][k]] = set.tag[ch[i][k]]
  <2>1. ch[i] \in Seq(1..n) /\ \A k \in 1..Len(ch[i]) : ch[i][k] \notin out
    BY DEF Chained
  <2> QED
    BY <2>1, AtPlace
<1>2. ASSUME NEW i \in 0..(h - 1) PROVE ChainIn(new, n, h, ch, i)
  <2>1. ChainIn(set, n, h, ch, i)
    BY DEF Chained
  <2> QED
    BY <1>1, <2>1 DEF ChainIn
<1> QED
  BY <1>2 DEF Chained

-----------------------------------------------------------------------------
(* Sets.                                                                   *)

\* A geometry as cache_create takes it.
GeometryOK(g) ==
  /\ {g.nsets, g.assoc, g.bsize, g.hit_latency} \subseteq Nat \ {0} /\ g.hsize \in Nat
  /\ g.policy \in {"LRU", "FIFO", "Random"}

\* The set is well linked, but for the blocks of out, which are in no hash chain.
Linked(set, g, out) ==
  /\ set \in SetType(g.assoc, g.hsize)
  /\ \E q : ListIn(set, g.assoc, q) /\ Len(q) = g.assoc
  /\ g.hsize > 0 => \E ch : Chained(set, g.assoc, g.hsize, ch, out)

\* The pointers of two sets are the same.
SamePointers(set, new) ==
  /\ new.way_head = set.way_head /\ new.way_tail = set.way_tail
  /\ new.way_next = set.way_next /\ new.way_prev = set.way_prev
  /\ new.hash = set.hash /\ new.hash_next = set.hash_next

\* Whether a set is well linked depends on its pointers and on the tags of the
\* blocks on the chains.
LEMMA LinkedKept ==
  ASSUME NEW g, GeometryOK(g), NEW set, NEW new \in SetType(g.assoc, g.hsize), NEW out,
         Linked(set, g, out), SamePointers(set, new),
         \A v \in (1..g.assoc) \ out : new.tag[v] = set.tag[v]
  PROVE  Linked(new, g, out)
<1>1. \E q : ListIn(new, g.assoc, q) /\ Len(q) = g.assoc
  BY DEF Linked, ListIn, SamePointers
<1>2. ASSUME g.hsize > 0 PROVE \E ch : Chained(new, g.assoc, g.hsize, ch, out)
  <2>1. PICK ch : Chained(set, g.assoc, g.hsize, ch, out)
    BY <1>2 DEF Linked
  <2>2. g.assoc \in Nat \ {0} /\ g.hsize \in Nat \ {0}
    BY <1>2 DEF GeometryOK
  <2>3. Chained(new, g.assoc, g.hsize, ch, out)
    BY <2>1, <2>2, ChainsKept DEF SamePointers
  <2> QED
    BY <2>3
<1> QED
  BY <1>1, <1>2 DEF Linked

\* update_way_list keeps a set well linked.
LEMMA UpdatedLinked ==
  ASSUME NEW g, GeometryOK(g), NEW set, Linked(set, g, {}), NEW w \in 1..g.assoc,
         NEW where \in {"Head", "Tail"}
  PROVE  LET new == update_way_list(set, w, where) IN
         Linked(new, g, {}) /\ SameBlocks(set, new)
<1> DEFINE new == update_way_list(set, w, where)
<1>1. PICK q : ListIn(set, g.assoc, q) /\ Len(q) = g.assoc
  BY DEF Linked
<1>2. g.assoc \in Nat \ {0} /\ g.hsize \in Nat /\ set \in SetType(g.assoc, g.hsize)
  BY DEF GeometryOK, Linked
<1>3. /\ new \in SetType(g.assoc, g.hsize) /\ SameBlocks(set, new)
      /\ \E r : ListIn(new, g.assoc, r) /\ Len(r) = g.assoc
  BY <1>1, <1>2, ListUpdated
<1> HIDE DEF new
<1>4. ASSUME g.hsize > 0 PROVE \E ch : Chained(new, g.assoc, g.hsize, ch, {})
  <2>1. PICK ch : Chained(set, g.assoc, g.hsize, ch, {})
    BY <1>4 DEF Linked
  <2>2. g.hsize \in Nat \ {0}
    BY <1>2, <1>4
  <2>3. Chained(new, g.assoc, g.hsize, ch, {})
    BY <1>2, <1>3, <2>1, <2>2, ChainsKept DEF SameBlocks
  <2> QED
    BY <2>3
<1> QED
  BY <1>3, <1>4 DEF Linked, new

\* unlink_htab_ent takes the block out of its chain, and no more.
LEMMA UnlinkedLinked ==
  ASSUME NEW g, GeometryOK(g), NEW set, Linked(set, g, {}), NEW w \in 1..g.assoc
  PROVE  LET new == unlink_htab_ent(set, g.hsize, w) IN
         /\ Linked(new, g, {w})
         /\ new.tag = set.tag /\ new.valid = set.valid /\ new.dirty = set.dirty
         /\ new.ready = set.ready
<1> DEFINE new == unlink_htab_ent(set, g.hsize, w)
<1>1. g.assoc \in Nat \ {0} /\ g.hsize \in Nat /\ set \in SetType(g.assoc, g.hsize)
  BY DEF GeometryOK, Linked
<1>2. CASE g.hsize = 0
  <2>1. new = set
    BY <1>2 DEF unlink_htab_ent
  <2> QED
    BY <1>2, <2>1 DEF Linked
<1>3. CASE g.hsize # 0
  <2>1. g.hsize \in Nat \ {0} /\ g.hsize > 0
    BY <1>1, <1>3
  <2>2. PICK ch : Chained(set, g.assoc, g.hsize, ch, {})
    BY <2>1 DEF Linked
  <2>3. /\ new \in SetType(g.assoc, g.hsize)
        /\ new.way_head = set.way_head /\ new.way_tail = set.way_tail
        /\ new.way_next = set.way_next /\ new.way_prev = set.way_prev
        /\ new.tag = set.tag /\ new.valid = set.valid /\ new.dirty = set.dirty
        /\ new.ready = set.ready
        /\ \E ch2 : Chained(new, g.assoc, g.hsize, ch2, {w})
    BY <1>1, <2>1, <2>2, EntUnlinked
  <2> HIDE DEF new
  <2>4. \E q : ListIn(new, g.assoc, q) /\ Len(q) = g.assoc
    BY <2>3 DEF Linked, ListIn
  <2> QED
    BY <2>3, <2>4 DEF Linked, new
<1> QED
  BY <1>2, <1>3

\* link_htab_ent puts the block back into a chain.
LEMMA LinkedLinked ==
  ASSUME NEW g, GeometryOK(g), NEW set, NEW w \in 1..g.assoc, Linked(set, g, {w})
  PROVE  LET new == link_htab_ent(set, g.hsize, w) IN
         /\ Linked(new, g, {})
         /\ new.tag = set.tag /\ new.valid = set.valid /\ new.dirty = set.dirty
         /\ new.ready = set.ready
<1> DEFINE new == link_htab_ent(set, g.hsize, w)
<1>1. g.assoc \in Nat \ {0} /\ g.hsize \in Nat /\ set \in SetType(g.assoc, g.hsize)
  BY DEF GeometryOK, Linked
<1>2. CASE g.hsize = 0
  <2>1. new = set
    BY <1>2 DEF link_htab_ent
  <2> QED
    BY <1>2, <2>1 DEF Linked
<1>3. CASE g.hsize # 0
  <2>1. g.hsize \in Nat \ {0} /\ g.hsize > 0
    BY <1>1, <1>3
  <2>2. PICK ch : Chained(set, g.assoc, g.hsize, ch, {w})
    BY <2>1 DEF Linked
  <2>3. /\ new \in SetType(g.assoc, g.hsize)
        /\ new.way_head = set.way_head /\ new.way_tail = set.way_tail
        /\ new.way_next = set.way_next /\ new.way_prev = set.way_prev
        /\ new.tag = set.tag /\ new.valid = set.valid /\ new.dirty = set.dirty
        /\ new.ready = set.ready
        /\ \E ch2 : Chained(new, g.assoc, g.hsize, ch2, {})
    BY <1>1, <2>1, <2>2, EntLinked
  <2> HIDE DEF new
  <2>4. \E q : ListIn(new, g.assoc, q) /\ Len(q) = g.assoc
    BY <2>3 DEF Linked, ListIn
  <2> QED
    BY <2>3, <2>4 DEF Linked, new
<1> QED
  BY <1>2, <1>3

\* The way list of a well linked set meets every way.
LEMMA WayListIs ==
  ASSUME NEW g, GeometryOK(g), NEW set, NEW out, Linked(set, g, out)
  PROVE  ListIn(set, g.assoc, WayList(set)) /\ Len(WayList(set)) = g.assoc
<1>1. g.assoc \in Nat \ {0} /\ set \in SetType(g.assoc, g.hsize)
  BY DEF GeometryOK, Linked
<1>2. PICK q : ListIn(set, g.assoc, q) /\ Len(q) = g.assoc
  BY DEF Linked
<1>3. Len(set.tag) = g.assoc
  <2>1. set.tag \in [1..g.assoc -> Nat]
    BY <1>1 DEF SetType
  <2> QED
    BY <1>1, <2>1
<1>4. WayList(set) = q
  <2>1. /\ q \in Seq(1..g.assoc) /\ set.way_head = q[1] /\ Len(q) >= 1
        /\ \A i \in 1..Len(q) : set.way_next[q[i]] = At(q, i + 1)
    BY <1>2 DEF ListIn, Links
  <2>2. set.way_head = At(q, 1)
    BY <1>1, <1>2, <2>1 DEF At
  <2>3. Walk(set.way_head, set.way_next, g.assoc) = q
    <3>1. Len(q) <= g.assoc
      BY <1>1, <1>2
    <3> DEFINE n == g.assoc
               first == set.way_head
               next == set.way_next
    <3>2. n \in Nat \ {0} /\ q \in Seq(1..n) /\ Len(q) <= n /\ first = At(q, 1)
          /\ \A i \in 1..Len(q) : next[q[i]] = At(q, i + 1)
      BY <1>1, <2>1, <2>2, <3>1
    <3> HIDE DEF n, first, next
    <3>3. Walk(first, next, n) = q
      BY <3>2, WalkIs
    <3> QED
      BY <3>3 DEF n, first, next
  <2> QED
    BY <1>3, <2>3 DEF WayList
<1> QED
  BY <1>2, <1>4

\* A lookup finds ways.
LEMMA LookupWays ==
  ASSUME NEW g, GeometryOK(g), NEW set, Linked(set, g, {}), NEW tag \in Nat
  PROVE  Lookup(set, g.hsize, tag) \subseteq 1..g.assoc
<1> DEFINE met == IF g.hsize = 0 THEN WayList(set) ELSE Bucket(set, CACHE_HASH(tag, g.hsize))
<1>1. met \in Seq(1..g.assoc)
  <2>1. CASE g.hsize = 0
    BY <2>1, WayListIs DEF ListIn
  <2>2. CASE g.hsize # 0
    <3>1. g.assoc \in Nat \ {0} /\ g.hsize \in Nat \ {0} /\ set \in SetType(g.assoc, g.hsize)
      BY <2>2 DEF GeometryOK, Linked
    <3>2. PICK ch : Chained(set, g.assoc, g.hsize, ch, {})
      BY <3>1 DEF Linked
    <3>3. CACHE_HASH(tag, g.hsize) \in 0..(g.hsize - 1)
      BY <3>1, Hashed
    <3>4. Bucket(set, CACHE_HASH(tag, g.hsize)) = ch[CACHE_HASH(tag, g.hsize)]
      BY <3>1, <3>2, <3>3, BucketIs
    <3>5. ch[CACHE_HASH(tag, g.hsize)] \in Seq(1..g.assoc)
      BY <3>2, <3>3 DEF Chained
    <3> QED
      BY <2>2, <3>4, <3>5
  <2> QED
    BY <2>1, <2>2
<1> HIDE DEF met
<1>2. Range(met) \subseteq 1..g.assoc
  <2>1. DOMAIN met = 1..Len(met) /\ \A i \in 1..Len(met) : met[i] \in 1..g.assoc
    BY <1>1, AtPlace
  <2> QED
    BY <2>1 DEF Range
<1> QED
  BY <1>2 DEF Lookup, met

\* A new set is well linked.
LEMMA NewLinked ==
  ASSUME NEW g, GeometryOK(g)
  PROVE  Linked(NewSet(g.assoc, g.hsize), g, {})
<1> DEFINE n == g.assoc
           h == g.hsize
           new == NewSet(n, h)
           q == [i \in 1..n |-> n + 1 - i]
           ch == [i \in 0..(h - 1) |-> IF i = 0 THEN q ELSE <<>>]
<1>1. n \in Nat \ {0} /\ h \in Nat
  BY DEF GeometryOK
<1> HIDE DEF n, h
<1>2. new \in SetType(n, h)
  <2>1. /\ n \in 1..n /\ 1 \in 1..n /\ NULL \in 0..n /\ n \in 0..n
        /\ \A w \in 1..n : w - 1 \in 0..n /\ (w # n => w + 1 \in 0..n)
    BY <1>1 DEF NULL
  <2>2. /\ [w \in 1..n |-> w - 1] \in [1..n -> 0..n]
        /\ [w \in 1..n |-> IF w = n THEN NULL ELSE w + 1] \in [1..n -> 0..n]
        /\ [i \in 0..(h - 1) |-> IF i = 0 THEN n ELSE NULL] \in [0..(h - 1) -> 0..n]
        /\ [w \in 1..n |-> IF h = 0 THEN NULL ELSE w - 1] \in [1..n -> 0..n]
    BY <2>1
  <2>3. /\ [w \in 1..n |-> 0] \in [1..n -> Nat]
        /\ [w \in 1..n |-> FALSE] \in [1..n -> BOOLEAN]
    OBVIOUS
  <2> QED
    BY <2>1, <2>2, <2>3 DEF NewSet, SetType
<1>3. /\ q \in Seq(1..n) /\ Len(q) = n /\ \A i \in 1..n : q[i] = n + 1 - i
  <2>1. q \in [1..n -> 1..n]
    BY <1>1
  <2> HIDE DEF q
  <2>2. q \in Seq(1..n) /\ Len(q) = n
    BY <1>1, <2>1
  <2> QED
    BY <2>2 DEF q
<1> HIDE DEF q
<1>4. \A i \in 1..n : /\ n + 1 - i \in 1..n /\ (i = 1 <=> n + 1 - i = n)
                      /\ (i # n => i + 1 \in 1..n) /\ (i # 1 => i - 1 \in 1..n)
  BY <1>1
<1>5. /\ \A i \in 1..n : At(q, i) = n + 1 - i
      /\ \A i : i \notin 1..n => At(q, i) = NULL
  BY <1>3 DEF At
<1>6. Distinct(q)
  BY <1>1, <1>3 DEF Distinct
<1>7. \A i \in 1..n : At(q, i + 1) = q[i] - 1
  <2> TAKE i \in 1..n
  <2>1. CASE i = n
    BY <1>1, <1>3, <1>5, <2>1 DEF NULL
  <2>2. CASE i # n
    BY <1>1, <1>3, <1>4, <1>5, <2>2
  <2> QED
    BY <2>1, <2>2
<1>8. \A i \in 1..n : At(q, i - 1) = IF q[i] = n THEN NULL ELSE q[i] + 1
  <2> TAKE i \in 1..n
  <2>1. CASE i = 1
    BY <1>1, <1>3, <1>5, <2>1
  <2>2. CASE i # 1
    <3>1. i - 1 \in 1..n /\ q[i] = n + 1 - i /\ At(q, i - 1) = n + 1 - (i - 1)
      BY <1>3, <1>4, <1>5, <2>2
    <3> QED
      BY <1>1, <2>2, <3>1
  <2> QED
    BY <2>1, <2>2
<1>9. ListIn(new, n, q)
  <2>1. /\ new.way_head = n /\ new.way_tail = 1
        /\ \A w \in 1..n : /\ new.way_next[w] = w - 1
                           /\ new.way_prev[w] = IF w = n THEN NULL ELSE w + 1
    BY DEF NewSet
  <2>2. \A i \in 1..n : q[i] \in 1..n
    BY <1>3, <1>4
  <2>3. q[1] = n /\ q[n] = 1
    BY <1>1, <1>3
  <2> HIDE DEF new
  <2>4. \A i \in 1..n : /\ new.way_next[q[i]] = At(q, i + 1)
                        /\ new.way_prev[q[i]] = At(q, i - 1)
    BY <1>7, <1>8, <2>1, <2>2
  <2>5. Links(new.way_head, new.way_tail, new.way_next, new.way_prev, q)
    BY <1>1, <1>3, <2>1, <2>3, <2>4 DEF Links
  <2> QED
    BY <1>3, <1>6, <2>5 DEF ListIn
<1>10. ASSUME h > 0 PROVE Chained(new, n, h, ch, {})
  <2>1. /\ \A i \in 0..(h - 1) : new.hash[i] = IF i = 0 THEN n ELSE NULL
        /\ \A w \in 1..n : new.hash_next[w] = w - 1 /\ new.tag[w] = 0
    BY <1>1, <1>10 DEF NewSet
  <2> HIDE DEF new
  <2>2. CACHE_HASH(0, h) = 0 /\ 0 \in 0..(h - 1)
    BY <1>1, <1>10 DEF CACHE_HASH
  <2>3. /\ ch \in [0..(h - 1) -> Seq(1..n)] /\ ch[0] = q
        /\ \A i \in 0..(h - 1) : i # 0 => ch[i] = <<>>
    <3>1. <<>> \in Seq(1..n)
      OBVIOUS
    <3> QED
      BY <1>3, <2>2, <3>1
  <2> HIDE DEF ch
  <2>4. \A i \in 1..n : q[i] \in 1..n
    BY <1>3, <1>4
  <2>5. ASSUME NEW i \in 0..(h - 1) PROVE ChainIn(new, n, h, ch, i)
    <3>1. CASE i = 0
      <4>1. new.hash[i] = At(q, 1)
        BY <1>1, <1>5, <2>1, <3>1
      <4>2. ASSUME NEW k \in 1..n
            PROVE  new.hash_next[q[k]] = At(q, k + 1) /\ CACHE_HASH(new.tag[q[k]], h) = i
        <5>1. q[k] \in 1..n /\ At(q, k + 1) = q[k] - 1
          BY <1>7, <2>4
        <5>2. new.hash_next[q[k]] = q[k] - 1 /\ new.tag[q[k]] = 0
          BY <2>1, <5>1
        <5> QED
          BY <2>2, <3>1, <5>1, <5>2
      <4>3. ch[i] = q /\ Len(q) = n
        BY <1>3, <2>3, <3>1
      <4> QED
        BY <1>6, <4>1, <4>2, <4>3 DEF ChainIn
    <3>2. CASE i # 0
      <4>1. ch[i] = <<>> /\ Len(<<>>) = 0 /\ 1..0 = {} /\ new.hash[i] = NULL
        BY <2>1, <2>3, <3>2
      <4>2. At(<<>>, 1) = NULL /\ Distinct(<<>>)
        BY <4>1 DEF At, Distinct
      <4> QED
        BY <4>1, <4>2 DEF ChainIn
    <3> QED
      BY <3>1, <3>2
  <2>6. ASSUME NEW w \in 1..n
        PROVE  LET r == ch[CACHE_HASH(new.tag[w], h)] IN \E k \in 1..Len(r) : r[k] = w
    <3>1. n + 1 - w \in 1..n /\ q[n + 1 - w] = w
      BY <1>1, <1>3
    <3>2. ch[CACHE_HASH(new.tag[w], h)] = q /\ Len(q) = n
      BY <1>3, <2>1, <2>2, <2>3
    <3> QED
      BY <3>1, <3>2
  <2> QED
    BY <2>3, <2>5, <2>6 DEF Chained
<1> HIDE DEF new
<1> QED
  BY <1>2, <1>3, <1>9, <1>10 DEF Linked, n, h, new

-----------------------------------------------------------------------------
(* Addresses.                                                              *)

\* A number is so many times a divisor, and a remainder.
LEMMA Divided ==
  ASSUME NEW x \in Nat, NEW b \in Nat \ {0}
  PROVE  /\ x \div b \in Nat /\ x % b \in 0..(b - 1)
         /\ x = b * (x \div b) + (x % b)
OBVIOUS

\* There is one such pair.
LEMMA DividedOnce ==
  ASSUME NEW b \in Nat \ {0}, NEW z \in Nat, NEW r \in 0..(b - 1), NEW y \in Nat,
         NEW v \in 0..(b - 1), b * z + r = b * y + v
  PROVE  z = y
<1>1. ASSUME z > y PROVE FALSE
  <2>1. z >= y + 1
    BY <1>1
  <2>2. b * z >= b * (y + 1) /\ b * (y + 1) = b * y + b
    BY <2>1
  <2> QED
    BY <2>2
<1>2. ASSUME y > z PROVE FALSE
  <2>1. y >= z + 1
    BY <1>2
  <2>2. b * y >= b * (z + 1) /\ b * (z + 1) = b * z + b
    BY <2>1
  <2> QED
    BY <2>2
<1> QED
  BY <1>1, <1>2

\* The numbers of sets and the addresses of blocks; the block of an address starts
\* where the macro says that a block with its tag in its set starts.
LEMMA Addresses ==
  ASSUME NEW g, GeometryOK(g), NEW a \in Nat
  PROVE  /\ CACHE_SET(g, a) \in 0..(g.nsets - 1) /\ CACHE_TAG(g, a) \in Nat
         /\ CACHE_BADDR(g, a) \in Nat
         /\ CACHE_MK_BADDR(g, CACHE_TAG(g, a), CACHE_SET(g, a)) = CACHE_BADDR(g, a)
         /\ a >= g.bsize => CACHE_BADDR(g, a) # NoBlock
<1> DEFINE b == g.bsize
           n == g.nsets
           x == a \div b
           z == x \div n
           s == x % n
           o == a % b
           y == a \div (b * n)
           v == a % (b * n)
<1>1. b \in Nat \ {0} /\ n \in Nat \ {0}
  BY DEF GeometryOK
<1> HIDE DEF b, n
<1>2. x \in Nat /\ o \in 0..(b - 1) /\ a = b * x + o
  BY <1>1, Divided
<1>3. z \in Nat /\ s \in 0..(n - 1) /\ x = n * z + s
  BY <1>1, <1>2, Divided
<1>4. b * n \in Nat \ {0}
  <2>1. b * n >= 1 * n
    BY <1>1
  <2> QED
    BY <1>1, <2>1
<1>5. y \in Nat /\ v \in 0..(b * n - 1) /\ a = (b * n) * y + v
  BY <1>4, Divided
<1> DEFINE r == b * s + o
<1> HIDE DEF x, z, s, o, y, v
<1>6. r \in 0..(b * n - 1) /\ a = (b * n) * z + r
  <2>1. b * s <= b * (n - 1) /\ b * (n - 1) = b * n - b /\ b * s \in Nat
    BY <1>1, <1>3
  <2>2. b * x = b * (n * z) + b * s /\ b * (n * z) = (b * n) * z
    BY <1>1, <1>3
  <2> QED
    BY <1>1, <1>2, <1>3, <1>4, <2>1, <2>2
<1> HIDE DEF r
<1>7. z = y
  BY <1>4, <1>3, <1>5, <1>6, DividedOnce
<1>8. (y * n + s) * b = a - o
  <2>1. (y * n + s) * b = x * b
    BY <1>1, <1>3, <1>7
  <2> QED
    BY <1>1, <1>2, <2>1
<1>9. a - o \in Nat /\ (a >= b => a - o # 0)
  <2>1. b * x \in Nat
    BY <1>1, <1>2
  <2> QED
    BY <1>1, <1>2, <2>1
<1>10. /\ CACHE_SET(g, a) = s /\ CACHE_TAG(g, a) = y /\ CACHE_BADDR(g, a) = a - o
       /\ CACHE_MK_BADDR(g, y, s) = (y * n + s) * b
  BY DEF CACHE_SET, CACHE_TAG, CACHE_BADDR, CACHE_MK_BADDR, b, n, x, s, o, y
<1> QED
  BY <1>3, <1>5, <1>8, <1>9, <1>10 DEF NoBlock, b, n

\* A block has one set and one tag.
LEMMA OneBlock ==
  ASSUME NEW g, GeometryOK(g), NEW tag \in Nat, NEW s \in 0..(g.nsets - 1),
         NEW tag2 \in Nat, NEW s2 \in 0..(g.nsets - 1),
         CACHE_MK_BADDR(g, tag, s) = CACHE_MK_BADDR(g, tag2, s2)
  PROVE  tag = tag2 /\ s = s2
<1> DEFINE b == g.bsize
           n == g.nsets
           x == n * tag + s
           x2 == n * tag2 + s2
<1>1. b \in Nat \ {0} /\ n \in Nat \ {0} /\ s \in 0..(n - 1) /\ s2 \in 0..(n - 1)
  BY DEF GeometryOK
<1>2. (tag * n + s) * b = (tag2 * n + s2) * b
  BY DEF CACHE_MK_BADDR
<1> HIDE DEF b, n
<1>3. x \in Nat /\ x2 \in Nat /\ tag * n + s = x /\ tag2 * n + s2 = x2
  BY <1>1
<1> HIDE DEF x, x2
<1>4. x * b = b * x + 0 /\ x2 * b = b * x2 + 0 /\ 0 \in 0..(b - 1)
  BY <1>1, <1>3
<1>5. x = x2
  <2>1. b * x + 0 = b * x2 + 0
    BY <1>2, <1>3, <1>4
  <2> QED
    BY <1>1, <1>3, <1>4, <2>1, DividedOnce
<1>6. tag = tag2
  BY <1>1, <1>5, DividedOnce DEF x, x2
<1> QED
  BY <1>1, <1>3, <1>5, <1>6 DEF x, x2

\* Two addresses in the same block have its set and its tag.
LEMMA SameBlock ==
  ASSUME NEW g, GeometryOK(g), NEW a \in Nat, NEW b \in Nat,
         CACHE_BADDR(g, a) = CACHE_BADDR(g, b)
  PROVE  CACHE_SET(g, a) = CACHE_SET(g, b) /\ CACHE_TAG(g, a) = CACHE_TAG(g, b)
<1>1. /\ CACHE_SET(g, a) \in 0..(g.nsets - 1) /\ CACHE_TAG(g, a) \in Nat
      /\ CACHE_MK_BADDR(g, CACHE_TAG(g, a), CACHE_SET(g, a)) = CACHE_BADDR(g, a)
  BY Addresses
<1>2. /\ CACHE_SET(g, b) \in 0..(g.nsets - 1) /\ CACHE_TAG(g, b) \in Nat
      /\ CACHE_MK_BADDR(g, CACHE_TAG(g, b), CACHE_SET(g, b)) = CACHE_BADDR(g, b)
  BY Addresses
<1> QED
  BY <1>1, <1>2, OneBlock

\* The block that the start of a block no larger is in.
LEMMA BlockInBlock ==
  ASSUME NEW g, GeometryOK(g), NEW h, GeometryOK(h), h.bsize % g.bsize = 0, NEW a \in Nat
  PROVE  CACHE_BADDR(h, CACHE_BADDR(g, a)) = CACHE_BADDR(h, a)
<1> DEFINE b == g.bsize
           d == h.bsize
           k == d \div b
           x == a \div d
           o == a % d
           y == o \div b
           v == o % b
<1>1. b \in Nat \ {0} /\ d \in Nat \ {0} /\ d % b = 0
  BY DEF GeometryOK
<1> HIDE DEF b, d
<1>2. k \in Nat /\ d = b * k
  BY <1>1, Divided
<1>3. x \in Nat /\ o \in 0..(d - 1) /\ a = d * x + o
  BY <1>1, Divided
<1> HIDE DEF k, x, o
<1>4. y \in Nat /\ v \in 0..(b - 1) /\ o = b * y + v
  <2>1. o \in Nat
    BY <1>1, <1>3
  <2> QED
    BY <1>1, <2>1, Divided
<1> HIDE DEF y, v
<1>5. a % b = v
  <2> DEFINE z == k * x + y
             q == a \div b
             w == a % b
  <2>1. z \in Nat /\ a = b * z + v
    <3>1. b * z = b * (k * x) + b * y /\ b * (k * x) = (b * k) * x
      BY <1>1, <1>2, <1>3, <1>4
    <3>2. k * x \in Nat /\ d * x = (b * k) * x /\ z \in Nat
      BY <1>2, <1>3, <1>4
    <3>3. a = d * x + (b * y + v)
      BY <1>3, <1>4
    <3>4. d * x \in Nat /\ b * y \in Nat /\ v \in Nat
      BY <1>1, <1>3, <1>4
    <3>5. b * z = d * x + b * y
      BY <3>1, <3>2
    <3> HIDE DEF z
    <3> QED
      BY <3>2, <3>3, <3>4, <3>5
  <2>2. q \in Nat /\ w \in 0..(b - 1) /\ a = b * q + w
    BY <1>1, Divided
  <2> HIDE DEF z, q, w
  <2>3. z = q
    BY <1>1, <1>4, <2>1, <2>2, DividedOnce
  <2> QED
    BY <1>1, <1>4, <2>1, <2>2, <2>3 DEF w
<1>6. b * y \in 0..(d - 1) /\ a - v = d * x + b * y /\ a - v \in Nat
  <2>1. b * y \in Nat /\ d * x \in Nat
    BY <1>1, <1>3, <1>4
  <2> QED
    BY <1>1, <1>3, <1>4, <2>1
<1>7. (a - v) % d = b * y
  <2> DEFINE q == (a - v) \div d
             w == (a - v) % d
             r == b * y
  <2>1. q \in Nat /\ w \in 0..(d - 1) /\ a - v = d * q + w
    BY <1>1, <1>6, Divided
  <2>2. r \in 0..(d - 1) /\ a - v = d * x + r
    BY <1>6
  <2> HIDE DEF q, w, r
  <2>3. x = q
    BY <1>1, <1>3, <2>1, <2>2, DividedOnce
  <2>4. d * x \in Nat
    BY <1>1, <1>3
  <2> QED
    BY <1>1, <1>3, <2>1, <2>2, <2>3, <2>4 DEF w, r
<1>8. CACHE_BADDR(g, a) = a - v /\ CACHE_BADDR(h, a - v) = (a - v) - b * y
      /\ CACHE_BADDR(h, a) = a - o
  BY <1>5, <1>7 DEF CACHE_BADDR, b, d, o
<1> QED
  BY <1>1, <1>4, <1>6, <1>8

\* The start of a block is in the block.
LEMMA BlockStart ==
  ASSUME NEW g, GeometryOK(g), NEW a \in Nat
  PROVE  LET b == CACHE_BADDR(g, a) IN
         /\ CACHE_BADDR(g, b) = b
         /\ CACHE_SET(g, b) = CACHE_SET(g, a) /\ CACHE_TAG(g, b) = CACHE_TAG(g, a)
<1>1. CACHE_BADDR(g, a) \in Nat
  BY Addresses
<1>2. g.bsize % g.bsize = 0
  <2>1. g.bsize \in Nat \ {0}
    BY DEF GeometryOK
  <2> QED
    BY <2>1
<1>3. CACHE_BADDR(g, CACHE_BADDR(g, a)) = CACHE_BADDR(g, a)
  BY <1>2, BlockInBlock
<1> QED
  BY <1>1, <1>3, SameBlock

\* Blocks have natural addresses.
LEMMA BlockAddress ==
  ASSUME NEW g, GeometryOK(g), NEW tag \in Nat, NEW s \in 0..(g.nsets - 1)
  PROVE  CACHE_MK_BADDR(g, tag, s) \in Nat
<1>1. g.bsize \in Nat /\ g.nsets \in Nat
  BY DEF GeometryOK
<1>2. tag * g.nsets + s \in Nat
  BY <1>1
<1> QED
  BY <1>1, <1>2 DEF CACHE_MK_BADDR

-----------------------------------------------------------------------------
(* Caches.                                                                 *)

\* A cache of this geometry.
CacheType(g) ==
  [set : [0..(g.nsets - 1) -> SetType(g.assoc, g.hsize)],
   last_tagset : Nat, last_blk : 0..g.assoc, bus_free : Nat]

\* The valid blocks of set s are those of addresses from f on; they are dirty only if
\* cmds, the accesses made to the cache, are also writes.
BlocksOK(set, g, s, f, cmds) ==
  \A w \in 1..g.assoc : /\ set.valid[w] => CACHE_MK_BADDR(g, set.tag[w], s) >= f
                        /\ set.dirty[w] => "Write" \in cmds

\* A block that is valid is in way w, and has this tag.
Holds(set, w, tag) == set.valid[w] /\ set.tag[w] = tag

\* The block of the last hit is where a fast hit will look for it.
Remembers(C, g) ==
  C.last_tagset # NoBlock =>
    /\ C.last_blk # NULL
    /\ Holds(C.set[CACHE_SET(g, C.last_tagset)], C.last_blk, CACHE_TAG(g, C.last_tagset))

\* A cache that is well formed.
CacheOK(C, g, f, cmds) ==
  /\ C \in CacheType(g)
  /\ Remembers(C, g)
  /\ \A s \in 0..(g.nsets - 1) : Linked(C.set[s], g, {}) /\ BlocksOK(C.set[s], g, s, f, cmds)

\* One set of a cache changes, and what the cache remembers of its last access.
LEMMA SetChanged ==
  ASSUME NEW g, GeometryOK(g), NEW f, NEW cmds, NEW C, CacheOK(C, g, f, cmds),
         NEW s \in 0..(g.nsets - 1), NEW set, Linked(set, g, {}), BlocksOK(set, g, s, f, cmds),
         NEW b \in Nat, NEW k \in 0..g.assoc, NEW free \in Nat,
         b # NoBlock => k # NULL /\ CACHE_SET(g, b) = s /\ Holds(set, k, CACHE_TAG(g, b))
  PROVE  CacheOK([set |-> [C.set EXCEPT ![s] = set], last_tagset |-> b, last_blk |-> k,
                  bus_free |-> free], g, f, cmds)
<1> DEFINE sets == [C.set EXCEPT ![s] = set]
           D == [set |-> sets, last_tagset |-> b, last_blk |-> k, bus_free |-> free]
<1>1. C.set \in [0..(g.nsets - 1) -> SetType(g.assoc, g.hsize)] /\ set \in SetType(g.assoc, g.hsize)
  BY DEF CacheOK, CacheType, Linked
<1>2. /\ sets \in [0..(g.nsets - 1) -> SetType(g.assoc, g.hsize)]
      /\ \A x \in 0..(g.nsets - 1) : sets[x] = IF x = s THEN set ELSE C.set[x]
  BY <1>1, Pointed
<1> HIDE DEF sets
<1>3. D \in CacheType(g) /\ D.last_tagset = b /\ D.last_blk = k /\ D.set = sets
  BY <1>2 DEF CacheType
<1> HIDE DEF D
<1>4. Remembers(D, g)
  BY <1>2, <1>3 DEF Remembers
<1>5. CacheOK(D, g, f, cmds)
  BY <1>2, <1>3, <1>4 DEF CacheOK
<1> QED
  BY <1>5 DEF D, sets

\* The later of two times, and what is left of one.
LEMMA LaterTime == \A x \in Nat, y \in Int : Max2(x, y) \in Nat
BY DEF Max2

\* A time that is left is not negative.
LEMMA TimeLeft == \A x \in Int : BOUND_POS(x) \in Nat
BY DEF Max2, BOUND_POS

-----------------------------------------------------------------------------
(* What an access does to the blocks of a cache.                           *)

\* The bus of the cache is free no sooner, and a valid block is ready no sooner, or
\* another block took its place and waited for it and for the bus.
Waited(C, D, g) ==
  /\ D.bus_free >= C.bus_free
  /\ \A s \in 0..(g.nsets - 1), w \in 1..g.assoc :
       C.set[s].valid[w] =>
         /\ D.set[s].valid[w] /\ D.set[s].ready[w] >= C.set[s].ready[w]
         /\ D.set[s].tag[w] # C.set[s].tag[w] =>
              /\ D.set[s].ready[w] > C.set[s].ready[w]
              /\ D.set[s].ready[w] > C.bus_free /\ D.bus_free > C.bus_free

\* The block of address a is in the cache, ready at time t.
There(C, g, a, t) ==
  \E w \in 1..g.assoc :
    /\ Holds(C.set[CACHE_SET(g, a)], w, CACHE_TAG(g, a))
    /\ C.set[CACHE_SET(g, a)].ready[w] <= t

\* The block of address a is in the cache and is to be written back.
Pending(C, g, a) ==
  \E w \in 1..g.assoc :
    /\ Holds(C.set[CACHE_SET(g, a)], w, CACHE_TAG(g, a))
    /\ C.set[CACHE_SET(g, a)].dirty[w]

\* An access to address a at time t has made D of the cache C, and wrote the blocks of
\* out back.
Accessed(C, D, g, cmd, a, t, lat, out) ==
  /\ Waited(C, D, g) /\ There(D, g, a, t + lat)
  /\ cmd = "Write" => Pending(D, g, a)
  /\ \A x \in Nat : Pending(C, g, x) => Pending(D, g, x) \/ CACHE_BADDR(g, x) \in out
  /\ \A s \in 0..(g.nsets - 1), w \in 1..g.assoc :
       D.set[s].tag[w] # C.set[s].tag[w] =>
         /\ s = CACHE_SET(g, a) /\ D.set[s].tag[w] = CACHE_TAG(g, a)
         /\ D.set[s].ready[w] = t + lat

\* The blocks are what they were, but a dirty one may be one more.
SameButDirty(C, D, g, s, w, cmd) ==
  \A x \in 0..(g.nsets - 1), v \in 1..g.assoc :
    /\ D.set[x].tag[v] = C.set[x].tag[v] /\ D.set[x].valid[v] = C.set[x].valid[v]
    /\ D.set[x].ready[v] = C.set[x].ready[v]
    /\ D.set[x].dirty[v] = (C.set[x].dirty[v] \/ (x = s /\ v = w /\ cmd = "Write"))

\* A hit is such an access.
LEMMA HitAccessed ==
  ASSUME NEW g, GeometryOK(g), NEW C \in CacheType(g), NEW D, NEW cmd, NEW a \in Nat,
         NEW t \in Nat, NEW lat \in Nat, NEW w \in 1..g.assoc,
         Holds(C.set[CACHE_SET(g, a)], w, CACHE_TAG(g, a)),
         t + lat >= C.set[CACHE_SET(g, a)].ready[w],
         D.bus_free = C.bus_free, SameButDirty(C, D, g, CACHE_SET(g, a), w, cmd)
  PROVE  Accessed(C, D, g, cmd, a, t, lat, {})
<1>1. C.bus_free \in Nat /\ \A x \in 0..(g.nsets - 1), v \in 1..g.assoc : C.set[x].ready[v] \in Nat
  <2>1. C.bus_free \in Nat /\ C.set \in [0..(g.nsets - 1) -> SetType(g.assoc, g.hsize)]
    BY DEF CacheType
  <2>2. \A set \in SetType(g.assoc, g.hsize) : set.ready \in [1..g.assoc -> Nat]
    BY DEF SetType
  <2> QED
    BY <2>1, <2>2
<1>2. \A x \in Nat : CACHE_SET(g, x) \in 0..(g.nsets - 1)
  BY Addresses
<1>3. Waited(C, D, g)
  BY <1>1 DEF Waited, SameButDirty
<1>4. There(D, g, a, t + lat)
  BY <1>2 DEF There, Holds, SameButDirty
<1>5. cmd = "Write" => Pending(D, g, a)
  BY <1>2 DEF Pending, Holds, SameButDirty
<1>6. \A x \in Nat : Pending(C, g, x) => Pending(D, g, x)
  BY <1>2 DEF Pending, Holds, SameButDirty
<1>7. \A s \in 0..(g.nsets - 1), v \in 1..g.assoc : D.set[s].tag[v] = C.set[s].tag[v]
  BY DEF SameButDirty
<1> QED
  BY <1>3, <1>4, <1>5, <1>6, <1>7 DEF Accessed

\* The blocks are what they were, but for the block in way w of set s.
SameBut(C, D, g, s, w) ==
  \A x \in 0..(g.nsets - 1), v \in 1..g.assoc : x # s \/ v # w =>
    /\ D.set[x].tag[v] = C.set[x].tag[v] /\ D.set[x].valid[v] = C.set[x].valid[v]
    /\ D.set[x].ready[v] = C.set[x].ready[v] /\ D.set[x].dirty[v] = C.set[x].dirty[v]

\* A miss is such an access.
LEMMA FillAccessed ==
  ASSUME NEW g, GeometryOK(g), NEW C \in CacheType(g), NEW D, D.bus_free \in Nat, NEW cmd,
         NEW a \in Nat, NEW t \in Nat, NEW lat \in Nat, NEW start \in Nat, start < lat,
         NEW w \in 1..g.assoc, NEW s, s = CACHE_SET(g, a), NEW out,
         SameBut(C, D, g, s, w),
         D.set[s].tag[w] = CACHE_TAG(g, a), D.set[s].valid[w], D.set[s].ready[w] = t + lat,
         cmd = "Write" => D.set[s].dirty[w],
         IF C.set[s].valid[w]
         THEN /\ t + start >= C.set[s].ready[w] /\ t + start >= C.bus_free
              /\ D.bus_free > C.bus_free
         ELSE D.bus_free = C.bus_free,
         IsDirty(C.set[s], w) => CACHE_MK_BADDR(g, C.set[s].tag[w], s) \in out
  PROVE  Accessed(C, D, g, cmd, a, t, lat, out)
<1>1. C.bus_free \in Nat /\ \A x \in 0..(g.nsets - 1), v \in 1..g.assoc : C.set[x].ready[v] \in Nat
  <2>1. C.bus_free \in Nat /\ C.set \in [0..(g.nsets - 1) -> SetType(g.assoc, g.hsize)]
    BY DEF CacheType
  <2>2. \A set \in SetType(g.assoc, g.hsize) : set.ready \in [1..g.assoc -> Nat]
    BY DEF SetType
  <2> QED
    BY <2>1, <2>2
<1>2. \A x \in Nat : /\ CACHE_SET(g, x) \in 0..(g.nsets - 1)
                     /\ CACHE_MK_BADDR(g, CACHE_TAG(g, x), CACHE_SET(g, x)) = CACHE_BADDR(g, x)
  BY Addresses
<1>3. ASSUME NEW x \in 0..(g.nsets - 1), NEW v \in 1..g.assoc, C.set[x].valid[v]
      PROVE  /\ D.set[x].valid[v] /\ D.set[x].ready[v] >= C.set[x].ready[v]
             /\ D.set[x].tag[v] # C.set[x].tag[v] =>
                  /\ D.set[x].ready[v] > C.set[x].ready[v]
                  /\ D.set[x].ready[v] > C.bus_free /\ D.bus_free > C.bus_free
  <2>1. CASE x = s /\ v = w
    <3>1. /\ D.set[s].ready[w] = t + lat /\ C.set[s].ready[w] \in Nat
          /\ t + start >= C.set[s].ready[w] /\ t + start >= C.bus_free
          /\ D.bus_free > C.bus_free
      BY <1>1, <1>3, <2>1
    <3>2. t + lat > C.set[s].ready[w] /\ t + lat > C.bus_free
      BY <1>1, <3>1
    <3>3. t + lat >= C.set[s].ready[w]
      BY <3>1, <3>2
    <3> QED
      BY <2>1, <3>1, <3>2, <3>3
  <2>2. CASE x # s \/ v # w
    BY <1>1, <1>3, <2>2 DEF SameBut
  <2> QED
    BY <2>1, <2>2
<1>4. D.bus_free >= C.bus_free
  BY <1>1
<1>5. Waited(C, D, g)
  BY <1>3, <1>4 DEF Waited
<1>6. There(D, g, a, t + lat) /\ (cmd = "Write" => Pending(D, g, a))
  BY DEF There, Pending, Holds
<1>7. ASSUME NEW x \in Nat, Pending(C, g, x) PROVE Pending(D, g, x) \/ CACHE_BADDR(g, x) \in out
  <2> DEFINE y == CACHE_SET(g, x)
  <2>1. PICK v \in 1..g.assoc : Holds(C.set[y], v, CACHE_TAG(g, x)) /\ C.set[y].dirty[v]
    BY <1>7 DEF Pending
  <2>2. CASE y = s /\ v = w
    <3>1. CACHE_MK_BADDR(g, C.set[s].tag[w], s) = CACHE_BADDR(g, x)
      BY <1>2, <2>1, <2>2 DEF Holds
    <3> QED
      BY <2>1, <2>2, <3>1 DEF Holds, IsDirty
  <2>3. CASE y # s \/ v # w
    <3>1. Holds(D.set[y], v, CACHE_TAG(g, x)) /\ D.set[y].dirty[v]
      BY <1>2, <2>1, <2>3 DEF SameBut, Holds
    <3> QED
      BY <3>1 DEF Pending
  <2> QED
    BY <2>2, <2>3
<1>8. \A x \in 0..(g.nsets - 1), v \in 1..g.assoc :
        D.set[x].tag[v] # C.set[x].tag[v] =>
          /\ x = CACHE_SET(g, a) /\ D.set[x].tag[v] = CACHE_TAG(g, a)
          /\ D.set[x].ready[v] = t + lat
  BY DEF SameBut
<1> QED
  BY <1>5, <1>6, <1>7, <1>8 DEF Accessed

\* What has waited may wait again.
LEMMA WaitedOn ==
  ASSUME NEW g, GeometryOK(g), NEW C \in CacheType(g), NEW D \in CacheType(g),
         NEW E \in CacheType(g), Waited(C, D, g), Waited(D, E, g)
  PROVE  Waited(C, E, g)
<1>1. \A B \in {C, D, E} :
        B.bus_free \in Nat /\ \A x \in 0..(g.nsets - 1), v \in 1..g.assoc : B.set[x].ready[v] \in Nat
  <2> TAKE B \in {C, D, E}
  <2>1. B.bus_free \in Nat /\ B.set \in [0..(g.nsets - 1) -> SetType(g.assoc, g.hsize)]
    BY DEF CacheType
  <2>2. \A set \in SetType(g.assoc, g.hsize) : set.ready \in [1..g.assoc -> Nat]
    BY DEF SetType
  <2> QED
    BY <2>1, <2>2
<1>2. /\ C.bus_free \in Nat /\ D.bus_free \in Nat /\ E.bus_free \in Nat
      /\ D.bus_free >= C.bus_free /\ E.bus_free >= D.bus_free
  BY <1>1 DEF Waited
<1>3. ASSUME NEW x \in 0..(g.nsets - 1), NEW v \in 1..g.assoc, C.set[x].valid[v]
      PROVE  /\ E.set[x].valid[v] /\ E.set[x].ready[v] >= C.set[x].ready[v]
             /\ E.set[x].tag[v] # C.set[x].tag[v] =>
                  /\ E.set[x].ready[v] > C.set[x].ready[v]
                  /\ E.set[x].ready[v] > C.bus_free /\ E.bus_free > C.bus_free
  <2>1. C.set[x].ready[v] \in Nat /\ D.set[x].ready[v] \in Nat /\ E.set[x].ready[v] \in Nat
    BY <1>1
  <2>2. /\ D.set[x].valid[v] /\ D.set[x].ready[v] >= C.set[x].ready[v]
        /\ D.set[x].tag[v] # C.set[x].tag[v] =>
             /\ D.set[x].ready[v] > C.set[x].ready[v]
             /\ D.set[x].ready[v] > C.bus_free /\ D.bus_free > C.bus_free
    BY <1>3 DEF Waited
  <2>3. /\ E.set[x].valid[v] /\ E.set[x].ready[v] >= D.set[x].ready[v]
        /\ E.set[x].tag[v] # D.set[x].tag[v] =>
             /\ E.set[x].ready[v] > D.set[x].ready[v]
             /\ E.set[x].ready[v] > D.bus_free /\ E.bus_free > D.bus_free
    BY <2>2 DEF Waited
  <2> DEFINE c == C.set[x].ready[v]
             d == D.set[x].ready[v]
             e == E.set[x].ready[v]
             cb == C.bus_free
             db == D.bus_free
             eb == E.bus_free
  <2> HIDE DEF c, d, e, cb, db, eb
  <2>4. /\ {c, d, e, cb, db, eb} \subseteq Nat /\ d >= c /\ e >= d /\ db >= cb /\ eb >= db
        /\ D.set[x].tag[v] # C.set[x].tag[v] => d > c /\ d > cb /\ db > cb
        /\ E.set[x].tag[v] # D.set[x].tag[v] => e > d /\ e > db /\ eb > db
    BY <1>2, <2>1, <2>2, <2>3 DEF c, d, e, cb, db, eb
  <2>5. /\ e >= c
        /\ E.set[x].tag[v] # C.set[x].tag[v] => e > c /\ e > cb /\ eb > cb
    BY <2>4
  <2> QED
    BY <2>3, <2>5 DEF c, e, cb, eb
<1>4. E.bus_free >= C.bus_free
  BY <1>2
<1> QED
  BY <1>3, <1>4 DEF Waited

\* What a hit comes to.
HitDone(C, g, f, cmds, lower, cmd, a, t, r) ==
  /\ CacheOK(r.cache, g, f, cmds) /\ r.lower = lower /\ r.lat \in Nat /\ r.lat > 0
  /\ Accessed(C, r.cache, g, cmd, a, t, r.lat, {})
  /\ \A x \in 0..(g.nsets - 1), v \in 1..g.assoc : r.cache.set[x].tag[v] = C.set[x].tag[v]

\* A hit leaves the cache well formed.
LEMMA HitOK ==
  ASSUME NEW g, GeometryOK(g), NEW f, NEW cmds, NEW C, CacheOK(C, g, f, cmds), NEW lower,
         NEW cmd \in cmds, NEW a \in Nat, NEW t \in Nat,
         NEW w \in 1..g.assoc, Holds(C.set[CACHE_SET(g, a)], w, CACHE_TAG(g, a))
  PROVE  HitDone(C, g, f, cmds, lower, cmd, a, t, CacheHit(C, g, lower, cmd, a, t, w))
<1> DEFINE s == CACHE_SET(g, a)
           old == C.set[s]
           d == [old.dirty EXCEPT ![w] = @ \/ cmd = "Write"]
           set == [old EXCEPT !.dirty = d]
           fast == C.last_tagset = CACHE_BADDR(g, a)
           new == IF ~fast /\ g.policy = "LRU" THEN update_way_list(set, w, "Head") ELSE set
           hit == [C EXCEPT !.set[s] = new, !.last_tagset = CACHE_BADDR(g, a), !.last_blk = w]
           lat == HitLatency(g, set.ready[w], t)
           r == CacheHit(C, g, lower, cmd, a, t, w)
<1>1. /\ g.assoc \in Nat \ {0} /\ g.hit_latency \in Nat \ {0}
      /\ s \in 0..(g.nsets - 1) /\ CACHE_BADDR(g, a) \in Nat
  BY Addresses DEF GeometryOK
<1>2. C \in CacheType(g) /\ Linked(old, g, {}) /\ BlocksOK(old, g, s, f, cmds)
  BY <1>1 DEF CacheOK
<1>2a. Holds(old, w, CACHE_TAG(g, a))
  OBVIOUS
<1> HIDE DEF s
<1>3. old \in SetType(g.assoc, g.hsize)
  BY <1>2 DEF Linked
<1> HIDE DEF old
<1>4. /\ d \in [1..g.assoc -> BOOLEAN]
      /\ \A v \in 1..g.assoc : d[v] = (old.dirty[v] \/ (v = w /\ cmd = "Write"))
  <2>1. old.dirty \in [1..g.assoc -> BOOLEAN]
    BY <1>3 DEF SetType
  <2> QED
    BY <2>1
<1> HIDE DEF d
<1>5. /\ set \in SetType(g.assoc, g.hsize) /\ SamePointers(old, set)
      /\ set.tag = old.tag /\ set.valid = old.valid /\ set.dirty = d /\ set.ready = old.ready
  BY <1>3, <1>4 DEF SetType, SamePointers
<1> HIDE DEF set
<1>6. Linked(set, g, {})
  BY <1>2, <1>5, LinkedKept
<1>7. BlocksOK(set, g, s, f, cmds)
  BY <1>2, <1>4, <1>5 DEF BlocksOK
<1>8. Linked(new, g, {}) /\ BlocksOK(new, g, s, f, cmds) /\ SameBlocks(set, new)
  <2>1. CASE ~fast /\ g.policy = "LRU"
    <3>1. new = update_way_list(set, w, "Head")
      BY <2>1
    <3> HIDE DEF new
    <3>2. Linked(new, g, {}) /\ SameBlocks(set, new)
      BY <1>6, <3>1, UpdatedLinked
    <3> QED
      BY <1>7, <3>2 DEF BlocksOK, SameBlocks
  <2>2. CASE ~(~fast /\ g.policy = "LRU")
    BY <1>6, <1>7, <2>2 DEF SameBlocks
  <2> QED
    BY <2>1, <2>2
<1> HIDE DEF new
<1>9. hit = [set |-> [C.set EXCEPT ![s] = new], last_tagset |-> CACHE_BADDR(g, a),
             last_blk |-> w, bus_free |-> C.bus_free]
  <2> DEFINE sets == [C.set EXCEPT ![s] = new]
             b == CACHE_BADDR(g, a)
  <2>1. hit = [C EXCEPT !.set = sets, !.last_tagset = b, !.last_blk = w]
    OBVIOUS
  <2> HIDE DEF sets, hit, b
  <2>2. hit = [set |-> sets, last_tagset |-> b, last_blk |-> w, bus_free |-> C.bus_free]
    BY <1>2, <2>1 DEF CacheType
  <2> QED
    BY <2>2 DEF sets, b
<1>10. CacheOK(hit, g, f, cmds)
  <2>1. C.bus_free \in Nat /\ w \in 0..g.assoc /\ w # NULL
    BY <1>1, <1>2 DEF CacheType, NULL
  <2>2. Holds(new, w, CACHE_TAG(g, a))
    BY <1>2a, <1>5, <1>8 DEF Holds, SameBlocks
  <2>3. /\ CACHE_SET(g, CACHE_BADDR(g, a)) = s
        /\ CACHE_TAG(g, CACHE_BADDR(g, a)) = CACHE_TAG(g, a)
    BY BlockStart DEF s
  <2> HIDE DEF hit
  <2> QED
    BY <1>1, <1>8, <1>9, <2>1, <2>2, <2>3, SetChanged
<1>11. lat \in Nat /\ lat > 0 /\ t + lat >= old.ready[w]
  <2>1. set.ready[w] \in Nat /\ set.ready[w] = old.ready[w]
    BY <1>5 DEF SetType
  <2> DEFINE x == set.ready[w]
             y == x - t
             z == g.hit_latency
  <2>2. y \in Int /\ lat = Max2(z, y) /\ z \in Nat \ {0}
    BY <1>1, <2>1 DEF HitLatency
  <2>3. x \in Nat /\ y = x - t
    BY <2>1
  <2> HIDE DEF x, y, z, lat
  <2>4. lat \in Nat /\ lat > 0 /\ t + lat >= x
    BY <2>2, <2>3 DEF Max2
  <2> QED
    BY <2>1, <2>4 DEF x
<1>12. r = [cache |-> hit, lower |-> lower, lat |-> lat]
  BY DEF CacheHit, Touched, hit, new, set, d, old, s
<1>13. hit.bus_free = C.bus_free /\ SameButDirty(C, hit, g, s, w, cmd)
  <2>1. hit.bus_free = C.bus_free /\ hit.set = [C.set EXCEPT ![s] = new]
    BY <1>9
  <2>2. C.set \in [0..(g.nsets - 1) -> SetType(g.assoc, g.hsize)]
    BY <1>2 DEF CacheType
  <2> HIDE DEF hit
  <2>3. \A x \in 0..(g.nsets - 1) : hit.set[x] = IF x = s THEN new ELSE C.set[x]
    BY <2>1, <2>2
  <2>4. \A x \in 0..(g.nsets - 1) : C.set[x].dirty \in [1..g.assoc -> BOOLEAN]
    BY <2>2 DEF SetType
  <2>5. /\ new.tag = C.set[s].tag /\ new.valid = C.set[s].valid /\ new.ready = C.set[s].ready
        /\ new.dirty = d /\ \A v \in 1..g.assoc : d[v] = (C.set[s].dirty[v] \/ (v = w /\ cmd = "Write"))
    BY <1>4, <1>5, <1>8 DEF SameBlocks, old
  <2>6. ASSUME NEW x \in 0..(g.nsets - 1), NEW v \in 1..g.assoc
        PROVE  /\ hit.set[x].tag[v] = C.set[x].tag[v] /\ hit.set[x].valid[v] = C.set[x].valid[v]
               /\ hit.set[x].ready[v] = C.set[x].ready[v]
               /\ hit.set[x].dirty[v] = (C.set[x].dirty[v] \/ (x = s /\ v = w /\ cmd = "Write"))
    <3>1. CASE x = s
      BY <2>3, <2>5, <3>1
    <3>2. CASE x # s
      <4>1. hit.set[x] = C.set[x] /\ C.set[x].dirty[v] \in BOOLEAN
        BY <2>3, <2>4, <3>2
      <4> QED
        BY <3>2, <4>1
    <3> QED
      BY <3>1, <3>2
  <2> QED
    BY <2>1, <2>6 DEF SameButDirty
<1> HIDE DEF r, hit, lat
<1>14. Accessed(C, hit, g, cmd, a, t, lat, {})
  BY <1>2, <1>2a, <1>11, <1>13, HitAccessed DEF old, s
<1>15. \A x \in 0..(g.nsets - 1), v \in 1..g.assoc : hit.set[x].tag[v] = C.set[x].tag[v]
  BY <1>13 DEF SameButDirty
<1> QED
  BY <1>10, <1>11, <1>12, <1>14, <1>15 DEF r, HitDone

\* The blocks of two sets are the same.
SameData(set, new) ==
  new.tag = set.tag /\ new.valid = set.valid /\ new.dirty = set.dirty /\ new.ready = set.ready

\* A transfer that takes the place of way w begins at time now at the earliest.
Begins(C, set, w, now) == set.valid[w] => now >= set.ready[w] /\ now >= C.bus_free

\* Waiting for the fill of the victim, then for the bus, is waiting for both.
LEMMA StallsFor ==
  ASSUME NEW C, C.bus_free \in Nat, NEW set, NEW w, set.ready[w] \in Nat, NEW t \in Nat
  PROVE  Stalls(C, set, w, t) \in Nat /\ Begins(C, set, w, t + Stalls(C, set, w, t))
<1> DEFINE x == set.ready[w]
           b == C.bus_free
           filled == StallUntilFilled(set, w, t)
           bus == StallForBus(C, t + filled)
<1>1. x \in Nat /\ b \in Nat
  OBVIOUS
<1>2. filled = BOUND_POS(x - t) /\ bus = BOUND_POS(b - (t + filled))
  BY DEF StallUntilFilled, StallForBus
<1>3. Stalls(C, set, w, t) = IF ~set.valid[w] THEN 0 ELSE filled + bus
  BY DEF Stalls
<1>4. Begins(C, set, w, t + Stalls(C, set, w, t)) <=>
        (set.valid[w] => t + Stalls(C, set, w, t) >= x /\ t + Stalls(C, set, w, t) >= b)
  BY DEF Begins
<1> HIDE DEF x, b, filled, bus
<1>5. filled \in Nat /\ t + filled >= x
  BY <1>1, <1>2 DEF BOUND_POS, Max2
<1>6. bus \in Nat /\ t + filled + bus >= b
  <2> DEFINE y == t + filled
  <2>1. y \in Nat
    BY <1>5
  <2>2. bus = BOUND_POS(b - y)
    BY <1>2
  <2> HIDE DEF y
  <2>3. bus \in Nat /\ y + bus >= b
    BY <1>1, <2>1, <2>2 DEF BOUND_POS, Max2
  <2> QED
    BY <2>3 DEF y
<1>7. t + (filled + bus) >= x /\ t + (filled + bus) >= b /\ filled + bus \in Nat
  BY <1>1, <1>5, <1>6
<1> QED
  BY <1>3, <1>4, <1>7

\* The victim of a miss, out of its chain: where it is written back to, if it has to
\* be, and how long that waits.
LEMMA VictimOK ==
  ASSUME NEW g, GeometryOK(g), NEW f, NEW cmds, NEW C, CacheOK(C, g, f, cmds), NEW t \in Nat,
         NEW s \in 0..(g.nsets - 1), NEW r \in Replaced(C.set[s], g)
  PROVE  LET w   == r.blk
             set == unlink_htab_ent(r.set, g.hsize, w)
         IN /\ w \in 1..g.assoc /\ Linked(set, g, {w}) /\ BlocksOK(set, g, s, f, cmds)
            /\ Stalls(C, set, w, t) \in Nat
            /\ SameData(C.set[s], set) /\ Begins(C, set, w, t + Stalls(C, set, w, t))
            /\ IsDirty(set, w) => /\ "Write" \in cmds /\ CACHE_MK_BADDR(g, set.tag[w], s) \in Nat
                                  /\ CACHE_MK_BADDR(g, set.tag[w], s) >= f
<1> DEFINE old == C.set[s]
           w == r.blk
           set == unlink_htab_ent(r.set, g.hsize, w)
<1>1. C \in CacheType(g) /\ Linked(old, g, {}) /\ BlocksOK(old, g, s, f, cmds)
  BY DEF CacheOK
<1> HIDE DEF old
<1>2. w \in 1..g.assoc /\ Linked(r.set, g, {}) /\ SameBlocks(old, r.set)
  <2>1. CASE g.policy = "Random"
    <3>1. PICK v \in 1..g.assoc : r = [blk |-> v, set |-> old]
      BY <2>1 DEF Replaced, old
    <3> QED
      BY <1>1, <3>1 DEF SameBlocks
  <2>2. CASE g.policy # "Random"
    <3>1. r = [blk |-> old.way_tail, set |-> update_way_list(old, old.way_tail, "Head")]
      BY <2>2 DEF Replaced, old
    <3>2. w = old.way_tail /\ r.set = update_way_list(old, w, "Head")
      BY <3>1
    <3>3. w \in 1..g.assoc
      BY <1>1, <3>2 DEF Linked, SetType
    <3> HIDE DEF w
    <3> QED
      BY <1>1, <3>2, <3>3, UpdatedLinked
  <2> QED
    BY <2>1, <2>2
<1>3. /\ Linked(set, g, {w})
      /\ set.tag = old.tag /\ set.valid = old.valid /\ set.dirty = old.dirty
      /\ set.ready = old.ready
  <2> HIDE DEF w
  <2> QED
    BY <1>2, UnlinkedLinked DEF SameBlocks
<1> HIDE DEF set
<1>4. BlocksOK(set, g, s, f, cmds)
  BY <1>1, <1>3 DEF BlocksOK
<1>5. set.ready[w] \in Nat /\ set.tag[w] \in Nat /\ C.bus_free \in Nat
  BY <1>1, <1>2, <1>3 DEF Linked, SetType, CacheType
<1>6. Stalls(C, set, w, t) \in Nat /\ Begins(C, set, w, t + Stalls(C, set, w, t))
  <2> HIDE DEF w
  <2> QED
    BY <1>5, StallsFor
<1>7. IsDirty(set, w) => /\ "Write" \in cmds /\ CACHE_MK_BADDR(g, set.tag[w], s) \in Nat
                         /\ CACHE_MK_BADDR(g, set.tag[w], s) >= f
  <2>1. CACHE_MK_BADDR(g, set.tag[w], s) \in Nat
    BY <1>5, BlockAddress
  <2> HIDE DEF w
  <2> QED
    BY <1>2, <1>4, <2>1 DEF IsDirty, BlocksOK
<1>8. SameData(C.set[s], set)
  BY <1>3 DEF SameData, old
<1> QED
  BY <1>2, <1>3, <1>4, <1>6, <1>7, <1>8 DEF set

\* What a miss comes to, once the victim is written back and its place is filled.
FillDone(C, g, f, cmds, cmd, a, t, start, set, w, wb, fill, r) ==
  /\ CacheOK(r.cache, g, f, cmds) /\ r.lower = fill.lower
  /\ r.lat \in Nat /\ r.lat > 0 /\ r.lat = start + wb.lat + fill.lat
  /\ Accessed(C, r.cache, g, cmd, a, t, r.lat,
              IF IsDirty(set, w) THEN {CACHE_MK_BADDR(g, set.tag[w], CACHE_SET(g, a))} ELSE {})

\* The block read takes the place of the victim, and the cache is well formed again.
LEMMA FilledOK ==
  ASSUME NEW g, GeometryOK(g), NEW f \in Nat, NEW cmds, NEW C, CacheOK(C, g, f, cmds),
         NEW cmd \in cmds,
         NEW a \in Nat, CACHE_BADDR(g, a) >= f, NEW w \in 1..g.assoc, NEW set,
         Linked(set, g, {w}), BlocksOK(set, g, CACHE_SET(g, a), f, cmds),
         SameData(C.set[CACHE_SET(g, a)], set),
         NEW t \in Nat, NEW start \in Nat, Begins(C, set, w, t + start),
         NEW wb, wb.lat \in Nat, NEW fill, fill.lat \in Nat, fill.lat > 0
  PROVE  FillDone(C, g, f, cmds, cmd, a, t, start, set, w, wb, fill,
                  Filled(C, g, set, w, cmd, a, t, start, wb, fill))
<1> DEFINE s == CACHE_SET(g, a)
           n == g.assoc
           lat == start + wb.lat + fill.lat
           tag == [set.tag EXCEPT ![w] = CACHE_TAG(g, a)]
           valid == [set.valid EXCEPT ![w] = TRUE]
           dirty == [set.dirty EXCEPT ![w] = cmd = "Write"]
           ready == [set.ready EXCEPT ![w] = t + lat]
           new == [set EXCEPT !.tag = tag, !.valid = valid, !.dirty = dirty, !.ready = ready]
           last == link_htab_ent(new, g.hsize, w)
           free == IF set.valid[w] THEN Max2(C.bus_free, t + start) + 1 ELSE C.bus_free
           cch == [set |-> [C.set EXCEPT ![s] = last], last_tagset |-> NoBlock,
                   last_blk |-> NULL, bus_free |-> free]
           r == Filled(C, g, set, w, cmd, a, t, start, wb, fill)
<1>1. /\ n \in Nat \ {0} /\ s \in 0..(g.nsets - 1) /\ CACHE_TAG(g, a) \in Nat
      /\ CACHE_MK_BADDR(g, CACHE_TAG(g, a), s) >= f
  BY Addresses DEF GeometryOK
<1>2. /\ set \in SetType(n, g.hsize) /\ C \in CacheType(g)
      /\ lat \in Nat /\ lat > 0 /\ start < lat
      /\ SameData(C.set[s], set)
  BY DEF Linked, CacheOK
<1> HIDE DEF s, lat
<1>3. /\ tag \in [1..n -> Nat] /\ valid \in [1..n -> BOOLEAN] /\ dirty \in [1..n -> BOOLEAN]
      /\ ready \in [1..n -> Nat]
      /\ \A v \in 1..n : /\ tag[v] = IF v = w THEN CACHE_TAG(g, a) ELSE set.tag[v]
                         /\ valid[v] = IF v = w THEN TRUE ELSE set.valid[v]
                         /\ dirty[v] = IF v = w THEN cmd = "Write" ELSE set.dirty[v]
                         /\ ready[v] = IF v = w THEN t + lat ELSE set.ready[v]
  <2>1. /\ set.tag \in [1..n -> Nat] /\ set.valid \in [1..n -> BOOLEAN]
        /\ set.dirty \in [1..n -> BOOLEAN] /\ set.ready \in [1..n -> Nat]
    BY <1>2 DEF SetType
  <2>2. (cmd = "Write") \in BOOLEAN /\ TRUE \in BOOLEAN /\ t + lat \in Nat
    BY <1>2
  <2>3. tag \in [1..n -> Nat] /\ \A v \in 1..n : tag[v] = IF v = w THEN CACHE_TAG(g, a) ELSE set.tag[v]
    BY <1>1, <2>1, Pointed
  <2>4. valid \in [1..n -> BOOLEAN] /\ \A v \in 1..n : valid[v] = IF v = w THEN TRUE ELSE set.valid[v]
    BY <2>1, <2>2, Pointed
  <2>5. dirty \in [1..n -> BOOLEAN] /\ \A v \in 1..n : dirty[v] = IF v = w THEN cmd = "Write" ELSE set.dirty[v]
    BY <2>1, <2>2, Pointed
  <2>6. ready \in [1..n -> Nat] /\ \A v \in 1..n : ready[v] = IF v = w THEN t + lat ELSE set.ready[v]
    BY <2>1, <2>2, Pointed
  <2> HIDE DEF tag, valid, dirty, ready
  <2> QED
    BY <2>3, <2>4, <2>5, <2>6
<1> HIDE DEF tag, valid, dirty, ready
<1>4. /\ new \in SetType(n, g.hsize) /\ SamePointers(set, new)
      /\ new.tag = tag /\ new.valid = valid /\ new.dirty = dirty /\ new.ready = ready
  BY <1>2, <1>3 DEF SetType, SamePointers
<1> HIDE DEF new
<1>5. Linked(new, g, {w})
  <2>1. \A v \in (1..g.assoc) \ {w} : new.tag[v] = set.tag[v]
    BY <1>3, <1>4
  <2> QED
    BY <1>4, <2>1, LinkedKept
<1>6. /\ Linked(last, g, {}) /\ last.tag = tag /\ last.valid = valid /\ last.dirty = dirty
      /\ last.ready = ready
  BY <1>4, <1>5, LinkedLinked
<1> HIDE DEF last
<1>7. BlocksOK(last, g, s, f, cmds)
  BY <1>1, <1>3, <1>6 DEF BlocksOK, s
<1>8. free \in Nat /\ IF set.valid[w] THEN free > C.bus_free ELSE free = C.bus_free
  <2>1. C.bus_free \in Nat
    BY <1>2 DEF CacheType
  <2> QED
    <3> DEFINE x == C.bus_free
               y == t + start
    <3>1. x \in Nat /\ y \in Int
      BY <2>1
    <3> HIDE DEF x, y
    <3>2. Max2(x, y) \in Nat /\ Max2(x, y) + 1 > x
      BY <3>1 DEF Max2
    <3> QED
      BY <3>1, <3>2 DEF x, y
<1> HIDE DEF free
<1>9. CacheOK(cch, g, f, cmds)
  <2>1. NoBlock \in Nat /\ NULL \in 0..g.assoc /\ (NoBlock # NoBlock => NULL # NULL)
    BY <1>1 DEF NoBlock, NULL
  <2> QED
    BY <1>1, <1>6, <1>7, <1>8, <2>1, SetChanged
<1>10. r = [cache |-> cch, lower |-> fill.lower, lat |-> lat]
  BY DEF Filled, cch, free, last, new, tag, valid, dirty, ready, s, lat
<1> DEFINE out == IF IsDirty(set, w) THEN {CACHE_MK_BADDR(g, set.tag[w], s)} ELSE {}
<1>11. Accessed(C, cch, g, cmd, a, t, lat, out)
  <2>1. cch.bus_free = free /\ cch.set = [C.set EXCEPT ![s] = last]
    OBVIOUS
  <2>2. C.set \in [0..(g.nsets - 1) -> SetType(g.assoc, g.hsize)]
    BY <1>2 DEF CacheType
  <2> HIDE DEF cch
  <2>3. \A x \in 0..(g.nsets - 1) : cch.set[x] = IF x = s THEN last ELSE C.set[x]
    BY <2>1, <2>2
  <2>4. /\ C.set[s].tag = set.tag /\ C.set[s].valid = set.valid
        /\ C.set[s].ready = set.ready /\ C.set[s].dirty = set.dirty
    BY <1>2 DEF SameData
  <2>5. SameBut(C, cch, g, s, w)
    <3>1. ASSUME NEW v \in 1..g.assoc, v # w
          PROVE  /\ last.tag[v] = C.set[s].tag[v] /\ last.valid[v] = C.set[s].valid[v]
                 /\ last.ready[v] = C.set[s].ready[v] /\ last.dirty[v] = C.set[s].dirty[v]
      BY <1>3, <1>6, <2>4, <3>1
    <3> QED
      BY <2>3, <3>1 DEF SameBut
  <2>6. /\ cch.set[s].tag[w] = CACHE_TAG(g, a) /\ cch.set[s].valid[w]
        /\ cch.set[s].ready[w] = t + lat /\ (cmd = "Write" => cch.set[s].dirty[w])
    BY <1>1, <1>3, <1>6, <2>3
  <2>7. IF C.set[s].valid[w]
        THEN /\ t + start >= C.set[s].ready[w] /\ t + start >= C.bus_free
             /\ cch.bus_free > C.bus_free
        ELSE cch.bus_free = C.bus_free
    BY <1>8, <2>1, <2>4 DEF Begins
  <2>8. IsDirty(C.set[s], w) => CACHE_MK_BADDR(g, C.set[s].tag[w], s) \in out
    BY <2>4 DEF IsDirty
  <2> HIDE DEF out, free
  <2> QED
    BY <1>1, <1>2, <1>8, <2>1, <2>5, <2>6, <2>7, <2>8, FillAccessed DEF s
<1>12. r.cache = cch /\ r.lower = fill.lower /\ r.lat = lat
  BY <1>10
<1> HIDE DEF r, cch
<1> QED
  BY <1>2, <1>9, <1>10, <1>11, <1>12 DEF r, lat, s, FillDone

\* The block that a hit is on.
Hits(C, g, a) ==
  IF C.last_tagset = CACHE_BADDR(g, a) THEN {C.last_blk}
  ELSE Lookup(C.set[CACHE_SET(g, a)], g.hsize, CACHE_TAG(g, a))

\* It is the block looked for: after a fast hit too, which trusts last_blk.
LEMMA HitWay ==
  ASSUME NEW g, GeometryOK(g), NEW f, NEW cmds, NEW C, CacheOK(C, g, f, cmds), NEW a \in Nat,
         a >= g.bsize
  PROVE  \A w \in Hits(C, g, a) :
           w \in 1..g.assoc /\ Holds(C.set[CACHE_SET(g, a)], w, CACHE_TAG(g, a))
<1>1. /\ CACHE_SET(g, a) \in 0..(g.nsets - 1) /\ CACHE_TAG(g, a) \in Nat
      /\ CACHE_BADDR(g, a) # NoBlock /\ g.assoc \in Nat
  BY Addresses DEF GeometryOK
<1>2. CASE C.last_tagset = CACHE_BADDR(g, a)
  <2>1. C.last_blk \in 0..g.assoc /\ C.last_blk # 0
    BY <1>1, <1>2 DEF CacheOK, CacheType, Remembers, NULL
  <2>2. Holds(C.set[CACHE_SET(g, a)], C.last_blk, CACHE_TAG(g, a))
    BY <1>1, <1>2, BlockStart DEF CacheOK, Remembers
  <2> QED
    BY <1>1, <1>2, <2>1, <2>2 DEF Hits
<1>3. CASE C.last_tagset # CACHE_BADDR(g, a)
  <2>1. Linked(C.set[CACHE_SET(g, a)], g, {})
    BY <1>1 DEF CacheOK
  <2>2. Lookup(C.set[CACHE_SET(g, a)], g.hsize, CACHE_TAG(g, a)) \subseteq 1..g.assoc
    BY <1>1, <2>1, LookupWays
  <2>3. Hits(C, g, a) = Lookup(C.set[CACHE_SET(g, a)], g.hsize, CACHE_TAG(g, a))
    BY <1>3 DEF Hits
  <2>4. \A w \in Lookup(C.set[CACHE_SET(g, a)], g.hsize, CACHE_TAG(g, a)) :
          Holds(C.set[CACHE_SET(g, a)], w, CACHE_TAG(g, a))
    BY DEF Lookup, Holds
  <2> QED
    BY <2>2, <2>3, <2>4
<1> QED
  BY <1>2, <1>3

-----------------------------------------------------------------------------
(* The hierarchy.                                                          *)

\* What is below cache c starts at this address.
Floor(c) == IF c # "dl2" /\ "dl2" \in machine.caches THEN Geometry("dl2").bsize ELSE 0

\* What is done to a data cache, and what to the instruction cache.
DataCmds == {"Read", "Write"}
TextCmds == {"Read"}

\* What a cache of the machine is, and the accesses made to it.
LEMMA Machine ==
  ASSUME machine \in Machines, NEW c \in machine.caches
  PROVE  /\ GeometryOK(Geometry(c)) /\ Floor(c) \in Nat /\ machine.mem_lat \in Nat /\ machine.mem_lat > 0
         /\ c \in {"il1", "dl1", "dl2"} /\ "dl1" \in machine.caches
         /\ machine.cmds \subseteq DataCmds
         /\ \A a \in machine.addrs \cup machine.fetches :
              /\ a \in Nat /\ a >= Geometry(c).bsize
              /\ CACHE_BADDR(Geometry(c), a) >= Floor(c)
<1>1. /\ machine.addrs \subseteq Nat /\ machine.fetches \subseteq Nat
      /\ machine.cmds \subseteq DataCmds
      /\ "dl1" \in machine.caches /\ machine.caches \subseteq {"il1", "dl1", "dl2"}
      /\ \A d \in machine.caches :
           LET g == machine.geometry[d] IN
           /\ g.policy \in {"LRU", "FIFO", "Random"} /\ g.hsize \in Nat
           /\ {g.nsets, g.assoc, g.bsize, g.hit_latency} \subseteq Nat \ {0}
           /\ \A e \in machine.caches, a \in machine.addrs \cup machine.fetches :
                CACHE_BADDR(g, a) >= machine.geometry[e].bsize
  BY MachineAssumption DEF DataCmds
<1>2. machine.mem_lat \in Nat /\ machine.mem_lat > 0
  BY TimeAssumption
<1>3. \A d \in machine.caches : GeometryOK(Geometry(d))
  BY <1>1 DEF GeometryOK, Geometry
<1>4. Floor(c) \in Nat
  BY <1>3 DEF Floor, GeometryOK
<1>5. ASSUME NEW a \in machine.addrs \cup machine.fetches
      PROVE  a \in Nat /\ a >= Geometry(c).bsize /\ CACHE_BADDR(Geometry(c), a) >= Floor(c)
  <2> DEFINE g == Geometry(c)
  <2>1. a \in Nat /\ g.bsize \in Nat \ {0} /\ CACHE_BADDR(g, a) >= g.bsize
        /\ CACHE_BADDR(g, a) \in Nat
    BY <1>1, <1>3, Addresses DEF GeometryOK, Geometry
  <2>2. a >= g.bsize
    <3> DEFINE b == g.bsize
               o == a % g.bsize
    <3>1. CACHE_BADDR(g, a) = a - o
      BY DEF CACHE_BADDR
    <3>2. b \in Nat /\ o \in Nat /\ a - o >= b /\ a \in Nat
      <4>1. b \in Nat \ {0} /\ a \in Nat
        BY <2>1
      <4> HIDE DEF b
      <4>2. a % b \in Nat
        BY <4>1, Divided
      <4> QED
        BY <2>1, <3>1, <4>1, <4>2 DEF b
    <3> HIDE DEF b, o
    <3>3. a >= b
      BY <3>2
    <3> QED
      BY <3>3 DEF b
  <2>3. CACHE_BADDR(g, a) >= Floor(c)
    <3>1. CASE c # "dl2" /\ "dl2" \in machine.caches
      BY <1>1, <3>1 DEF Floor, Geometry
    <3>2. CASE ~(c # "dl2" /\ "dl2" \in machine.caches)
      BY <2>1, <3>2 DEF Floor
    <3> QED
      BY <3>1, <3>2
  <2> QED
    BY <2>1, <2>2, <2>3
<1> QED
  BY <1>1, <1>2, <1>3, <1>4, <1>5

\* What an access to memory comes to.
MemoryDone(cmd, a, mem, r) ==
  /\ r.lower \in SUBSET Nat /\ r.lat \in Nat /\ mem \subseteq r.lower
  /\ IF cmd = "Read" THEN r.lat > 0 ELSE a \in r.lower

\* An access to memory.
LEMMA Memory ==
  ASSUME machine.mem_lat \in Nat, machine.mem_lat > 0, NEW mem \in SUBSET Nat, NEW cmd,
         NEW a \in Nat, NEW t, NEW r \in dl2_access_fn(cmd, a, mem, t)
  PROVE  MemoryDone(cmd, a, mem, r)
<1>1. r = IF cmd = "Read" THEN [lower |-> mem, lat |-> machine.mem_lat]
          ELSE [lower |-> mem \cup {a}, lat |-> 0]
  BY DEF dl2_access_fn
<1> QED
  BY <1>1 DEF MemoryDone

\* An access to the level 2 cache.
LEMMA Level2Cache ==
  ASSUME machine \in Machines, "dl2" \in machine.caches,
         NEW C, CacheOK(C, Geometry("dl2"), 0, DataCmds), NEW mem \in SUBSET Nat,
         NEW cmd \in DataCmds, NEW a \in Nat, a >= Geometry("dl2").bsize,
         NEW t \in Nat, NEW r \in cache_access(dl2_access_fn, C, Geometry("dl2"), mem, cmd, a, t)
  PROVE  /\ CacheOK(r.cache, Geometry("dl2"), 0, DataCmds) /\ r.lower \in SUBSET Nat
         /\ r.lat \in Nat /\ r.lat > 0 /\ mem \subseteq r.lower
         /\ \E out \in SUBSET r.lower : Accessed(C, r.cache, Geometry("dl2"), cmd, a, t, r.lat, out)
<1> DEFINE g == Geometry("dl2")
           s == CACHE_SET(g, a)
           hits == Hits(C, g, a)
<1>1. /\ GeometryOK(g) /\ machine.mem_lat \in Nat /\ machine.mem_lat > 0 /\ s \in 0..(g.nsets - 1)
      /\ CACHE_BADDR(g, a) \in Nat /\ CACHE_BADDR(g, a) >= 0
  <2>1. GeometryOK(g) /\ machine.mem_lat \in Nat /\ machine.mem_lat > 0
    BY Machine
  <2> QED
    BY <2>1, Addresses
<1>2. \A w \in hits : w \in 1..g.assoc /\ Holds(C.set[s], w, CACHE_TAG(g, a))
  BY <1>1, HitWay
<1>3. IF hits # {} THEN r = CacheHit(C, g, mem, cmd, a, t, CHOOSE w \in hits : TRUE)
      ELSE r \in CacheMiss(dl2_access_fn, C, g, mem, cmd, a, t)
  BY DEF cache_access, Hits
<1> HIDE DEF g, hits
<1>4. CASE hits # {}
  <2>1. PICK w \in 1..g.assoc : /\ r = CacheHit(C, g, mem, cmd, a, t, w)
                                /\ Holds(C.set[s], w, CACHE_TAG(g, a))
    BY <1>2, <1>3, <1>4
  <2>2. cmd \in DataCmds /\ CacheOK(C, g, 0, DataCmds)
    BY DEF g
  <2>3. /\ CacheOK(r.cache, g, 0, DataCmds) /\ r.lower = mem /\ r.lat \in Nat /\ r.lat > 0
        /\ Accessed(C, r.cache, g, cmd, a, t, r.lat, {})
    <3>1. HitDone(C, g, 0, DataCmds, mem, cmd, a, t, r)
      BY <1>1, <2>1, <2>2, HitOK
    <3> QED
      BY <3>1 DEF HitDone
  <2> QED
    BY <2>3 DEF g
<1>5. CASE hits = {}
  <2>1. PICK v \in Replaced(C.set[s], g) :
          LET w     == v.blk
              set   == unlink_htab_ent(v.set, g.hsize, w)
              start == Stalls(C, set, w, t)
              writebacks ==
                IF IsDirty(set, w)
                THEN dl2_access_fn("Write", CACHE_MK_BADDR(g, set.tag[w], s), mem, t + start)
                ELSE {[lower |-> mem, lat |-> 0]}
          IN \E wb \in writebacks :
               \E fill \in dl2_access_fn("Read", CACHE_BADDR(g, a), wb.lower, t + start + wb.lat) :
                 r = Filled(C, g, set, w, cmd, a, t, start, wb, fill)
    BY <1>3, <1>5 DEF CacheMiss
  <2> DEFINE w     == v.blk
             set   == unlink_htab_ent(v.set, g.hsize, w)
             start == Stalls(C, set, w, t)
             out   == IF IsDirty(set, w) THEN {CACHE_MK_BADDR(g, set.tag[w], s)} ELSE {}
  <2>2. PICK wb \in IF IsDirty(set, w)
                    THEN dl2_access_fn("Write", CACHE_MK_BADDR(g, set.tag[w], s), mem, t + start)
                    ELSE {[lower |-> mem, lat |-> 0]} :
          \E fill \in dl2_access_fn("Read", CACHE_BADDR(g, a), wb.lower, t + start + wb.lat) :
            r = Filled(C, g, set, w, cmd, a, t, start, wb, fill)
    BY <2>1
  <2>3. /\ w \in 1..g.assoc /\ Linked(set, g, {w}) /\ BlocksOK(set, g, s, 0, DataCmds)
        /\ start \in Nat /\ SameData(C.set[s], set) /\ Begins(C, set, w, t + start)
        /\ IsDirty(set, w) => CACHE_MK_BADDR(g, set.tag[w], s) \in Nat
    BY <1>1, VictimOK DEF g
  <2> HIDE DEF w, set, start
  <2>4. wb.lat \in Nat /\ wb.lower \in SUBSET Nat /\ mem \subseteq wb.lower /\ out \subseteq wb.lower
    <3>1. CASE IsDirty(set, w)
      <4>1. wb \in dl2_access_fn("Write", CACHE_MK_BADDR(g, set.tag[w], s), mem, t + start)
        BY <2>2, <3>1
      <4> DEFINE b == CACHE_MK_BADDR(g, set.tag[w], s)
      <4>2. b \in Nat /\ out = {b}
        BY <2>3, <3>1
      <4> HIDE DEF b, out
      <4>3. MemoryDone("Write", b, mem, wb)
        BY <1>1, <4>1, <4>2, Memory DEF b
      <4> QED
        BY <4>2, <4>3 DEF MemoryDone
    <3>2. CASE ~IsDirty(set, w)
      <4>1. wb = [lower |-> mem, lat |-> 0] /\ out = {}
        BY <2>2, <3>2
      <4> QED
        BY <4>1
    <3> QED
      BY <3>1, <3>2
  <2>5. PICK fill \in dl2_access_fn("Read", CACHE_BADDR(g, a), wb.lower, t + start + wb.lat) :
          r = Filled(C, g, set, w, cmd, a, t, start, wb, fill)
    BY <2>2
  <2>6. fill.lat \in Nat /\ fill.lat > 0 /\ fill.lower \in SUBSET Nat /\ wb.lower \subseteq fill.lower
    <3>1. MemoryDone("Read", CACHE_BADDR(g, a), wb.lower, fill)
      BY <1>1, <2>4, <2>5, Memory
    <3> QED
      BY <3>1 DEF MemoryDone
  <2>7. 0 \in Nat /\ cmd \in DataCmds /\ CacheOK(C, g, 0, DataCmds)
    BY DEF g
  <2>8. /\ CacheOK(r.cache, g, 0, DataCmds) /\ r.lower = fill.lower
        /\ r.lat \in Nat /\ r.lat > 0 /\ Accessed(C, r.cache, g, cmd, a, t, r.lat, out)
    <3>1. FillDone(C, g, 0, DataCmds, cmd, a, t, start, set, w, wb, fill, r)
      <4>1. CACHE_BADDR(g, a) \in Nat /\ CACHE_BADDR(g, a) >= 0
        BY <1>1
      <4> QED
        BY <1>1, <2>3, <2>4, <2>5, <2>6, <2>7, <4>1, FilledOK
    <3> QED
      BY <3>1 DEF FillDone
  <2> HIDE DEF out
  <2>9. out \in SUBSET r.lower /\ mem \subseteq r.lower
    BY <2>4, <2>6, <2>8
  <2> QED
    BY <2>6, <2>8, <2>9 DEF g
<1> QED
  BY <1>4, <1>5

\* The states of what is below level 1, and what an access to it may come to.
Belows ==
  [dl2 : IF "dl2" \in machine.caches
         THEN {C \in CacheType(Geometry("dl2")) : CacheOK(C, Geometry("dl2"), 0, DataCmds)}
         ELSE {NULL},
   mem : SUBSET Nat]

Outcomes == [lower : Belows, lat : Nat]

\* What was written to address x is in memory or will be written back to it by level 2.
Secured(B, x) ==
  \/ \E c \in machine.caches : CACHE_BADDR(Geometry(c), x) \in B.mem
  \/ "dl2" \in machine.caches /\ Pending(B.dl2, Geometry("dl2"), x)

\* Accesses to what is below level 1 have made E of B.
Later(B, E) ==
  /\ "dl2" \in machine.caches => Waited(B.dl2, E.dl2, Geometry("dl2"))
  /\ \A x \in Nat : Secured(B, x) => Secured(E, x)

\* One access may follow another.
LEMMA LaterOn ==
  ASSUME machine \in Machines, NEW B \in Belows, NEW D \in Belows, NEW E \in Belows,
         Later(B, D), Later(D, E)
  PROVE  Later(B, E)
<1>1. ASSUME "dl2" \in machine.caches PROVE Waited(B.dl2, E.dl2, Geometry("dl2"))
  <2> DEFINE g == Geometry("dl2")
  <2>1. GeometryOK(g)
    BY <1>1, Machine
  <2>2. B.dl2 \in CacheType(g) /\ D.dl2 \in CacheType(g) /\ E.dl2 \in CacheType(g)
    BY <1>1 DEF Belows
  <2>3. Waited(B.dl2, D.dl2, g) /\ Waited(D.dl2, E.dl2, g)
    BY <1>1 DEF Later
  <2> HIDE DEF g
  <2>4. Waited(B.dl2, E.dl2, g)
    BY <2>1, <2>2, <2>3, WaitedOn
  <2> QED
    BY <2>4 DEF g
<1> QED
  BY <1>1 DEF Later

\* None may have been made.
LEMMA LaterSame ==
  ASSUME machine \in Machines, NEW B \in Belows
  PROVE  Later(B, B)
<1>1. ASSUME "dl2" \in machine.caches PROVE Waited(B.dl2, B.dl2, Geometry("dl2"))
  <2> DEFINE g == Geometry("dl2")
             C == B.dl2
  <2>1. C \in CacheType(g)
    BY <1>1 DEF Belows
  <2> HIDE DEF g, C
  <2>2. C.bus_free \in Nat /\ C.set \in [0..(g.nsets - 1) -> SetType(g.assoc, g.hsize)]
    BY <2>1 DEF CacheType
  <2>3. \A s \in 0..(g.nsets - 1), w \in 1..g.assoc : C.set[s].ready[w] \in Nat
    BY <2>2 DEF SetType
  <2>4. C.bus_free >= C.bus_free
    BY <2>2
  <2>5. \A s \in 0..(g.nsets - 1), w \in 1..g.assoc : C.set[s].ready[w] >= C.set[s].ready[w]
    <3>1. \A x \in Nat : x >= x
      OBVIOUS
    <3> QED
      BY <2>3, <3>1
  <2>6. Waited(C, C, g)
    BY <2>4, <2>5 DEF Waited
  <2> QED
    BY <2>6 DEF g, C
<1> QED
  BY <1>1 DEF Later

\* What an access to block a below level 1, at time t, comes to: a block read is in level 2
\* when the access is over, one written is secured.
AccessedBelow(B, cmd, a, t, r) ==
  /\ r \in Outcomes /\ Later(B, r.lower)
  /\ cmd = "Read" =>
       /\ r.lat > 0
       /\ "dl2" \in machine.caches => There(r.lower.dl2, Geometry("dl2"), a, t + r.lat)
  /\ cmd = "Write" => \A x \in Nat : CACHE_BADDR(Geometry("dl1"), x) = a => Secured(r.lower, x)

\* An access below level 1 leaves what is below well formed.
LEMMA Level2OK ==
  ASSUME machine \in Machines, NEW B \in Belows, NEW cmd \in DataCmds,
         NEW a \in Nat, a >= Floor("dl1"), NEW t \in Nat, NEW r \in Level2(cmd, a, B, t)
  PROVE  AccessedBelow(B, cmd, a, t, r)
<1>0. "dl1" \in machine.caches
  BY MachineAssumption
<1>1. CASE "dl2" \in machine.caches
  <2> DEFINE g == Geometry("dl2")
  <2>1. B.dl2 \in {C \in CacheType(g) : CacheOK(C, g, 0, DataCmds)} /\ B.mem \in SUBSET Nat
    BY <1>1 DEF Belows
  <2>2. PICK q \in cache_access(dl2_access_fn, B.dl2, g, B.mem, cmd, a, t) :
          r = [lower |-> [dl2 |-> q.cache, mem |-> q.lower], lat |-> q.lat]
    BY <1>1 DEF Level2, cache_access_dl2
  <2>3. a >= Geometry("dl2").bsize
    BY <1>1 DEF Floor
  <2>4. /\ CacheOK(q.cache, g, 0, DataCmds) /\ q.lower \in SUBSET Nat
        /\ q.lat \in Nat /\ q.lat > 0 /\ B.mem \subseteq q.lower
        /\ \E out \in SUBSET q.lower : Accessed(B.dl2, q.cache, g, cmd, a, t, q.lat, out)
    BY <1>1, <2>1, <2>2, <2>3, Level2Cache
  <2>5. PICK out \in SUBSET q.lower : Accessed(B.dl2, q.cache, g, cmd, a, t, q.lat, out)
    BY <2>4
  <2>6. q.cache \in CacheType(g)
    BY <2>4 DEF CacheOK
  <2>7. [dl2 |-> q.cache, mem |-> q.lower] \in Belows
    BY <1>1, <2>4, <2>6 DEF Belows
  <2>8. r \in Outcomes /\ r.lower.dl2 = q.cache /\ r.lower.mem = q.lower /\ r.lat = q.lat
    BY <2>2, <2>4, <2>7 DEF Outcomes
  <2>9. ASSUME NEW x \in Nat, Secured(B, x) PROVE Secured(r.lower, x)
    <3>1. CASE \E c \in machine.caches : CACHE_BADDR(Geometry(c), x) \in B.mem
      BY <2>4, <2>8, <3>1 DEF Secured
    <3>2. CASE Pending(B.dl2, g, x)
      <4>1. Pending(q.cache, g, x) \/ CACHE_BADDR(g, x) \in out
        BY <2>5, <3>2 DEF Accessed
      <4> QED
        BY <1>1, <2>5, <2>8, <4>1 DEF Secured
    <3> QED
      BY <2>9, <3>1, <3>2 DEF Secured
  <2>10. Later(B, r.lower)
    BY <2>5, <2>8, <2>9 DEF Later, Accessed
  <2>11. There(r.lower.dl2, g, a, t + r.lat)
    BY <2>5, <2>8 DEF Accessed
  <2>12. ASSUME cmd = "Write", NEW x \in Nat, CACHE_BADDR(Geometry("dl1"), x) = a
         PROVE  Secured(r.lower, x)
    <3> DEFINE h == Geometry("dl1")
    <3>1. GeometryOK(g) /\ GeometryOK(h)
      BY <1>0, <1>1, Machine
    <3>2. g.bsize % h.bsize = 0
      BY <1>0, <1>1, MachineAssumption DEF Geometry
    <3>3. CACHE_BADDR(g, CACHE_BADDR(h, x)) = CACHE_BADDR(g, x)
      <4> HIDE DEF g, h
      <4> QED
        BY <3>1, <3>2, BlockInBlock
    <3>4. CACHE_SET(g, a) = CACHE_SET(g, x) /\ CACHE_TAG(g, a) = CACHE_TAG(g, x)
      <4>1. CACHE_BADDR(g, a) = CACHE_BADDR(g, x)
        BY <2>12, <3>3
      <4> HIDE DEF g, h
      <4> QED
        BY <3>1, <4>1, SameBlock
    <3>5. Pending(r.lower.dl2, g, a)
      BY <2>5, <2>8, <2>12 DEF Accessed
    <3>6. Pending(r.lower.dl2, g, x)
      BY <3>4, <3>5 DEF Pending
    <3> QED
      BY <1>1, <3>6 DEF Secured
  <2> QED
    BY <2>4, <2>8, <2>10, <2>11, <2>12 DEF AccessedBelow
<1>2. CASE "dl2" \notin machine.caches
  <2>1. PICK q \in dl2_access_fn(cmd, a, B.mem, t) :
          r = [lower |-> [B EXCEPT !.mem = q.lower], lat |-> q.lat]
    BY <1>2 DEF Level2
  <2>2. B \in [dl2 : {NULL}, mem : SUBSET Nat]
    BY <1>2 DEF Belows
  <2>3. machine.mem_lat \in Nat /\ machine.mem_lat > 0
    BY TimeAssumption
  <2>4. B.mem \in SUBSET Nat
    BY <2>2
  <2>5. /\ q.lower \in SUBSET Nat /\ q.lat \in Nat /\ B.mem \subseteq q.lower
        /\ (cmd = "Read" => q.lat > 0) /\ (cmd # "Read" => a \in q.lower)
    <3>1. MemoryDone(cmd, a, B.mem, q)
      BY <2>1, <2>3, <2>4, Memory
    <3> QED
      BY <3>1 DEF MemoryDone
  <2>6. [B EXCEPT !.mem = q.lower] \in [dl2 : {NULL}, mem : SUBSET Nat]
    BY <2>2, <2>5
  <2>7. r \in Outcomes /\ r.lower.mem = q.lower /\ r.lat = q.lat
    BY <1>2, <2>1, <2>2, <2>5, <2>6 DEF Belows, Outcomes
  <2>8. \A x \in Nat : Secured(B, x) => Secured(r.lower, x)
    BY <1>2, <2>5, <2>7 DEF Secured
  <2>9. ASSUME cmd = "Write", NEW x \in Nat, CACHE_BADDR(Geometry("dl1"), x) = a
        PROVE  Secured(r.lower, x)
    <3>1. CACHE_BADDR(Geometry("dl1"), x) \in r.lower.mem
      BY <2>5, <2>7, <2>9
    <3> QED
      BY <1>0, <3>1 DEF Secured
  <2> QED
    BY <1>2, <2>5, <2>7, <2>8, <2>9 DEF AccessedBelow, Later
<1> QED
  BY <1>1, <1>2

\* So does a miss of the level 1 data cache.
LEMMA DL1Below ==
  ASSUME machine \in Machines, NEW B \in Belows, NEW cmd \in DataCmds,
         NEW a \in Nat, a >= Floor("dl1"), NEW t \in Nat, NEW r \in dl1_access_fn(cmd, a, B, t)
  PROVE  AccessedBelow(B, cmd, a, t, r)
<1>1. PICK q \in Level2(cmd, a, B, t) : r = IF cmd = "Read" THEN q ELSE [q EXCEPT !.lat = 0]
  BY DEF dl1_access_fn
<1>2. AccessedBelow(B, cmd, a, t, q)
  BY Level2OK
<1>3. CASE cmd = "Read"
  BY <1>1, <1>2, <1>3
<1>4. CASE cmd # "Read"
  <2>1. q \in Outcomes
    BY <1>2 DEF AccessedBelow
  <2>2. r = [q EXCEPT !.lat = 0]
    BY <1>1, <1>4
  <2>3. r \in Outcomes /\ r.lower = q.lower
    BY <2>1, <2>2 DEF Outcomes
  <2> QED
    BY <1>2, <1>4, <2>3 DEF AccessedBelow
<1> QED
  BY <1>3, <1>4

\* An access to a level 1 cache makes D of it, and E of what is below it: what is replaced
\* waits, what was written is not lost, and a block that comes in is there in level 2.
Moved(C, D, g, B, E) ==
  /\ Waited(C, D, g) /\ Later(B, E)
  /\ \A x \in Nat : Pending(C, g, x) => Pending(D, g, x) \/ Secured(E, x)
  /\ "dl2" \in machine.caches =>
       \A s \in 0..(g.nsets - 1), w \in 1..g.assoc :
         D.set[s].tag[w] # C.set[s].tag[w] =>
           There(E.dl2, Geometry("dl2"), CACHE_MK_BADDR(g, D.set[s].tag[w], s), D.set[s].ready[w])

\* A hit moves nothing.
LEMMA HitMoved ==
  ASSUME NEW g, NEW C, NEW D, NEW B, Later(B, B), NEW cmd, NEW a, NEW t, NEW lat,
         Accessed(C, D, g, cmd, a, t, lat, {}),
         \A s \in 0..(g.nsets - 1), w \in 1..g.assoc : D.set[s].tag[w] = C.set[s].tag[w]
  PROVE  Moved(C, D, g, B, B)
BY DEF Moved, Accessed

\* A miss moves the victim down, then the block up.
LEMMA MissMoved ==
  ASSUME NEW g, GeometryOK(g), NEW C, NEW D, NEW B, NEW E, Later(B, E), NEW cmd, NEW a \in Nat,
         NEW t, NEW lat, NEW out, Accessed(C, D, g, cmd, a, t, lat, out),
         \A x \in Nat : CACHE_BADDR(g, x) \in out => Secured(E, x),
         "dl2" \in machine.caches => There(E.dl2, Geometry("dl2"), CACHE_BADDR(g, a), t + lat)
  PROVE  Moved(C, D, g, B, E)
<1>1. ASSUME "dl2" \in machine.caches, NEW s \in 0..(g.nsets - 1), NEW w \in 1..g.assoc,
             D.set[s].tag[w] # C.set[s].tag[w]
      PROVE  There(E.dl2, Geometry("dl2"), CACHE_MK_BADDR(g, D.set[s].tag[w], s),
                   D.set[s].ready[w])
  <2>1. s = CACHE_SET(g, a) /\ D.set[s].tag[w] = CACHE_TAG(g, a) /\ D.set[s].ready[w] = t + lat
    BY <1>1 DEF Accessed
  <2>2. CACHE_MK_BADDR(g, D.set[s].tag[w], s) = CACHE_BADDR(g, a)
    BY <2>1, Addresses
  <2> QED
    BY <1>1, <2>1, <2>2
<1>2. Waited(C, D, g)
      /\ \A x \in Nat : Pending(C, g, x) => Pending(D, g, x) \/ CACHE_BADDR(g, x) \in out
  BY DEF Accessed
<1> QED
  BY <1>1, <1>2 DEF Moved

\* An access to the level 1 data cache.
LEMMA DataCache ==
  ASSUME machine \in Machines, NEW C, CacheOK(C, Geometry("dl1"), Floor("dl1"), DataCmds),
         NEW B \in Belows, NEW cmd \in DataCmds, NEW a \in Nat, a >= Geometry("dl1").bsize,
         CACHE_BADDR(Geometry("dl1"), a) >= Floor("dl1"), NEW t \in Nat,
         NEW r \in cache_access(dl1_access_fn, C, Geometry("dl1"), B, cmd, a, t)
  PROVE  /\ CacheOK(r.cache, Geometry("dl1"), Floor("dl1"), DataCmds) /\ r.lower \in Belows
         /\ Moved(C, r.cache, Geometry("dl1"), B, r.lower)
<1> DEFINE g == Geometry("dl1")
           f == Floor("dl1")
           s == CACHE_SET(g, a)
           hits == Hits(C, g, a)
<1>1. /\ GeometryOK(g) /\ f \in Nat /\ s \in 0..(g.nsets - 1)
      /\ CACHE_BADDR(g, a) \in Nat /\ CACHE_BADDR(g, a) >= f
  <2>1. "dl1" \in machine.caches
    BY MachineAssumption
  <2>2. GeometryOK(g) /\ f \in Nat
    BY <2>1, Machine
  <2> QED
    BY <2>2, Addresses
<1>2. CacheOK(C, g, f, DataCmds) /\ a >= g.bsize
  OBVIOUS
<1>3. IF hits # {} THEN r = CacheHit(C, g, B, cmd, a, t, CHOOSE w \in hits : TRUE)
      ELSE r \in CacheMiss(dl1_access_fn, C, g, B, cmd, a, t)
  BY DEF cache_access, Hits
<1> HIDE DEF g, f, hits
<1>4. \A w \in hits : w \in 1..g.assoc /\ Holds(C.set[s], w, CACHE_TAG(g, a))
  BY <1>1, <1>2, HitWay DEF hits
<1>5. CASE hits # {}
  <2>1. PICK w \in 1..g.assoc : /\ r = CacheHit(C, g, B, cmd, a, t, w)
                                /\ Holds(C.set[s], w, CACHE_TAG(g, a))
    BY <1>3, <1>4, <1>5
  <2>2. /\ CacheOK(r.cache, g, f, DataCmds) /\ r.lower = B
        /\ Accessed(C, r.cache, g, cmd, a, t, r.lat, {})
        /\ \A x \in 0..(g.nsets - 1), v \in 1..g.assoc : r.cache.set[x].tag[v] = C.set[x].tag[v]
    <3>1. HitDone(C, g, f, DataCmds, B, cmd, a, t, r)
      BY <1>1, <1>2, <2>1, HitOK
    <3> QED
      BY <3>1 DEF HitDone
  <2>3. Moved(C, r.cache, g, B, B)
    BY <2>2, LaterSame, HitMoved
  <2> QED
    BY <2>2, <2>3 DEF g, f
<1>6. CASE hits = {}
  <2>1. PICK v \in Replaced(C.set[s], g) :
          LET w     == v.blk
              set   == unlink_htab_ent(v.set, g.hsize, w)
              start == Stalls(C, set, w, t)
              writebacks ==
                IF IsDirty(set, w)
                THEN dl1_access_fn("Write", CACHE_MK_BADDR(g, set.tag[w], s), B, t + start)
                ELSE {[lower |-> B, lat |-> 0]}
          IN \E wb \in writebacks :
               \E fill \in dl1_access_fn("Read", CACHE_BADDR(g, a), wb.lower, t + start + wb.lat) :
                 r = Filled(C, g, set, w, cmd, a, t, start, wb, fill)
    BY <1>3, <1>6 DEF CacheMiss
  <2> DEFINE w     == v.blk
             set   == unlink_htab_ent(v.set, g.hsize, w)
             start == Stalls(C, set, w, t)
             out   == IF IsDirty(set, w) THEN {CACHE_MK_BADDR(g, set.tag[w], s)} ELSE {}
  <2>2. PICK wb \in IF IsDirty(set, w)
                    THEN dl1_access_fn("Write", CACHE_MK_BADDR(g, set.tag[w], s), B, t + start)
                    ELSE {[lower |-> B, lat |-> 0]} :
          \E fill \in dl1_access_fn("Read", CACHE_BADDR(g, a), wb.lower, t + start + wb.lat) :
            r = Filled(C, g, set, w, cmd, a, t, start, wb, fill)
    BY <2>1
  <2>3. /\ w \in 1..g.assoc /\ Linked(set, g, {w}) /\ BlocksOK(set, g, s, f, DataCmds)
        /\ start \in Nat /\ SameData(C.set[s], set) /\ Begins(C, set, w, t + start)
        /\ IsDirty(set, w) => /\ CACHE_MK_BADDR(g, set.tag[w], s) \in Nat
                              /\ CACHE_MK_BADDR(g, set.tag[w], s) >= f
    BY <1>1, <1>2, VictimOK
  <2> HIDE DEF w, set, start
  <2>4. /\ wb.lat \in Nat /\ wb.lower \in Belows /\ Later(B, wb.lower)
        /\ \A x \in Nat : CACHE_BADDR(g, x) \in out => Secured(wb.lower, x)
    <3>1. CASE IsDirty(set, w)
      <4> DEFINE b == CACHE_MK_BADDR(g, set.tag[w], s)
      <4>1. /\ "Write" \in DataCmds /\ t + start \in Nat /\ b \in Nat /\ b >= Floor("dl1")
            /\ wb \in dl1_access_fn("Write", b, B, t + start) /\ out = {b}
        BY <2>2, <2>3, <3>1 DEF DataCmds, f
      <4> HIDE DEF b, out
      <4>2. AccessedBelow(B, "Write", b, t + start, wb)
        BY <4>1, DL1Below
      <4> QED
        BY <4>1, <4>2 DEF AccessedBelow, Outcomes, g
    <3>2. CASE ~IsDirty(set, w)
      <4>1. wb = [lower |-> B, lat |-> 0] /\ out = {}
        BY <2>2, <3>2
      <4> QED
        BY <4>1, LaterSame
    <3> QED
      BY <3>1, <3>2
  <2>5. PICK fill \in dl1_access_fn("Read", CACHE_BADDR(g, a), wb.lower, t + start + wb.lat) :
          r = Filled(C, g, set, w, cmd, a, t, start, wb, fill)
    BY <2>2
  <2> DEFINE now == t + start + wb.lat
  <2>6. /\ fill.lat \in Nat /\ fill.lat > 0 /\ fill.lower \in Belows /\ Later(wb.lower, fill.lower)
        /\ "dl2" \in machine.caches =>
             There(fill.lower.dl2, Geometry("dl2"), CACHE_BADDR(g, a), now + fill.lat)
    <3>1. "Read" \in DataCmds /\ now \in Nat
      BY <2>3, <2>4 DEF DataCmds
    <3> HIDE DEF now
    <3>2. AccessedBelow(wb.lower, "Read", CACHE_BADDR(g, a), now, fill)
      BY <1>1, <2>4, <2>5, <3>1, DL1Below DEF f, now
    <3> QED
      BY <3>2 DEF AccessedBelow, Outcomes
  <2>7. /\ CacheOK(r.cache, g, f, DataCmds) /\ r.lower = fill.lower
        /\ r.lat = start + wb.lat + fill.lat
        /\ Accessed(C, r.cache, g, cmd, a, t, r.lat, out)
    <3>1. FillDone(C, g, f, DataCmds, cmd, a, t, start, set, w, wb, fill, r)
      <4>1. CACHE_BADDR(g, a) \in Nat /\ CACHE_BADDR(g, a) >= f
        BY <1>1
      <4> QED
        BY <1>1, <1>2, <2>3, <2>4, <2>5, <2>6, <4>1, FilledOK
    <3> QED
      BY <3>1 DEF FillDone
  <2> HIDE DEF out
  <2>8. Later(B, r.lower) /\ \A x \in Nat : CACHE_BADDR(g, x) \in out => Secured(r.lower, x)
    <3>1. Later(B, fill.lower)
      BY <2>4, <2>6, LaterOn
    <3> QED
      BY <2>4, <2>6, <2>7, <3>1 DEF Later
  <2>9. t + r.lat = now + fill.lat
    BY <2>3, <2>4, <2>6, <2>7
  <2>10. Moved(C, r.cache, g, B, r.lower)
    BY <1>1, <2>6, <2>7, <2>8, <2>9, MissMoved
  <2> QED
    BY <2>6, <2>7, <2>10 DEF g, f
<1> QED
  BY <1>5, <1>6

\* An access to the instruction cache, which never writes back.
LEMMA TextCache ==
  ASSUME machine \in Machines, "il1" \in machine.caches,
         NEW C, CacheOK(C, Geometry("il1"), Floor("il1"), TextCmds),
         NEW B \in Belows, NEW a \in Nat, a >= Geometry("il1").bsize,
         CACHE_BADDR(Geometry("il1"), a) >= Floor("il1"), NEW t \in Nat,
         NEW r \in cache_access(il1_access_fn, C, Geometry("il1"), B, "Read", a, t)
  PROVE  /\ CacheOK(r.cache, Geometry("il1"), Floor("il1"), TextCmds) /\ r.lower \in Belows
         /\ Moved(C, r.cache, Geometry("il1"), B, r.lower)
<1> DEFINE g == Geometry("il1")
           f == Floor("il1")
           s == CACHE_SET(g, a)
           hits == Hits(C, g, a)
<1>1. /\ GeometryOK(g) /\ f \in Nat /\ s \in 0..(g.nsets - 1)
      /\ CACHE_BADDR(g, a) \in Nat /\ CACHE_BADDR(g, a) >= f
  <2>1. GeometryOK(g) /\ f \in Nat
    BY Machine
  <2> QED
    BY <2>1, Addresses
<1>2. CacheOK(C, g, f, TextCmds) /\ a >= g.bsize /\ "Read" \in TextCmds
  BY DEF TextCmds
<1>3. IF hits # {} THEN r = CacheHit(C, g, B, "Read", a, t, CHOOSE w \in hits : TRUE)
      ELSE r \in CacheMiss(il1_access_fn, C, g, B, "Read", a, t)
  BY DEF cache_access, Hits
<1> HIDE DEF g, f, hits
<1>4. \A w \in hits : w \in 1..g.assoc /\ Holds(C.set[s], w, CACHE_TAG(g, a))
  BY <1>1, <1>2, HitWay DEF hits
<1>5. CASE hits # {}
  <2>1. PICK w \in 1..g.assoc : /\ r = CacheHit(C, g, B, "Read", a, t, w)
                                /\ Holds(C.set[s], w, CACHE_TAG(g, a))
    BY <1>3, <1>4, <1>5
  <2>2. /\ CacheOK(r.cache, g, f, TextCmds) /\ r.lower = B
        /\ Accessed(C, r.cache, g, "Read", a, t, r.lat, {})
        /\ \A x \in 0..(g.nsets - 1), v \in 1..g.assoc : r.cache.set[x].tag[v] = C.set[x].tag[v]
    <3>1. HitDone(C, g, f, TextCmds, B, "Read", a, t, r)
      BY <1>1, <1>2, <2>1, HitOK
    <3> QED
      BY <3>1 DEF HitDone
  <2>3. Moved(C, r.cache, g, B, B)
    BY <2>2, LaterSame, HitMoved
  <2> QED
    BY <2>2, <2>3 DEF g, f
<1>6. CASE hits = {}
  <2>1. PICK v \in Replaced(C.set[s], g) :
          LET w     == v.blk
              set   == unlink_htab_ent(v.set, g.hsize, w)
              start == Stalls(C, set, w, t)
              writebacks ==
                IF IsDirty(set, w)
                THEN il1_access_fn("Write", CACHE_MK_BADDR(g, set.tag[w], s), B, t + start)
                ELSE {[lower |-> B, lat |-> 0]}
          IN \E wb \in writebacks :
               \E fill \in il1_access_fn("Read", CACHE_BADDR(g, a), wb.lower, t + start + wb.lat) :
                 r = Filled(C, g, set, w, "Read", a, t, start, wb, fill)
    BY <1>3, <1>6 DEF CacheMiss
  <2> DEFINE w     == v.blk
             set   == unlink_htab_ent(v.set, g.hsize, w)
             start == Stalls(C, set, w, t)
             out   == IF IsDirty(set, w) THEN {CACHE_MK_BADDR(g, set.tag[w], s)} ELSE {}
  <2>2. PICK wb \in IF IsDirty(set, w)
                    THEN il1_access_fn("Write", CACHE_MK_BADDR(g, set.tag[w], s), B, t + start)
                    ELSE {[lower |-> B, lat |-> 0]} :
          \E fill \in il1_access_fn("Read", CACHE_BADDR(g, a), wb.lower, t + start + wb.lat) :
            r = Filled(C, g, set, w, "Read", a, t, start, wb, fill)
    BY <2>1
  <2>3. /\ w \in 1..g.assoc /\ Linked(set, g, {w}) /\ BlocksOK(set, g, s, f, TextCmds)
        /\ start \in Nat /\ SameData(C.set[s], set) /\ Begins(C, set, w, t + start)
        /\ IsDirty(set, w) => "Write" \in TextCmds
    BY <1>1, <1>2, VictimOK
  <2> HIDE DEF w, set, start
  <2>4. wb = [lower |-> B, lat |-> 0] /\ out = {}
    BY <2>2, <2>3 DEF TextCmds
  <2>5. PICK fill \in il1_access_fn("Read", CACHE_BADDR(g, a), wb.lower, t + start + wb.lat) :
          r = Filled(C, g, set, w, "Read", a, t, start, wb, fill)
    BY <2>2
  <2>6. wb.lat \in Nat /\ wb.lower = B
    BY <2>4
  <2> DEFINE now == t + start + wb.lat
  <2>7. /\ fill.lat \in Nat /\ fill.lat > 0 /\ fill.lower \in Belows /\ Later(B, fill.lower)
        /\ "dl2" \in machine.caches =>
             There(fill.lower.dl2, Geometry("dl2"), CACHE_BADDR(g, a), now + fill.lat)
    <3>1. "Read" \in DataCmds /\ now \in Nat
      BY <2>3, <2>6 DEF DataCmds
    <3>2. fill \in Level2("Read", CACHE_BADDR(g, a), B, now)
      BY <2>5, <2>6 DEF il1_access_fn
    <3> HIDE DEF now
    <3>3. f = Floor("dl1")
      BY DEF f, Floor
    <3>4. AccessedBelow(B, "Read", CACHE_BADDR(g, a), now, fill)
      BY <1>1, <3>1, <3>2, <3>3, Level2OK
    <3> QED
      BY <3>4 DEF AccessedBelow, Outcomes
  <2>8. /\ CacheOK(r.cache, g, f, TextCmds) /\ r.lower = fill.lower
        /\ r.lat = start + wb.lat + fill.lat
        /\ Accessed(C, r.cache, g, "Read", a, t, r.lat, out)
    <3>1. FillDone(C, g, f, TextCmds, "Read", a, t, start, set, w, wb, fill, r)
      <4>1. CACHE_BADDR(g, a) \in Nat /\ CACHE_BADDR(g, a) >= f
        BY <1>1
      <4> QED
        BY <1>1, <1>2, <2>3, <2>5, <2>6, <2>7, <4>1, FilledOK
    <3> QED
      BY <3>1 DEF FillDone
  <2>9. t + r.lat = now + fill.lat
    BY <2>3, <2>6, <2>7, <2>8
  <2> HIDE DEF out
  <2>10. Moved(C, r.cache, g, B, r.lower)
    BY <1>1, <2>4, <2>7, <2>8, <2>9, MissMoved
  <2> QED
    BY <2>7, <2>8, <2>10 DEF g, f
<1> QED
  BY <1>5, <1>6

-----------------------------------------------------------------------------
(* Flushes.                                                                *)

\* Blocks written back leave what is below well formed.
LEMMA WrittenBack ==
  ASSUME machine \in Machines, NEW blks, NEW n \in Nat, n = Len(blks),
         \A i \in 1..n : blks[i] \in Nat /\ blks[i] >= Floor("dl1"),
         NEW B \in Belows, NEW t \in Nat
  PROVE  \A r \in WriteBacks(blks, B, t) :
           /\ r \in Outcomes /\ Later(B, r.lower)
           /\ \A i \in 1..n, x \in Nat :
                CACHE_BADDR(Geometry("dl1"), x) = blks[i] => Secured(r.lower, x)
<1> DEFINE Back(i, u) == UNION {{[lower |-> r.lower, lat |-> done.lat + r.lat] :
                                   r \in dl1_access_fn("Write", blks[i], done.lower, done.lat)}
                                : done \in u}
           b == {[lower |-> B, lat |-> t]}
           Is(f) == f = [i \in 0..n |-> IF i = 0 THEN b ELSE Back(i, f[i - 1])]
           after == CHOOSE f : Is(f)
           U == SUBSET Outcomes
           Upto(i, r) ==
             /\ Later(B, r.lower)
             /\ \A j \in 1..i, x \in Nat :
                  CACHE_BADDR(Geometry("dl1"), x) = blks[j] => Secured(r.lower, x)
<1>1. WriteBacks(blks, B, t) = after[n]
  BY Zenon DEF WriteBacks
<1>2. b \in U
  BY DEF Outcomes
<1>3. ASSUME NEW i \in 1..n, NEW u \in U
      PROVE  Back(i, u) \in U /\ ((\A r \in u : Upto(i - 1, r)) => \A r \in Back(i, u) : Upto(i, r))
  <2>1. ASSUME NEW done \in u, NEW r \in dl1_access_fn("Write", blks[i], done.lower, done.lat)
        PROVE  /\ [lower |-> r.lower, lat |-> done.lat + r.lat] \in Outcomes
               /\ Upto(i - 1, done) => Upto(i, [lower |-> r.lower, lat |-> done.lat + r.lat])
    <3>1. done.lower \in Belows /\ done.lat \in Nat /\ "Write" \in DataCmds
      BY DEF Outcomes, DataCmds
    <3>2. AccessedBelow(done.lower, "Write", blks[i], done.lat, r)
      BY <3>1, DL1Below
    <3>3. /\ r \in Outcomes /\ r.lower \in Belows /\ Later(done.lower, r.lower)
          /\ \A x \in Nat : CACHE_BADDR(Geometry("dl1"), x) = blks[i] => Secured(r.lower, x)
      BY <3>2 DEF AccessedBelow, Outcomes
    <3>4. ASSUME Upto(i - 1, done) PROVE Later(B, r.lower)
      BY <3>1, <3>3, <3>4, LaterOn
    <3>5. ASSUME Upto(i - 1, done), NEW j \in 1..i, NEW x \in Nat,
                 CACHE_BADDR(Geometry("dl1"), x) = blks[j]
          PROVE  Secured(r.lower, x)
      <4>1. CASE j = i
        BY <3>3, <3>5, <4>1
      <4>2. CASE j # i
        <5>1. j \in 1..(i - 1)
          BY <4>2
        <5>2. Secured(done.lower, x)
          BY <3>5, <5>1
        <5> QED
          BY <3>3, <5>2 DEF Later
      <4> QED
        BY <4>1, <4>2
    <3> QED
      BY <3>1, <3>3, <3>4, <3>5 DEF Outcomes
  <2> HIDE DEF Upto
  <2> QED
    BY <2>1
<1>3a. \A r \in b : Upto(0, r)
  BY LaterSame
<1> HIDE DEF Back, b, U, Upto
<1>4. \E f : Is(f)
  <2> DEFINE F == [i \in 1..n |-> [u \in U |-> Back(i, u)]]
  <2>1. F \in [1..n -> [U -> U]]
    BY <1>3
  <2>2. PICK f \in [0..n -> U] : Loop(f, b, n, F)
    <3> HIDE DEF F
    <3> QED
      BY <1>2, <2>1, LoopStates
  <2>3. f[0] = b /\ \A i \in 1..n : f[i] = Back(i, f[i - 1])
    <3>1. f[0] = b /\ \A i \in 1..n : f[i - 1] \in U /\ f[i] = F[i][f[i - 1]]
      <4> HIDE DEF F
      <4>1. f[0] = b /\ \A i \in 1..n : f[i] = F[i][f[i - 1]]
        BY <2>2 DEF Loop
      <4>2. \A i \in 1..n : i - 1 \in 0..n
        OBVIOUS
      <4>3. \A i \in 1..n : f[i - 1] \in U
        BY <2>2, <4>2
      <4> QED
        BY <4>1, <4>3
    <3> QED
      BY <3>1
  <2>4. \A i \in 0..n : f[i] = IF i = 0 THEN b ELSE Back(i, f[i - 1])
    BY <2>3
  <2>5. Is(f)
    BY <2>4
  <2> QED
    BY <2>5
<1>5. Is(after)
  BY <1>4
<1> HIDE DEF after
<1>6. after[0] = b /\ \A i \in 1..n : after[i] = Back(i, after[i - 1])
  BY <1>5
<1> DEFINE P == {i \in 0..n : after[i] \in U /\ \A r \in after[i] : Upto(i, r)}
<1>7. P = 0..n
  <2>1. P \in SUBSET (0..n) /\ 0 \in P
    BY <1>2, <1>3a, <1>6
  <2>2. \A i \in 1..n : i - 1 \in P => i \in P
    BY <1>3, <1>6
  <2> HIDE DEF P
  <2> QED
    BY <2>1, <2>2, Iteration
<1>8. after[n] \in U /\ \A r \in after[n] : Upto(n, r)
  BY <1>7
<1> QED
  BY <1>1, <1>8 DEF U, Upto

\* What is in a list when something is added to it.
LEMMA RangeMore ==
  ASSUME NEW S, NEW u \in Seq(S), NEW x \in S
  PROVE  Append(u, x) \in Seq(S) /\ Range(Append(u, x)) = Range(u) \cup {x}
<1> DEFINE v == Append(u, x)
           n == Len(u)
<1>1. n \in Nat /\ DOMAIN u = 1..n
  BY AtPlace
<1>2. /\ v \in Seq(S) /\ Len(v) = n + 1 /\ v[n + 1] = x
      /\ \A i \in 1..n : v[i] = u[i]
  BY <1>1, AppendProperties
<1>3. DOMAIN v = 1..(n + 1)
  BY <1>2, AtPlace
<1> HIDE DEF v, n
<1>4. \A i \in 1..(n + 1) : i \in 1..n \/ i = n + 1
  BY <1>1
<1>5. \A i \in 1..n : i \in 1..(n + 1)
  BY <1>1
<1>6. n + 1 \in 1..(n + 1)
  BY <1>1
<1> QED
  BY <1>1, <1>2, <1>3, <1>4, <1>5, <1>6 DEF Range, v

\* What is in two lists.
LEMMA RangeOnto ==
  ASSUME NEW S, NEW u \in Seq(S), NEW v \in Seq(S)
  PROVE  u \o v \in Seq(S) /\ Range(u \o v) = Range(u) \cup Range(v)
<1> DEFINE z == u \o v
           n == Len(u)
           m == Len(v)
<1>1. n \in Nat /\ DOMAIN u = 1..n /\ m \in Nat /\ DOMAIN v = 1..m
  BY AtPlace
<1>2. /\ z \in Seq(S) /\ Len(z) = n + m
      /\ \A i \in 1..(n + m) : z[i] = IF i <= n THEN u[i] ELSE v[i - n]
  BY <1>1, ConcatProperties
<1>3. DOMAIN z = 1..(n + m)
  BY <1>2, AtPlace
<1> HIDE DEF z, n, m
<1>4. ASSUME NEW i \in 1..n PROVE u[i] \in Range(z)
  <2>1. i \in 1..(n + m) /\ i <= n
    BY <1>1
  <2>2. z[i] = u[i]
    BY <1>2, <2>1
  <2> QED
    BY <1>3, <2>1, <2>2 DEF Range
<1>5. ASSUME NEW i \in 1..m PROVE v[i] \in Range(z)
  <2>1. n + i \in 1..(n + m) /\ ~(n + i <= n) /\ (n + i) - n = i
    BY <1>1
  <2>2. z[n + i] = v[i]
    BY <1>2, <2>1
  <2> QED
    BY <1>3, <2>1, <2>2 DEF Range
<1>6. ASSUME NEW i \in 1..(n + m) PROVE z[i] \in Range(u) \cup Range(v)
  <2>1. CASE i <= n
    <3>1. i \in 1..n /\ z[i] = u[i]
      BY <1>1, <1>2, <2>1
    <3> QED
      BY <1>1, <3>1 DEF Range
  <2>2. CASE ~(i <= n)
    <3>1. i - n \in 1..m /\ z[i] = v[i - n]
      BY <1>1, <1>2, <2>2
    <3> QED
      BY <1>1, <3>1 DEF Range
  <2> QED
    BY <2>1, <2>2
<1>7. Range(u) \subseteq Range(z) /\ Range(v) \subseteq Range(z)
  BY <1>1, <1>4, <1>5 DEF Range
<1>8. Range(z) \subseteq Range(u) \cup Range(v)
  BY <1>3, <1>6 DEF Range
<1> QED
  BY <1>2, <1>7, <1>8 DEF z

\* The dirty blocks of a cache start at natural addresses, from its floor on, and all
\* of them are listed.
LEMMA DirtyFrom ==
  ASSUME NEW g, GeometryOK(g), NEW f \in Nat, NEW cmds, NEW C, CacheOK(C, g, f, cmds)
  PROVE  /\ DirtyBlocks(C, g) \in Seq({x \in Nat : x >= f})
         /\ \A s \in 0..(g.nsets - 1), w \in 1..g.assoc : IsDirty(C.set[s], w) =>
              CACHE_MK_BADDR(g, C.set[s].tag[w], s) \in Range(DirtyBlocks(C, g))
<1> DEFINE S == {x \in Nat : x >= f}
           n == g.nsets
           q(s) == WayList(C.set[s])
           More(s, i, u) == IF IsDirty(C.set[s], q(s)[i])
                            THEN Append(u, CACHE_MK_BADDR(g, C.set[s].tag[q(s)[i]], s)) ELSE u
           IsMet(s, h) == h = [i \in 0..Len(q(s)) |-> IF i = 0 THEN <<>> ELSE More(s, i, h[i - 1])]
           met(s) == CHOOSE h : IsMet(s, h)
           OfSet(s) == met(s)[Len(q(s))]
           Onto(i, u) == u \o OfSet(i - 1)
           IsUpto(h) == h = [i \in 0..n |-> IF i = 0 THEN <<>> ELSE Onto(i, h[i - 1])]
           upto == CHOOSE h : IsUpto(h)
           U == Seq(S)
           Block(s, w) == CACHE_MK_BADDR(g, C.set[s].tag[w], s)
           Listed(s, u) == \A w \in 1..g.assoc : IsDirty(C.set[s], w) => Block(s, w) \in Range(u)
<1>1. n \in Nat /\ <<>> \in U
  BY DEF GeometryOK
<1>2. DirtyBlocks(C, g) = upto[n]
  BY Zenon DEF DirtyBlocks
<1>3. ASSUME NEW s \in 0..(n - 1) PROVE OfSet(s) \in U /\ Listed(s, OfSet(s))
  <2> DEFINE m == Len(q(s))
  <2>1. /\ Linked(C.set[s], g, {}) /\ BlocksOK(C.set[s], g, s, f, cmds)
        /\ C.set[s] \in SetType(g.assoc, g.hsize)
    BY DEF CacheOK, Linked
  <2>2. ListIn(C.set[s], g.assoc, q(s)) /\ m \in Nat
    <3>1. ListIn(C.set[s], g.assoc, q(s)) /\ m = g.assoc
      BY <2>1, WayListIs
    <3> QED
      BY <3>1 DEF GeometryOK
  <2>3. \A i \in 1..m : q(s)[i] \in 1..g.assoc
    BY <2>2, AtPlace DEF ListIn
  <2>3a. \A w \in 1..g.assoc : \E i \in 1..m : q(s)[i] = w
    <3>1. Distinct(q(s)) /\ q(s) \in Seq(1..g.assoc) /\ m = g.assoc /\ g.assoc \in Nat
      BY <2>1, WayListIs DEF ListIn, GeometryOK
    <3> DEFINE l == q(s)
               k == g.assoc
    <3>2. k \in Nat /\ l \in Seq(1..k) /\ Distinct(l) /\ Len(l) = k /\ m = k
      BY <3>1
    <3> HIDE DEF l, k, m
    <3>3. \A w \in 1..k : \E i \in 1..k : l[i] = w
      BY <3>2, WaysOnce
    <3> QED
      BY <3>2, <3>3 DEF l, k
  <2> DEFINE Sofar(i, u) == \A j \in 1..i :
                              IsDirty(C.set[s], q(s)[j]) => Block(s, q(s)[j]) \in Range(u)
  <2>4. ASSUME NEW i \in 1..m, NEW u \in U
        PROVE  More(s, i, u) \in U /\ (Sofar(i - 1, u) => Sofar(i, More(s, i, u)))
    <3> DEFINE w == q(s)[i]
               a == CACHE_MK_BADDR(g, C.set[s].tag[w], s)
    <3>1. w \in 1..g.assoc
      BY <2>3
    <3> HIDE DEF w
    <3>2. a \in Nat
      <4>1. C.set[s].tag[w] \in Nat
        BY <2>1, <3>1 DEF SetType
      <4> QED
        BY <4>1, BlockAddress
    <3>3. IsDirty(C.set[s], w) => a >= f
      BY <2>1, <3>1 DEF IsDirty, BlocksOK
    <3>4. /\ IsDirty(C.set[s], w) => Append(u, a) \in U /\ Range(Append(u, a)) = Range(u) \cup {a}
          /\ More(s, i, u) = IF IsDirty(C.set[s], w) THEN Append(u, a) ELSE u
      <4>1. IsDirty(C.set[s], w) => a \in S
        BY <3>2, <3>3
      <4> HIDE DEF a, S
      <4>2. ASSUME IsDirty(C.set[s], w)
            PROVE  Append(u, a) \in U /\ Range(Append(u, a)) = Range(u) \cup {a}
        BY <4>1, <4>2, RangeMore
      <4>3. More(s, i, u) = IF IsDirty(C.set[s], w) THEN Append(u, a) ELSE u
        BY DEF a, w
      <4> HIDE DEF More
      <4> QED
        BY <4>2, <4>3
    <3> DEFINE v == More(s, i, u)
    <3> HIDE DEF More, U, a
    <3>5. v \in U /\ Range(u) \subseteq Range(v) /\ (IsDirty(C.set[s], w) => a \in Range(v))
      BY <3>4
    <3> HIDE DEF v
    <3>6. ASSUME Sofar(i - 1, u), NEW j \in 1..i, IsDirty(C.set[s], q(s)[j])
          PROVE  Block(s, q(s)[j]) \in Range(v)
      <4>1. CASE j = i
        BY <3>5, <3>6, <4>1 DEF a, w
      <4>2. CASE j # i
        <5>1. j \in 1..(i - 1)
          BY <4>2
        <5>2. Block(s, q(s)[j]) \in Range(u)
          BY <3>6, <5>1
        <5> QED
          BY <3>5, <5>2
      <4> QED
        BY <4>1, <4>2
    <3> QED
      BY <3>5, <3>6 DEF v
  <2>4a. Sofar(0, <<>>)
    OBVIOUS
  <2> HIDE DEF More, U, m, Sofar
  <2>5. \E h : IsMet(s, h)
    <3> DEFINE F == [i \in 1..m |-> [u \in U |-> More(s, i, u)]]
    <3>1. F \in [1..m -> [U -> U]]
      BY <2>4
    <3>2. PICK h \in [0..m -> U] : Loop(h, <<>>, m, F)
      <4> HIDE DEF F
      <4> QED
        BY <1>1, <2>2, <3>1, LoopStates
    <3>3. h[0] = <<>> /\ \A i \in 1..m : h[i] = More(s, i, h[i - 1])
      <4>1. \A i \in 1..m : h[i - 1] \in U /\ h[i] = F[i][h[i - 1]]
        BY <2>2, <3>2 DEF Loop
      <4> QED
        BY <3>2, <4>1 DEF Loop
    <3>4. \A i \in 0..m : h[i] = IF i = 0 THEN <<>> ELSE More(s, i, h[i - 1])
      BY <3>3
    <3>5. IsMet(s, h)
      BY <3>4 DEF m
    <3> QED
      BY <3>5
  <2> DEFINE h == met(s)
  <2>6. IsMet(s, h)
    BY <2>5
  <2> HIDE DEF h
  <2>7. h[0] = <<>> /\ \A i \in 1..m : h[i] = More(s, i, h[i - 1])
    BY <2>2, <2>6 DEF m
  <2> DEFINE P == {i \in 0..m : h[i] \in U /\ Sofar(i, h[i])}
  <2>8. P = 0..m
    <3>1. P \in SUBSET (0..m) /\ 0 \in P
      BY <1>1, <2>2, <2>4a, <2>7
    <3>2. \A i \in 1..m : i - 1 \in P => i \in P
      BY <2>4, <2>7
    <3> HIDE DEF P
    <3> QED
      BY <2>2, <3>1, <3>2, Iteration
  <2>9. h[m] \in U /\ Sofar(m, h[m])
    BY <2>2, <2>8
  <2>10. Listed(s, h[m])
    BY <2>3a, <2>9 DEF Sofar
  <2> QED
    BY <2>9, <2>10 DEF h, m
<1> DEFINE All(i, u) == \A s \in 0..(i - 1) : Listed(s, u)
<1> HIDE DEF OfSet, U, n
<1>4. ASSUME NEW i \in 1..n, NEW u \in U
      PROVE  Onto(i, u) \in U /\ (All(i - 1, u) => All(i, Onto(i, u)))
  <2> DEFINE v == OfSet(i - 1)
             z == Onto(i, u)
  <2>1. i - 1 \in 0..(n - 1) /\ v \in U /\ Listed(i - 1, v)
    BY <1>1, <1>3
  <2>2. z = u \o v
    OBVIOUS
  <2> HIDE DEF v, z
  <2>3. z \in U /\ Range(u) \subseteq Range(z) /\ Range(v) \subseteq Range(z)
    BY <2>1, <2>2, RangeOnto DEF U
  <2>4. ASSUME All(i - 1, u), NEW s \in 0..(i - 1) PROVE Listed(s, z)
    <3>1. CASE s = i - 1
      BY <2>1, <2>3, <3>1
    <3>2. CASE s # i - 1
      <4>1. s \in 0..((i - 1) - 1)
        BY <3>2
      <4>2. Listed(s, u)
        BY <2>4, <4>1
      <4> QED
        BY <2>3, <4>2
    <3> QED
      BY <3>1, <3>2
  <2> QED
    BY <2>3, <2>4 DEF z
<1>4a. All(0, <<>>)
  OBVIOUS
<1> HIDE DEF Onto, All
<1>5. \E h : IsUpto(h)
  <2> DEFINE F == [i \in 1..n |-> [u \in U |-> Onto(i, u)]]
  <2>1. F \in [1..n -> [U -> U]]
    BY <1>4
  <2>2. PICK h \in [0..n -> U] : Loop(h, <<>>, n, F)
    <3> HIDE DEF F
    <3> QED
      BY <1>1, <2>1, LoopStates
  <2>3. h[0] = <<>> /\ \A i \in 1..n : h[i] = Onto(i, h[i - 1])
    <3>1. \A i \in 1..n : h[i - 1] \in U /\ h[i] = F[i][h[i - 1]]
      BY <1>1, <2>2 DEF Loop
    <3> QED
      BY <2>2, <3>1 DEF Loop
  <2>4. \A i \in 0..n : h[i] = IF i = 0 THEN <<>> ELSE Onto(i, h[i - 1])
    BY <1>1, <2>3
  <2>5. IsUpto(h)
    BY <2>4
  <2> QED
    BY <2>5
<1>6. IsUpto(upto)
  BY <1>5
<1> HIDE DEF upto
<1>7. upto[0] = <<>> /\ \A i \in 1..n : upto[i] = Onto(i, upto[i - 1])
  BY <1>1, <1>6
<1> DEFINE P == {i \in 0..n : upto[i] \in U /\ All(i, upto[i])}
<1>8. P = 0..n
  <2>1. P \in SUBSET (0..n) /\ 0 \in P
    BY <1>1, <1>4a, <1>7
  <2>2. \A i \in 1..n : i - 1 \in P => i \in P
    BY <1>1, <1>4, <1>7
  <2> HIDE DEF P
  <2> QED
    BY <1>1, <2>1, <2>2, Iteration
<1>9. upto[n] \in U /\ All(n, upto[n])
  BY <1>1, <1>8
<1> QED
  BY <1>2, <1>9 DEF U, All, n

\* So what is to be written back is in a listed block.
LEMMA PendingListed ==
  ASSUME NEW g, GeometryOK(g), NEW f \in Nat, NEW cmds, NEW C, CacheOK(C, g, f, cmds),
         NEW x \in Nat, Pending(C, g, x)
  PROVE  CACHE_BADDR(g, x) \in Range(DirtyBlocks(C, g))
<1> DEFINE s == CACHE_SET(g, x)
<1>1. s \in 0..(g.nsets - 1) /\ CACHE_MK_BADDR(g, CACHE_TAG(g, x), s) = CACHE_BADDR(g, x)
  BY Addresses
<1>2. PICK w \in 1..g.assoc : IsDirty(C.set[s], w) /\ C.set[s].tag[w] = CACHE_TAG(g, x)
  BY DEF Pending, Holds, IsDirty
<1> QED
  BY <1>1, <1>2, DirtyFrom

\* The ways of D have the tags and the times they have in C.
SameArrivals(C, D, g) ==
  /\ D.bus_free = C.bus_free
  /\ \A s \in 0..(g.nsets - 1), w \in 1..g.assoc :
       D.set[s].tag[w] = C.set[s].tag[w] /\ D.set[s].ready[w] = C.set[s].ready[w]

\* An invalidated cache is well formed.
LEMMA InvalidatedOK ==
  ASSUME NEW g, GeometryOK(g), NEW f, NEW cmds, NEW C, CacheOK(C, g, f, cmds)
  PROVE  CacheOK(Invalidated(C, g), g, f, cmds) /\ SameArrivals(C, Invalidated(C, g), g)
<1> DEFINE none == [w \in 1..g.assoc |-> FALSE]
           N(s) == [C.set[s] EXCEPT !.valid = none]
           D == Invalidated(C, g)
<1>1. /\ C \in CacheType(g) /\ g.assoc \in Nat
      /\ \A s \in 0..(g.nsets - 1) : /\ Linked(C.set[s], g, {}) /\ BlocksOK(C.set[s], g, s, f, cmds)
                                     /\ C.set[s] \in SetType(g.assoc, g.hsize)
  BY DEF CacheOK, Linked, GeometryOK
<1>2. none \in [1..g.assoc -> BOOLEAN] /\ \A w \in 1..g.assoc : ~none[w]
  OBVIOUS
<1> HIDE DEF none
<1>3. ASSUME NEW s \in 0..(g.nsets - 1)
      PROVE  /\ N(s) \in SetType(g.assoc, g.hsize) /\ Linked(N(s), g, {})
             /\ BlocksOK(N(s), g, s, f, cmds)
             /\ \A w \in 1..g.assoc : N(s).tag[w] = C.set[s].tag[w] /\ N(s).ready[w] = C.set[s].ready[w]
  <2> DEFINE old == C.set[s]
             new == N(s)
  <2>1. old \in SetType(g.assoc, g.hsize) /\ Linked(old, g, {}) /\ BlocksOK(old, g, s, f, cmds)
    BY <1>1
  <2> HIDE DEF old
  <2>2. /\ new \in SetType(g.assoc, g.hsize) /\ SamePointers(old, new)
        /\ new.tag = old.tag /\ new.valid = none /\ new.dirty = old.dirty /\ new.ready = old.ready
    BY <1>2, <2>1 DEF SetType, SamePointers, old
  <2> HIDE DEF N
  <2>3. Linked(new, g, {})
    BY <2>1, <2>2, LinkedKept
  <2>4. BlocksOK(new, g, s, f, cmds)
    BY <1>2, <2>1, <2>2 DEF BlocksOK
  <2> QED
    BY <2>2, <2>3, <2>4 DEF old
<1> DEFINE sets == [s \in 0..(g.nsets - 1) |-> N(s)]
<1>4. D = [set |-> sets, last_tagset |-> NoBlock, last_blk |-> NULL, bus_free |-> C.bus_free]
  <2>1. C.set \in [0..(g.nsets - 1) -> SetType(g.assoc, g.hsize)]
    BY <1>1 DEF CacheType
  <2>2. D = [C EXCEPT !.last_tagset = NoBlock, !.last_blk = NULL, !.set = sets]
    BY <2>1 DEF Invalidated, none
  <2> HIDE DEF sets, D
  <2> QED
    BY <1>1, <2>2 DEF CacheType
<1>5. /\ sets \in [0..(g.nsets - 1) -> SetType(g.assoc, g.hsize)]
      /\ \A s \in 0..(g.nsets - 1) : sets[s] = N(s)
  BY <1>3
<1> HIDE DEF sets, D, N
<1>6. D \in CacheType(g) /\ D.last_tagset = NoBlock /\ D.set = sets /\ D.bus_free = C.bus_free
  BY <1>1, <1>4, <1>5 DEF CacheType, NoBlock, NULL
<1>7. CacheOK(D, g, f, cmds)
  <2>1. Remembers(D, g)
    BY <1>6 DEF Remembers
  <2> QED
    BY <1>3, <1>5, <1>6, <2>1 DEF CacheOK
<1>8. SameArrivals(C, D, g)
  BY <1>3, <1>5, <1>6 DEF SameArrivals
<1> QED
  BY <1>7, <1>8 DEF D

-----------------------------------------------------------------------------
(* The steps.                                                              *)

\* What an access to cache c may be.
CmdsOf(c) == IF c = "il1" THEN TextCmds ELSE DataCmds

\* Every cache is well formed: the inductive invariant.
CachesInvariant ==
  /\ machine \in Machines /\ written \in SUBSET Nat
  /\ \A c \in machine.caches : CacheOK(cache[c], Geometry(c), Floor(c), CmdsOf(c))

\* The last call of the data cache is one the machine makes.
AskedOK ==
  \/ asked.cmd \in {"none", "cache_flush"}
  \/ asked.cmd \in {"Read", "Write", "cache_flush_addr"} /\ asked.addr \in machine.addrs

\* It says, with that of the caches, that the sets are sound.
LEMMA CachesSound == CachesInvariant /\ AskedOK => SetsSound
<1> SUFFICES ASSUME CachesInvariant, AskedOK PROVE SetsSound
  OBVIOUS
<1> USE DEF SetsOf, WaysOf, SetOf
<1>1. machine \in Machines /\ written \subseteq Nat
  BY DEF CachesInvariant
<1>2. ASSUME NEW c \in machine.caches
      PROVE  /\ GeometryOK(Geometry(c)) /\ Geometry(c).assoc \in Nat \ {0}
             /\ CacheOK(cache[c], Geometry(c), Floor(c), CmdsOf(c))
             /\ cache[c] \in CacheType(Geometry(c))
             /\ \A s \in SetsOf(c) : /\ Linked(cache[c].set[s], Geometry(c), {})
                                     /\ BlocksOK(cache[c].set[s], Geometry(c), s, Floor(c), CmdsOf(c))
                                     /\ cache[c].set[s] \in SetType(Geometry(c).assoc, Geometry(c).hsize)
  <2>1. GeometryOK(Geometry(c)) /\ CacheOK(cache[c], Geometry(c), Floor(c), CmdsOf(c))
    BY Machine DEF CachesInvariant
  <2> QED
    BY <2>1 DEF CacheOK, GeometryOK, Linked
<1>3. TypeOK
  <2>1. ASSUME NEW c \in machine.caches
        PROVE  /\ cache[c].bus_free \in Nat /\ cache[c].last_blk \in WaysOf(c) \cup {NULL}
               /\ \A s \in SetsOf(c), w \in WaysOf(c) :
                    /\ {SetOf(c, s).way_next[w], SetOf(c, s).way_prev[w],
                        SetOf(c, s).hash_next[w]} \subseteq WaysOf(c) \cup {NULL}
                    /\ SetOf(c, s).tag[w] \in Nat /\ SetOf(c, s).ready[w] \in Nat
                    /\ c = "il1" => ~SetOf(c, s).dirty[w]
    <3> DEFINE n == Geometry(c).assoc
    <3>1. 0..n \subseteq (1..n) \cup {NULL}
      <4>1. n \in Nat
        BY <1>2
      <4> HIDE DEF n
      <4> QED
        BY <4>1 DEF NULL
    <3>2. cache[c].bus_free \in Nat /\ cache[c].last_blk \in 0..n
      BY <1>2 DEF CacheType
    <3>3. ASSUME NEW s \in SetsOf(c), NEW w \in 1..n
          PROVE  /\ {SetOf(c, s).way_next[w], SetOf(c, s).way_prev[w],
                     SetOf(c, s).hash_next[w]} \subseteq 0..n
                 /\ SetOf(c, s).tag[w] \in Nat /\ SetOf(c, s).ready[w] \in Nat
                 /\ c = "il1" => ~SetOf(c, s).dirty[w]
      <4> DEFINE set == cache[c].set[s]
      <4>1. set \in SetType(n, Geometry(c).hsize)
            /\ BlocksOK(set, Geometry(c), s, Floor(c), CmdsOf(c))
        BY <1>2
      <4> HIDE DEF set
      <4>2. /\ {set.way_next[w], set.way_prev[w], set.hash_next[w]} \subseteq 0..n
            /\ set.tag[w] \in Nat /\ set.ready[w] \in Nat
        <5>1. /\ set.way_next \in [1..n -> 0..n] /\ set.way_prev \in [1..n -> 0..n]
              /\ set.hash_next \in [1..n -> 0..n]
              /\ set.tag \in [1..n -> Nat] /\ set.ready \in [1..n -> Nat]
          BY <4>1 DEF SetType
        <5> HIDE DEF n
        <5> QED
          BY <5>1
      <4>3. c = "il1" => ~set.dirty[w]
        BY <4>1 DEF BlocksOK, CmdsOf, TextCmds
      <4> QED
        BY <4>2, <4>3 DEF set
    <3> HIDE DEF n
    <3>4. WaysOf(c) = 1..n
      BY DEF n
    <3> QED
      BY <3>1, <3>2, <3>3, <3>4
  <2> QED
    BY <1>1, <2>1 DEF TypeOK, AskedOK
<1>4. WayListsSound
  <2>1. ASSUME NEW c \in machine.caches, NEW s \in SetsOf(c)
        PROVE  LET set == SetOf(c, s)
                   q   == WayList(set)
               IN /\ Len(q) = Geometry(c).assoc /\ Range(q) = WaysOf(c)
                  /\ q[Len(q)] = set.way_tail
                  /\ \A i \in DOMAIN q : set.way_prev[q[i]] = IF i = 1 THEN NULL ELSE q[i - 1]
    <3> DEFINE set == SetOf(c, s)
               q   == WayList(set)
               n   == Geometry(c).assoc
    <3>1. ListIn(set, n, q) /\ Len(q) = n /\ n \in Nat \ {0}
      BY <1>2, WayListIs
    <3> HIDE DEF n, q, set
    <3>2. /\ q \in Seq(1..n) /\ Distinct(q) /\ q[Len(q)] = set.way_tail
          /\ DOMAIN q = 1..n /\ \A i \in 1..n : q[i] \in 1..n
          /\ \A i \in 1..n : set.way_prev[q[i]] = At(q, i - 1)
      <4>1. q \in Seq(1..n) /\ Distinct(q) /\ q[Len(q)] = set.way_tail
            /\ \A i \in 1..n : set.way_prev[q[i]] = At(q, i - 1)
        BY <3>1 DEF ListIn, Links
      <4> QED
        BY <3>1, <4>1, AtPlace
    <3>3. Range(q) = 1..n
      <4>1. \A w \in 1..n : \E i \in 1..n : q[i] = w
        BY <3>1, <3>2, WaysOnce
      <4> QED
        BY <3>2, <4>1 DEF Range
    <3>4. \A i \in 1..n : At(q, i - 1) = IF i = 1 THEN NULL ELSE q[i - 1]
      <4> TAKE i \in 1..n
      <4>1. CASE i = 1
        BY <3>1, <4>1 DEF At
      <4>2. CASE i # 1
        <5>1. i - 1 \in 1..n
          BY <3>1, <4>2
        <5> QED
          BY <3>1, <4>2, <5>1 DEF At
      <4> QED
        BY <4>1, <4>2
    <3>5. WaysOf(c) = 1..n
      BY DEF n
    <3>6. \A i \in DOMAIN q : set.way_prev[q[i]] = IF i = 1 THEN NULL ELSE q[i - 1]
      BY <3>2, <3>4
    <3> QED
      BY <3>1, <3>2, <3>3, <3>5, <3>6 DEF n, q, set
  <2> QED
    BY <2>1 DEF WayListsSound
<1>5. OnItsChain
  <2>1. ASSUME NEW c \in machine.caches, Geometry(c).hsize > 0, NEW s \in SetsOf(c),
               NEW w \in WaysOf(c), NEW i \in 0..(Geometry(c).hsize - 1)
        PROVE  LET q == Bucket(SetOf(c, s), i)
               IN Cardinality({j \in DOMAIN q : q[j] = w})
                    = IF i = CACHE_HASH(SetOf(c, s).tag[w], Geometry(c).hsize) THEN 1 ELSE 0
    <3> DEFINE set == SetOf(c, s)
               n   == Geometry(c).assoc
               h   == Geometry(c).hsize
    <3>1. n \in Nat \ {0} /\ h \in Nat \ {0} /\ set \in SetType(n, h)
      <4>1. n \in Nat \ {0} /\ h \in Nat /\ h > 0 /\ set \in SetType(n, h)
        BY <1>2, <2>1 DEF GeometryOK
      <4> HIDE DEF h, n, set
      <4> QED
        BY <4>1
    <3>2. PICK ch : Chained(set, n, h, ch, {})
      BY <1>2, <2>1 DEF Linked
    <3>3. i \in 0..(h - 1) /\ w \in 1..n
      OBVIOUS
    <3> HIDE DEF set, n, h
    <3>4. LET q == Bucket(set, i)
          IN Cardinality({j \in DOMAIN q : q[j] = w})
               = IF i = CACHE_HASH(set.tag[w], h) THEN 1 ELSE 0
      BY <3>1, <3>2, <3>3, OnceOnChain
    <3> QED
      BY <3>4 DEF set, h
  <2> QED
    BY <2>1 DEF OnItsChain
<1> QED
  BY <1>3, <1>4, <1>5 DEF SetsSound

\* The caches of the next state.
LEMMA NextCaches ==
  ASSUME machine \in Machines, UNCHANGED machine, written' \in SUBSET Nat,
         \A c \in machine.caches : CacheOK(cache'[c], Geometry(c), Floor(c), CmdsOf(c))
  PROVE  CachesInvariant'
<1>1. \A c \in machine.caches : Geometry(c)' = Geometry(c) /\ Floor(c)' = Floor(c)
  BY DEF Geometry, Floor
<1> QED
  BY <1>1 DEF CachesInvariant

\* The caches are well formed when they have been created.
LEMMA InitOK == Init => CachesInvariant
<1> SUFFICES ASSUME Init PROVE CachesInvariant
  OBVIOUS
<1>1. machine \in Machines /\ written \in SUBSET Nat
  BY DEF Init
<1>2. ASSUME NEW c \in machine.caches PROVE CacheOK(cache[c], Geometry(c), Floor(c), CmdsOf(c))
  <2> DEFINE g == Geometry(c)
             n == NewSet(g.assoc, g.hsize)
             sets == [s \in 0..(g.nsets - 1) |-> n]
             C == [set |-> sets, last_tagset |-> NoBlock, last_blk |-> NULL, bus_free |-> 0]
  <2>1. GeometryOK(g)
    BY <1>1, Machine
  <2>2. cache[c] = C
    BY DEF Init, cache_create, Geometry
  <2>3. Linked(n, g, {}) /\ n \in SetType(g.assoc, g.hsize)
    BY <2>1, NewLinked DEF Linked
  <2>4. \A s \in 0..(g.nsets - 1) : BlocksOK(n, g, s, Floor(c), CmdsOf(c))
    BY DEF BlocksOK, NewSet
  <2>5. 0 \in 0..g.assoc
    BY <2>1 DEF GeometryOK
  <2> HIDE DEF g, n
  <2>6. C \in CacheType(g)
    BY <2>3, <2>5 DEF CacheType, NoBlock, NULL
  <2>6a. Remembers(C, g)
    BY DEF Remembers
  <2> DEFINE E == C
  <2>6b. E \in CacheType(g) /\ Remembers(E, g) /\ \A s \in 0..(g.nsets - 1) : E.set[s] = n
    BY <2>6, <2>6a
  <2> HIDE DEF E
  <2>6c. CacheOK(E, g, Floor(c), CmdsOf(c))
    BY <2>3, <2>4, <2>6b DEF CacheOK
  <2>7. CacheOK(C, g, Floor(c), CmdsOf(c))
    BY <2>6c DEF E
  <2> QED
    BY <2>2, <2>7 DEF g
<1> QED
  BY <1>1, <1>2 DEF CachesInvariant

\* What the invariant says of one level 1 cache, and of what is below it.
LEMMA Level1 ==
  ASSUME CachesInvariant
  PROVE  /\ machine \in Machines /\ "dl1" \in machine.caches /\ Below({}) \in Belows
         /\ CacheOK(cache["dl1"], Geometry("dl1"), Floor("dl1"), DataCmds)
         /\ "il1" \in machine.caches =>
              CacheOK(cache["il1"], Geometry("il1"), Floor("il1"), TextCmds)
<1>1. machine \in Machines /\ "dl1" \in machine.caches
  BY MachineAssumption DEF CachesInvariant
<1>2. /\ CacheOK(cache["dl1"], Geometry("dl1"), Floor("dl1"), DataCmds)
      /\ "il1" \in machine.caches =>
           CacheOK(cache["il1"], Geometry("il1"), Floor("il1"), TextCmds)
  BY <1>1 DEF CachesInvariant, CmdsOf
<1>3. Below({}) \in Belows
  <2>1. CASE "dl2" \in machine.caches
    <3>1. CacheOK(cache["dl2"], Geometry("dl2"), 0, DataCmds)
      BY <2>1 DEF CachesInvariant, CmdsOf, Floor
    <3>2. cache["dl2"] \in CacheType(Geometry("dl2"))
      BY <3>1 DEF CacheOK
    <3> QED
      BY <2>1, <3>1, <3>2 DEF Below, Belows
  <2>2. CASE "dl2" \notin machine.caches
    BY <2>2 DEF Below, Belows
  <2> QED
    BY <2>1, <2>2
<1> QED
  BY <1>1, <1>2, <1>3

\* An access or a flush is over.
LEMMA Returned ==
  ASSUME CachesInvariant, UNCHANGED machine, NEW c \in machine.caches, c # "dl2",
         NEW C, CacheOK(C, Geometry(c), Floor(c), CmdsOf(c)), NEW B \in Belows,
         cache' = With(c, C, B), written' \in SUBSET Nat
  PROVE  CachesInvariant'
<1>1. ASSUME NEW x \in machine.caches
      PROVE  CacheOK(cache'[x], Geometry(x), Floor(x), CmdsOf(x))
  <2>1. cache'[x] = IF x = c THEN C ELSE IF x = "dl2" THEN B.dl2 ELSE cache[x]
    BY DEF With
  <2>2. CASE x = c
    BY <2>1, <2>2
  <2>3. CASE x # c /\ x = "dl2"
    <3>1. CacheOK(B.dl2, Geometry("dl2"), 0, DataCmds)
      BY <2>3 DEF Belows
    <3> QED
      BY <2>1, <2>3, <3>1 DEF Floor, CmdsOf
  <2>4. CASE x # c /\ x # "dl2"
    BY <2>1, <2>4 DEF CachesInvariant
  <2> QED
    BY <2>2, <2>3, <2>4
<1>2. machine \in Machines
  BY DEF CachesInvariant
<1> QED
  BY <1>1, <1>2, NextCaches

\* What takes the place of a valid block has waited for it and for the bus.
WaitedFor(C, D, g) ==
  \A s \in 0..(g.nsets - 1), w \in 1..g.assoc :
    C.set[s].valid[w] /\ D.set[s].tag[w] # C.set[s].tag[w] =>
      /\ D.set[s].ready[w] > C.set[s].ready[w]
      /\ D.set[s].ready[w] > C.bus_free /\ D.bus_free > C.bus_free

\* What comes into the cache is there in level 2.
CameFrom(C, D, g, E) ==
  "dl2" \in machine.caches =>
    \A s \in 0..(g.nsets - 1), w \in 1..g.assoc :
      D.set[s].tag[w] # C.set[s].tag[w] =>
        There(E, Geometry("dl2"), CACHE_MK_BADDR(g, D.set[s].tag[w], s), D.set[s].ready[w])

\* What was written to address x is to be written back by one of the caches of c.
Waiting(c, x) == \E d \in machine.caches : Pending(c[d], Geometry(d), x)

\* It has been written to memory.
Reached(m, x) == \E d \in machine.caches : CACHE_BADDR(Geometry(d), x) \in m

\* What a step does to the blocks.
Carried ==
  /\ \A c \in machine.caches : WaitedFor(cache[c], cache'[c], Geometry(c))
  /\ \A c \in machine.caches \ {"dl2"} :
       CameFrom(cache[c], cache'[c], Geometry(c), cache'["dl2"])
  /\ \A x \in Nat : Waiting(cache, x) => Waiting(cache', x) \/ Reached(written', x)

\* An access or a flush is over: what it has done to the blocks.
LEMMA ReturnedBlocks ==
  ASSUME machine \in Machines, UNCHANGED machine, NEW c \in machine.caches, c # "dl2",
         NEW D, NEW B, cache' = With(c, D, B), WaitedFor(cache[c], D, Geometry(c)),
         "dl2" \in machine.caches => WaitedFor(cache["dl2"], B.dl2, Geometry("dl2")),
         CameFrom(cache[c], D, Geometry(c), B.dl2),
         \A x \in Nat :
           \/ Pending(cache[c], Geometry(c), x)
           \/ "dl2" \in machine.caches /\ Pending(cache["dl2"], Geometry("dl2"), x)
           => \/ Pending(D, Geometry(c), x)
              \/ "dl2" \in machine.caches /\ Pending(B.dl2, Geometry("dl2"), x)
              \/ Reached(written', x)
  PROVE  Carried
<1>1. \A x \in machine.caches :
        cache'[x] = IF x = c THEN D ELSE IF x = "dl2" THEN B.dl2 ELSE cache[x]
  BY DEF With
<1>2. \A C, g : WaitedFor(C, C, g) /\ \A E : CameFrom(C, C, g, E)
  BY DEF WaitedFor, CameFrom
<1>3. \A x \in machine.caches : WaitedFor(cache[x], cache'[x], Geometry(x))
  BY <1>1, <1>2
<1>4. ASSUME NEW x \in machine.caches \ {"dl2"}
      PROVE  CameFrom(cache[x], cache'[x], Geometry(x), cache'["dl2"])
  <2>1. CASE x # c
    BY <1>1, <1>2, <2>1
  <2>2. CASE x = c /\ "dl2" \in machine.caches
    BY <1>1, <2>2
  <2>3. CASE "dl2" \notin machine.caches
    BY <2>3 DEF CameFrom
  <2> QED
    BY <2>1, <2>2, <2>3
<1>5. ASSUME NEW x \in Nat, Waiting(cache, x) PROVE Waiting(cache', x) \/ Reached(written', x)
  <2>1. PICK d \in machine.caches : Pending(cache[d], Geometry(d), x)
    BY <1>5 DEF Waiting
  <2>2. CASE d # c /\ d # "dl2"
    BY <1>1, <2>1, <2>2 DEF Waiting
  <2>3. CASE d = c \/ d = "dl2"
    <3>1. \/ Pending(D, Geometry(c), x)
          \/ "dl2" \in machine.caches /\ Pending(B.dl2, Geometry("dl2"), x)
          \/ Reached(written', x)
      BY <2>1, <2>3
    <3>2. cache'[c] = D /\ ("dl2" \in machine.caches => cache'["dl2"] = B.dl2)
      BY <1>1
    <3> QED
      BY <3>1, <3>2 DEF Waiting
  <2> QED
    BY <2>2, <2>3
<1> QED
  BY <1>3, <1>4, <1>5 DEF Carried

\* So of an access.
LEMMA AccessBlocks ==
  ASSUME CachesInvariant, UNCHANGED machine, NEW c \in machine.caches, c # "dl2",
         NEW D, NEW B, cache' = With(c, D, B), written' = B.mem,
         Moved(cache[c], D, Geometry(c), Below({}), B)
  PROVE  Carried
<1>1. Waited(cache[c], D, Geometry(c)) /\ Later(Below({}), B)
      /\ \A x \in Nat : Pending(cache[c], Geometry(c), x) =>
           Pending(D, Geometry(c), x) \/ Secured(B, x)
  BY DEF Moved
<1>2. machine \in Machines /\ Below({}).mem = {}
      /\ ("dl2" \in machine.caches => Below({}).dl2 = cache["dl2"])
  BY DEF CachesInvariant, Below
<1>3. "dl2" \in machine.caches => Waited(cache["dl2"], B.dl2, Geometry("dl2"))
  BY <1>1, <1>2 DEF Later
<1>4. WaitedFor(cache[c], D, Geometry(c))
      /\ ("dl2" \in machine.caches => WaitedFor(cache["dl2"], B.dl2, Geometry("dl2")))
  BY <1>1, <1>3 DEF Waited, WaitedFor
<1>5. CameFrom(cache[c], D, Geometry(c), B.dl2)
  BY DEF Moved, CameFrom
<1>6. ASSUME NEW x \in Nat, "dl2" \in machine.caches, Pending(cache["dl2"], Geometry("dl2"), x)
      PROVE  Secured(B, x)
  <2>1. Secured(Below({}), x)
    BY <1>2, <1>6 DEF Secured
  <2> QED
    BY <1>1, <2>1 DEF Later
<1>7. \A x \in Nat : Secured(B, x) =>
        \/ "dl2" \in machine.caches /\ Pending(B.dl2, Geometry("dl2"), x)
        \/ Reached(written', x)
  BY DEF Secured, Reached
<1> QED
  BY <1>1, <1>2, <1>4, <1>5, <1>6, <1>7, ReturnedBlocks

\* A load or a store leaves all caches well formed.
LEMMA DataAccessOK == CachesInvariant /\ DataAccess => CachesInvariant' /\ Carried
<1> SUFFICES ASSUME CachesInvariant, DataAccess PROVE CachesInvariant' /\ Carried
  OBVIOUS
<1>1. PICK cmd \in machine.cmds, a \in machine.addrs :
        Returns("dl1", cache_access(dl1_access_fn, cache["dl1"], Geometry("dl1"), Below({}), cmd, a, 0))
  BY DEF DataAccess, cache_access_dl1
<1>2. PICK r \in cache_access(dl1_access_fn, cache["dl1"], Geometry("dl1"), Below({}), cmd, a, 0) :
        cache' = With("dl1", r.cache, r.lower) /\ written' = r.lower.mem /\ UNCHANGED machine
  BY <1>1 DEF Returns
<1>3. /\ machine \in Machines /\ "dl1" \in machine.caches /\ Below({}) \in Belows
      /\ CacheOK(cache["dl1"], Geometry("dl1"), Floor("dl1"), DataCmds)
  BY Level1
<1>4. cmd \in DataCmds /\ a \in Nat /\ a >= Geometry("dl1").bsize
      /\ CACHE_BADDR(Geometry("dl1"), a) >= Floor("dl1")
  BY <1>3, Machine DEF DataCmds
<1>5. /\ CacheOK(r.cache, Geometry("dl1"), Floor("dl1"), DataCmds) /\ r.lower \in Belows
      /\ Moved(cache["dl1"], r.cache, Geometry("dl1"), Below({}), r.lower)
  BY <1>2, <1>3, <1>4, DataCache
<1>6. r.lower.mem \in SUBSET Nat /\ CmdsOf("dl1") = DataCmds
  BY <1>5 DEF Belows, CmdsOf
<1>7. CachesInvariant'
  BY <1>2, <1>3, <1>5, <1>6, Returned
<1>8. Carried
  BY <1>2, <1>3, <1>5, AccessBlocks
<1> QED
  BY <1>7, <1>8

\* So does a fetch, which only reads.
LEMMA InstFetchOK == CachesInvariant /\ InstFetch => CachesInvariant' /\ Carried
<1> SUFFICES ASSUME CachesInvariant, InstFetch PROVE CachesInvariant' /\ Carried
  OBVIOUS
<1>1. PICK a \in machine.fetches :
        /\ "il1" \in machine.caches
        /\ Returns("il1", cache_access(il1_access_fn, cache["il1"], Geometry("il1"), Below({}),
                                       "Read", a, 0))
  BY DEF InstFetch, cache_access_il1
<1>2. PICK r \in cache_access(il1_access_fn, cache["il1"], Geometry("il1"), Below({}), "Read", a, 0) :
        cache' = With("il1", r.cache, r.lower) /\ written' = r.lower.mem /\ UNCHANGED machine
  BY <1>1 DEF Returns
<1>3. /\ machine \in Machines /\ Below({}) \in Belows
      /\ CacheOK(cache["il1"], Geometry("il1"), Floor("il1"), TextCmds)
  BY <1>1, Level1
<1>4. a \in Nat /\ a >= Geometry("il1").bsize /\ CACHE_BADDR(Geometry("il1"), a) >= Floor("il1")
  BY <1>1, <1>3, Machine
<1>5. /\ CacheOK(r.cache, Geometry("il1"), Floor("il1"), TextCmds) /\ r.lower \in Belows
      /\ Moved(cache["il1"], r.cache, Geometry("il1"), Below({}), r.lower)
  BY <1>1, <1>2, <1>3, <1>4, TextCache
<1>6. r.lower.mem \in SUBSET Nat /\ CmdsOf("il1") = TextCmds
  BY <1>5 DEF Belows, CmdsOf
<1>7. CachesInvariant'
  BY <1>1, <1>2, <1>5, <1>6, Returned
<1>8. Carried
  BY <1>1, <1>2, <1>5, AccessBlocks
<1> QED
  BY <1>7, <1>8

\* The blocks are the same ones.
SameTags(C, D, g) ==
  \A s \in 0..(g.nsets - 1), w \in 1..g.assoc :
    /\ D.set[s].tag[w] = C.set[s].tag[w] /\ D.set[s].valid[w] = C.set[s].valid[w]
    /\ D.set[s].dirty[w] = C.set[s].dirty[w]

\* Then nothing has been done to them.
LEMMA TagsCarried ==
  ASSUME machine \in Machines,
         \A c \in machine.caches : SameTags(cache[c], cache'[c], Geometry(c))
  PROVE  Carried
<1>1. \A c \in machine.caches :
        /\ WaitedFor(cache[c], cache'[c], Geometry(c))
        /\ CameFrom(cache[c], cache'[c], Geometry(c), cache'["dl2"])
  BY DEF WaitedFor, CameFrom, SameTags
<1>2. ASSUME NEW c \in machine.caches, NEW x \in Nat, Pending(cache[c], Geometry(c), x)
      PROVE  Pending(cache'[c], Geometry(c), x)
  <2>1. CACHE_SET(Geometry(c), x) \in 0..(Geometry(c).nsets - 1)
    BY Machine, Addresses
  <2> QED
    BY <1>2, <2>1 DEF Pending, Holds, SameTags
<1> QED
  BY <1>1, <1>2 DEF Carried, Waiting

\* Time passes, which changes no set but in its ready times.
LEMMA TickOK == CachesInvariant /\ Tick => CachesInvariant' /\ Carried
<1> SUFFICES ASSUME CachesInvariant, Tick PROVE CachesInvariant' /\ Carried
  OBVIOUS
<1>1. machine \in Machines /\ UNCHANGED machine /\ written' \in SUBSET Nat
  BY DEF CachesInvariant, Tick
<1>2. \A x \in Nat : Sooner(x) \in Nat
  BY TimeLeft DEF Sooner
<1>3. ASSUME NEW c \in machine.caches
      PROVE  /\ CacheOK(cache'[c], Geometry(c), Floor(c), CmdsOf(c))
             /\ SameTags(cache[c], cache'[c], Geometry(c))
  <2> DEFINE g == Geometry(c)
             f == Floor(c)
             cmds == CmdsOf(c)
             C == cache[c]
             N(s) == AllSooner(C.set[s])
             sets == [s \in DOMAIN C.set |-> N(s)]
             free == Sooner(C.bus_free)
             D == [C EXCEPT !.bus_free = free, !.set = sets]
  <2>1. cache'[c] = D
    BY DEF Tick
  <2>2. GeometryOK(g) /\ CacheOK(C, g, f, cmds) /\ C \in CacheType(g)
    BY <1>1, Machine DEF CachesInvariant, CacheOK
  <2> HIDE DEF g, f, cmds, C
  <2>3. /\ C.set \in [0..(g.nsets - 1) -> SetType(g.assoc, g.hsize)]
        /\ C.bus_free \in Nat /\ free \in Nat
    BY <1>2, <2>2 DEF CacheType
  <2>4. ASSUME NEW s \in 0..(g.nsets - 1)
        PROVE  /\ N(s) \in SetType(g.assoc, g.hsize)
               /\ Linked(N(s), g, {}) /\ BlocksOK(N(s), g, s, f, cmds)
               /\ N(s).tag = C.set[s].tag /\ N(s).valid = C.set[s].valid
               /\ N(s).dirty = C.set[s].dirty
    <3> DEFINE old == C.set[s]
               ready == [w \in DOMAIN old.ready |-> Sooner(old.ready[w])]
               new == N(s)
    <3>1. /\ old \in SetType(g.assoc, g.hsize)
          /\ Linked(old, g, {}) /\ BlocksOK(old, g, s, f, cmds)
      BY <2>2, <2>3 DEF CacheOK
    <3>2. ready \in [1..g.assoc -> Nat]
      <4>1. old.ready \in [1..g.assoc -> Nat]
        BY <3>1 DEF SetType
      <4> QED
        BY <1>2, <4>1
    <3>3. new = [old EXCEPT !.ready = ready]
      BY DEF AllSooner
    <3> HIDE DEF old, ready, new
    <3>4. /\ new \in SetType(g.assoc, g.hsize) /\ SamePointers(old, new)
          /\ new.tag = old.tag /\ new.valid = old.valid /\ new.dirty = old.dirty
      BY <3>1, <3>2, <3>3 DEF SetType, SamePointers
    <3>5. Linked(new, g, {})
      BY <2>2, <3>1, <3>4, LinkedKept
    <3>6. BlocksOK(new, g, s, f, cmds)
      BY <3>1, <3>4 DEF BlocksOK
    <3> QED
      BY <3>4, <3>5, <3>6 DEF new, old
  <2> HIDE DEF N, free
  <2>5. /\ sets \in [0..(g.nsets - 1) -> SetType(g.assoc, g.hsize)]
        /\ \A s \in 0..(g.nsets - 1) : sets[s] = N(s)
    BY <2>3, <2>4
  <2> HIDE DEF sets
  <2>6. D \in CacheType(g) /\ D.set = sets /\ D.last_tagset = C.last_tagset /\ D.last_blk = C.last_blk
    BY <2>2, <2>3, <2>5 DEF CacheType
  <2> HIDE DEF D
  <2>6a. Remembers(D, g)
    <3>1. Remembers(C, g) /\ C.last_tagset \in Nat
      BY <2>2 DEF CacheOK, CacheType
    <3>2. CACHE_SET(g, C.last_tagset) \in 0..(g.nsets - 1)
      BY <2>2, <3>1, Addresses
    <3> QED
      BY <2>4, <2>5, <2>6, <3>1, <3>2 DEF Remembers, Holds
  <2>7. CacheOK(D, g, f, cmds)
    BY <2>2, <2>4, <2>5, <2>6, <2>6a DEF CacheOK
  <2>8. SameTags(C, D, g)
    BY <2>4, <2>5, <2>6 DEF SameTags
  <2> QED
    BY <2>1, <2>7, <2>8 DEF g, f, cmds, C
<1>4. CachesInvariant'
  BY <1>1, <1>3, NextCaches
<1> QED
  BY <1>1, <1>3, <1>4, TagsCarried

\* A flush of all blocks leaves the way lists in their order.
LEMMA CacheFlushOK == CachesInvariant /\ cache_flush => CachesInvariant' /\ Carried
<1> SUFFICES ASSUME CachesInvariant, cache_flush PROVE CachesInvariant' /\ Carried
  OBVIOUS
<1> DEFINE C == cache["dl1"]
           g == Geometry("dl1")
           f == Floor("dl1")
           blks == DirtyBlocks(C, g)
           two == "dl2" \in machine.caches
           h == Geometry("dl2")
<1>1. PICK r \in WriteBacks(blks, Below({}), g.hit_latency) :
        LET D    == r.lower.dl2
            rest == IF two THEN Range(DirtyBlocks(D, h)) ELSE {}
            low  == IF two THEN [r.lower EXCEPT !.dl2 = Invalidated(D, h)] ELSE r.lower
        IN /\ cache' = With("dl1", Invalidated(C, g), low)
           /\ written' = r.lower.mem \cup rest
  BY DEF cache_flush
<1>2. UNCHANGED machine
  BY DEF cache_flush
<1>3. /\ machine \in Machines /\ "dl1" \in machine.caches /\ Below({}) \in Belows
      /\ CacheOK(C, g, f, DataCmds)
  BY Level1
<1>4. GeometryOK(g) /\ f \in Nat /\ g.hit_latency \in Nat
  BY <1>3, Machine DEF GeometryOK
<1>5. /\ r \in Outcomes /\ Later(Below({}), r.lower)
      /\ \A x \in Nat : CACHE_BADDR(g, x) \in Range(blks) => Secured(r.lower, x)
  <2>1. blks \in Seq({x \in Nat : x >= f})
    BY <1>3, <1>4, DirtyFrom
  <2>2. Len(blks) \in Nat /\ \A i \in 1..Len(blks) : blks[i] \in Nat /\ blks[i] >= f
    <3> DEFINE S == {x \in Nat : x >= f}
    <3> HIDE DEF S
    <3>1. Len(blks) \in Nat /\ \A i \in 1..Len(blks) : blks[i] \in S
      BY <2>1, AtPlace DEF S
    <3> QED
      BY <3>1 DEF S
  <2>2a. Range(blks) = {blks[i] : i \in 1..Len(blks)}
    <3> DEFINE S == {x \in Nat : x >= f}
    <3> HIDE DEF S
    <3>1. DOMAIN blks = 1..Len(blks)
      BY <2>1, AtPlace DEF S
    <3> QED
      BY <3>1 DEF Range
  <2> DEFINE t == g.hit_latency
  <2>2b. r \in WriteBacks(blks, Below({}), t) /\ t \in Nat
    BY <1>1, <1>4
  <2> HIDE DEF blks, t
  <2>3. /\ r \in Outcomes /\ Later(Below({}), r.lower)
        /\ \A i \in 1..Len(blks), x \in Nat : CACHE_BADDR(g, x) = blks[i] => Secured(r.lower, x)
    BY <1>3, <2>2, <2>2b, WrittenBack
  <2> QED
    BY <2>2a, <2>3
<1>6. r.lower \in Belows
  BY <1>5 DEF Outcomes
<1> DEFINE D    == r.lower.dl2
           rest == IF two THEN Range(DirtyBlocks(D, h)) ELSE {}
           low  == IF two THEN [r.lower EXCEPT !.dl2 = Invalidated(D, h)] ELSE r.lower
<1>7. /\ low \in Belows /\ rest \in SUBSET Nat
      /\ two => SameArrivals(D, low.dl2, h)
      /\ two => \A x \in Nat : Pending(D, h, x) => CACHE_BADDR(h, x) \in rest
  <2>1. CASE two
    <3>1. GeometryOK(h) /\ CacheOK(D, h, 0, DataCmds)
      BY <1>3, <1>6, <2>1, Machine DEF Belows
    <3>2. CacheOK(Invalidated(D, h), h, 0, DataCmds) /\ SameArrivals(D, Invalidated(D, h), h)
      BY <3>1, InvalidatedOK
    <3>3. Invalidated(D, h) \in CacheType(h)
      BY <3>2 DEF CacheOK
    <3> DEFINE inv == Invalidated(D, h)
    <3>4. low = [r.lower EXCEPT !.dl2 = inv]
      BY <2>1
    <3> HIDE DEF inv, low
    <3>5. low \in Belows /\ low.dl2 = inv
      BY <1>6, <2>1, <3>2, <3>3, <3>4 DEF Belows, inv
    <3>6. rest \in SUBSET Nat
      <4>1. DirtyBlocks(D, h) \in Seq({x \in Nat : x >= 0})
        BY <3>1, DirtyFrom
      <4> DEFINE u == DirtyBlocks(D, h)
                 S == {x \in Nat : x >= 0}
      <4> HIDE DEF u, S
      <4>2. DOMAIN u = 1..Len(u) /\ \A i \in 1..Len(u) : u[i] \in S
        BY <4>1, AtPlace DEF u, S
      <4>3. Range(u) \subseteq Nat
        BY <4>2 DEF Range, S
      <4> QED
        BY <2>1, <4>3 DEF u
    <3>7. ASSUME NEW x \in Nat, Pending(D, h, x) PROVE CACHE_BADDR(h, x) \in rest
      <4>1. CACHE_BADDR(h, x) \in Range(DirtyBlocks(D, h))
        BY <3>1, <3>7, PendingListed
      <4> QED
        BY <2>1, <4>1
    <3> QED
      BY <3>2, <3>5, <3>6, <3>7 DEF inv
  <2>2. CASE ~two
    BY <1>6, <2>2
  <2> QED
    BY <2>1, <2>2
<1>8. /\ cache' = With("dl1", Invalidated(C, g), low) /\ written' \in SUBSET Nat
      /\ r.lower.mem \subseteq written' /\ rest \subseteq written'
  <2>1. r.lower.mem \in SUBSET Nat
    BY <1>6 DEF Belows
  <2>2. cache' = With("dl1", Invalidated(C, g), low) /\ written' = r.lower.mem \cup rest
    BY <1>1
  <2> HIDE DEF rest, low
  <2> QED
    BY <1>7, <2>1, <2>2
<1> HIDE DEF low, rest
<1>9. CacheOK(Invalidated(C, g), g, f, CmdsOf("dl1")) /\ SameArrivals(C, Invalidated(C, g), g)
  BY <1>3, <1>4, InvalidatedOK DEF CmdsOf
<1>10. CachesInvariant'
  BY <1>2, <1>3, <1>7, <1>8, <1>9, Returned
<1>11. WaitedFor(C, Invalidated(C, g), g) /\ CameFrom(C, Invalidated(C, g), g, low.dl2)
  BY <1>9 DEF SameArrivals, WaitedFor, CameFrom
<1>12. two => WaitedFor(cache["dl2"], low.dl2, h)
  <2>1. two => Waited(cache["dl2"], D, h)
    BY <1>5 DEF Later, Below
  <2> QED
    BY <1>7, <2>1 DEF Waited, WaitedFor, SameArrivals
<1>13. ASSUME NEW x \in Nat, Secured(r.lower, x) PROVE Reached(written', x)
  BY <1>7, <1>8, <1>13 DEF Secured, Reached
<1>14. ASSUME NEW x \in Nat, Pending(C, g, x) PROVE Reached(written', x)
  <2>1. CACHE_BADDR(g, x) \in Range(blks)
    BY <1>3, <1>4, <1>14, PendingListed
  <2> QED
    BY <1>5, <1>13, <2>1
<1>15. ASSUME NEW x \in Nat, two, Pending(cache["dl2"], h, x) PROVE Reached(written', x)
  <2>1. Secured(Below({}), x)
    BY <1>15 DEF Secured, Below
  <2>2. Secured(r.lower, x)
    BY <1>5, <2>1 DEF Later
  <2> QED
    BY <1>13, <2>2
<1>16. Carried
  BY <1>2, <1>3, <1>8, <1>11, <1>12, <1>14, <1>15, ReturnedBlocks
<1> QED
  BY <1>10, <1>16

\* A flush of one block moves it to the tail of the way list.
LEMMA CacheFlushAddrOK == CachesInvariant /\ cache_flush_addr => CachesInvariant' /\ Carried
<1> SUFFICES ASSUME CachesInvariant, cache_flush_addr PROVE CachesInvariant' /\ Carried
  OBVIOUS
<1> DEFINE C == cache["dl1"]
           g == Geometry("dl1")
           f == Floor("dl1")
<1>1. PICK a \in machine.addrs :
        LET s == CACHE_SET(g, a)
            hits == Lookup(C.set[s], g.hsize, CACHE_TAG(g, a))
            w == CHOOSE x \in hits : TRUE
            flushed == [C EXCEPT
              !.last_tagset = NoBlock, !.last_blk = NULL,
              !.set[s] = update_way_list([@ EXCEPT !.valid[w] = FALSE], w, "Tail")]
            dirty == hits # {} /\ C.set[s].dirty[w]
        IN \E r \in WriteBacks(IF dirty THEN <<CACHE_BADDR(g, a)>> ELSE <<>>, Below({}),
                               g.hit_latency) :
             /\ cache' = With("dl1", IF hits = {} THEN C ELSE flushed, r.lower)
             /\ written' = r.lower.mem
  BY DEF cache_flush_addr
<1>2. UNCHANGED machine
  BY DEF cache_flush_addr
<1> DEFINE s == CACHE_SET(g, a)
           old == C.set[s]
           hits == Lookup(old, g.hsize, CACHE_TAG(g, a))
           w == CHOOSE x \in hits : TRUE
           valid == [old.valid EXCEPT ![w] = FALSE]
           gone == [old EXCEPT !.valid = valid]
           new == update_way_list(gone, w, "Tail")
           flushed == [set |-> [C.set EXCEPT ![s] = new], last_tagset |-> NoBlock,
                       last_blk |-> NULL, bus_free |-> C.bus_free]
           dirty == hits # {} /\ old.dirty[w]
           blks == IF dirty THEN <<CACHE_BADDR(g, a)>> ELSE <<>>
<1>3. /\ machine \in Machines /\ "dl1" \in machine.caches /\ Below({}) \in Belows
      /\ CacheOK(C, g, f, DataCmds)
  BY Level1
<1>4. GeometryOK(g) /\ f \in Nat /\ g.hit_latency \in Nat /\ g.assoc \in Nat
      /\ a \in Nat /\ CACHE_BADDR(g, a) >= f
  BY <1>3, Machine DEF GeometryOK
<1>5. s \in 0..(g.nsets - 1) /\ CACHE_TAG(g, a) \in Nat /\ CACHE_BADDR(g, a) \in Nat
  BY <1>4, Addresses
<1>6. C \in CacheType(g) /\ C.set \in [0..(g.nsets - 1) -> SetType(g.assoc, g.hsize)]
  BY <1>3 DEF CacheOK, CacheType
<1>7. PICK r \in WriteBacks(blks, Below({}), g.hit_latency) :
        /\ cache' = With("dl1", IF hits = {} THEN C ELSE flushed, r.lower)
        /\ written' = r.lower.mem
  <2> DEFINE was == [C EXCEPT
              !.last_tagset = NoBlock, !.last_blk = NULL,
              !.set[s] = update_way_list([@ EXCEPT !.valid[w] = FALSE], w, "Tail")]
  <2>1. was = flushed
    <3> DEFINE sets == [C.set EXCEPT ![s] = new]
    <3>1. was = [C EXCEPT !.last_tagset = NoBlock, !.last_blk = NULL, !.set = sets]
      OBVIOUS
    <3> HIDE DEF sets, was
    <3> QED
      BY <1>6, <3>1 DEF CacheType, sets
  <2>2. \E r \in WriteBacks(blks, Below({}), g.hit_latency) :
          /\ cache' = With("dl1", IF hits = {} THEN C ELSE was, r.lower)
          /\ written' = r.lower.mem
    BY <1>1
  <2> HIDE DEF was, flushed, blks, hits
  <2> QED
    BY <2>1, <2>2
<1> HIDE DEF g, f, C, s, hits
<1>8. /\ r \in Outcomes /\ Later(Below({}), r.lower)
      /\ dirty => \A x \in Nat : CACHE_BADDR(g, x) = CACHE_BADDR(g, a) => Secured(r.lower, x)
  <2>1. Len(blks) \in Nat /\ \A i \in 1..Len(blks) : blks[i] \in Nat /\ blks[i] >= f
    BY <1>4, <1>5
  <2>1a. dirty => Len(blks) = 1 /\ blks[1] = CACHE_BADDR(g, a)
    OBVIOUS
  <2> DEFINE t == g.hit_latency
  <2>1b. r \in WriteBacks(blks, Below({}), t) /\ t \in Nat
    BY <1>4, <1>7
  <2> HIDE DEF blks, dirty, t
  <2>2. /\ r \in Outcomes /\ Later(Below({}), r.lower)
        /\ \A i \in 1..Len(blks), x \in Nat : CACHE_BADDR(g, x) = blks[i] => Secured(r.lower, x)
    BY <1>3, <2>1, <2>1b, WrittenBack DEF f, g
  <2> QED
    BY <2>1a, <2>2
<1>9. r.lower \in Belows /\ r.lower.mem \in SUBSET Nat
  BY <1>8 DEF Outcomes, Belows
<1>10. Linked(old, g, {}) /\ BlocksOK(old, g, s, f, DataCmds) /\ old \in SetType(g.assoc, g.hsize)
  BY <1>3, <1>5 DEF CacheOK, Linked
<1>11. ASSUME hits # {}
       PROVE  /\ CacheOK(flushed, g, f, DataCmds)
              /\ w \in 1..g.assoc /\ Holds(old, w, CACHE_TAG(g, a))
              /\ flushed.bus_free = C.bus_free
              /\ flushed.set = [C.set EXCEPT ![s] = new] /\ new.tag = old.tag
              /\ new.dirty = old.dirty /\ \A v \in 1..g.assoc : v # w => new.valid[v] = old.valid[v]
  <2>0. Holds(old, w, CACHE_TAG(g, a))
    BY <1>11 DEF hits, Lookup, Holds
  <2>1. w \in 1..g.assoc
    <3>1. hits \subseteq 1..g.assoc
      BY <1>4, <1>5, <1>10, LookupWays DEF hits
    <3> QED
      BY <1>11, <3>1
  <2> HIDE DEF w, old
  <2>2. /\ valid \in [1..g.assoc -> BOOLEAN]
        /\ \A v \in 1..g.assoc : valid[v] => old.valid[v]
        /\ \A v \in 1..g.assoc : v # w => valid[v] = old.valid[v]
    <3>1. old.valid \in [1..g.assoc -> BOOLEAN]
      BY <1>10 DEF SetType
    <3> QED
      BY <2>1, <3>1
  <2> HIDE DEF valid
  <2>3. /\ gone \in SetType(g.assoc, g.hsize) /\ SamePointers(old, gone)
        /\ gone.tag = old.tag /\ gone.valid = valid /\ gone.dirty = old.dirty
    BY <1>10, <2>2 DEF SetType, SamePointers
  <2> HIDE DEF gone
  <2>4. Linked(gone, g, {})
    BY <1>4, <1>10, <2>3, LinkedKept
  <2>5. BlocksOK(gone, g, s, f, DataCmds)
    BY <1>10, <2>2, <2>3 DEF BlocksOK
  <2>6. Linked(new, g, {}) /\ SameBlocks(gone, new)
    BY <1>4, <2>1, <2>4, UpdatedLinked
  <2> HIDE DEF new
  <2>7. BlocksOK(new, g, s, f, DataCmds)
    BY <2>5, <2>6 DEF BlocksOK, SameBlocks
  <2>8. NoBlock \in Nat /\ NULL \in 0..g.assoc /\ C.bus_free \in Nat
        /\ (NoBlock # NoBlock => NULL # NULL)
    BY <1>4, <1>6 DEF CacheType, NoBlock, NULL
  <2>9. CacheOK(flushed, g, f, DataCmds)
    BY <1>3, <1>4, <1>5, <2>6, <2>7, <2>8, SetChanged
  <2>10. /\ new.tag = old.tag /\ new.dirty = old.dirty
         /\ \A v \in 1..g.assoc : v # w => new.valid[v] = old.valid[v]
    BY <2>2, <2>3, <2>6 DEF SameBlocks
  <2>11. flushed.bus_free = C.bus_free /\ flushed.set = [C.set EXCEPT ![s] = new]
    OBVIOUS
  <2> QED
    BY <2>0, <2>1, <2>9, <2>10, <2>11 DEF old
<1>12. CacheOK(IF hits = {} THEN C ELSE flushed, g, f, CmdsOf("dl1"))
  <2> HIDE DEF flushed
  <2> QED
    BY <1>3, <1>11 DEF CmdsOf
<1> DEFINE now == IF hits = {} THEN C ELSE flushed
<1> HIDE DEF now
<1>13. CacheOK(now, Geometry("dl1"), Floor("dl1"), CmdsOf("dl1")) /\ cache' = With("dl1", now, r.lower)
  BY <1>7, <1>12 DEF now, g, f
<1>14. CachesInvariant'
  BY <1>2, <1>3, <1>7, <1>9, <1>13, Returned
<1>15. WaitedFor(C, now, g) /\ CameFrom(C, now, g, r.lower.dl2)
  <2>1. \A y \in 0..(g.nsets - 1), v \in 1..g.assoc : now.set[y].tag[v] = C.set[y].tag[v]
    <3>1. CASE hits = {}
      BY <3>1 DEF now
    <3>2. CASE hits # {}
      <4>1. now.set = [C.set EXCEPT ![s] = new] /\ new.tag = old.tag
        BY <1>11, <3>2 DEF now
      <4> HIDE DEF new
      <4>2. \A y \in 0..(g.nsets - 1) : now.set[y] = IF y = s THEN new ELSE C.set[y]
        BY <1>6, <4>1, Pointed
      <4> QED
        BY <4>1, <4>2
    <3> QED
      BY <3>1, <3>2
  <2> QED
    BY <2>1 DEF WaitedFor, CameFrom
<1>16. "dl2" \in machine.caches => WaitedFor(cache["dl2"], r.lower.dl2, Geometry("dl2"))
  <2>1. "dl2" \in machine.caches => Waited(cache["dl2"], r.lower.dl2, Geometry("dl2"))
    BY <1>8 DEF Later, Below
  <2> QED
    BY <2>1 DEF Waited, WaitedFor
<1>17. ASSUME NEW x \in Nat, Secured(r.lower, x)
       PROVE  \/ "dl2" \in machine.caches /\ Pending(r.lower.dl2, Geometry("dl2"), x)
              \/ Reached(written', x)
  BY <1>7, <1>17 DEF Secured, Reached
<1>18. ASSUME NEW x \in Nat, Pending(C, g, x) PROVE Pending(now, g, x) \/ Secured(r.lower, x)
  <2> DEFINE y == CACHE_SET(g, x)
  <2>1. PICK v \in 1..g.assoc : Holds(C.set[y], v, CACHE_TAG(g, x)) /\ C.set[y].dirty[v]
    BY <1>18 DEF Pending
  <2>2. y \in 0..(g.nsets - 1) /\ CACHE_MK_BADDR(g, CACHE_TAG(g, x), y) = CACHE_BADDR(g, x)
        /\ CACHE_MK_BADDR(g, CACHE_TAG(g, a), s) = CACHE_BADDR(g, a)
    BY <1>4, Addresses DEF s
  <2>3. CASE hits = {}
    BY <1>18, <2>3 DEF now
  <2>4. CASE hits # {} /\ y = s /\ v = w
    <3>1. CACHE_TAG(g, x) = CACHE_TAG(g, a) /\ dirty
      BY <1>11, <2>1, <2>4 DEF Holds
    <3>2. CACHE_BADDR(g, x) = CACHE_BADDR(g, a)
      BY <2>2, <2>4, <3>1
    <3> QED
      BY <1>8, <3>1, <3>2
  <2>5. CASE hits # {} /\ ~(y = s /\ v = w)
    <3>1. /\ now.set = [C.set EXCEPT ![s] = new] /\ new.tag = old.tag /\ new.dirty = old.dirty
          /\ v # w => new.valid[v] = old.valid[v]
      BY <1>11, <2>5 DEF now
    <3> HIDE DEF new
    <3>2. now.set[y] = IF y = s THEN new ELSE C.set[y]
      BY <1>6, <2>2, <3>1, Pointed
    <3>3. Holds(now.set[y], v, CACHE_TAG(g, x)) /\ now.set[y].dirty[v]
      BY <2>1, <2>5, <3>1, <3>2 DEF Holds
    <3> QED
      BY <3>3 DEF Pending
  <2> QED
    BY <2>3, <2>4, <2>5
<1>19. ASSUME NEW x \in Nat, "dl2" \in machine.caches, Pending(cache["dl2"], Geometry("dl2"), x)
       PROVE  Secured(r.lower, x)
  <2>1. Secured(Below({}), x)
    BY <1>19 DEF Secured, Below
  <2> QED
    BY <1>8, <2>1 DEF Later
<1>20. Carried
  BY <1>2, <1>3, <1>13, <1>15, <1>16, <1>17, <1>18, <1>19, ReturnedBlocks DEF g, C
<1> QED
  BY <1>14, <1>20

\* What the properties say of a cache is what the proofs say of it.
LEMMA DirtyPending ==
  ASSUME NEW g, GeometryOK(g), NEW C \in CacheType(g), NEW a \in Nat
  PROVE  (\E s \in 0..(g.nsets - 1), w \in 1..g.assoc :
            /\ IsDirty(C.set[s], w)
            /\ CACHE_MK_BADDR(g, C.set[s].tag[w], s) = CACHE_BADDR(g, a)) <=> Pending(C, g, a)
<1>1. /\ CACHE_SET(g, a) \in 0..(g.nsets - 1) /\ CACHE_TAG(g, a) \in Nat
      /\ CACHE_MK_BADDR(g, CACHE_TAG(g, a), CACHE_SET(g, a)) = CACHE_BADDR(g, a)
  BY Addresses
<1>2. \A s \in 0..(g.nsets - 1), w \in 1..g.assoc : C.set[s].tag[w] \in Nat
  <2>1. C.set \in [0..(g.nsets - 1) -> SetType(g.assoc, g.hsize)]
    BY DEF CacheType
  <2> QED
    BY <2>1 DEF SetType
<1>3. ASSUME NEW s \in 0..(g.nsets - 1), NEW w \in 1..g.assoc, IsDirty(C.set[s], w),
             CACHE_MK_BADDR(g, C.set[s].tag[w], s) = CACHE_BADDR(g, a)
      PROVE  Pending(C, g, a)
  <2>1. C.set[s].tag[w] = CACHE_TAG(g, a) /\ s = CACHE_SET(g, a)
    BY <1>1, <1>2, <1>3, OneBlock
  <2> QED
    BY <1>3, <2>1 DEF Pending, Holds, IsDirty
<1>4. ASSUME Pending(C, g, a)
      PROVE  \E s \in 0..(g.nsets - 1), w \in 1..g.assoc :
               /\ IsDirty(C.set[s], w)
               /\ CACHE_MK_BADDR(g, C.set[s].tag[w], s) = CACHE_BADDR(g, a)
  BY <1>1, <1>4 DEF Pending, Holds, IsDirty
<1> QED
  BY <1>3, <1>4

\* So the steps do what the properties say.
LEMMA StepProperties ==
  ASSUME CachesInvariant, CachesInvariant', UNCHANGED machine, Carried
  PROVE  VictimsWaited /\ FillsHeld /\ WritesKept
<1>1. machine \in Machines /\ machine' = machine /\ \A c : Geometry(c)' = Geometry(c)
  BY DEF CachesInvariant, Geometry
<1>2. ASSUME NEW c \in machine.caches
      PROVE  /\ GeometryOK(Geometry(c))
             /\ cache[c] \in CacheType(Geometry(c)) /\ cache'[c] \in CacheType(Geometry(c))
  <2>1. CacheOK(cache[c], Geometry(c), Floor(c), CmdsOf(c))
    BY DEF CachesInvariant
  <2>2. CacheOK(cache'[c], Geometry(c), Floor(c)', CmdsOf(c))
    BY <1>1 DEF CachesInvariant
  <2> QED
    BY <1>1, <2>1, <2>2, Machine DEF CacheOK
<1>3. VictimsWaited
  BY DEF Carried, WaitedFor, VictimsWaited, WasReplaced, SetOf, SetsOf, WaysOf
<1>4. FillsHeld
  <2>1. SUFFICES ASSUME NEW c \in machine.caches \ {"dl2"}, "dl2" \in machine.caches,
                        NEW s \in SetsOf(c), NEW w \in WaysOf(c), WasReplaced(c, s, w)
                 PROVE  HeldByLevel2(c, s, w)'
    BY DEF FillsHeld
  <2> DEFINE g == Geometry(c)
             h == Geometry("dl2")
             C == cache'[c]
             E == cache'["dl2"]
             a == CACHE_MK_BADDR(g, C.set[s].tag[w], s)
  <2>2. There(E, h, a, C.set[s].ready[w])
    BY <2>1 DEF Carried, CameFrom, WasReplaced, SetOf, SetsOf, WaysOf
  <2>3. a \in Nat
    <3>1. GeometryOK(g) /\ C \in CacheType(g) /\ s \in 0..(g.nsets - 1) /\ w \in 1..g.assoc
      BY <1>2 DEF SetsOf, WaysOf
    <3> HIDE DEF g, C
    <3>2. C.set[s].tag[w] \in Nat
      <4>1. C.set \in [0..(g.nsets - 1) -> SetType(g.assoc, g.hsize)]
        BY <3>1 DEF CacheType
      <4> DEFINE i == s
      <4>2. i \in 0..(g.nsets - 1)
        BY <3>1
      <4> HIDE DEF i
      <4>3. C.set[i].tag \in [1..g.assoc -> Nat]
        BY <4>1, <4>2 DEF SetType
      <4> QED
        BY <3>1, <4>3 DEF i
    <3> QED
      BY <3>1, <3>2, BlockAddress
  <2>4. CACHE_MK_BADDR(h, CACHE_TAG(h, a), CACHE_SET(h, a)) = CACHE_BADDR(h, a)
    <3>1. GeometryOK(h)
      BY <1>2, <2>1
    <3> HIDE DEF h, a
    <3> QED
      BY <2>3, <3>1, Addresses
  <2>5. \E x \in 1..h.assoc :
          /\ E.set[CACHE_SET(h, a)].valid[x]
          /\ CACHE_MK_BADDR(h, E.set[CACHE_SET(h, a)].tag[x], CACHE_SET(h, a)) = CACHE_BADDR(h, a)
          /\ E.set[CACHE_SET(h, a)].ready[x] <= C.set[s].ready[w]
    BY <2>2, <2>4 DEF There, Holds
  <2>6. Geometry(c)' = g /\ Geometry("dl2")' = h
    BY <1>1
  <2> QED
    BY <2>5, <2>6 DEF HeldByLevel2, AddressOf, SetOf, WaysOf
<1>5. WritesKept
  <2>1. SUFFICES ASSUME NEW a \in machine.addrs, \E c \in machine.caches : DirtyAt(c, a)
                 PROVE  \/ (\E c \in machine.caches : DirtyAt(c, a))'
                        \/ \E c \in machine.caches : CACHE_BADDR(Geometry(c), a) \in written'
    BY DEF WritesKept
  <2>2. a \in Nat
    BY <1>1, MachineAssumption
  <2>3. ASSUME NEW c \in machine.caches, DirtyAt(c, a) PROVE Pending(cache[c], Geometry(c), a)
    BY <1>2, <2>2, <2>3, DirtyPending DEF DirtyAt, SetsOf, WaysOf, SetOf, AddressOf
  <2>4. Waiting(cache', a) \/ Reached(written', a)
    BY <2>1, <2>2, <2>3 DEF Carried, Waiting
  <2>5. ASSUME NEW c \in machine.caches, Pending(cache'[c], Geometry(c), a) PROVE DirtyAt(c, a)'
    <3>1. \E s \in 0..(Geometry(c).nsets - 1), w \in 1..Geometry(c).assoc :
            /\ IsDirty(cache'[c].set[s], w)
            /\ CACHE_MK_BADDR(Geometry(c), cache'[c].set[s].tag[w], s) = CACHE_BADDR(Geometry(c), a)
      BY <1>2, <2>2, <2>5, DirtyPending
    <3> QED
      BY <1>1, <3>1 DEF DirtyAt, SetsOf, WaysOf, SetOf, AddressOf
  <2> QED
    BY <1>1, <2>4, <2>5 DEF Waiting, Reached
<1> QED
  BY <1>3, <1>4, <1>5

\* A step that changes nothing keeps the invariant, and so does every step.
LEMMA StutterOK == CachesInvariant /\ UNCHANGED vars => CachesInvariant'
BY DEF CachesInvariant, vars, Geometry, Floor

LEMMA NextOK == CachesInvariant /\ Next => CachesInvariant' /\ Carried /\ UNCHANGED machine
<1>1. Next => UNCHANGED machine
  BY DEF Next, DataAccess, InstFetch, Tick, cache_flush, cache_flush_addr, Returns
<1> QED
  BY <1>1, DataAccessOK, InstFetchOK, TickOK, CacheFlushOK, CacheFlushAddrOK DEF Next

LEMMA StepOK ==
  CachesInvariant /\ [Next]_vars =>
    CachesInvariant' /\ [VictimsWaited]_vars /\ [FillsHeld]_vars /\ [WritesKept]_vars
<1> SUFFICES ASSUME CachesInvariant, [Next]_vars
             PROVE  CachesInvariant' /\ [VictimsWaited]_vars /\ [FillsHeld]_vars /\ [WritesKept]_vars
  OBVIOUS
<1>1. CASE Next
  <2>1. CachesInvariant' /\ Carried /\ UNCHANGED machine
    BY <1>1, NextOK
  <2> QED
    BY <2>1, StepProperties
<1>2. CASE UNCHANGED vars
  BY <1>2, StutterOK
<1> QED
  BY <1>1, <1>2

LEMMA AskedKept == CachesInvariant /\ AskedOK /\ [Next]_vars => AskedOK'
<1> SUFFICES ASSUME CachesInvariant, AskedOK, [Next]_vars PROVE AskedOK'
  OBVIOUS
<1>1. UNCHANGED machine /\ machine.cmds \subseteq {"Read", "Write"}
  BY NextOK, MachineAssumption DEF CachesInvariant, vars
<1>2. CASE DataAccess
  <2>1. PICK cmd \in machine.cmds, a \in machine.addrs : asked' = [cmd |-> cmd, addr |-> a]
    BY <1>2 DEF DataAccess
  <2> QED
    BY <1>1, <2>1 DEF AskedOK
<1>3. CASE InstFetch \/ Tick \/ UNCHANGED vars
  BY <1>1, <1>3 DEF InstFetch, Tick, vars, AskedOK
<1>4. CASE cache_flush
  BY <1>4 DEF cache_flush, AskedOK
<1>5. CASE cache_flush_addr
  <2>1. PICK a \in machine.addrs : asked' = [cmd |-> "cache_flush_addr", addr |-> a]
    BY <1>5 DEF cache_flush_addr
  <2> QED
    BY <1>1, <2>1 DEF AskedOK
<1> QED
  BY <1>2, <1>3, <1>4, <1>5 DEF Next

\* The caches stay well formed; in particular the block that a fast hit goes to is
\* there (last_blk in cache_access, cache.c:531-536).
THEOREM CachesInvariance == Spec => []CachesInvariant
<1>1. Init => CachesInvariant
  BY InitOK
<1>2. CachesInvariant /\ [Next]_vars => CachesInvariant'
  BY StepOK
<1> QED
  BY <1>1, <1>2, PTL DEF Spec

\* The way lists and the hash chains of all caches stay sound, whatever hits,
\* replacements and flushes relink (update_way_list, link_htab_ent and
\* unlink_htab_ent, cache.c:144-257), and no block of the instruction cache is ever
\* dirty, so that il1_access_fn never panics (sim-outorder.c:499, 507).
THEOREM SetsAreSound == Spec => []SetsSound
<1>1. Init => AskedOK
  BY DEF Init, NotAsked, AskedOK
<1>2. CachesInvariant /\ AskedOK /\ [Next]_vars => AskedOK'
  BY AskedKept
<1> QED
  BY <1>1, <1>2, CachesInvariance, CachesSound, PTL DEF Spec

\* What takes the place of a valid block arrives after that block had arrived and after
\* the transfers the bus had accepted, at every level and in whatever order accesses,
\* write-backs and flushes come (cache.c:604-629).
THEOREM VictimsWait == Spec => ReplacementWaits
<1>1. CachesInvariant /\ [Next]_vars => [VictimsWaited]_vars
  BY StepOK
<1> QED
  BY <1>1, CachesInvariance, PTL DEF Spec, ReplacementWaits

\* A block that enters level 1 is in level 2 by then, although the write-back of the
\* victim comes between and may replace it there (cache.c:613-629).
THEOREM FillsComeFromLevel2 == Spec => FilledFromLevel2
<1>1. CachesInvariant /\ [Next]_vars => [FillsHeld]_vars
  BY StepOK
<1> QED
  BY <1>1, CachesInvariance, PTL DEF Spec, FilledFromLevel2

\* What the program wrote stays in a dirty block of some level until it is written to
\* memory (cache.c:613-619, 781-794, 841-855).
THEOREM WritesAreKept == Spec => NoWriteLost
<1>1. CachesInvariant /\ [Next]_vars => [WritesKept]_vars
  BY StepOK
<1> QED
  BY <1>1, CachesInvariance, PTL DEF Spec, NoWriteLost

-----------------------------------------------------------------------------
(* The search for a victim: its inductive invariant.                       *)

LoopTypes ==
  /\ policy \in {"NRU", "DRRIP"}
  /\ blk \in Ways
  /\ repl \in Ways \cup {NoWay}
  /\ NRU_bit \in [Ways -> BOOLEAN]
  /\ RRPV \in [Ways -> Nat]
  /\ before \in [NRU_bit : [Ways -> BOOLEAN], RRPV : [Ways -> Nat]]

\* NRU: the first pass has found no bit set so far; a second one begins with all
\* of them set, and ends where it begins.
FirstPass  == NRU_bit = before.NRU_bit /\ \A w \in Ways : w < blk => ~NRU_bit[w]
SecondPass ==
  /\ NotUsed(before.NRU_bit) = {}
  /\ NRU_bit = [w \in Ways |-> TRUE]
  /\ blk = 1

\* DRRIP: the first pass has found no block at RRPV_MAX so far; the one after n
\* increments has passed over no way that it can reach, and no such way has
\* been incremented beyond RRPV_MAX.
UnchangedPass == RRPV = before.RRPV /\ \A w \in Ways : w < blk => RRPV[w] # RRPV_MAX
LaterPass(n) ==
  /\ Distant(before.RRPV) = {}
  /\ RRPV = [w \in Ways |-> before.RRPV[w] + n]
  /\ blk >= 1
  /\ \A x \in Approaching(order, before.RRPV) :
       /\ before.RRPV[x] + n <= RRPV_MAX
       /\ x < blk => before.RRPV[x] + n # RRPV_MAX

SearchNRU   == Searching /\ policy = "NRU"   => (FirstPass \/ SecondPass)
SearchDRRIP == Searching /\ policy = "DRRIP" =>
                 (UnchangedPass \/ \E n \in Nat \ {0} : LaterPass(n))

LoopInv == LoopTypes /\ SearchNRU /\ SearchDRRIP /\ ChoosesAsStated

-----------------------------------------------------------------------------

\* The ways that the loops name.
LEMMA TailIsWay == way_tail \in Ways /\ way_tail >= 1 /\ 0 \in Ways /\ 1 \in Ways /\ NoWay \notin Ways
  BY LoopAssumption, WaysAssumption DEF way_tail, Ways, NoWay

\* The invariant holds when the search begins.
LEMMA LoopInit == SearchInit => LoopInv
<1> SUFFICES ASSUME SearchInit PROVE LoopInv
  OBVIOUS
<1> USE LoopAssumption, WaysAssumption, TailIsWay
<1>1. LoopTypes
  <2>1. NRU_bit \in [Ways -> BOOLEAN] /\ RRPV \in [Ways -> Nat]
    <3>1. CASE policy = "NRU"
      <4>1. RRPV_MAX - 1 \in Nat
        OBVIOUS
      <4> QED BY <3>1, <4>1 DEF SearchInit
    <3>2. CASE policy # "NRU"
      <4>1. 0..MaxRRPV \subseteq Nat
        OBVIOUS
      <4> QED BY <3>2, <4>1 DEF SearchInit
    <3> QED BY <3>1, <3>2
  <2> QED BY <2>1 DEF SearchInit, LoopTypes
<1>2. Searching /\ ~(\E w \in Ways : w < blk)
  BY DEF SearchInit, Searching, Ways
<1>3. SearchNRU /\ SearchDRRIP
  BY <1>2 DEF SearchInit, SearchNRU, SearchDRRIP, FirstPass, UnchangedPass
<1>4. ChoosesAsStated
  BY <1>2 DEF Searching, ChoosesAsStated
<1> QED BY <1>1, <1>3, <1>4 DEF LoopInv

\* A step of the search keeps the types.
LEMMA TypesKept == LoopInv /\ [SearchNext]_search_vars => LoopTypes'
<1> SUFFICES ASSUME LoopInv, [SearchNext]_search_vars PROVE LoopTypes'
  OBVIOUS
<1> USE LoopAssumption, WaysAssumption, TailIsWay DEF LoopInv, LoopTypes
<1>1. CASE Take /\ UNCHANGED policy
  BY <1>1 DEF Take
<1>2. CASE Advance /\ UNCHANGED policy
  <2>1. blk + 1 \in Ways
    BY <1>2 DEF Advance, way_tail, Ways
  <2> QED BY <1>2, <2>1 DEF Advance
<1>3. CASE Restart /\ UNCHANGED policy
  <2>1. NRU_bit' \in [Ways -> BOOLEAN]
    BY <1>3 DEF Restart
  <2>2. [w \in Ways |-> RRPV[w] + 1] \in [Ways -> Nat]
    OBVIOUS
  <2>3. RRPV' \in [Ways -> Nat]
    BY <1>3, <2>2 DEF Restart
  <2> QED BY <1>3, <2>1, <2>3 DEF Restart
<1>4. CASE UNCHANGED search_vars
  BY <1>4 DEF search_vars
<1> QED BY <1>1, <1>2, <1>3, <1>4 DEF SearchNext

-----------------------------------------------------------------------------
(* The end of a search.                                                    *)

\* The way that NRU takes is the one that is stated.
LEMMA TakeNRU ==
  ASSUME LoopInv, Take, UNCHANGED policy, policy = "NRU"
  PROVE  ChoosesAsStated'
<1> USE LoopAssumption, WaysAssumption, TailIsWay DEF LoopInv, LoopTypes
<1>1. /\ Searching /\ NRU_bit[blk] /\ repl' = blk /\ before' = before
      /\ NRU_bit' = [NRU_bit EXCEPT ![blk] = FALSE] /\ policy' = "NRU"
  BY DEF Take, Found
<1>2. CASE FirstPass
  <2>1. blk \in NotUsed(before.NRU_bit)
    BY <1>1, <1>2 DEF FirstPass, NotUsed
  <2>2. \A x \in NotUsed(before.NRU_bit) : order[blk] <= order[x]
    BY <1>2 DEF FirstPass, NotUsed, order, Ways
  <2>3. ChosenByNRU(order, before.NRU_bit, blk)
    BY <2>1, <2>2 DEF ChosenByNRU, FirstOf
  <2>4. NRU_bit' = [before.NRU_bit EXCEPT ![blk] = FALSE]
    BY <1>1, <1>2 DEF FirstPass
  <2> QED BY <1>1, <2>1, <2>3, <2>4 DEF ChoosesAsStated
<1>3. CASE SecondPass
  <2>1. ChosenByNRU(order, before.NRU_bit, blk)
    BY <1>3 DEF SecondPass, ChosenByNRU, order
  <2>2. NRU_bit' = [w \in Ways |-> w # blk]
    BY <1>1, <1>3 DEF SecondPass
  <2>3. NotUsed(before.NRU_bit') = {}
    BY <1>1, <1>3 DEF SecondPass
  <2>4. ChosenByNRU(order, before.NRU_bit', repl') /\ NRU_bit' = [w \in Ways |-> w # repl']
    BY <1>1, <2>1, <2>2
  <2> QED BY <1>1, <2>3, <2>4, Zenon DEF ChoosesAsStated
<1> QED BY <1>1, <1>2, <1>3 DEF SearchNRU

\* The way that DRRIP takes is the one that is stated.
LEMMA TakeDRRIP ==
  ASSUME LoopInv, Take, UNCHANGED policy, policy = "DRRIP"
  PROVE  ChoosesAsStated'
<1> USE LoopAssumption, WaysAssumption, TailIsWay DEF LoopInv, LoopTypes
<1>1. /\ Searching /\ RRPV[blk] = RRPV_MAX /\ repl' = blk /\ before' = before
      /\ RRPV' = RRPV /\ policy' = "DRRIP"
  BY DEF Take, Found
<1>2. ASSUME NEW n \in 0..RRPV_MAX, ChosenByDRRIP(order, before.RRPV, blk, n),
             RRPV = [w \in Ways |-> before.RRPV[w] + n]
      PROVE  ChoosesAsStated'
  BY <1>1, <1>2 DEF ChoosesAsStated
<1>3. CASE UnchangedPass
  <2>1. blk \in Distant(before.RRPV)
    BY <1>1, <1>3 DEF UnchangedPass, Distant
  <2>2. \A x \in Distant(before.RRPV) : order[blk] <= order[x]
    BY <1>3 DEF UnchangedPass, Distant, order, Ways
  <2>3. ChosenByDRRIP(order, before.RRPV, blk, 0)
    BY <2>1, <2>2 DEF ChosenByDRRIP, FirstOf
  <2>4. RRPV = [w \in Ways |-> before.RRPV[w] + 0]
    <3>1. \A w \in Ways : before.RRPV[w] + 0 = before.RRPV[w]
      OBVIOUS
    <3> QED BY <1>3, <3>1 DEF UnchangedPass
  <2>5. 0 \in 0..RRPV_MAX
    OBVIOUS
  <2> QED BY <1>2, <2>3, <2>4, <2>5
<1>4. ASSUME NEW n \in Nat \ {0}, LaterPass(n) PROVE ChoosesAsStated'
  <2>1. before.RRPV[blk] \in Nat /\ before.RRPV[blk] + n = RRPV_MAX
    BY <1>1, <1>4 DEF LaterPass
  <2>2. n \in 1..RRPV_MAX /\ n \in 0..RRPV_MAX
    BY <2>1
  <2>3. blk \in Approaching(order, before.RRPV)
    BY <1>4, <2>1 DEF LaterPass, Approaching, order, Ways
  <2>4. ASSUME NEW x \in Approaching(order, before.RRPV), before.RRPV[x] + n = RRPV_MAX
        PROVE  order[blk] <= order[x]
    BY <1>4, <2>4 DEF LaterPass, Approaching, order, Ways
  <2>5. \A x \in Approaching(order, before.RRPV) : before.RRPV[x] + n <= RRPV_MAX
    BY <1>4 DEF LaterPass
  <2>6. FirstOf({x \in Approaching(order, before.RRPV) : before.RRPV[x] + n = RRPV_MAX}, order, blk)
    BY <2>1, <2>3, <2>4 DEF FirstOf
  <2>7. ChosenByDRRIP(order, before.RRPV, blk, n)
    BY <1>4, <2>2, <2>5, <2>6 DEF LaterPass, ChosenByDRRIP
  <2> QED BY <1>2, <1>4, <2>2, <2>7 DEF LaterPass
<1> QED BY <1>1, <1>3, <1>4 DEF SearchDRRIP

-----------------------------------------------------------------------------
(* The passes over the list.                                               *)

\* A step to the next way keeps the invariant.
LEMMA AdvanceKeeps ==
  ASSUME LoopInv, Advance, UNCHANGED policy
  PROVE  LoopInv'
<1> USE LoopAssumption, WaysAssumption, TailIsWay DEF LoopInv
<1>1. /\ Searching /\ ~Found /\ blk' = blk + 1 /\ repl' = repl /\ NRU_bit' = NRU_bit
      /\ RRPV' = RRPV /\ before' = before /\ policy' = policy /\ LoopTypes
  BY DEF Advance
<1>2. LoopTypes'
  BY TypesKept DEF SearchNext
<1>3. ASSUME policy = "NRU" PROVE FirstPass' \/ SecondPass'
  <2>1. CASE FirstPass
    <3>1. ASSUME NEW w \in Ways, w < blk + 1 PROVE ~NRU_bit[w]
      <4>1. ~NRU_bit[blk]
        BY <1>1, <1>3 DEF Found
      <4>2. w < blk \/ w = blk
        BY <1>1, <3>1 DEF LoopTypes, Ways
      <4> QED BY <2>1, <4>1, <4>2 DEF FirstPass
    <3> QED BY <1>1, <2>1, <3>1 DEF FirstPass
  <2>2. CASE SecondPass
    BY <1>1, <1>3, <2>2 DEF SecondPass, Found
  <2> QED BY <1>1, <1>3, <2>1, <2>2 DEF SearchNRU
<1>4. ASSUME policy = "DRRIP" PROVE UnchangedPass' \/ \E n \in Nat \ {0} : LaterPass(n)'
  <2>1. CASE UnchangedPass
    <3>1. ASSUME NEW w \in Ways, w < blk + 1 PROVE RRPV[w] # RRPV_MAX
      BY <1>1, <1>4, <2>1, <3>1 DEF UnchangedPass, Found, LoopTypes, Ways
    <3> QED BY <1>1, <2>1, <3>1 DEF UnchangedPass
  <2>2. ASSUME NEW n \in Nat \ {0}, LaterPass(n) PROVE LaterPass(n)'
    <3>1. before.RRPV[blk] + n # RRPV_MAX
      BY <1>1, <1>4, <2>2 DEF LaterPass, Found, LoopTypes
    <3>2. ASSUME NEW x \in Approaching(order, before.RRPV), x < blk + 1
          PROVE  before.RRPV[x] + n # RRPV_MAX
      <4>1. x = blk \/ x < blk
        BY <1>1, <3>2 DEF LoopTypes, Approaching, Ways
      <4>2. x < blk => before.RRPV[x] + n # RRPV_MAX
        BY <2>2 DEF LaterPass
      <4> QED
        BY <3>1, <4>1, <4>2
    <3>3. blk + 1 >= 1
      BY <1>1 DEF LoopTypes, Ways
    <3> QED BY <1>1, <2>2, <3>2, <3>3 DEF LaterPass
  <2> QED BY <1>1, <1>4, <2>1, <2>2 DEF SearchDRRIP
<1>5. SearchNRU' /\ SearchDRRIP'
  BY <1>1, <1>3, <1>4 DEF SearchNRU, SearchDRRIP
<1>6. ChoosesAsStated'
  BY <1>1 DEF Searching, ChoosesAsStated
<1> QED BY <1>2, <1>5, <1>6

\* So does a new pass, which leaves out the head of the list.
LEMMA RestartKeeps ==
  ASSUME LoopInv, Restart, UNCHANGED policy
  PROVE  LoopInv'
<1> USE LoopAssumption, WaysAssumption, TailIsWay DEF LoopInv
<1>1. /\ Searching /\ ~Found /\ blk = way_tail /\ blk' = 1 /\ repl' = repl
      /\ before' = before /\ policy' = policy /\ LoopTypes
  BY DEF Restart
<1>2. LoopTypes'
  BY TypesKept DEF SearchNext
<1>3. ASSUME policy = "NRU" PROVE SecondPass'
  <2>1. NRU_bit' = [w \in Ways |-> TRUE]
    BY <1>3 DEF Restart
  <2>2. CASE FirstPass
    <3>1. ASSUME NEW w \in Ways PROVE ~before.NRU_bit[w]
      BY <1>1, <1>3, <2>2 DEF FirstPass, Found, way_tail, Ways
    <3> QED BY <1>1, <2>1, <3>1 DEF SecondPass, NotUsed
  <2>3. CASE SecondPass
    BY <1>1, <1>3, <2>3 DEF SecondPass, Found
  <2> QED BY <1>1, <1>3, <2>2, <2>3 DEF SearchNRU
<1>4. ASSUME policy = "DRRIP" PROVE \E n \in Nat \ {0} : LaterPass(n)'
  <2>1. RRPV' = [w \in Ways |-> RRPV[w] + 1]
    BY <1>4 DEF Restart
  <2>2. CASE UnchangedPass
    <3>1. ASSUME NEW w \in Ways PROVE before.RRPV[w] # RRPV_MAX
      BY <1>1, <1>4, <2>2 DEF UnchangedPass, Found, way_tail, Ways
    <3>2. Distant(before.RRPV) = {}
      BY <3>1 DEF Distant
    <3>3. ASSUME NEW x \in Approaching(order, before.RRPV)
          PROVE  before.RRPV[x] + 1 <= RRPV_MAX /\ ~(x < 1)
      BY <1>1 DEF Approaching, order, LoopTypes, Ways
    <3>4. RRPV' = [w \in Ways |-> before.RRPV[w] + 1]
      BY <2>1, <2>2 DEF UnchangedPass
    <3>5. LaterPass(1)'
      BY <1>1, <3>2, <3>3, <3>4 DEF LaterPass
    <3> QED BY <3>5
  <2>3. ASSUME NEW n \in Nat \ {0}, LaterPass(n) PROVE LaterPass(n + 1)'
    <3>1. before.RRPV[way_tail] + n # RRPV_MAX
      BY <1>1, <1>4, <2>3 DEF LaterPass, Found, LoopTypes
    <3>2. ASSUME NEW x \in Approaching(order, before.RRPV)
          PROVE  before.RRPV[x] + (n + 1) <= RRPV_MAX /\ ~(x < 1)
      <4>1. x \in Ways /\ x > 0 /\ before.RRPV[x] \in Nat /\ (x < way_tail \/ x = way_tail)
        BY <1>1 DEF Approaching, order, LoopTypes, way_tail, Ways
      <4>2. before.RRPV[x] + n <= RRPV_MAX /\ before.RRPV[x] + n # RRPV_MAX
        BY <1>1, <2>3, <3>1, <4>1 DEF LaterPass
      <4>3. ~(x < 1)
        BY <4>1 DEF Ways
      <4>4. before.RRPV[x] + (n + 1) <= RRPV_MAX
        BY <4>1, <4>2
      <4> QED BY <4>3, <4>4
    <3>3. RRPV' = [w \in Ways |-> before.RRPV[w] + (n + 1)]
      <4>1. \A w \in Ways : RRPV[w] + 1 = before.RRPV[w] + (n + 1)
        BY <1>1, <2>3 DEF LaterPass, LoopTypes
      <4> QED BY <2>1, <4>1
    <3> QED BY <1>1, <2>3, <3>2, <3>3 DEF LaterPass
  <2>4. \A n \in Nat \ {0} : n + 1 \in Nat \ {0}
    OBVIOUS
  <2> QED BY <1>1, <1>4, <2>2, <2>3, <2>4 DEF SearchDRRIP
<1>5. SearchNRU' /\ SearchDRRIP'
  BY <1>1, <1>3, <1>4 DEF SearchNRU, SearchDRRIP
<1>6. ChoosesAsStated'
  BY <1>1 DEF Searching, ChoosesAsStated
<1> QED BY <1>2, <1>5, <1>6

\* So does the end of the search.
LEMMA TakeKeeps ==
  ASSUME LoopInv, Take, UNCHANGED policy
  PROVE  LoopInv'
<1>1. LoopTypes'
  BY TypesKept DEF SearchNext
<1>2. ~Searching'
  <2>1. repl' = blk /\ blk \in Ways
    BY DEF Take, LoopInv, LoopTypes
  <2> QED BY <2>1, TailIsWay DEF Searching
<1>3. ChoosesAsStated'
  BY TakeNRU, TakeDRRIP DEF LoopInv, LoopTypes
<1> QED BY <1>1, <1>2, <1>3 DEF LoopInv, SearchNRU, SearchDRRIP

-----------------------------------------------------------------------------

\* Both searches of cache_access end with the way VictimChoice names (NRU: the
\* first whose bit is set, or the second of the list when none is; DRRIP: the
\* first at RRPV_MAX, or the first but the head of the list that gets there
\* earliest), and have changed the bits and counters of the set as it says.
THEOREM SearchFindsVictim == SearchSpec => []ChoosesAsStated
<1>1. LoopInv /\ [SearchNext]_search_vars => LoopInv'
  <2>1. ASSUME LoopInv, UNCHANGED search_vars PROVE LoopInv'
    BY <2>1 DEF search_vars, LoopInv, LoopTypes, SearchNRU, SearchDRRIP, ChoosesAsStated, Searching,
                FirstPass, SecondPass, UnchangedPass, LaterPass
  <2> QED BY <2>1, TakeKeeps, AdvanceKeeps, RestartKeeps DEF SearchNext
<1>2. LoopInv => ChoosesAsStated
  BY DEF LoopInv
<1> QED BY LoopInit, <1>1, <1>2, PTL DEF SearchSpec
=============================================================================
