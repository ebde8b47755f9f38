------------------------------ MODULE ProofFacts ------------------------------
(***************************************************************************)
(* What several proofs need: least and greatest elements of sets of natural *)
(* numbers, parts of intervals, loops, and sequences from which an element  *)
(* is taken out.                                                            *)
(***************************************************************************)
EXTENDS Integers, Sequences, SequenceTheorems, FiniteSetTheorems, WellFoundedInduction, TLAPS

\* A nonempty set of natural numbers has a least element.
LEMMA LeastElement ==
  ASSUME NEW S \in SUBSET Nat, S # {}
  PROVE  \E x \in S : \A y \in S : x <= y
<1>1. PICK x \in S : \A y \in S : ~(<<y, x>> \in OpToRel(<, Nat))
  BY NatLessThanWellFounded, WFMin
<1>2. ASSUME NEW y \in S PROVE x <= y
  <2>1. x \in Nat /\ y \in Nat
    OBVIOUS
  <2>2. ~(y < x)
    BY <1>1, <2>1 DEF OpToRel
  <2> QED
    BY <2>1, <2>2
<1> QED
  BY <1>2

\* A nonempty set of natural numbers with a bound has a greatest element.
LEMMA GreatestElement ==
  ASSUME NEW n \in Nat, NEW S \in SUBSET (0..n), S # {}
  PROVE  \E x \in S : \A y \in S : y <= x
<1> DEFINE T == {z \in Nat : n - z \in S}
<1>1. T # {}
  <2>1. PICK y \in S : TRUE
    OBVIOUS
  <2>2. y \in 0..n
    BY <2>1
  <2>3. n - y \in Nat /\ n - (n - y) = y
    BY <2>2
  <2> QED
    BY <2>1, <2>3
<1>2. PICK m \in T : \A y \in T : m <= y
  <2> HIDE DEF T
  <2>1. T \in SUBSET Nat
    BY DEF T
  <2> QED
    BY <1>1, <2>1, LeastElement
<1>3. ASSUME NEW y \in S PROVE y <= n - m
  <2>1. y \in 0..n /\ m \in Nat
    BY <1>2
  <2>2. n - y \in Nat /\ n - (n - y) = y
    BY <2>1
  <2>3. m <= n - y
    BY <1>2, <2>2
  <2> QED
    BY <2>1, <2>3
<1> QED
  BY <1>2, <1>3

\* An interval is finite.
LEMMA IntervalFinite == \A n \in Int : IsFiniteSet(1..n)
<1> DEFINE one == 1
<1>1. one \in Int
  OBVIOUS
<1> HIDE DEF one
<1>2. \A n \in Int : IsFiniteSet(one..n)
  BY <1>1, FS_Interval
<1> QED BY <1>2 DEF one

\* A part of an interval that is closed downwards is an interval.
LEMMA PrefixInterval ==
  ASSUME NEW m \in Nat, NEW Y \in SUBSET (1..m),
         \A i, j \in 1..m : i < j /\ j \in Y => i \in Y
  PROVE  /\ Cardinality(Y) \in 0..m
         /\ \A k \in 1..m : k \in Y <=> k <= Cardinality(Y)
<1>1. \E t \in 0..m : Y = 1..t
  <2>1. CASE Y = {}
    <3>1. Y = 1..0 /\ 0 \in 0..m
      BY <2>1
    <3> QED BY <3>1
  <2>2. CASE Y # {}
    <3>1. Y \in SUBSET (0..m)
      OBVIOUS
    <3>2. PICK t \in Y : \A y \in Y : y <= t
      BY <2>2, <3>1, GreatestElement
    <3>3. \A i \in 1..t : i \in Y
      BY <3>2
    <3>4. t \in 1..m /\ t \in 0..m
      OBVIOUS
    <3>5. \A y \in Y : y \in 1..t
      BY <3>2, <3>4
    <3>6. Y = 1..t
      BY <3>3, <3>5
    <3> QED BY <3>4, <3>6
  <2> QED BY <2>1, <2>2
<1>2. PICK t \in 0..m : Y = 1..t
  BY <1>1
<1>3. Cardinality(1..t) = IF 1 > t THEN 0 ELSE t - 1 + 1
  BY FS_Interval
<1>4. Cardinality(Y) = t
  BY <1>2, <1>3
<1> QED BY <1>2, <1>4

\* A part of an interval that is closed upwards is its end.
LEMMA SuffixInterval ==
  ASSUME NEW m \in Nat, NEW Y \in SUBSET (1..m),
         \A i, j \in 1..m : i < j /\ i \in Y => j \in Y
  PROVE  /\ Cardinality(Y) \in 0..m
         /\ \A k \in 1..m : k \in Y <=> k > m - Cardinality(Y)
<1>1. IsFiniteSet(1..m) /\ Cardinality(1..m) = m
  <2>1. IsFiniteSet(1..m) /\ Cardinality(1..m) = IF 1 > m THEN 0 ELSE m - 1 + 1
    BY FS_Interval
  <2> QED BY <2>1
<1> DEFINE Z == (1..m) \ Y
<1>2. Z \in SUBSET (1..m) /\ \A i, j \in 1..m : i < j /\ j \in Z => i \in Z
  OBVIOUS
<1>3. \A k \in 1..m : k \in Z <=> ~(k \in Y)
  OBVIOUS
<1>4. Y \cup Z = 1..m /\ Y \cap Z = {}
  OBVIOUS
<1> HIDE DEF Z
<1>5. Cardinality(Z) \in 0..m /\ \A k \in 1..m : k \in Z <=> k <= Cardinality(Z)
  BY <1>2, PrefixInterval
<1>6. IsFiniteSet(Y) /\ IsFiniteSet(Z) /\ Cardinality(Y) \in Nat
  BY <1>1, <1>2, FS_Subset, FS_CardinalityType
<1>7. Cardinality(Y \cup Z) = Cardinality(Y) + Cardinality(Z) - Cardinality(Y \cap Z)
  BY <1>6, FS_Union
<1>8. Cardinality(Y \cap Z) = 0
  BY <1>4, FS_EmptySet
<1>9. m = Cardinality(Y) + Cardinality(Z)
  <2> DEFINE y == Cardinality(Y)
             z == Cardinality(Z)
  <2>1. y \in Nat /\ z \in Nat
    BY <1>5, <1>6
  <2>2. m = y + z - 0
    BY <1>1, <1>4, <1>7, <1>8
  <2> HIDE DEF y, z
  <2>3. m = y + z
    BY <2>1, <2>2
  <2> QED BY <2>3 DEF y, z
<1> QED BY <1>3, <1>5, <1>6, <1>9

\* What holds of 0 and of the successor of all it holds of holds up to n.
LEMMA Iteration ==
  ASSUME NEW n \in Nat, NEW P \in SUBSET (0..n), 0 \in P,
         \A i \in 1..n : i - 1 \in P => i \in P
  PROVE  P = 0..n
<1> DEFINE S == {i \in 0..n : i \notin P}
<1>1. ASSUME S # {} PROVE FALSE
  <2>1. S \in SUBSET Nat
    OBVIOUS
  <2> HIDE DEF S
  <2>2. PICK m \in S : \A y \in S : m <= y
    BY <1>1, <2>1, LeastElement
  <2>3. m \in 0..n /\ m \notin P
    BY DEF S
  <2>4. m # 0 /\ m \in 1..n /\ m - 1 \in 0..n /\ ~(m <= m - 1)
    BY <2>3
  <2>5. m - 1 \in P
    BY <2>2, <2>4 DEF S
  <2> QED
    BY <2>3, <2>4, <2>5
<1> QED
  BY <1>1

(* g holds the states of a loop that starts with b and applies F[1] to F[n]. *)
Loop(g, b, n, F) == g[0] = b /\ \A i \in 1..n : g[i] = F[i][g[i - 1]]

\* The states of a loop exist:
\* a function that is defined by them has the values its definition names.
LEMMA LoopStates ==
  ASSUME NEW U, NEW b \in U, NEW n \in Nat, NEW F \in [1..n -> [U -> U]]
  PROVE  \E g \in [0..n -> U] : Loop(g, b, n, F)
<1> DEFINE Upto(m) == \E g \in [0..m -> U] :
                       g[0] = b /\ \A i \in 1..m : g[i] = F[i][g[i - 1]]
           P == {m \in 0..n : Upto(m)}
<1>1. Upto(0)
  <2> DEFINE g == [i \in 0..0 |-> b]
  <2>1. g \in [0..0 -> U] /\ g[0] = b /\ 1..0 = {}
    OBVIOUS
  <2> QED
    BY <2>1
<1>2. ASSUME NEW m \in 1..n, Upto(m - 1) PROVE Upto(m)
  <2>1. PICK g \in [0..m - 1 -> U] :
           g[0] = b /\ \A i \in 1..m - 1 : g[i] = F[i][g[i - 1]]
    BY <1>2
  <2> DEFINE h == [i \in 0..m |-> IF i = m THEN F[m][g[m - 1]] ELSE g[i]]
  <2>2. g[m - 1] \in U /\ F[m] \in [U -> U]
    OBVIOUS
  <2>3. h \in [0..m -> U]
    BY <2>2
  <2>4. h[0] = b
    BY <2>1
  <2>5. ASSUME NEW i \in 1..m PROVE h[i] = F[i][h[i - 1]]
    <3>1. CASE i = m
      <4>1. h[m] = F[m][g[m - 1]] /\ h[m - 1] = g[m - 1]
        OBVIOUS
      <4> QED
        BY <3>1, <4>1
    <3>2. CASE i # m
      <4>1. i \in 1..m - 1 /\ i - 1 \in 0..m - 1 /\ i - 1 # m
        BY <3>2
      <4>2. h[i] = g[i] /\ h[i - 1] = g[i - 1]
        BY <4>1
      <4> QED
        BY <4>1, <4>2, <2>1
    <3> QED
      BY <3>1, <3>2
  <2> HIDE DEF h
  <2> QED
    BY <2>3, <2>4, <2>5
<1> HIDE DEF Upto
<1>3. P \in SUBSET (0..n) /\ 0 \in P /\ \A i \in 1..n : i - 1 \in P => i \in P
  BY <1>1, <1>2
<1>4. P = 0..n
  <2> HIDE DEF P
  <2> QED
    BY <1>3, Iteration
<1>5. Upto(n)
  BY <1>4
<1> QED
  BY <1>5 DEF Upto, Loop

-----------------------------------------------------------------------------
(* Sequences.                                                              *)

\* q without its place j, and what has to be said of it.
Cut(q, j) == SubSeq(q, 1, j - 1) \o SubSeq(q, j + 1, Len(q))
LessPlace(q, j, u) ==
  /\ Len(u) = Len(q) - 1
  /\ \A i \in 1..Len(q) - 1 : u[i] = IF i < j THEN q[i] ELSE q[i + 1]

LEMMA PlaceCut ==
  ASSUME NEW S, NEW q \in Seq(S), NEW j \in 1..Len(q)
  PROVE  Cut(q, j) \in Seq(S) /\ LessPlace(q, j, Cut(q, j))
<1>1. Len(q) \in Nat /\ DOMAIN q = 1..Len(q) /\ \A i \in 1..Len(q) : q[i] \in S
  BY LenProperties
<1> DEFINE u == SubSeq(q, 1, j - 1)
<1> DEFINE v == SubSeq(q, j + 1, Len(q))
<1>2. u \in Seq(S) /\ Len(u) = j - 1 /\ \A i \in 1..j - 1 : u[i] = q[i]
  <2>1. \A i \in 1..j - 1 : q[i] \in S
    BY <1>1
  <2>2. 1 \in Int /\ j - 1 \in Int
    OBVIOUS
  <2> QED BY <1>1, <2>1, <2>2, SubSeqProperties
<1>3. v \in Seq(S) /\ Len(v) = Len(q) - j /\ \A i \in 1..Len(q) - j : v[i] = q[i + j]
  <2>1. \A i \in j + 1..Len(q) : q[i] \in S
    BY <1>1
  <2>2. j + 1 \in Int /\ Len(q) \in Int
    BY <1>1
  <2>3. /\ v \in Seq(S)
        /\ Len(v) = IF j + 1 <= Len(q) THEN Len(q) - (j + 1) + 1 ELSE 0
        /\ \A i \in 1..Len(q) - (j + 1) + 1 : v[i] = q[(j + 1) + i - 1]
    BY <2>1, <2>2, SubSeqProperties
  <2> HIDE DEF v
  <2>4. Len(v) = Len(q) - j
    <3> DEFINE n == Len(q)
    <3>1. n \in Nat /\ j \in 1..n
      BY <1>1
    <3> HIDE DEF n
    <3>2. (IF j + 1 <= n THEN n - (j + 1) + 1 ELSE 0) = n - j
      BY <3>1
    <3> QED BY <2>3, <3>2 DEF n
  <2>5. ASSUME NEW i \in 1..Len(q) - j PROVE v[i] = q[i + j]
    <3>1. i \in 1..Len(q) - (j + 1) + 1 /\ (j + 1) + i - 1 = i + j
      BY <1>1
    <3>2. v[i] = q[(j + 1) + i - 1]
      BY <2>3, <3>1
    <3> QED BY <3>1, <3>2
  <2> QED BY <2>3, <2>4, <2>5
<1> HIDE DEF u, v
<1>4. /\ u \o v \in Seq(S) /\ Len(u \o v) = Len(q) - 1
      /\ \A i \in 1..Len(q) - 1 : (u \o v)[i] = IF i <= j - 1 THEN u[i] ELSE v[i - (j - 1)]
  <2>1. /\ u \o v \in Seq(S) /\ Len(u \o v) = Len(u) + Len(v)
        /\ \A i \in 1..Len(u) + Len(v) : (u \o v)[i] = IF i <= Len(u) THEN u[i] ELSE v[i - Len(u)]
    BY <1>2, <1>3, ConcatProperties
  <2>2. Len(u) = j - 1 /\ Len(u) + Len(v) = Len(q) - 1
    BY <1>1, <1>2, <1>3
  <2> QED BY <2>1, <2>2
<1>5. ASSUME NEW i \in 1..Len(q) - 1
       PROVE  (u \o v)[i] = IF i < j THEN q[i] ELSE q[i + 1]
  <2>1. CASE i < j
    BY <1>1, <1>2, <1>4, <2>1
  <2>2. CASE i >= j
    <3>1. i - (j - 1) \in 1..Len(q) - j /\ (i - (j - 1)) + j = i + 1
      BY <1>1, <2>2
    <3> QED BY <1>1, <1>3, <1>4, <2>2, <3>1
  <2>3. i < j \/ i >= j
    BY <1>1
  <2> QED BY <2>1, <2>2, <2>3
<1> QED BY <1>4, <1>5 DEF Cut, LessPlace, u, v

\* An element is put in front.
LEMMA PutInFront ==
  ASSUME NEW S, NEW q \in Seq(S), NEW b \in S
  PROVE  /\ <<b>> \o q \in Seq(S) /\ Len(<<b>> \o q) = Len(q) + 1
         /\ (<<b>> \o q)[1] = b
         /\ \A i \in 2..Len(q) + 1 : (<<b>> \o q)[i] = q[i - 1]
<1>1. <<b>> \in Seq(S) /\ Len(<<b>>) = 1 /\ <<b>>[1] = b
  OBVIOUS
<1>2. Len(q) \in Nat
  BY LenProperties
<1>3. /\ <<b>> \o q \in Seq(S) /\ Len(<<b>> \o q) = 1 + Len(q)
      /\ \A i \in 1..1 + Len(q) : (<<b>> \o q)[i] = IF i <= 1 THEN <<b>>[i] ELSE q[i - 1]
  BY <1>1, ConcatProperties
<1> QED BY <1>1, <1>2, <1>3
=============================================================================
