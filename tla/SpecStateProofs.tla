--------------------------- MODULE SpecStateProofs ---------------------------
(***************************************************************************)
(* The simulated memory and the layer of speculative copies, for every      *)
(* size of pages and tables and every set of accesses: the tables are       *)
(* sound, a wrong path leaves memory alone, and the state is that of a      *)
(* machine with a checkpoint.                                              *)
(***************************************************************************)
EXTENDS SpecStateProperties, ProofFacts

-----------------------------------------------------------------------------
(* A chain whose entry last used moves to the front.                       *)

\* The places of c2 are those of c in another order: c2[j] is c[p[j]].
Reordered(n, c, c2, p) ==
  /\ \A j \in 1..n : p[j] \in 1..n /\ c2[j] = c[p[j]]
  /\ \A i, j \in 1..n : p[i] = p[j] => i = j
  /\ \A i \in 1..n : \E j \in 1..n : p[j] = i

LEMMA FrontMoved ==
  ASSUME NEW S, NEW c \in Seq(S), NEW i \in 1..Len(c)
  PROVE  /\ ToFront(c, i) \in Seq(S) /\ Len(ToFront(c, i)) = Len(c)
         /\ ToFront(c, i)[1] = c[i]
         /\ \E p : Reordered(Len(c), c, ToFront(c, i), p)
<1> DEFINE n == Len(c)
<1> DEFINE u == Cut(c, i)
<1> DEFINE F == ToFront(c, i)
<1> DEFINE p == [j \in 1..n |-> IF j = 1 THEN i ELSE IF j <= i THEN j - 1 ELSE j]
<1>1. n \in Nat /\ i \in 1..n /\ c[i] \in S
  BY LenProperties, ElementOfSeq
<1>2. u \in Seq(S) /\ Len(u) = n - 1
      /\ \A j \in 1..n - 1 : u[j] = IF j < i THEN c[j] ELSE c[j + 1]
  BY PlaceCut DEF LessPlace
<1>3. F = <<c[i]>> \o u
  BY DEF ToFront, RemoveAt, Cut
<1> HIDE DEF F, u, n
<1>4. F \in Seq(S) /\ Len(F) = n /\ F[1] = c[i] /\ \A j \in 2..n : F[j] = u[j - 1]
  <2>1. /\ <<c[i]>> \o u \in Seq(S) /\ Len(<<c[i]>> \o u) = Len(u) + 1
        /\ (<<c[i]>> \o u)[1] = c[i]
        /\ \A j \in 2..Len(u) + 1 : (<<c[i]>> \o u)[j] = u[j - 1]
    BY <1>1, <1>2, PutInFront
  <2>2. Len(u) + 1 = n
    BY <1>1, <1>2
  <2> QED BY <1>3, <2>1, <2>2
<1>5. ASSUME NEW j \in 1..n PROVE p[j] \in 1..n /\ F[j] = c[p[j]]
  <2>1. CASE j = 1
    BY <1>1, <1>4, <2>1
  <2>2. CASE j # 1 /\ j <= i
    <3>1. j \in 2..n /\ j - 1 \in 1..n - 1 /\ j - 1 < i /\ p[j] = j - 1 /\ j - 1 \in 1..n
      BY <1>1, <2>2
    <3> QED BY <1>2, <1>4, <3>1
  <2>3. CASE j > i
    <3>1. j \in 2..n /\ j - 1 \in 1..n - 1 /\ ~(j - 1 < i) /\ p[j] = j /\ (j - 1) + 1 = j
      BY <1>1, <2>3
    <3> QED BY <1>2, <1>4, <3>1
  <2> QED BY <1>1, <2>1, <2>2, <2>3
<1>6. ASSUME NEW j \in 1..n, NEW k \in 1..n, p[j] = p[k] PROVE j = k
  BY <1>1, <1>6
<1>7. ASSUME NEW k \in 1..n PROVE \E j \in 1..n : p[j] = k
  <2>1. CASE k = i
    BY <1>1, <2>1
  <2>2. CASE k < i
    <3>1. k + 1 \in 1..n /\ p[k + 1] = k
      BY <1>1, <2>2
    <3> QED BY <3>1
  <2>3. CASE k > i
    <3>1. p[k] = k
      BY <1>1, <2>3
    <3> QED BY <3>1
  <2> QED BY <1>1, <2>1, <2>2, <2>3
<1> HIDE DEF p
<1>8. Reordered(n, c, F, p)
  BY <1>5, <1>6, <1>7 DEF Reordered
<1> QED BY <1>4, <1>8 DEF F, n

-----------------------------------------------------------------------------
(* Chains of pages.                                                        *)

Page == [tag : Nat, page : [0 .. MD_PAGE_SIZE - 1 -> Bytes]]
Place(c, tag) == SelectInSeq(c, LAMBDA pte : pte.tag = tag)
PageByte(c, tag, off) == IF Place(c, tag) = 0 THEN 0 ELSE c[Place(c, tag)].page[off]

\* A page has one entry.
SoundChain(c) ==
  c \in Seq(Page) /\ \A i, j \in 1..Len(c) : c[i].tag = c[j].tag => i = j

LEMMA PlaceOfPage ==
  ASSUME NEW c, Len(c) \in Nat, NEW tag
  PROVE  \/ Place(c, tag) \in 1..Len(c) /\ c[Place(c, tag)].tag = tag
         \/ Place(c, tag) = 0 /\ \A i \in 1..Len(c) : c[i].tag # tag
<1> DEFINE I == {i \in 1..Len(c) : c[i].tag = tag}
<1>1. Place(c, tag) = IF I # {} THEN Min(I) ELSE 0
  BY DEF Place, SelectInSeq
<1>2. CASE I = {}
  BY <1>1, <1>2
<1>3. CASE I # {}
  <2>1. I \in SUBSET Nat
    OBVIOUS
  <2> HIDE DEF I
  <2>2. \E x \in I : \A y \in I : x <= y
    BY <1>3, <2>1, LeastElement
  <2>3. Min(I) \in I
    BY <2>2 DEF Min
  <2> QED BY <1>1, <1>3, <2>3 DEF I
<1> QED BY <1>2, <1>3

\* The only entry of a page is the one that is found.
LEMMA PlaceIs ==
  ASSUME NEW c, SoundChain(c), NEW i \in 1..Len(c)
  PROVE  Place(c, c[i].tag) = i
<1>1. Len(c) \in Nat
  BY LenProperties DEF SoundChain
<1>2. 0 \notin 1..Len(c)
  OBVIOUS
<1> QED BY <1>1, <1>2, PlaceOfPage DEF SoundChain

\* A page that moves to the front keeps its bytes, and so do the others.
LEMMA PageMoved ==
  ASSUME NEW c, SoundChain(c), NEW i \in 1..Len(c)
  PROVE  /\ SoundChain(ToFront(c, i)) /\ Len(ToFront(c, i)) = Len(c)
         /\ ToFront(c, i)[1] = c[i]
         /\ \A tag, off : PageByte(ToFront(c, i), tag, off) = PageByte(c, tag, off)
<1> DEFINE n == Len(c)
<1> DEFINE d == ToFront(c, i)
<1>1. c \in Seq(Page) /\ n \in Nat
  BY LenProperties DEF SoundChain
<1>2. d \in Seq(Page) /\ Len(d) = n /\ d[1] = c[i] /\ \E p : Reordered(n, c, d, p)
  BY <1>1, FrontMoved
<1> HIDE DEF d, n
<1>3. PICK p : Reordered(n, c, d, p)
  BY <1>2
<1>4. SoundChain(d)
  <2>1. ASSUME NEW j \in 1..n, NEW k \in 1..n, d[j].tag = d[k].tag PROVE j = k
    <3>1. p[j] \in 1..n /\ p[k] \in 1..n /\ d[j] = c[p[j]] /\ d[k] = c[p[k]]
      BY <1>3 DEF Reordered
    <3>2. p[j] = p[k]
      BY <2>1, <3>1 DEF SoundChain, n
    <3> QED BY <1>3, <3>2 DEF Reordered
  <2> QED BY <1>2, <2>1 DEF SoundChain
<1>5. ASSUME NEW tag, NEW off PROVE PageByte(d, tag, off) = PageByte(c, tag, off)
  <2>1. CASE \E j \in 1..n : c[j].tag = tag
    <3>1. PICK j \in 1..n : c[j].tag = tag
      BY <2>1
    <3>2. PICK k \in 1..n : p[k] = j
      BY <1>3 DEF Reordered
    <3>3. d[k] = c[j]
      BY <1>3, <3>2 DEF Reordered
    <3>4. Place(c, tag) = j
      BY <3>1, PlaceIs DEF n
    <3>5. Place(d, tag) = k
      BY <1>2, <1>4, <3>1, <3>3, PlaceIs
    <3>6. j # 0 /\ k # 0
      BY <1>1
    <3> QED BY <3>3, <3>4, <3>5, <3>6 DEF PageByte
  <2>2. CASE \A j \in 1..n : c[j].tag # tag
    <3>1. ASSUME NEW j \in 1..n PROVE d[j].tag # tag
      <4>1. p[j] \in 1..n /\ d[j] = c[p[j]]
        BY <1>3 DEF Reordered
      <4> QED BY <2>2, <4>1
    <3>2. Place(c, tag) = 0 /\ Place(d, tag) = 0
      BY <1>1, <1>2, <2>2, <3>1, PlaceOfPage DEF n
    <3> QED BY <3>2 DEF PageByte
  <2> QED BY <2>1, <2>2
<1> QED BY <1>2, <1>4, <1>5 DEF d, n

\* A new page reads as zero, as a page that is not there.
ZeroPage(tag) == [tag |-> tag, page |-> [o \in 0 .. MD_PAGE_SIZE - 1 |-> 0]]
Offsets == 0 .. MD_PAGE_SIZE - 1

LEMMA PageAdded ==
  ASSUME NEW c, SoundChain(c), NEW tag \in Nat, Place(c, tag) = 0
  PROVE  /\ SoundChain(<<ZeroPage(tag)>> \o c)
         /\ Len(<<ZeroPage(tag)>> \o c) = Len(c) + 1
         /\ (<<ZeroPage(tag)>> \o c)[1].tag = tag
         /\ \A t : \A off \in Offsets :
              PageByte(<<ZeroPage(tag)>> \o c, t, off) = PageByte(c, t, off)
<1> DEFINE z == ZeroPage(tag)
<1> DEFINE d == <<z>> \o c
<1> DEFINE n == Len(c)
<1>1. c \in Seq(Page) /\ n \in Nat
  BY LenProperties DEF SoundChain
<1>2. z \in Page /\ z.tag = tag /\ \A off \in Offsets : z.page[off] = 0
  BY MemoryAssumption DEF ZeroPage, Page, Offsets
<1> HIDE DEF z
<1>3. /\ d \in Seq(Page) /\ Len(d) = n + 1 /\ d[1] = z
      /\ \A i \in 2..n + 1 : d[i] = c[i - 1]
  BY <1>1, <1>2, PutInFront
<1> HIDE DEF d
<1>4. \A j \in 1..n : c[j].tag # tag
  <2>1. 0 \notin 1..n
    OBVIOUS
  <2> QED BY <1>1, <2>1, PlaceOfPage DEF n
<1> HIDE DEF n
<1>5. SoundChain(d)
  <2>1. ASSUME NEW i \in 1..n + 1, NEW j \in 1..n + 1, d[i].tag = d[j].tag PROVE i = j
    <3>1. CASE i = 1 /\ j = 1
      BY <3>1
    <3>2. CASE i = 1 /\ j # 1
      <4>1. j \in 2..n + 1 /\ j - 1 \in 1..n
        BY <1>1, <3>2
      <4> QED BY <1>2, <1>3, <1>4, <2>1, <3>2, <4>1
    <3>3. CASE i # 1 /\ j = 1
      <4>1. i \in 2..n + 1 /\ i - 1 \in 1..n
        BY <1>1, <3>3
      <4> QED BY <1>2, <1>3, <1>4, <2>1, <3>3, <4>1
    <3>4. CASE i # 1 /\ j # 1
      <4>1. i \in 2..n + 1 /\ i - 1 \in 1..n /\ j \in 2..n + 1 /\ j - 1 \in 1..n
        BY <1>1, <3>4
      <4>2. c[i - 1].tag = c[j - 1].tag
        BY <1>3, <2>1, <4>1
      <4>3. i - 1 = j - 1
        BY <4>1, <4>2 DEF SoundChain, n
      <4> QED BY <4>1, <4>3
    <3> QED BY <3>1, <3>2, <3>3, <3>4
  <2> QED BY <1>3, <2>1 DEF SoundChain
<1>6. ASSUME NEW t, NEW off \in Offsets PROVE PageByte(d, t, off) = PageByte(c, t, off)
  <2>1. CASE t = tag
    <3>1. 1 \in 1..n + 1 /\ 1 # 0
      BY <1>1
    <3>2. Place(d, t) = 1
      BY <1>2, <1>3, <1>5, <2>1, <3>1, PlaceIs
    <3>3. PageByte(d, t, off) = 0
      BY <1>2, <1>3, <3>2 DEF PageByte
    <3> QED BY <2>1, <3>3 DEF PageByte
  <2>2. CASE \E j \in 1..n : c[j].tag = t
    <3>1. PICK j \in 1..n : c[j].tag = t
      BY <2>2
    <3>2. j + 1 \in 1..n + 1 /\ j + 1 \in 2..n + 1 /\ (j + 1) - 1 = j /\ j + 1 # 0 /\ j # 0
      BY <1>1
    <3>3. d[j + 1] = c[j]
      BY <1>3, <3>2
    <3>4. Place(c, t) = j
      BY <3>1, PlaceIs DEF n
    <3>5. Place(d, t) = j + 1
      BY <1>3, <1>5, <3>1, <3>2, <3>3, PlaceIs
    <3> QED BY <3>2, <3>3, <3>4, <3>5 DEF PageByte
  <2>3. CASE t # tag /\ \A j \in 1..n : c[j].tag # t
    <3>1. ASSUME NEW i \in 1..n + 1 PROVE d[i].tag # t
      <4>1. CASE i = 1
        BY <1>2, <1>3, <2>3, <4>1
      <4>2. CASE i # 1
        <5>1. i \in 2..n + 1 /\ i - 1 \in 1..n
          BY <1>1, <4>2
        <5> QED BY <1>3, <2>3, <5>1
      <4> QED BY <4>1, <4>2
    <3>2. Place(c, t) = 0 /\ Place(d, t) = 0
      <4>1. Len(d) \in Nat
        BY <1>1, <1>3
      <4> QED BY <1>1, <1>3, <2>3, <3>1, <4>1, PlaceOfPage DEF n
    <3> QED BY <3>2 DEF PageByte
  <2> QED BY <2>1, <2>2, <2>3
<1> QED BY <1>2, <1>3, <1>5, <1>6 DEF d, z, n

\* A byte is written in the page in front.
WithByte(c, off, v) == [c EXCEPT ![1].page[off] = v]
OneByteNew(c, d, off, v) ==
  /\ SoundChain(d) /\ Len(d) = Len(c) /\ d[1].tag = c[1].tag
  /\ \A t : \A o \in Offsets :
       PageByte(d, t, o) = IF t = c[1].tag /\ o = off THEN v ELSE PageByte(c, t, o)

LEMMA PageWritten ==
  ASSUME NEW c, SoundChain(c), c # <<>>, NEW off \in Offsets, NEW v \in Bytes
  PROVE  OneByteNew(c, WithByte(c, off, v), off, v)
<1> DEFINE d == WithByte(c, off, v)
<1> DEFINE n == Len(c)
<1>1. c \in Seq(Page) /\ n \in Nat /\ DOMAIN c = 1..n /\ 1 \in 1..n
  <2>1. c \in Seq(Page)
    BY DEF SoundChain
  <2> QED BY <2>1, LenProperties, EmptySeq
<1>2. c[1] \in Page
  BY <1>1, ElementOfSeq
<1> DEFINE q == [c[1] EXCEPT !.page[off] = v]
<1>3. q \in Page /\ q.tag = c[1].tag
      /\ \A o \in Offsets : q.page[o] = IF o = off THEN v ELSE c[1].page[o]
  BY <1>2 DEF Page, Offsets
<1>4. d = [c EXCEPT ![1] = q]
  BY DEF WithByte
<1> HIDE DEF q, d
<1>5. d \in Seq(Page) /\ Len(d) = n /\ d[1] = q /\ \A i \in 1..n : i # 1 => d[i] = c[i]
  <2>1. d \in Seq(Page) /\ Len(d) = n
    BY <1>1, <1>3, <1>4, ExceptSeq
  <2> QED BY <1>1, <1>4, <2>1
<1> HIDE DEF n
<1>6. \A i \in 1..n : d[i].tag = c[i].tag
  BY <1>3, <1>5
<1>7. SoundChain(d)
  BY <1>5, <1>6 DEF SoundChain, n
<1>8. ASSUME NEW t, NEW o \in Offsets
      PROVE  PageByte(d, t, o) = IF t = c[1].tag /\ o = off THEN v ELSE PageByte(c, t, o)
  <2>1. CASE \E j \in 1..n : c[j].tag = t
    <3>1. PICK j \in 1..n : c[j].tag = t
      BY <2>1
    <3>2. Place(c, t) = j
      BY <3>1, PlaceIs DEF n
    <3>3. Place(d, t) = j
      BY <1>5, <1>6, <1>7, <3>1, PlaceIs
    <3>4. j # 0
      BY <1>1
    <3>5. j # 1 => t # c[1].tag
      BY <1>1, <3>1 DEF SoundChain, n
    <3>6. PageByte(d, t, o) = d[j].page[o] /\ PageByte(c, t, o) = c[j].page[o]
      BY <3>2, <3>3, <3>4 DEF PageByte
    <3>7. CASE j = 1
      BY <1>3, <1>5, <3>1, <3>6, <3>7
    <3>8. CASE j # 1
      BY <1>5, <3>5, <3>6, <3>8
    <3> QED BY <3>7, <3>8
  <2>2. CASE \A j \in 1..n : c[j].tag # t
    <3>1. \A j \in 1..n : d[j].tag # t
      BY <1>6, <2>2
    <3>2. 0 \notin 1..n /\ Len(c) = n /\ Len(d) = n /\ n \in Nat
      BY <1>1, <1>5 DEF n
    <3>3. Place(c, t) = 0
      BY <2>2, <3>2, PlaceOfPage
    <3>4. Place(d, t) = 0
      BY <3>1, <3>2, PlaceOfPage
    <3>5. t # c[1].tag
      BY <1>1, <2>2
    <3> QED BY <3>3, <3>4, <3>5 DEF PageByte
  <2> QED BY <2>1, <2>2
<1> QED BY <1>3, <1>5, <1>7, <1>8 DEF n, d, OneByteNew

-----------------------------------------------------------------------------
(* The page table.                                                         *)

\* The parts of an address.
LEMMA AddressParts ==
  ASSUME NEW a \in Nat
  PROVE  /\ MEM_PTAB_SET(a) \in 0 .. MEM_PTAB_SIZE - 1
         /\ MEM_PTAB_TAG(a) \in Nat /\ MEM_OFFSET(a) \in Offsets
<1> DEFINE P == MD_PAGE_SIZE
<1> DEFINE M == MEM_PTAB_SIZE
<1> DEFINE q == a \div P
<1>1. P \in Nat \ {0} /\ M \in Nat \ {0}
  BY MemoryAssumption
<1>2. MEM_PTAB_SET(a) = q % M /\ MEM_PTAB_TAG(a) = a \div (P * M) /\ MEM_OFFSET(a) = a % P
      /\ Offsets = 0 .. P - 1
  BY DEF MEM_PTAB_SET, MEM_PTAB_TAG, MEM_OFFSET, Offsets
<1> HIDE DEF P, M
<1>3. P * M \in Nat \ {0}
  BY <1>1
<1>4. q \in Nat
  BY <1>1
<1> HIDE DEF q
<1>5. q % M \in 0 .. M - 1
  BY <1>1, <1>4
<1>6. a % P \in 0 .. P - 1
  BY <1>1
<1> DEFINE R == P * M
<1>7. R \in Nat \ {0}
  BY <1>3
<1> HIDE DEF R
<1>8. a \div R \in Nat
  BY <1>7
<1> QED BY <1>2, <1>5, <1>6, <1>8 DEF R, M

\* A quotient is the only number of its kind.
LEMMA Quotient ==
  ASSUME NEW a \in Nat, NEW d \in Nat \ {0}, NEW x \in Nat, NEW r \in Nat, r < d, a = d * x + r
  PROVE  a \div d = x
<1> DEFINE t == a \div d
<1> DEFINE s == a % d
<1>1. t \in Nat /\ s \in Nat /\ s < d /\ a = d * t + s
  OBVIOUS
<1> HIDE DEF t, s
<1>2. ASSUME t < x PROVE FALSE
  <2>1. t + 1 <= x
    BY <1>1, <1>2
  <2>2. PICK k \in Nat : x = t + 1 + k
    <3>1. x - (t + 1) \in Nat /\ x = t + 1 + (x - (t + 1))
      BY <1>1, <2>1
    <3> QED BY <3>1
  <2>3. d * x = d * t + d + d * k
    BY <1>1, <2>2
  <2>4. d * k \in Nat /\ d * t \in Nat /\ d * x \in Nat
    BY <1>1, <2>2
  <2> QED BY <1>1, <2>3, <2>4
<1>3. ASSUME x < t PROVE FALSE
  <2>1. x + 1 <= t
    BY <1>1, <1>3
  <2>2. PICK k \in Nat : t = x + 1 + k
    <3>1. t - (x + 1) \in Nat /\ t = x + 1 + (t - (x + 1))
      BY <1>1, <2>1
    <3> QED BY <3>1
  <2>3. d * t = d * x + d + d * k
    BY <1>1, <2>2
  <2>4. d * k \in Nat /\ d * t \in Nat /\ d * x \in Nat
    BY <1>1, <2>2
  <2> QED BY <1>1, <2>3, <2>4
<1> QED BY <1>1, <1>2, <1>3 DEF t

\* Addresses with the same parts are the same.
LEMMA PartsDiffer ==
  ASSUME NEW a \in Nat, NEW b \in Nat, MEM_PTAB_SET(a) = MEM_PTAB_SET(b),
         MEM_PTAB_TAG(a) = MEM_PTAB_TAG(b), MEM_OFFSET(a) = MEM_OFFSET(b)
  PROVE  a = b
<1> DEFINE P == MD_PAGE_SIZE
<1> DEFINE M == MEM_PTAB_SIZE
<1>1. P \in Nat \ {0} /\ M \in Nat \ {0}
  BY MemoryAssumption
<1>2. \A x \in Nat : /\ MEM_PTAB_SET(x) = (x \div P) % M /\ MEM_PTAB_TAG(x) = x \div (P * M)
                     /\ MEM_OFFSET(x) = x % P
  BY DEF MEM_PTAB_SET, MEM_PTAB_TAG, MEM_OFFSET
<1> HIDE DEF P, M
<1>3. ASSUME NEW x \in Nat
      PROVE  x = P * (M * MEM_PTAB_TAG(x) + MEM_PTAB_SET(x)) + MEM_OFFSET(x)
  <2> DEFINE q == x \div P
  <2> DEFINE o == x % P
  <2>1. q \in Nat /\ o \in Nat /\ o < P /\ x = P * q + o
    BY <1>1
  <2> DEFINE s == q % M
  <2> DEFINE t == q \div M
  <2>2. MEM_PTAB_SET(x) = s /\ MEM_OFFSET(x) = o
    BY <1>2
  <2> HIDE DEF q, o
  <2>3. s \in Nat /\ s < M /\ t \in Nat /\ q = M * t + s
    BY <1>1, <2>1
  <2> HIDE DEF s, t
  <2>4. x = (P * M) * t + (P * s + o)
    <3>1. P * q = P * (M * t) + P * s
      BY <1>1, <2>1, <2>3
    <3>2. P * (M * t) = (P * M) * t
      BY <1>1, <2>3
    <3>3. P * q \in Nat /\ P * s \in Nat /\ (P * M) * t \in Nat
      BY <1>1, <2>1, <2>3
    <3> QED BY <2>1, <3>1, <3>2, <3>3
  <2>5. P * s + o \in Nat /\ P * s + o < P * M
    <3>1. PICK k \in Nat : M = s + 1 + k
      <4>1. M - (s + 1) \in Nat /\ M = s + 1 + (M - (s + 1))
        BY <1>1, <2>3
      <4> QED BY <4>1
    <3>2. P * M = P * s + P + P * k
      BY <1>1, <2>3, <3>1
    <3>3. P * k \in Nat /\ P * s \in Nat
      BY <1>1, <2>3
    <3> QED BY <1>1, <2>1, <3>2, <3>3
  <2>6. MEM_PTAB_TAG(x) = t
    <3> DEFINE d == P * M
    <3> DEFINE r == P * s + o
    <3>1. d \in Nat \ {0} /\ r \in Nat /\ r < d /\ x = d * t + r
      BY <1>1, <2>4, <2>5
    <3>2. MEM_PTAB_TAG(x) = x \div d
      BY <1>2
    <3> HIDE DEF d, r
    <3> QED BY <2>3, <3>1, <3>2, Quotient
  <2> QED BY <2>1, <2>2, <2>3, <2>6
<1> QED BY <1>3

PageTables == [0 .. MEM_PTAB_SIZE - 1 -> Seq(Page)]
SoundPages(t) == t \in PageTables /\ \A s \in 0 .. MEM_PTAB_SIZE - 1 : SoundChain(t[s])

SameBytes(t, u) == \A b \in Nat : MEM_READ_BYTE(u, b) = MEM_READ_BYTE(t, b)
SameLengths(t, u) == DOMAIN u = DOMAIN t /\ \A s \in DOMAIN t : Len(u[s]) = Len(t[s])

LEMMA ByteOfPage ==
  ASSUME NEW t, NEW a
  PROVE  /\ MEM_READ_BYTE(t, a) = PageByte(t[MEM_PTAB_SET(a)], MEM_PTAB_TAG(a), MEM_OFFSET(a))
         /\ Entry(t, a) = Place(t[MEM_PTAB_SET(a)], MEM_PTAB_TAG(a))
BY DEF MEM_READ_BYTE, PageByte, Entry, Place

\* A chain changes and its pages keep their bytes.
LEMMA ChainReplaced ==
  ASSUME NEW t, SoundPages(t), NEW s \in 0 .. MEM_PTAB_SIZE - 1,
         NEW c, SoundChain(c),
         \A tag : \A off \in Offsets : PageByte(c, tag, off) = PageByte(t[s], tag, off),
         NEW u, u = [t EXCEPT ![s] = c]
  PROVE  SoundPages(u) /\ SameBytes(t, u)
<1>1. SoundPages(u)
  <2>1. c \in Seq(Page)
    BY DEF SoundChain
  <2>2. \A r \in 0 .. MEM_PTAB_SIZE - 1 : u[r] = IF r = s THEN c ELSE t[r]
    BY DEF SoundPages, PageTables
  <2>3. u \in PageTables
    BY <2>1 DEF SoundPages, PageTables
  <2> QED BY <2>2, <2>3 DEF SoundPages
<1>2. ASSUME NEW b \in Nat PROVE MEM_READ_BYTE(u, b) = MEM_READ_BYTE(t, b)
  <2> DEFINE r == MEM_PTAB_SET(b)
  <2>1. r \in 0 .. MEM_PTAB_SIZE - 1 /\ MEM_OFFSET(b) \in Offsets
    BY AddressParts
  <2> HIDE DEF r
  <2>2. u[r] = IF r = s THEN c ELSE t[r]
    BY <2>1 DEF SoundPages, PageTables
  <2>3. PageByte(u[r], MEM_PTAB_TAG(b), MEM_OFFSET(b))
          = PageByte(t[r], MEM_PTAB_TAG(b), MEM_OFFSET(b))
    BY <2>1, <2>2
  <2> QED BY <2>3, ByteOfPage DEF r
<1> QED BY <1>1, <1>2 DEF SameBytes

\* A translation changes the order of the pages only.
LEMMA Translated ==
  ASSUME NEW t, SoundPages(t), NEW a \in Nat
  PROVE  /\ SoundPages(mem_translate(t, a)) /\ SameBytes(t, mem_translate(t, a))
         /\ SameLengths(t, mem_translate(t, a))
         /\ Entry(t, a) # 0 => /\ mem_translate(t, a)[MEM_PTAB_SET(a)] # <<>>
                               /\ mem_translate(t, a)[MEM_PTAB_SET(a)][1].tag = MEM_PTAB_TAG(a)
<1> DEFINE i == Entry(t, a)
<1> DEFINE s == MEM_PTAB_SET(a)
<1> DEFINE u == mem_translate(t, a)
<1> DEFINE c == t[s]
<1>1. s \in 0 .. MEM_PTAB_SIZE - 1
  BY AddressParts
<1>2. SoundChain(c) /\ Len(c) \in Nat
  <2>1. SoundChain(c)
    BY <1>1 DEF SoundPages, PageTables
  <2> QED BY <2>1, LenProperties DEF SoundChain
<1>3. CASE i = 0
  <2>1. u = t
    BY <1>3 DEF mem_translate
  <2> QED BY <1>3, <2>1 DEF SameBytes, SameLengths
<1>4. CASE i # 0
  <2>1. i \in 1..Len(c) /\ c[i].tag = MEM_PTAB_TAG(a)
    BY <1>2, <1>4, ByteOfPage, PlaceOfPage
  <2>2. u = [t EXCEPT ![s] = ToFront(c, i)]
    BY <1>4 DEF mem_translate
  <2> DEFINE d == ToFront(c, i)
  <2> HIDE DEF i, u, c, s
  <2>3. SoundChain(d) /\ Len(d) = Len(c) /\ d[1] = c[i]
        /\ \A tag, off : PageByte(d, tag, off) = PageByte(c, tag, off)
    BY <1>2, <2>1, PageMoved
  <2> HIDE DEF d
  <2>4. u = [t EXCEPT ![s] = d]
    BY <2>2 DEF d
  <2>5. SoundPages(u) /\ SameBytes(t, u)
    BY <1>1, <2>3, <2>4, ChainReplaced DEF c
  <2>6. u[s] = d /\ DOMAIN u = DOMAIN t /\ \A x \in DOMAIN t : x # s => u[x] = t[x]
    BY <1>1, <2>4 DEF SoundPages, PageTables
  <2>7. SameLengths(t, u)
    BY <2>3, <2>6 DEF SameLengths, c
  <2>8. d # <<>> /\ d[1].tag = MEM_PTAB_TAG(a)
    BY <1>2, <2>1, <2>3
  <2> QED BY <2>5, <2>6, <2>7, <2>8 DEF i, u, s
<1> QED BY <1>3, <1>4

\* Before a byte is written its page is there, and in front.
LEMMA Tickled ==
  ASSUME NEW t, SoundPages(t), NEW a \in Nat
  PROVE  /\ SoundPages(MEM_TICKLE(t, a)) /\ SameBytes(t, MEM_TICKLE(t, a))
         /\ MEM_TICKLE(t, a)[MEM_PTAB_SET(a)] # <<>>
         /\ MEM_TICKLE(t, a)[MEM_PTAB_SET(a)][1].tag = MEM_PTAB_TAG(a)
<1>1. CASE Entry(t, a) # 0
  BY <1>1, Translated DEF MEM_TICKLE
<1>2. CASE Entry(t, a) = 0
  <2> DEFINE s == MEM_PTAB_SET(a)
  <2> DEFINE tag == MEM_PTAB_TAG(a)
  <2> DEFINE c == t[s]
  <2> DEFINE d == <<ZeroPage(tag)>> \o c
  <2> DEFINE u == MEM_TICKLE(t, a)
  <2>1. s \in 0 .. MEM_PTAB_SIZE - 1 /\ tag \in Nat
    BY AddressParts
  <2>2. SoundChain(c) /\ Place(c, tag) = 0 /\ Len(c) \in Nat
    <3>1. SoundChain(c)
      BY <2>1 DEF SoundPages, PageTables
    <3> QED BY <1>2, <3>1, ByteOfPage, LenProperties DEF SoundChain
  <2>3. u = [t EXCEPT ![s] = d]
    BY <1>2 DEF MEM_TICKLE, mem_newpage, ZeroPage
  <2> HIDE DEF s, tag, c, u
  <2>4. /\ SoundChain(d) /\ Len(d) = Len(c) + 1 /\ d[1].tag = tag
        /\ \A x : \A off \in Offsets : PageByte(d, x, off) = PageByte(c, x, off)
    BY <2>1, <2>2, PageAdded
  <2> HIDE DEF d
  <2>5. SoundPages(u) /\ SameBytes(t, u)
    BY <2>1, <2>3, <2>4, ChainReplaced DEF c
  <2>6. u[s] = d /\ d # <<>>
    <3>1. u[s] = d
      BY <2>1, <2>3 DEF SoundPages, PageTables
    <3> QED BY <2>2, <2>4, <3>1
  <2> QED BY <2>4, <2>5, <2>6 DEF u, s, tag
<1> QED BY <1>1, <1>2

\* A byte is written.
LEMMA ByteWritten ==
  ASSUME NEW t, SoundPages(t), NEW a \in Nat, NEW v \in Bytes
  PROVE  /\ SoundPages(MEM_WRITE_BYTE(t, a, v))
         /\ \A b \in Nat : MEM_READ_BYTE(MEM_WRITE_BYTE(t, a, v), b)
                             = IF b = a THEN v ELSE MEM_READ_BYTE(t, b)
<1> DEFINE s == MEM_PTAB_SET(a)
<1> DEFINE o == MEM_OFFSET(a)
<1> DEFINE w == MEM_TICKLE(t, a)
<1> DEFINE c == w[s]
<1> DEFINE d == [c EXCEPT ![1].page[o] = v]
<1> DEFINE u == MEM_WRITE_BYTE(t, a, v)
<1>1. s \in 0 .. MEM_PTAB_SIZE - 1 /\ o \in Offsets
  BY AddressParts
<1>2. SoundPages(w) /\ SameBytes(t, w) /\ c # <<>> /\ c[1].tag = MEM_PTAB_TAG(a)
  BY Tickled
<1>3. u = [w EXCEPT ![s] = d]
  BY DEF MEM_WRITE_BYTE
<1> HIDE DEF u, w, s, o
<1>4. SoundChain(c)
  BY <1>1, <1>2 DEF SoundPages, PageTables
<1> HIDE DEF c
<1>5. /\ SoundChain(d)
      /\ \A x : \A y \in Offsets :
           PageByte(d, x, y) = IF x = c[1].tag /\ y = o THEN v ELSE PageByte(c, x, y)
  <2>1. d = WithByte(c, o, v)
    BY DEF WithByte
  <2> HIDE DEF d
  <2>2. OneByteNew(c, d, o, v)
    BY <1>1, <1>2, <1>4, <2>1, PageWritten
  <2> QED BY <2>2 DEF OneByteNew
<1> HIDE DEF d
<1>6. SoundPages(u)
  <2>1. d \in Seq(Page)
    BY <1>5 DEF SoundChain
  <2>2. \A r \in 0 .. MEM_PTAB_SIZE - 1 : u[r] = IF r = s THEN d ELSE w[r]
    BY <1>1, <1>2, <1>3 DEF SoundPages, PageTables
  <2>3. u \in PageTables
    BY <1>2, <1>3, <2>1 DEF SoundPages, PageTables
  <2> QED BY <1>2, <1>5, <2>2, <2>3 DEF SoundPages
<1>7. ASSUME NEW b \in Nat PROVE MEM_READ_BYTE(u, b) = IF b = a THEN v ELSE MEM_READ_BYTE(t, b)
  <2> DEFINE r == MEM_PTAB_SET(b)
  <2> DEFINE x == MEM_PTAB_TAG(b)
  <2> DEFINE y == MEM_OFFSET(b)
  <2>1. r \in 0 .. MEM_PTAB_SIZE - 1 /\ y \in Offsets
    BY AddressParts
  <2>2. b = a <=> r = s /\ x = c[1].tag /\ y = o
    BY <1>2, PartsDiffer DEF s, o
  <2>3. MEM_READ_BYTE(u, b) = PageByte(u[r], x, y) /\ MEM_READ_BYTE(w, b) = PageByte(w[r], x, y)
        /\ MEM_READ_BYTE(w, b) = MEM_READ_BYTE(t, b)
    BY <1>2, ByteOfPage DEF SameBytes
  <2> HIDE DEF r, x, y
  <2>4. u[r] = IF r = s THEN d ELSE w[r]
    BY <1>2, <1>3, <2>1 DEF SoundPages, PageTables
  <2>5. CASE r = s
    BY <1>5, <2>1, <2>2, <2>3, <2>4, <2>5 DEF c
  <2>6. CASE r # s
    BY <2>2, <2>3, <2>4, <2>6
  <2> QED BY <2>5, <2>6
<1> QED BY <1>6, <1>7 DEF u

-----------------------------------------------------------------------------
(* Accesses of several bytes.                                              *)

\* A read translates one address after the other, a write writes them.
IsReading(g, t, a, n) ==
  /\ AfterRead(t, a, n) = g[n] /\ g[0] = t
  /\ \A k \in 1..n : g[k] = mem_translate(g[k - 1], a + k - 1)
IsWriting(g, t, a, data) ==
  /\ AfterWrite(t, a, data) = g[Len(data)] /\ g[0] = t
  /\ \A k \in 1..Len(data) : g[k] = MEM_WRITE_BYTE(g[k - 1], a + k - 1, data[k])

LEMMA ReadSteps ==
  ASSUME NEW t, SoundPages(t), NEW a \in Nat, NEW n \in Nat
  PROVE  \E g : IsReading(g, t, a, n)
<1> DEFINE Is(g) == g = [k \in 0..n |-> IF k = 0 THEN t ELSE mem_translate(g[k - 1], a + k - 1)]
<1> DEFINE f == CHOOSE g : Is(g)
<1>1. AfterRead(t, a, n) = f[n]
  BY Zenon DEF AfterRead
<1>2. \E g : Is(g)
  <2> DEFINE U == {u \in PageTables : SoundPages(u)}
  <2> DEFINE F == [k \in 1..n |-> [u \in U |-> mem_translate(u, a + k - 1)]]
  <2>1. t \in U
    BY DEF SoundPages
  <2>2. ASSUME NEW u \in U, NEW k \in 1..n PROVE mem_translate(u, a + k - 1) \in U
    <3>1. a + k - 1 \in Nat
      OBVIOUS
    <3>2. SoundPages(mem_translate(u, a + k - 1))
      BY <3>1, Translated
    <3> QED BY <3>2 DEF SoundPages
  <2>3. F \in [1..n -> [U -> U]]
    BY <2>2
  <2>4. PICK g \in [0..n -> U] : Loop(g, t, n, F)
    <3> HIDE DEF U, F
    <3> QED BY <2>1, <2>3, LoopStates
  <2>5. g[0] = t /\ \A k \in 1..n : g[k] = mem_translate(g[k - 1], a + k - 1)
    <3>1. g[0] = t /\ \A k \in 1..n : g[k] = F[k][g[k - 1]]
      BY <2>4 DEF Loop
    <3>2. \A k \in 1..n : k - 1 \in 0..n /\ g[k - 1] \in U
      OBVIOUS
    <3> QED BY <3>1, <3>2
  <2>6. Is(g)
    <3> HIDE DEF U, F
    <3>1. g = [k \in 0..n |-> g[k]]
      OBVIOUS
    <3>2. \A k \in 0..n : g[k] = IF k = 0 THEN t ELSE mem_translate(g[k - 1], a + k - 1)
      BY <2>5
    <3> QED BY <3>1, <3>2
  <2> HIDE DEF Is
  <2> QED BY <2>6
<1>3. Is(f)
  <2> HIDE DEF Is
  <2> QED BY <1>2
<1> HIDE DEF f
<1>4. f[0] = t /\ \A k \in 1..n : f[k] = mem_translate(f[k - 1], a + k - 1)
  BY <1>3
<1> QED BY <1>1, <1>4 DEF IsReading

LEMMA WriteSteps ==
  ASSUME NEW t, SoundPages(t), NEW a \in Nat, NEW data \in Seq(Bytes)
  PROVE  \E g : IsWriting(g, t, a, data)
<1> DEFINE Is(g) == g = [k \in 0..Len(data) |->
                          IF k = 0 THEN t ELSE MEM_WRITE_BYTE(g[k - 1], a + k - 1, data[k])]
<1> DEFINE f == CHOOSE g : Is(g)
<1> DEFINE n == Len(data)
<1>0. n \in Nat
  BY LenProperties
<1>1. AfterWrite(t, a, data) = f[n]
  BY Zenon DEF AfterWrite
<1>2. \E g : Is(g)
  <2> DEFINE U == {u \in PageTables : SoundPages(u)}
  <2> DEFINE F == [k \in 1..n |-> [u \in U |-> MEM_WRITE_BYTE(u, a + k - 1, data[k])]]
  <2>1. t \in U
    BY DEF SoundPages
  <2>2. ASSUME NEW u \in U, NEW k \in 1..n PROVE MEM_WRITE_BYTE(u, a + k - 1, data[k]) \in U
    <3>1. a + k - 1 \in Nat /\ data[k] \in Bytes
      BY <1>0, ElementOfSeq
    <3>2. SoundPages(MEM_WRITE_BYTE(u, a + k - 1, data[k]))
      BY <3>1, ByteWritten
    <3> QED BY <3>2 DEF SoundPages
  <2>3. F \in [1..n -> [U -> U]]
    BY <2>2
  <2>4. PICK g \in [0..n -> U] : Loop(g, t, n, F)
    <3> HIDE DEF U, F, n
    <3> QED BY <1>0, <2>1, <2>3, LoopStates
  <2>5. g[0] = t /\ \A k \in 1..n : g[k] = MEM_WRITE_BYTE(g[k - 1], a + k - 1, data[k])
    <3>1. g[0] = t /\ \A k \in 1..n : g[k] = F[k][g[k - 1]]
      BY <2>4 DEF Loop
    <3>2. \A k \in 1..n : k - 1 \in 0..n /\ g[k - 1] \in U
      BY <1>0
    <3> QED BY <3>1, <3>2
  <2>6. Is(g)
    <3> HIDE DEF U, F
    <3>1. g = [k \in 0..n |-> g[k]]
      OBVIOUS
    <3>2. \A k \in 0..n : g[k] = IF k = 0 THEN t ELSE MEM_WRITE_BYTE(g[k - 1], a + k - 1, data[k])
      BY <1>0, <2>5
    <3> QED BY <3>1, <3>2
  <2> HIDE DEF Is
  <2> QED BY <2>6
<1>3. Is(f)
  <2> HIDE DEF Is
  <2> QED BY <1>2
<1> HIDE DEF f
<1>4. f[0] = t /\ \A k \in 1..n : f[k] = MEM_WRITE_BYTE(f[k - 1], a + k - 1, data[k])
  BY <1>0, <1>3
<1> QED BY <1>1, <1>4 DEF IsWriting, n

\* A read leaves all bytes and allocates nothing.
LEMMA ReadKeeps ==
  ASSUME NEW t, SoundPages(t), NEW a \in Nat, NEW n \in Nat
  PROVE  /\ SoundPages(AfterRead(t, a, n)) /\ SameBytes(t, AfterRead(t, a, n))
         /\ SameLengths(t, AfterRead(t, a, n))
<1>0. PICK g : IsReading(g, t, a, n)
  BY ReadSteps
<1>1. /\ AfterRead(t, a, n) = g[n] /\ g[0] = t
      /\ \A k \in 1..n : g[k] = mem_translate(g[k - 1], a + k - 1)
  BY <1>0 DEF IsReading
<1> DEFINE Good(u) == SoundPages(u) /\ SameBytes(t, u) /\ SameLengths(t, u)
<1> DEFINE P == {k \in 0..n : Good(g[k])}
<1>2. 0 \in P
  BY <1>1 DEF SameBytes, SameLengths
<1>3. ASSUME NEW k \in 1..n, k - 1 \in P PROVE k \in P
  <2> DEFINE u == g[k - 1]
  <2> DEFINE b == a + k - 1
  <2>1. Good(u) /\ b \in Nat /\ g[k] = mem_translate(u, b)
    BY <1>1, <1>3
  <2> HIDE DEF u, b
  <2>2. /\ SoundPages(mem_translate(u, b)) /\ SameBytes(u, mem_translate(u, b))
        /\ SameLengths(u, mem_translate(u, b))
    BY <2>1, Translated
  <2>3. Good(g[k])
    BY <2>1, <2>2 DEF SameBytes, SameLengths
  <2> HIDE DEF Good
  <2> QED BY <2>3
<1> HIDE DEF P
<1>4. P = 0..n
  BY <1>2, <1>3, Iteration DEF P
<1> QED BY <1>1, <1>4 DEF P

\* A write leaves its data at its place, and all other bytes.
LEMMA WriteStores ==
  ASSUME NEW t, SoundPages(t), NEW a \in Nat, NEW data \in Seq(Bytes)
  PROVE  /\ SoundPages(AfterWrite(t, a, data))
         /\ \A b \in Nat : MEM_READ_BYTE(AfterWrite(t, a, data), b)
              = IF b - a + 1 \in 1..Len(data) THEN data[b - a + 1] ELSE MEM_READ_BYTE(t, b)
<1> DEFINE n == Len(data)
<1>1. n \in Nat /\ \A k \in 1..n : data[k] \in Bytes
  BY LenProperties, ElementOfSeq
<1>0. PICK g : IsWriting(g, t, a, data)
  BY WriteSteps
<1>2. /\ AfterWrite(t, a, data) = g[n] /\ g[0] = t
      /\ \A k \in 1..n : g[k] = MEM_WRITE_BYTE(g[k - 1], a + k - 1, data[k])
  BY <1>0 DEF IsWriting
<1> HIDE DEF n
<1> DEFINE Good(k, u) ==
      /\ SoundPages(u)
      /\ \A b \in Nat : MEM_READ_BYTE(u, b)
           = IF b - a + 1 \in 1..k THEN data[b - a + 1] ELSE MEM_READ_BYTE(t, b)
<1> DEFINE P == {k \in 0..n : Good(k, g[k])}
<1>3. 0 \in P
  BY <1>1, <1>2
<1>4. ASSUME NEW k \in 1..n, k - 1 \in P PROVE k \in P
  <2> DEFINE u == g[k - 1]
  <2> DEFINE c == a + k - 1
  <2> DEFINE v == data[k]
  <2>1. Good(k - 1, u) /\ c \in Nat /\ v \in Bytes /\ g[k] = MEM_WRITE_BYTE(u, c, v)
    BY <1>1, <1>2, <1>4
  <2> DEFINE w == g[k]
  <2>2. /\ SoundPages(w)
        /\ \A b \in Nat : MEM_READ_BYTE(w, b) = IF b = c THEN v ELSE MEM_READ_BYTE(u, b)
    <3> HIDE DEF u, c, v
    <3> QED BY <2>1, ByteWritten
  <2>3. ASSUME NEW b \in Nat
        PROVE  MEM_READ_BYTE(w, b)
                 = IF b - a + 1 \in 1..k THEN data[b - a + 1] ELSE MEM_READ_BYTE(t, b)
    <3>1. b = c => b - a + 1 = k
      BY <1>1
    <3>2. b - a + 1 \in 1..k <=> b = c \/ b - a + 1 \in 1..k - 1
      BY <1>1
    <3>3. MEM_READ_BYTE(u, b)
            = IF b - a + 1 \in 1..k - 1 THEN data[b - a + 1] ELSE MEM_READ_BYTE(t, b)
      BY <2>1
    <3>4. MEM_READ_BYTE(w, b) = IF b = c THEN v ELSE MEM_READ_BYTE(u, b)
      BY <2>2
    <3> HIDE DEF u, c, w
    <3> QED BY <3>1, <3>2, <3>3, <3>4
  <2>4. Good(k, g[k])
    BY <2>2, <2>3
  <2> HIDE DEF Good
  <2> QED BY <2>4
<1> HIDE DEF P, Good
<1>5. P = 0..n
  BY <1>1, <1>3, <1>4, Iteration DEF P
<1>6. Good(n, g[n])
  BY <1>1, <1>5 DEF P
<1> QED BY <1>2, <1>6 DEF Good, n

-----------------------------------------------------------------------------
(* Chains of the store table.                                              *)

Ent == [addr : Valid, data : [1..BufferSize -> Bytes]]
At(c, addr) == SelectInSeq(c, LAMBDA ent : ent.addr = addr)
DataAt(c, addr) == IF At(c, addr) = 0 THEN <<>> ELSE c[At(c, addr)].data

\* An address has one entry.
SoundEntries(c) ==
  c \in Seq(Ent) /\ \A i, j \in 1..Len(c) : c[i].addr = c[j].addr => i = j
InChain(h, c) == \A i \in 1..Len(c) : HASH_ADDR(c[i].addr) = h

LEMMA PlaceOfEntry ==
  ASSUME NEW c, Len(c) \in Nat, NEW addr
  PROVE  \/ At(c, addr) \in 1..Len(c) /\ c[At(c, addr)].addr = addr
         \/ At(c, addr) = 0 /\ \A i \in 1..Len(c) : c[i].addr # addr
<1> DEFINE I == {i \in 1..Len(c) : c[i].addr = addr}
<1>1. At(c, addr) = IF I # {} THEN Min(I) ELSE 0
  BY DEF At, SelectInSeq
<1>2. CASE I = {}
  BY <1>1, <1>2
<1>3. CASE I # {}
  <2>1. I \in SUBSET Nat
    OBVIOUS
  <2> HIDE DEF I
  <2>2. \E x \in I : \A y \in I : x <= y
    BY <1>3, <2>1, LeastElement
  <2>3. Min(I) \in I
    BY <2>2 DEF Min
  <2> QED BY <1>1, <1>3, <2>3 DEF I
<1> QED BY <1>2, <1>3

LEMMA EntryIs ==
  ASSUME NEW c, SoundEntries(c), NEW i \in 1..Len(c)
  PROVE  At(c, c[i].addr) = i
<1>1. Len(c) \in Nat
  BY LenProperties DEF SoundEntries
<1>2. 0 \notin 1..Len(c)
  OBVIOUS
<1> QED BY <1>1, <1>2, PlaceOfEntry DEF SoundEntries

\* An entry that moves to the front keeps its data, and so do the others.
LEMMA EntryMoved ==
  ASSUME NEW h, NEW c, SoundEntries(c), InChain(h, c), NEW i \in 1..Len(c)
  PROVE  /\ SoundEntries(ToFront(c, i)) /\ InChain(h, ToFront(c, i))
         /\ Len(ToFront(c, i)) = Len(c) /\ ToFront(c, i)[1] = c[i]
         /\ \A addr : DataAt(ToFront(c, i), addr) = DataAt(c, addr)
<1> DEFINE n == Len(c)
<1> DEFINE d == ToFront(c, i)
<1>1. c \in Seq(Ent) /\ n \in Nat
  BY LenProperties DEF SoundEntries
<1>2. d \in Seq(Ent) /\ Len(d) = n /\ d[1] = c[i] /\ \E p : Reordered(n, c, d, p)
  BY <1>1, FrontMoved
<1> HIDE DEF d, n
<1>3. PICK p : Reordered(n, c, d, p)
  BY <1>2
<1>4. SoundEntries(d)
  <2>1. ASSUME NEW j \in 1..n, NEW k \in 1..n, d[j].addr = d[k].addr PROVE j = k
    <3>1. p[j] \in 1..n /\ p[k] \in 1..n /\ d[j] = c[p[j]] /\ d[k] = c[p[k]]
      BY <1>3 DEF Reordered
    <3>2. p[j] = p[k]
      BY <2>1, <3>1 DEF SoundEntries, n
    <3> QED BY <1>3, <3>2 DEF Reordered
  <2> QED BY <1>2, <2>1 DEF SoundEntries
<1>5. InChain(h, d)
  <2>1. ASSUME NEW j \in 1..n PROVE HASH_ADDR(d[j].addr) = h
    <3>1. p[j] \in 1..n /\ d[j] = c[p[j]]
      BY <1>3 DEF Reordered
    <3> QED BY <3>1 DEF InChain, n
  <2> QED BY <1>2, <2>1 DEF InChain
<1>6. ASSUME NEW addr PROVE DataAt(d, addr) = DataAt(c, addr)
  <2>1. CASE \E j \in 1..n : c[j].addr = addr
    <3>1. PICK j \in 1..n : c[j].addr = addr
      BY <2>1
    <3>2. PICK k \in 1..n : p[k] = j
      BY <1>3 DEF Reordered
    <3>3. d[k] = c[j]
      BY <1>3, <3>2 DEF Reordered
    <3>4. At(c, addr) = j
      BY <3>1, EntryIs DEF n
    <3>5. At(d, addr) = k
      BY <1>2, <1>4, <3>1, <3>3, EntryIs
    <3>6. j # 0 /\ k # 0
      BY <1>1
    <3> QED BY <3>3, <3>4, <3>5, <3>6 DEF DataAt
  <2>2. CASE \A j \in 1..n : c[j].addr # addr
    <3>1. ASSUME NEW j \in 1..n PROVE d[j].addr # addr
      <4>1. p[j] \in 1..n /\ d[j] = c[p[j]]
        BY <1>3 DEF Reordered
      <4> QED BY <2>2, <4>1
    <3>2. At(c, addr) = 0 /\ At(d, addr) = 0
      BY <1>1, <1>2, <2>2, <3>1, PlaceOfEntry DEF n
    <3> QED BY <3>2 DEF DataAt
  <2> QED BY <2>1, <2>2
<1> QED BY <1>2, <1>4, <1>5, <1>6 DEF d, n

\* A new entry.
LEMMA EntryAdded ==
  ASSUME NEW h, NEW c, SoundEntries(c), InChain(h, c), NEW ent \in Ent,
         HASH_ADDR(ent.addr) = h, At(c, ent.addr) = 0
  PROVE  /\ SoundEntries(<<ent>> \o c) /\ InChain(h, <<ent>> \o c)
         /\ Len(<<ent>> \o c) = Len(c) + 1
         /\ \A addr : DataAt(<<ent>> \o c, addr)
              = IF addr = ent.addr THEN ent.data ELSE DataAt(c, addr)
<1> DEFINE d == <<ent>> \o c
<1> DEFINE n == Len(c)
<1>1. c \in Seq(Ent) /\ n \in Nat
  BY LenProperties DEF SoundEntries
<1>3. /\ d \in Seq(Ent) /\ Len(d) = n + 1 /\ d[1] = ent
      /\ \A i \in 2..n + 1 : d[i] = c[i - 1]
  BY <1>1, PutInFront
<1> HIDE DEF d
<1>4. \A j \in 1..n : c[j].addr # ent.addr
  <2>1. 0 \notin 1..n
    OBVIOUS
  <2> QED BY <1>1, <2>1, PlaceOfEntry DEF n
<1> HIDE DEF n
<1>5. SoundEntries(d)
  <2>1. ASSUME NEW i \in 1..n + 1, NEW j \in 1..n + 1, d[i].addr = d[j].addr PROVE i = j
    <3>1. CASE i = 1 /\ j = 1
      BY <3>1
    <3>2. CASE i = 1 /\ j # 1
      <4>1. j \in 2..n + 1 /\ j - 1 \in 1..n
        BY <1>1, <3>2
      <4> QED BY <1>3, <1>4, <2>1, <3>2, <4>1
    <3>3. CASE i # 1 /\ j = 1
      <4>1. i \in 2..n + 1 /\ i - 1 \in 1..n
        BY <1>1, <3>3
      <4> QED BY <1>3, <1>4, <2>1, <3>3, <4>1
    <3>4. CASE i # 1 /\ j # 1
      <4>1. i \in 2..n + 1 /\ i - 1 \in 1..n /\ j \in 2..n + 1 /\ j - 1 \in 1..n
        BY <1>1, <3>4
      <4>2. c[i - 1].addr = c[j - 1].addr
        BY <1>3, <2>1, <4>1
      <4>3. i - 1 = j - 1
        BY <4>1, <4>2 DEF SoundEntries, n
      <4> QED BY <4>1, <4>3
    <3> QED BY <3>1, <3>2, <3>3, <3>4
  <2> QED BY <1>3, <2>1 DEF SoundEntries
<1>6. InChain(h, d)
  <2>1. ASSUME NEW i \in 1..n + 1 PROVE HASH_ADDR(d[i].addr) = h
    <3>1. CASE i = 1
      BY <1>3, <3>1
    <3>2. CASE i # 1
      <4>1. i \in 2..n + 1 /\ i - 1 \in 1..n
        BY <1>1, <3>2
      <4> QED BY <1>3, <4>1 DEF InChain, n
    <3> QED BY <3>1, <3>2
  <2> QED BY <1>3, <2>1 DEF InChain
<1>7. ASSUME NEW addr
      PROVE  DataAt(d, addr) = IF addr = ent.addr THEN ent.data ELSE DataAt(c, addr)
  <2>1. CASE addr = ent.addr
    <3>1. 1 \in 1..n + 1 /\ 1 # 0
      BY <1>1
    <3>2. At(d, addr) = 1
      BY <1>3, <1>5, <2>1, <3>1, EntryIs
    <3> QED BY <1>3, <2>1, <3>2 DEF DataAt
  <2>2. CASE \E j \in 1..n : c[j].addr = addr
    <3>1. PICK j \in 1..n : c[j].addr = addr
      BY <2>2
    <3>2. j + 1 \in 1..n + 1 /\ j + 1 \in 2..n + 1 /\ (j + 1) - 1 = j /\ j + 1 # 0 /\ j # 0
      BY <1>1
    <3>3. d[j + 1] = c[j]
      BY <1>3, <3>2
    <3>4. At(c, addr) = j
      BY <3>1, EntryIs DEF n
    <3>5. At(d, addr) = j + 1
      BY <1>3, <1>5, <3>1, <3>2, <3>3, EntryIs
    <3>6. addr # ent.addr
      BY <1>4, <3>1
    <3> QED BY <3>2, <3>3, <3>4, <3>5, <3>6 DEF DataAt
  <2>3. CASE addr # ent.addr /\ \A j \in 1..n : c[j].addr # addr
    <3>1. ASSUME NEW i \in 1..n + 1 PROVE d[i].addr # addr
      <4>1. CASE i = 1
        BY <1>3, <2>3, <4>1
      <4>2. CASE i # 1
        <5>1. i \in 2..n + 1 /\ i - 1 \in 1..n
          BY <1>1, <4>2
        <5> QED BY <1>3, <2>3, <5>1
      <4> QED BY <4>1, <4>2
    <3>2. At(c, addr) = 0 /\ At(d, addr) = 0
      <4>1. Len(d) \in Nat
        BY <1>1, <1>3
      <4> QED BY <1>1, <1>3, <2>3, <3>1, <4>1, PlaceOfEntry DEF n
    <3> QED BY <2>3, <3>2 DEF DataAt
  <2> QED BY <2>1, <2>2, <2>3
<1> QED BY <1>3, <1>5, <1>6, <1>7 DEF d, n

\* The data of the entry in front are replaced.
WithData(c, data) == [c EXCEPT ![1].data = data]
DataReplaced(h, c, d, data) ==
  /\ SoundEntries(d) /\ InChain(h, d) /\ Len(d) = Len(c)
  /\ \A addr : DataAt(d, addr) = IF addr = c[1].addr THEN data ELSE DataAt(c, addr)

LEMMA EntryWritten ==
  ASSUME NEW h, NEW c, SoundEntries(c), InChain(h, c), c # <<>>,
         NEW data \in [1..BufferSize -> Bytes]
  PROVE  DataReplaced(h, c, WithData(c, data), data)
<1> DEFINE d == WithData(c, data)
<1> DEFINE n == Len(c)
<1>1. c \in Seq(Ent) /\ n \in Nat /\ DOMAIN c = 1..n /\ 1 \in 1..n
  <2>1. c \in Seq(Ent)
    BY DEF SoundEntries
  <2> QED BY <2>1, LenProperties, EmptySeq
<1>2. c[1] \in Ent
  BY <1>1, ElementOfSeq
<1> DEFINE q == [c[1] EXCEPT !.data = data]
<1>3. q \in Ent /\ q.addr = c[1].addr /\ q.data = data
  BY <1>2 DEF Ent
<1>4. d = [c EXCEPT ![1] = q]
  BY DEF WithData
<1> HIDE DEF q, d
<1>5. d \in Seq(Ent) /\ Len(d) = n /\ d[1] = q /\ \A i \in 1..n : i # 1 => d[i] = c[i]
  <2>1. d \in Seq(Ent) /\ Len(d) = n
    BY <1>1, <1>3, <1>4, ExceptSeq
  <2> QED BY <1>1, <1>4, <2>1
<1> HIDE DEF n
<1>6. \A i \in 1..n : d[i].addr = c[i].addr
  BY <1>3, <1>5
<1>7. SoundEntries(d)
  BY <1>5, <1>6 DEF SoundEntries, n
<1>8. InChain(h, d)
  BY <1>5, <1>6 DEF InChain, n
<1>9. ASSUME NEW addr
      PROVE  DataAt(d, addr) = IF addr = c[1].addr THEN data ELSE DataAt(c, addr)
  <2>1. CASE \E j \in 1..n : c[j].addr = addr
    <3>1. PICK j \in 1..n : c[j].addr = addr
      BY <2>1
    <3>2. At(c, addr) = j
      BY <3>1, EntryIs DEF n
    <3>3. At(d, addr) = j
      BY <1>5, <1>6, <1>7, <3>1, EntryIs
    <3>4. j # 0
      BY <1>1
    <3>5. j # 1 => addr # c[1].addr
      BY <1>1, <3>1 DEF SoundEntries, n
    <3>6. DataAt(d, addr) = d[j].data /\ DataAt(c, addr) = c[j].data
      BY <3>2, <3>3, <3>4 DEF DataAt
    <3>7. CASE j = 1
      BY <1>3, <1>5, <3>1, <3>6, <3>7
    <3>8. CASE j # 1
      BY <1>5, <3>5, <3>6, <3>8
    <3> QED BY <3>7, <3>8
  <2>2. CASE \A j \in 1..n : c[j].addr # addr
    <3>1. \A j \in 1..n : d[j].addr # addr
      BY <1>6, <2>2
    <3>2. 0 \notin 1..n /\ Len(c) = n /\ Len(d) = n /\ n \in Nat
      BY <1>1, <1>5 DEF n
    <3>3. At(c, addr) = 0
      BY <2>2, <3>2, PlaceOfEntry
    <3>4. At(d, addr) = 0
      BY <3>1, <3>2, PlaceOfEntry
    <3>5. addr # c[1].addr
      BY <1>1, <2>2
    <3> QED BY <3>3, <3>4, <3>5 DEF DataAt
  <2> QED BY <2>1, <2>2
<1> QED BY <1>5, <1>7, <1>8, <1>9 DEF n, d, DataReplaced

-----------------------------------------------------------------------------
(* The store table.                                                        *)

Hashes == 0 .. STORE_HASH_SIZE - 1
StoreTables == [Hashes -> Seq(Ent)]
SoundStores(st) ==
  st \in StoreTables /\ \A h \in Hashes : SoundEntries(st[h]) /\ InChain(h, st[h])
DataIn(st, addr) == DataAt(st[HASH_ADDR(addr)], addr)
SameData(st, u) == \A b \in Nat : DataIn(u, b) = DataIn(st, b)
Empty == [h \in Hashes |-> <<>>]

LEMMA HashIn == ASSUME NEW a \in Nat PROVE HASH_ADDR(a) \in Hashes
<1> DEFINE H == STORE_HASH_SIZE
<1>1. H \in Nat \ {0} /\ HASH_ADDR(a) = a % H /\ Hashes = 0 .. H - 1
  BY StateAssumption DEF HASH_ADDR, Hashes
<1> HIDE DEF H
<1>2. a % H \in 0 .. H - 1
  BY <1>1
<1> QED BY <1>1, <1>2

LEMMA EmptySound ==
  /\ SoundStores(Empty)
  /\ \A a \in Nat : DataIn(Empty, a) = <<>>
  /\ \A h \in Hashes : Len(Empty[h]) = 0
<1>1. <<>> \in Seq(Ent) /\ Len(<<>>) = 0 /\ 1..0 = {}
  OBVIOUS
<1>2. SoundStores(Empty)
  BY <1>1 DEF SoundStores, StoreTables, Empty, SoundEntries, InChain
<1>3. ASSUME NEW a PROVE At(<<>>, a) = 0
  BY <1>1, PlaceOfEntry
<1>4. ASSUME NEW a \in Nat PROVE DataIn(Empty, a) = <<>>
  BY <1>3, HashIn DEF DataIn, Empty, DataAt
<1> QED BY <1>1, <1>2, <1>4 DEF Empty

\* A chain changes.
ChangedStores(st, s, c, u) == u = [st EXCEPT ![s] = c]

LEMMA ChainChanged ==
  ASSUME NEW st, SoundStores(st), NEW s \in Hashes,
         NEW c, SoundEntries(c), InChain(s, c), NEW u, ChangedStores(st, s, c, u)
  PROVE  /\ SoundStores(u)
         /\ \A b \in Nat : DataIn(u, b) = IF HASH_ADDR(b) = s THEN DataAt(c, b) ELSE DataIn(st, b)
         /\ \A h \in Hashes : u[h] = IF h = s THEN c ELSE st[h]
<1>1. \A h \in Hashes : u[h] = IF h = s THEN c ELSE st[h]
  BY DEF SoundStores, StoreTables, ChangedStores
<1>2. u \in StoreTables
  <2>1. c \in Seq(Ent)
    BY DEF SoundEntries
  <2> QED BY <2>1 DEF SoundStores, StoreTables, ChangedStores
<1>3. SoundStores(u)
  BY <1>1, <1>2 DEF SoundStores
<1>4. ASSUME NEW b \in Nat
      PROVE  DataIn(u, b) = IF HASH_ADDR(b) = s THEN DataAt(c, b) ELSE DataIn(st, b)
  BY <1>1, HashIn DEF DataIn
<1> QED BY <1>1, <1>3, <1>4

-----------------------------------------------------------------------------
(* The number of entries in the store table.                               *)

IsSum(g, st) ==
  /\ g \in [0..STORE_HASH_SIZE -> Nat] /\ Entries(st) = g[STORE_HASH_SIZE] /\ g[0] = 0
  /\ \A i \in 1..STORE_HASH_SIZE : g[i] = g[i - 1] + Len(st[i - 1])

LEMMA EntriesSum ==
  ASSUME NEW st, \A h \in Hashes : Len(st[h]) \in Nat
  PROVE  \E g : IsSum(g, st)
<1> DEFINE n == STORE_HASH_SIZE
<1> DEFINE Is(g) == g = [i \in 0..n |-> IF i = 0 THEN 0 ELSE g[i - 1] + Len(st[i - 1])]
<1> DEFINE f == CHOOSE g : Is(g)
<1>1. Entries(st) = f[n]
  BY Zenon DEF Entries
<1>2. n \in Nat
  BY StateAssumption
<1>3. ASSUME NEW i \in 1..n PROVE i - 1 \in 0..n /\ Len(st[i - 1]) \in Nat
  <2>1. i - 1 \in Hashes
    BY <1>2 DEF Hashes
  <2> QED BY <1>2, <2>1
<1>4. \E g \in [0..n -> Nat] : Is(g)
  <2> DEFINE F == [i \in 1..n |-> [u \in Nat |-> u + Len(st[i - 1])]]
  <2>1. F \in [1..n -> [Nat -> Nat]]
    BY <1>3
  <2>2. PICK g \in [0..n -> Nat] : Loop(g, 0, n, F)
    <3> HIDE DEF F, n
    <3> QED BY <1>2, <2>1, LoopStates
  <2>3. g[0] = 0 /\ \A i \in 1..n : g[i] = g[i - 1] + Len(st[i - 1])
    <3>1. g[0] = 0 /\ \A i \in 1..n : g[i] = F[i][g[i - 1]]
      BY <2>2 DEF Loop
    <3>2. \A i \in 1..n : g[i - 1] \in Nat
      BY <1>3
    <3> QED BY <3>1, <3>2
  <2>4. Is(g)
    <3> HIDE DEF F
    <3>1. g = [i \in 0..n |-> g[i]]
      OBVIOUS
    <3>2. \A i \in 0..n : g[i] = IF i = 0 THEN 0 ELSE g[i - 1] + Len(st[i - 1])
      BY <1>2, <2>3
    <3> QED BY <3>1, <3>2
  <2> HIDE DEF Is
  <2> QED BY <2>4
<1>5. Is(f)
  <2> HIDE DEF Is
  <2> QED BY <1>4
<1> HIDE DEF f
<1>6. f[0] = 0 /\ \A i \in 1..n : f[i] = f[i - 1] + Len(st[i - 1])
  BY <1>2, <1>5
<1>7. f \in [0..n -> Nat]
  <2> DEFINE P == {i \in 0..n : f[i] \in Nat}
  <2>1. 0 \in P /\ \A i \in 1..n : i - 1 \in P => i \in P
    BY <1>2, <1>3, <1>6
  <2> HIDE DEF P
  <2>2. P = 0..n
    <3>1. P \in SUBSET (0..n)
      BY DEF P
    <3> QED BY <1>2, <2>1, <3>1, Iteration
  <2>3. \A i \in 0..n : f[i] \in Nat
    BY <2>2 DEF P
  <2>4. f = [i \in 0..n |-> f[i]]
    BY <1>5
  <2> HIDE DEF Is
  <2> QED BY <2>3, <2>4
<1> QED BY <1>1, <1>6, <1>7 DEF IsSum, n

LEMMA LensInNat ==
  ASSUME NEW st, SoundStores(st)
  PROVE  \A h \in Hashes : Len(st[h]) \in Nat
BY LenProperties DEF SoundStores, SoundEntries

\* With one more entry in a chain, there is one more in the table.
LEMMA EntriesChange ==
  ASSUME NEW st, SoundStores(st), NEW u, SoundStores(u), NEW s \in Hashes,
         NEW m \in {0, 1},
         \A h \in Hashes : Len(u[h]) = IF h = s THEN Len(st[h]) + m ELSE Len(st[h])
  PROVE  Entries(u) = Entries(st) + m /\ Entries(st) \in Nat
<1> DEFINE n == STORE_HASH_SIZE
<1>1. n \in Nat /\ s \in 0..n - 1
  BY StateAssumption DEF Hashes
<1>2. PICK g : IsSum(g, st)
  BY LensInNat, EntriesSum
<1>3. PICK k : IsSum(k, u)
  BY LensInNat, EntriesSum
<1> DEFINE P == {i \in 0..n : k[i] = IF s < i THEN g[i] + m ELSE g[i]}
<1>4. 0 \in P
  BY <1>1, <1>2, <1>3 DEF IsSum
<1>5. ASSUME NEW i \in 1..n, i - 1 \in P PROVE i \in P
  <2>1. i - 1 \in Hashes /\ i - 1 \in 0..n
    BY <1>1 DEF Hashes
  <2>2. Len(st[i - 1]) \in Nat /\ Len(u[i - 1]) = IF i - 1 = s THEN Len(st[i - 1]) + m ELSE Len(st[i - 1])
    BY <2>1, LensInNat
  <2>3. g[i] = g[i - 1] + Len(st[i - 1]) /\ k[i] = k[i - 1] + Len(u[i - 1]) /\ g[i - 1] \in Nat
    BY <1>2, <1>3, <2>1 DEF IsSum
  <2>4. k[i - 1] = IF s < i - 1 THEN g[i - 1] + m ELSE g[i - 1]
    BY <1>5
  <2> DEFINE x == Len(st[i - 1])
  <2> DEFINE y == Len(u[i - 1])
  <2>5. x \in Nat /\ y = (IF i - 1 = s THEN x + m ELSE x) /\ g[i] = g[i - 1] + x /\ k[i] = k[i - 1] + y
    BY <2>2, <2>3
  <2> HIDE DEF x, y
  <2>6. k[i] = IF s < i THEN g[i] + m ELSE g[i]
    <3>1. CASE s < i - 1
      BY <1>1, <2>3, <2>4, <2>5, <3>1
    <3>2. CASE s = i - 1
      BY <1>1, <2>3, <2>4, <2>5, <3>2
    <3>3. CASE s > i - 1
      BY <1>1, <2>3, <2>4, <2>5, <3>3
    <3> QED BY <1>1, <3>1, <3>2, <3>3
  <2> QED BY <2>6
<1> HIDE DEF P
<1>6. P = 0..n
  <2>1. P \in SUBSET (0..n)
    BY DEF P
  <2> QED BY <1>1, <1>4, <1>5, <2>1, Iteration
<1>7. k[n] = g[n] + m /\ g[n] \in Nat
  <2>1. n \in P /\ n \in 0..n /\ s < n
    BY <1>1, <1>6
  <2> QED BY <1>2, <2>1 DEF P, IsSum
<1> QED BY <1>2, <1>3, <1>7 DEF IsSum

LEMMA EntriesSame ==
  ASSUME NEW st, SoundStores(st), NEW u, SoundStores(u),
         \A h \in Hashes : Len(u[h]) = Len(st[h])
  PROVE  Entries(u) = Entries(st) /\ Entries(st) \in Nat
<1>1. 0 \in Hashes
  BY StateAssumption DEF Hashes
<1>2. \A h \in Hashes : Len(u[h]) = IF h = 0 THEN Len(st[h]) + 0 ELSE Len(st[h])
  BY LensInNat
<1>3. Entries(u) = Entries(st) + 0 /\ Entries(st) \in Nat
  BY <1>1, <1>2, EntriesChange
<1> QED BY <1>3

LEMMA EntriesOfEmpty == Entries(Empty) = 0
<1> DEFINE n == STORE_HASH_SIZE
<1>1. n \in Nat
  BY StateAssumption
<1>2. PICK g : IsSum(g, Empty)
  BY EmptySound, LensInNat, EntriesSum
<1> DEFINE P == {i \in 0..n : g[i] = 0}
<1>3. 0 \in P
  BY <1>1, <1>2 DEF IsSum
<1>4. ASSUME NEW i \in 1..n, i - 1 \in P PROVE i \in P
  <2>1. i - 1 \in Hashes
    BY <1>1 DEF Hashes
  <2>2. Len(Empty[i - 1]) = 0
    BY <2>1, EmptySound
  <2> QED BY <1>2, <1>4, <2>2 DEF IsSum
<1> HIDE DEF P
<1>5. P = 0..n
  <2>1. P \in SUBSET (0..n)
    BY DEF P
  <2> QED BY <1>1, <1>3, <1>4, <2>1, Iteration
<1>6. n \in P
  BY <1>1, <1>5
<1> QED BY <1>2, <1>6 DEF P, IsSum

-----------------------------------------------------------------------------
(* The operations on the store table.                                      *)

LEMMA FoundIs ==
  ASSUME NEW addr
  PROVE  Found(addr) = At(store_htable[HASH_ADDR(addr)], addr)
         /\ Chain(addr) = store_htable[HASH_ADDR(addr)]
BY DEF Found, Chain, At

\* A table in which an address was looked up: its entry, if it has one, is in front.
LookedUp(st, u, addr) ==
  /\ SoundStores(u) /\ SameData(st, u) /\ \A h \in Hashes : Len(u[h]) = Len(st[h])
  /\ DataIn(st, addr) # <<>> => /\ u[HASH_ADDR(addr)] # <<>>
                                /\ u[HASH_ADDR(addr)][1].addr = addr
                                /\ u[HASH_ADDR(addr)][1].data = DataIn(st, addr)

LEMMA FoundData ==
  ASSUME SoundStores(store_htable), NEW addr \in Nat
  PROVE  /\ Found(addr) = 0 <=> DataIn(store_htable, addr) = <<>>
         /\ Found(addr) # 0 =>
              /\ Found(addr) \in 1..Len(Chain(addr)) /\ Chain(addr)[Found(addr)].addr = addr
              /\ Chain(addr)[Found(addr)].data = DataIn(store_htable, addr)
              /\ DataIn(store_htable, addr) \in [1..BufferSize -> Bytes] /\ addr \in Valid
<1> DEFINE h == HASH_ADDR(addr)
<1> DEFINE c == store_htable[h]
<1> DEFINE i == Found(addr)
<1>1. h \in Hashes
  BY HashIn
<1>2. SoundEntries(c) /\ c \in Seq(Ent) /\ Len(c) \in Nat
  BY <1>1, LenProperties DEF SoundStores, SoundEntries
<1>3. i = At(c, addr) /\ Chain(addr) = c /\ DataIn(store_htable, addr) = DataAt(c, addr)
  BY FoundIs DEF DataIn
<1> HIDE DEF c, i, h
<1>4. CASE i = 0
  BY <1>3, <1>4 DEF DataAt, i
<1>5. CASE i # 0
  <2>1. i \in 1..Len(c) /\ c[i].addr = addr
    BY <1>2, <1>3, <1>5, PlaceOfEntry
  <2>2. c[i] \in Ent
    BY <1>2, <2>1, ElementOfSeq
  <2>3. DataAt(c, addr) = c[i].data
    BY <1>3, <1>5 DEF DataAt
  <2>4. c[i].data \in [1..BufferSize -> Bytes] /\ addr \in Valid
    BY <2>1, <2>2 DEF Ent
  <2>5. DataAt(c, addr) # <<>>
    <3>1. 1 \in DOMAIN DataAt(c, addr) /\ DOMAIN <<>> = {}
      BY <2>3, <2>4 DEF BufferSize
    <3> QED BY <3>1
  <2> QED BY <1>3, <1>5, <2>1, <2>3, <2>4, <2>5 DEF i
<1> QED BY <1>4, <1>5

LEMMA LookedSound ==
  ASSUME SoundStores(store_htable), NEW addr \in Nat
  PROVE  LookedUp(store_htable, Looked(addr), addr)
<1> DEFINE s == HASH_ADDR(addr)
<1> DEFINE c == store_htable[s]
<1> DEFINE i == Found(addr)
<1> DEFINE u == Looked(addr)
<1> DEFINE d == ToFront(c, i)
<1>1. s \in Hashes /\ SoundEntries(c) /\ InChain(s, c) /\ Chain(addr) = c
  BY HashIn, FoundIs DEF SoundStores
<1>2. CASE i = 0
  <2>1. u = store_htable /\ DataIn(store_htable, addr) = <<>>
    BY <1>2, FoundData DEF Looked
  <2> QED BY <2>1 DEF LookedUp, SameData
<1>3. CASE i # 0
  <2>1. i \in 1..Len(c) /\ c[i].addr = addr /\ c[i].data = DataIn(store_htable, addr)
    BY <1>1, <1>3, FoundData
  <2>2. ChangedStores(store_htable, s, d, u)
    BY <1>3 DEF Looked, ChangedStores
  <2>3. Len(c) \in Nat
    BY <1>1, LensInNat
  <2> HIDE DEF i, s, u
  <2>4. /\ SoundEntries(d) /\ InChain(s, d) /\ Len(d) = Len(c) /\ d[1] = c[i]
        /\ \A a : DataAt(d, a) = DataAt(c, a)
    <3> HIDE DEF c
    <3> QED BY <1>1, <2>1, EntryMoved
  <2> HIDE DEF d
  <2>5. /\ SoundStores(u)
        /\ \A b \in Nat : DataIn(u, b) = IF HASH_ADDR(b) = s THEN DataAt(d, b)
                                         ELSE DataIn(store_htable, b)
        /\ \A h \in Hashes : u[h] = IF h = s THEN d ELSE store_htable[h]
    BY <1>1, <2>2, <2>4, ChainChanged
  <2>6. SameData(store_htable, u)
    BY <2>4, <2>5 DEF SameData, DataIn, c
  <2>7. \A h \in Hashes : Len(u[h]) = Len(store_htable[h])
    BY <2>4, <2>5 DEF c
  <2>8. u[s] = d /\ d # <<>> /\ d[1].addr = addr /\ d[1].data = DataIn(store_htable, addr)
    BY <1>1, <2>1, <2>3, <2>4, <2>5
  <2> QED BY <2>5, <2>6, <2>7, <2>8 DEF LookedUp, s, u
<1> QED BY <1>2, <1>3

\* One address has new data, and m entries more are in the table.
Updated(st, u, addr, data, m) ==
  /\ SoundStores(u) /\ Entries(u) = Entries(st) + m /\ Entries(st) \in Nat
  /\ \A b \in Nat : DataIn(u, b) = IF b = addr THEN data ELSE DataIn(st, b)

LEMMA OverwrittenBytes ==
  ASSUME NEW old \in [1..BufferSize -> Bytes], NEW n \in Nat, NEW data \in [1..n -> Bytes]
  PROVE  /\ Overwritten(old, data) \in [1..BufferSize -> Bytes]
         /\ \A k \in 1..BufferSize : k <= n => Overwritten(old, data)[k] = data[k]
<1>1. Len(data) = n
  BY LenProperties
<1>2. \A k \in 1..BufferSize : k <= n => k \in 1..n
  BY DEF BufferSize
<1> QED BY <1>1, <1>2 DEF Overwritten

LEMMA FoundWritten ==
  ASSUME SoundStores(store_htable), NEW addr \in Nat, NEW n \in Nat, NEW data \in [1..n -> Bytes],
         WriteFound(addr, data)
  PROVE  /\ DataIn(store_htable, addr) \in [1..BufferSize -> Bytes]
         /\ Updated(store_htable, store_htable', addr,
                    Overwritten(DataIn(store_htable, addr), data), 0)
<1> DEFINE st == store_htable
<1> DEFINE u == Looked(addr)
<1> DEFINE w == store_htable'
<1> DEFINE s == HASH_ADDR(addr)
<1> DEFINE c == u[s]
<1> DEFINE old == DataIn(st, addr)
<1> DEFINE new == Overwritten(old, data)
<1> DEFINE d == WithData(c, new)
<1>1. Found(addr) # 0 /\ w = [u EXCEPT ![s][1].data = Overwritten(@, data)]
  BY DEF WriteFound
<1>2. old # <<>> /\ old \in [1..BufferSize -> Bytes] /\ s \in Hashes
  BY <1>1, FoundData, HashIn
<1>3. LookedUp(st, u, addr)
  BY LookedSound
<1>4. new \in [1..BufferSize -> Bytes]
  BY <1>2, OverwrittenBytes
<1>5. SoundStores(u) /\ c # <<>> /\ c[1].addr = addr /\ c[1].data = old
  BY <1>2, <1>3 DEF LookedUp
<1>6. SoundEntries(c) /\ InChain(s, c)
  BY <1>2, <1>5 DEF SoundStores
<1>7. ChangedStores(u, s, d, w)
  BY <1>1, <1>5 DEF ChangedStores, WithData
<1> HIDE DEF st, u, w, s, new
<1>8. DataReplaced(s, c, d, new)
  <2> HIDE DEF c
  <2> QED BY <1>4, <1>5, <1>6, EntryWritten
<1> HIDE DEF d
<1>9. /\ SoundEntries(d) /\ InChain(s, d) /\ Len(d) = Len(c)
      /\ \A a : DataAt(d, a) = IF a = addr THEN new ELSE DataAt(c, a)
  BY <1>5, <1>8 DEF DataReplaced
<1>10. /\ SoundStores(w)
       /\ \A b \in Nat : DataIn(w, b) = IF HASH_ADDR(b) = s THEN DataAt(d, b) ELSE DataIn(u, b)
       /\ \A h \in Hashes : w[h] = IF h = s THEN d ELSE u[h]
  BY <1>2, <1>5, <1>7, <1>9, ChainChanged
<1>11. ASSUME NEW b \in Nat PROVE DataIn(w, b) = IF b = addr THEN new ELSE DataIn(st, b)
  <2>1. DataIn(u, b) = DataIn(st, b)
    BY <1>3 DEF LookedUp, SameData
  <2>2. HASH_ADDR(b) = s => DataIn(u, b) = DataAt(c, b)
    BY DEF DataIn
  <2>3. HASH_ADDR(b) # s => b # addr
    BY DEF s
  <2> QED BY <1>9, <1>10, <2>1, <2>2, <2>3
<1>12. \A h \in Hashes : Len(w[h]) = Len(st[h])
  BY <1>2, <1>3, <1>9, <1>10 DEF LookedUp
<1>13. Entries(w) = Entries(st) + 0 /\ Entries(st) \in Nat
  <2>1. SoundStores(st)
    BY DEF st
  <2>2. Entries(w) = Entries(st) /\ Entries(st) \in Nat
    BY <1>10, <1>12, <2>1, EntriesSame
  <2> QED BY <2>2
<1> QED BY <1>2, <1>10, <1>11, <1>13 DEF Updated, st, w, new

ZeroData == [k \in 1..BufferSize |-> 0]

LEMMA NewWritten ==
  ASSUME SoundStores(store_htable), NEW addr \in Nat, addr \in Valid,
         NEW n \in Nat, NEW data \in [1..n -> Bytes],
         WriteNew(addr, data), ~bugcompat_mode
  PROVE  Updated(store_htable, store_htable', addr, Overwritten(ZeroData, data), 1)
<1> DEFINE st == store_htable
<1> DEFINE w == store_htable'
<1> DEFINE s == HASH_ADDR(addr)
<1> DEFINE c == st[s]
<1> DEFINE new == Overwritten(ZeroData, data)
<1> DEFINE ent == [addr |-> addr, data |-> new]
<1> DEFINE d == <<ent>> \o c
<1>1. Found(addr) = 0 /\ w = [st EXCEPT ![s] = d]
  BY DEF WriteNew, ZeroData
<1>2. DataIn(st, addr) = <<>> /\ s \in Hashes /\ At(c, addr) = 0
  BY <1>1, FoundData, FoundIs, HashIn
<1>3. new \in [1..BufferSize -> Bytes]
  <2>1. ZeroData \in [1..BufferSize -> Bytes]
    BY MemoryAssumption DEF ZeroData
  <2> QED BY <2>1, OverwrittenBytes
<1> HIDE DEF new
<1>4. ent \in Ent /\ ent.addr = addr /\ ent.data = new
  BY <1>3 DEF Ent
<1>5. ChangedStores(st, s, d, w)
  BY <1>1 DEF ChangedStores
<1>6. SoundStores(st)
  OBVIOUS
<1> HIDE DEF st, w, ent
<1>7. SoundEntries(c) /\ InChain(s, c)
  BY <1>2, <1>6 DEF SoundStores
<1>8. HASH_ADDR(ent.addr) = s /\ At(c, ent.addr) = 0
  BY <1>2, <1>4
<1> HIDE DEF s
<1>9. /\ SoundEntries(d) /\ InChain(s, d) /\ Len(d) = Len(c) + 1
      /\ \A a : DataAt(d, a) = IF a = ent.addr THEN ent.data ELSE DataAt(c, a)
  <2> HIDE DEF c
  <2> QED BY <1>4, <1>7, <1>8, EntryAdded
<1> HIDE DEF d
<1>10. /\ SoundStores(w)
       /\ \A b \in Nat : DataIn(w, b) = IF HASH_ADDR(b) = s THEN DataAt(d, b) ELSE DataIn(st, b)
       /\ \A h \in Hashes : w[h] = IF h = s THEN d ELSE st[h]
  BY <1>2, <1>5, <1>6, <1>9, ChainChanged
<1>11. ASSUME NEW b \in Nat PROVE DataIn(w, b) = IF b = addr THEN new ELSE DataIn(st, b)
  <2>2. HASH_ADDR(b) = s => DataIn(st, b) = DataAt(c, b)
    BY DEF DataIn
  <2>3. HASH_ADDR(b) # s => b # addr
    BY DEF s
  <2> QED BY <1>4, <1>9, <1>10, <2>2, <2>3
<1>12. \A h \in Hashes : Len(w[h]) = IF h = s THEN Len(st[h]) + 1 ELSE Len(st[h])
  BY <1>9, <1>10
<1>13. Entries(w) = Entries(st) + 1 /\ Entries(st) \in Nat
  <2>1. 1 \in {0, 1}
    OBVIOUS
  <2> QED BY <1>2, <1>6, <1>10, <1>12, <2>1, EntriesChange
<1> QED BY <1>10, <1>11, <1>13 DEF Updated, st, w, new

-----------------------------------------------------------------------------
(* The steps, by what they do to the tables.                               *)

LoadStep == \E a \in Accesses \cup Blocks : ~spec_mode /\ Loaded(a[1], a[2])
StoreStep ==
  \E a \in Accesses \cup Blocks : \E data \in Data(a[2]) : ~spec_mode /\ Wrote(a[1], data)
SpecLoadStep == \E a \in Accesses : spec_mem_Read(a[1], a[2])
SpecStoreStep == \E a \in Accesses : \E data \in Data(a[2]) : spec_mem_Write(a[1], data)
SetStep == \E value \in Bytes : SET_GPR(value)

LEMMA Steps ==
  ASSUME Next
  PROVE  \/ GetGPR \/ SetStep \/ LoadStep \/ StoreStep \/ SpecLoadStep \/ SpecStoreStep
         \/ Mispredict \/ tracer_recover
<1>1. CASE \E value \in Bytes : SET_GPR(value)
  BY <1>1 DEF SetStep
<1>2. ASSUME NEW a \in Accesses,
             \/ mem_access_Read(a[1], a[2]) \/ spec_mem_Read(a[1], a[2])
             \/ \E data \in Data(a[2]) : mem_access_Write(a[1], data) \/ spec_mem_Write(a[1], data)
      PROVE  LoadStep \/ StoreStep \/ SpecLoadStep \/ SpecStoreStep
  BY <1>2 DEF mem_access_Read, mem_access_Write, LoadStep, StoreStep, SpecLoadStep, SpecStoreStep
<1>3. ASSUME NEW b \in Blocks,
             \/ mem_bcopy_Read(b[1], b[2]) \/ mem_strcpy_Read(b[1], b[2])
             \/ mem_bzero(b[1], b[2])
             \/ \E data \in Data(b[2]) : mem_bcopy_Write(b[1], data) \/ mem_strcpy_Write(b[1], data)
      PROVE  LoadStep \/ StoreStep
  <2>1. CASE mem_bcopy_Read(b[1], b[2]) \/ mem_strcpy_Read(b[1], b[2])
    BY <2>1 DEF mem_bcopy_Read, mem_strcpy_Read, LoadStep
  <2>2. CASE mem_bzero(b[1], b[2])
    <3> DEFINE zero == [k \in 1 .. b[2] |-> 0]
    <3>1. zero \in Data(b[2]) /\ ~spec_mode /\ Wrote(b[1], zero)
      BY <2>2, MemoryAssumption DEF mem_bzero, Data
    <3> HIDE DEF zero
    <3> QED BY <3>1 DEF StoreStep
  <2>3. CASE \E data \in Data(b[2]) : mem_bcopy_Write(b[1], data) \/ mem_strcpy_Write(b[1], data)
    BY <2>3 DEF mem_bcopy_Write, mem_strcpy_Write, StoreStep
  <2> QED BY <1>3, <2>1, <2>2, <2>3
<1> QED BY <1>1, <1>2, <1>3 DEF Next

\* What is known of accesses and their data.
LEMMA AccessParts ==
  ASSUME NEW a \in Accesses \cup Blocks
  PROVE  /\ a[1] \in Nat /\ a[2] \in Nat /\ a = <<a[1], a[2]>>
         /\ \A k \in 1..a[2] : a[1] + k - 1 \in Addrs
<1>1. a \in Nat \X Nat /\ {a[1] + k - 1 : k \in 1 .. a[2]} \subseteq Addrs
  BY StateAssumption
<1> QED BY <1>1

LEMMA DataParts ==
  ASSUME NEW n \in Nat, NEW data \in Data(n)
  PROVE  data \in [1..n -> Bytes] /\ data \in Seq(Bytes) /\ Len(data) = n /\ DOMAIN data = 1..n
BY SeqDef, LenProperties DEF Data

-----------------------------------------------------------------------------
(* The tables are sound.                                                   *)

Counted(st, free, all, lossy) ==
  /\ SoundStores(st)
  /\ free \in Nat /\ all \in 0 .. MaxEntries
  /\ free + Entries(st) <= all
  /\ ~lossy => all = free + Entries(st)
Modes(st, spec, lossy, R, specR, use) ==
  /\ spec \in BOOLEAN /\ lossy \in BOOLEAN /\ use \in BOOLEAN
  /\ R \in Bytes /\ specR \in Bytes
  /\ ~spec => st = Empty /\ use = FALSE

PagesInv == SoundPages(ptab)
CountedInv == Counted(store_htable, buckets_free, buckets, bugcompat_mode)
ModesInv == Modes(store_htable, spec_mode, bugcompat_mode, regs_R, spec_regs_R, use_spec_R)
TablesInv == PagesInv /\ CountedInv /\ ModesInv

LEMMA TablesInit == ASSUME Init PROVE TablesInv
<1>1. SoundPages(mem_init)
  <2>1. <<>> \in Seq(Page) /\ Len(<<>>) = 0 /\ 1..0 = {}
    OBVIOUS
  <2>2. SoundChain(<<>>)
    BY <2>1 DEF SoundChain
  <2> QED BY <2>1, <2>2 DEF SoundPages, PageTables, mem_init
<1>2. store_htable = Empty
  BY DEF Init, Empty, Hashes
<1>3. Counted(Empty, 0, 0, bugcompat_mode)
  BY EmptySound, EntriesOfEmpty, StateAssumption DEF Counted
<1>4. ModesInv
  BY <1>2, MemoryAssumption DEF Init, ModesInv, Modes
<1> QED BY <1>1, <1>2, <1>3, <1>4 DEF Init, TablesInv, PagesInv, CountedInv

LEMMA PagesStep == ASSUME PagesInv, Next PROVE PagesInv'
<1>1. CASE GetGPR
  BY <1>1 DEF GetGPR, memVars, PagesInv
<1>2. CASE SetStep
  BY <1>2 DEF SetStep, SET_GPR, memVars, PagesInv
<1>3. CASE LoadStep
  <2>1. PICK a \in Accesses \cup Blocks : Loaded(a[1], a[2])
    BY <1>3 DEF LoadStep
  <2>2. ptab' = AfterRead(ptab, a[1], a[2])
    BY <2>1 DEF Loaded
  <2> QED BY <2>2, AccessParts, ReadKeeps DEF PagesInv
<1>4. CASE StoreStep
  <2>1. PICK a \in Accesses \cup Blocks : \E data \in Data(a[2]) : Wrote(a[1], data)
    BY <1>4 DEF StoreStep
  <2>2. PICK data \in Data(a[2]) : Wrote(a[1], data)
    BY <2>1
  <2>3. ptab' = AfterWrite(ptab, a[1], data)
    BY <2>2 DEF Wrote
  <2>4. a[1] \in Nat /\ data \in Seq(Bytes)
    BY AccessParts, DataParts
  <2> QED BY <2>3, <2>4, WriteStores DEF PagesInv
<1>5. CASE SpecLoadStep
  <2>1. PICK a \in Accesses : spec_mem_Read(a[1], a[2])
    BY <1>5 DEF SpecLoadStep
  <2>2. ptab' = ptab \/ ptab' = AfterRead(ptab, a[1], a[2])
    BY <2>1 DEF spec_mem_Read
  <2> QED BY <2>2, AccessParts, ReadKeeps DEF PagesInv
<1>6. CASE SpecStoreStep
  BY <1>6 DEF SpecStoreStep, spec_mem_Write, PagesInv
<1>7. CASE Mispredict
  BY <1>7 DEF Mispredict, memVars, PagesInv
<1>8. CASE tracer_recover
  BY <1>8 DEF tracer_recover, PagesInv
<1> QED BY <1>1, <1>2, <1>3, <1>4, <1>5, <1>6, <1>7, <1>8, Steps

LEMMA CountedStep == ASSUME CountedInv, ModesInv, Next PROVE CountedInv'
<1> DEFINE st == store_htable
<1> DEFINE free == buckets_free
<1> DEFINE all == buckets
<1> DEFINE lossy == bugcompat_mode
<1>0. Counted(st, free, all, lossy) /\ lossy \in BOOLEAN
  BY DEF CountedInv, ModesInv, Modes
<1>1. CASE GetGPR
  BY <1>0, <1>1 DEF GetGPR, memVars, modes, CountedInv
<1>2. CASE SetStep
  BY <1>0, <1>2 DEF SetStep, SET_GPR, memVars, modes, CountedInv
<1>3. CASE LoadStep
  BY <1>0, <1>3 DEF LoadStep, Loaded, modes, CountedInv
<1>4. CASE StoreStep
  BY <1>0, <1>4 DEF StoreStep, Wrote, modes, CountedInv
<1>5. CASE SpecLoadStep
  <2>1. PICK a \in Accesses : spec_mem_Read(a[1], a[2])
    BY <1>5 DEF SpecLoadStep
  <2>2. /\ UNCHANGED <<buckets_free, buckets, bugcompat_mode>>
        /\ store_htable' = store_htable \/ store_htable' = Looked(a[1])
    BY <2>1 DEF spec_mem_Read, modes
  <2>3. LookedUp(store_htable, Looked(a[1]), a[1])
    BY <1>0, AccessParts, LookedSound DEF Counted
  <2> DEFINE u == Looked(a[1])
  <2>4. SoundStores(u) /\ \A h \in Hashes : Len(u[h]) = Len(st[h])
    BY <2>3 DEF LookedUp
  <2> HIDE DEF u
  <2>5. Entries(u) = Entries(st)
    <3>1. SoundStores(st)
      BY <1>0 DEF Counted
    <3> HIDE DEF st
    <3> QED BY <2>4, <3>1, EntriesSame
  <2>6. Counted(u, free, all, lossy)
    BY <1>0, <2>4, <2>5 DEF Counted
  <2> QED BY <1>0, <2>2, <2>6 DEF CountedInv, u
<1>6. CASE SpecStoreStep
  <2>1. PICK a \in Accesses : \E data \in Data(a[2]) : spec_mem_Write(a[1], data)
    BY <1>6 DEF SpecStoreStep
  <2>2. PICK data \in Data(a[2]) : spec_mem_Write(a[1], data)
    BY <2>1
  <2>3. /\ a[1] \in Valid /\ lossy' = lossy
        /\ WriteFound(a[1], data) \/ WriteNew(a[1], data)
    BY <2>2 DEF spec_mem_Write, Permitted, modes
  <2>4. a[1] \in Nat /\ a[2] \in Nat /\ data \in [1..a[2] -> Bytes] /\ SoundStores(st)
    BY <1>0, AccessParts, DataParts DEF Counted
  <2> DEFINE free2 == free'
  <2> DEFINE all2 == all'
  <2> DEFINE u == st'
  <2>5. CASE WriteFound(a[1], data)
    <3>1. free2 = free /\ all2 = all
      BY <2>5 DEF WriteFound
    <3>2. Updated(st, u, a[1], Overwritten(DataIn(st, a[1]), data), 0)
      BY <2>4, <2>5, FoundWritten
    <3> HIDE DEF free2, all2, u, st, free, all, lossy
    <3>3. SoundStores(u) /\ Entries(u) = Entries(st) + 0 /\ Entries(st) \in Nat
      BY <3>2 DEF Updated
    <3>4. Counted(u, free2, all2, lossy)
      BY <1>0, <3>1, <3>3 DEF Counted
    <3> QED BY <2>3, <3>4 DEF CountedInv, u, free2, all2, lossy, st, free, all
  <2>6. CASE WriteNew(a[1], data)
    <3>1. /\ free2 = Taken(free) /\ all2 = (IF free = 0 THEN all + 1 ELSE all)
          /\ all2 <= MaxEntries
      BY <2>6 DEF WriteNew
    <3>2. lossy => u = st
      BY <2>6 DEF WriteNew
    <3>3. ~lossy => Updated(st, u, a[1], Overwritten(ZeroData, data), 1)
      BY <2>3, <2>4, <2>6, NewWritten
    <3> HIDE DEF free2, all2, u, st, free, all, lossy
    <3>4. Entries(st) \in Nat
      BY <2>4, EntriesSame
    <3>5. ~lossy => SoundStores(u) /\ Entries(u) = Entries(st) + 1
      BY <3>3 DEF Updated
    <3> DEFINE e == Entries(st)
    <3> DEFINE e2 == Entries(u)
    <3>6. free \in Nat /\ all \in 0..MaxEntries /\ free + e <= all /\ (~lossy => all = free + e)
      BY <1>0 DEF Counted
    <3>7. SoundStores(u) /\ e \in Nat /\ (lossy => e2 = e) /\ (~lossy => e2 = e + 1)
      BY <2>4, <3>2, <3>4, <3>5
    <3> HIDE DEF e, e2
    <3>8. free2 \in Nat /\ all2 \in 0..MaxEntries /\ free2 + e2 <= all2
          /\ (~lossy => all2 = free2 + e2)
      BY <1>0, <3>1, <3>6, <3>7, StateAssumption DEF Taken
    <3>9. Counted(u, free2, all2, lossy)
      BY <3>7, <3>8 DEF Counted, e2
    <3> QED BY <2>3, <3>9 DEF CountedInv, u, free2, all2, lossy, st, free, all
  <2> QED BY <2>3, <2>5, <2>6
<1>7. CASE Mispredict
  BY <1>0, <1>7 DEF Mispredict, memVars, CountedInv
<1>8. CASE tracer_recover
  <2> DEFINE u == st'
  <2> DEFINE free2 == free'
  <2>1. /\ u = [i \in DOMAIN st |-> <<>>] /\ free2 = free + Entries(st)
        /\ all' = all /\ lossy' = lossy
    BY <1>8 DEF tracer_recover
  <2>2. u = Empty
    BY <1>0, <2>1 DEF Counted, SoundStores, StoreTables, Empty
  <2> HIDE DEF u, free2
  <2>3. Entries(st) \in Nat
    BY <1>0, EntriesSame DEF Counted
  <2>4. Counted(Empty, free2, all, lossy)
    BY <1>0, <2>1, <2>3, EmptySound, EntriesOfEmpty DEF Counted
  <2> QED BY <2>1, <2>2, <2>4 DEF CountedInv, u, free2
<1> QED BY <1>1, <1>2, <1>3, <1>4, <1>5, <1>6, <1>7, <1>8, Steps

LEMMA ModesStep == ASSUME CountedInv, ModesInv, Next PROVE ModesInv'
<1>0. spec_mode \in BOOLEAN /\ bugcompat_mode \in BOOLEAN /\ use_spec_R \in BOOLEAN
      /\ regs_R \in Bytes /\ spec_regs_R \in Bytes
      /\ (~spec_mode => store_htable = Empty /\ use_spec_R = FALSE)
  BY DEF ModesInv, Modes
<1>1. CASE GetGPR
  BY <1>0, <1>1 DEF GetGPR, memVars, regVars, modes, ModesInv, Modes
<1>2. CASE SetStep
  <2>1. PICK value \in Bytes : SET_GPR(value)
    BY <1>2 DEF SetStep
  <2>2. UNCHANGED <<store_htable, spec_mode, bugcompat_mode>>
    BY <2>1 DEF SET_GPR, memVars, modes
  <2>3. CASE spec_mode
    <3>1. spec_regs_R' = value /\ use_spec_R' = TRUE /\ regs_R' = regs_R
      BY <2>1, <2>3 DEF SET_GPR
    <3> QED BY <1>0, <2>2, <2>3, <3>1 DEF ModesInv, Modes
  <2>4. CASE ~spec_mode
    <3>1. regs_R' = value /\ spec_regs_R' = spec_regs_R /\ use_spec_R' = use_spec_R
      BY <2>1, <2>4 DEF SET_GPR
    <3> QED BY <1>0, <2>2, <2>4, <3>1 DEF ModesInv, Modes
  <2> QED BY <2>3, <2>4
<1>3. CASE LoadStep
  BY <1>0, <1>3 DEF LoadStep, Loaded, regVars, modes, ModesInv, Modes
<1>4. CASE StoreStep
  BY <1>0, <1>4 DEF StoreStep, Wrote, regVars, modes, ModesInv, Modes
<1>5. CASE SpecLoadStep
  <2>1. spec_mode = TRUE /\ UNCHANGED <<regVars, modes>>
    BY <1>0, <1>5 DEF SpecLoadStep, spec_mem_Read
  <2> QED BY <1>0, <2>1 DEF regVars, modes, ModesInv, Modes
<1>6. CASE SpecStoreStep
  <2>1. spec_mode = TRUE /\ UNCHANGED <<regVars, modes>>
    BY <1>0, <1>6 DEF SpecStoreStep, spec_mem_Write
  <2> QED BY <1>0, <2>1 DEF regVars, modes, ModesInv, Modes
<1>7. CASE Mispredict
  BY <1>0, <1>7 DEF Mispredict, memVars, regVars, ModesInv, Modes
<1>8. CASE tracer_recover
  <2>1. /\ store_htable' = [i \in DOMAIN store_htable |-> <<>>]
        /\ spec_mode' = FALSE /\ use_spec_R' = FALSE
        /\ UNCHANGED <<bugcompat_mode, regs_R, spec_regs_R>>
    BY <1>8 DEF tracer_recover
  <2>2. store_htable' = Empty
    BY <2>1 DEF CountedInv, Counted, SoundStores, StoreTables, Empty
  <2> QED BY <1>0, <2>1, <2>2 DEF ModesInv, Modes
<1> QED BY <1>1, <1>2, <1>3, <1>4, <1>5, <1>6, <1>7, <1>8, Steps

LEMMA TablesStep == ASSUME TablesInv, [Next]_vars PROVE TablesInv'
<1>1. CASE Next
  BY <1>1, PagesStep, CountedStep, ModesStep DEF TablesInv
<1>2. CASE UNCHANGED vars
  BY <1>2 DEF vars, TablesInv, PagesInv, CountedInv, ModesInv
<1> QED BY <1>1, <1>2

THEOREM Tables == Spec => []TablesInv
BY TablesInit, TablesStep, PTL DEF Spec

\* TablesSound: the tables of memory and of speculative stores keep one entry
\* for a page or an address, in its chain, and no entry of the store table is
\* lost but those that bugcompat_mode loses.
THEOREM TablesAreSound == Spec => []TablesSound
<1>1. ASSUME TablesInv PROVE TablesSound
  <2>1. SoundPages(ptab) /\ Counted(store_htable, buckets_free, buckets, bugcompat_mode)
        /\ Modes(store_htable, spec_mode, bugcompat_mode, regs_R, spec_regs_R, use_spec_R)
    BY <1>1 DEF TablesInv, PagesInv, CountedInv, ModesInv
  <2>2. ASSUME NEW s \in DOMAIN ptab
        PROVE  /\ SoundChain(ptab[s]) /\ DOMAIN ptab[s] = 1..Len(ptab[s])
               /\ \A pte \in ToSet(ptab[s]) :
                    pte.tag \in Nat /\ pte.page \in [0 .. MD_PAGE_SIZE - 1 -> Bytes]
    <3> DEFINE c == ptab[s]
    <3>1. SoundChain(c)
      BY <2>1 DEF SoundPages, PageTables
    <3> HIDE DEF c
    <3>2. c \in Seq(Page) /\ DOMAIN c = 1..Len(c)
      BY <3>1, LenProperties DEF SoundChain
    <3>3. \A i \in DOMAIN c : c[i] \in Page
      BY <3>2, ElementOfSeq
    <3>4. \A pte \in ToSet(c) : pte \in Page
      BY <3>3 DEF ToSet
    <3> QED BY <3>1, <3>2, <3>4 DEF Page, c
  <2>3. ASSUME NEW h \in DOMAIN store_htable
        PROVE  /\ SoundEntries(store_htable[h]) /\ InChain(h, store_htable[h])
               /\ DOMAIN store_htable[h] = 1..Len(store_htable[h])
               /\ \A ent \in ToSet(store_htable[h]) :
                    ent.addr \in Valid /\ ent.data \in [1 .. BufferSize -> Bytes]
    <3> DEFINE c == store_htable[h]
    <3>1. SoundEntries(c) /\ InChain(h, c)
      BY <2>1 DEF Counted, SoundStores, StoreTables
    <3> HIDE DEF c
    <3>2. c \in Seq(Ent) /\ DOMAIN c = 1..Len(c)
      BY <3>1, LenProperties DEF SoundEntries
    <3>3. \A i \in DOMAIN c : c[i] \in Ent
      BY <3>2, ElementOfSeq
    <3>4. \A ent \in ToSet(c) : ent \in Ent
      BY <3>3 DEF ToSet
    <3> QED BY <3>1, <3>2, <3>4 DEF Ent, c
  <2>4. Entries(store_htable) \in Nat
    BY <2>1, EntriesSame DEF Counted
  <2>5. buckets_free \in 0 .. MaxEntries /\ buckets \in 0 .. MaxEntries
    BY <2>1, <2>4, StateAssumption DEF Counted
  <2>6. TypeOK
    BY <2>1, <2>2, <2>3, <2>5 DEF TypeOK, Modes
  <2>7. OneEntry
    BY <2>2, <2>3 DEF OneEntry, SoundChain, SoundEntries, InChain
  <2>8. EntriesConserved
    BY <2>1, EntriesOfEmpty DEF EntriesConserved, Counted, Modes
  <2> QED BY <2>6, <2>7, <2>8 DEF TablesSound
<1> QED BY <1>1, Tables, PTL

\* WrongPathLeavesMemory: on a wrong path no page is allocated and no byte of
\* memory changes, whatever is loaded or stored.
THEOREM WrongPathIsHarmless == Spec => WrongPathLeavesMemory
<1> DEFINE Lens == \A set \in DOMAIN ptab : Len(ptab'[set]) = Len(ptab[set])
<1>1. ASSUME TablesInv, Next, spec_mode PROVE Memory' = Memory /\ Lens
  <2>1. SoundPages(ptab)
    BY <1>1 DEF TablesInv, PagesInv
  <2> DEFINE u == ptab'
  <2>2. u = ptab \/ \E a \in Accesses : u = AfterRead(ptab, a[1], a[2])
    <3>1. CASE SpecLoadStep
      BY <3>1 DEF SpecLoadStep, spec_mem_Read
    <3>2. CASE SpecStoreStep
      BY <3>2 DEF SpecStoreStep, spec_mem_Write
    <3>3. CASE GetGPR \/ SetStep \/ Mispredict \/ tracer_recover
      BY <3>3 DEF GetGPR, SetStep, SET_GPR, Mispredict, tracer_recover, memVars
    <3>4. ~LoadStep /\ ~StoreStep
      BY <1>1 DEF LoadStep, StoreStep
    <3> QED BY <1>1, <3>1, <3>2, <3>3, <3>4, Steps
  <2> HIDE DEF u
  <2>3. SameBytes(ptab, u) /\ SameLengths(ptab, u)
    <3>1. CASE u = ptab
      BY <3>1 DEF SameBytes, SameLengths
    <3>2. CASE \E a \in Accesses : u = AfterRead(ptab, a[1], a[2])
      BY <2>1, <3>2, AccessParts, ReadKeeps
    <3> QED BY <2>2, <3>1, <3>2
  <2>4. \A a \in Addrs : MEM_READ_BYTE(u, a) = MEM_READ_BYTE(ptab, a)
    BY <2>3, StateAssumption DEF SameBytes
  <2>5. [a \in Addrs |-> MEM_READ_BYTE(u, a)] = [a \in Addrs |-> MEM_READ_BYTE(ptab, a)]
    BY <2>4
  <2>6. Memory' = Memory
    BY <2>5 DEF Memory, u
  <2>7. Lens
    BY <2>3 DEF SameLengths, u
  <2> QED BY <2>6, <2>7
<1>2. ASSUME UNCHANGED vars PROVE Memory' = Memory /\ Lens
  BY <1>2 DEF vars, Memory
<1>3. TablesInv /\ [Next]_vars => [spec_mode => Memory' = Memory /\ Lens]_vars
  BY <1>1, <1>2
<1> QED BY <1>3, Tables, PTL DEF Spec, WrongPathLeavesMemory

-----------------------------------------------------------------------------
(* The state is that of a machine with a checkpoint.  For this the stores   *)
(* of a wrong path must be known: a byte that differs from memory was       *)
(* stored, an entry is there for a store, and it holds what was stored      *)
(* unless stores of other addresses or sizes overlap.                      *)

Granted == {a \in Accesses : Permitted(a[1], a[2])}
Meets(x, y) == x[1] < y[1] + y[2] /\ y[1] < x[1] + x[2]
Covers(x, b) == x[1] <= b /\ b < x[1] + x[2]
Alone(wr, w) == \A x \in wr : Meets(x, w) => x = w

Explained(pt, wr, cur) ==
  \A b \in Addrs : cur[b] # MEM_READ_BYTE(pt, b) => \E w \in wr : Covers(w, b)
Caused(st, wr) == \A b \in Nat : DataIn(st, b) # <<>> => \E w \in wr : w[1] = b
Holds(data, w, cur) == data # <<>> /\ \A k \in 1..w[2] : data[k] = cur[w[1] + k - 1]
Kept(st, wr, cur) == \A w \in wr : Alone(wr, w) => Holds(DataIn(st, w[1]), w, cur)
MemoryOf(pt) == [a \in Addrs |-> MEM_READ_BYTE(pt, a)]

Path(pt, st, spec, lossy, wr, cur) ==
  /\ wr \subseteq Granted
  /\ ~spec => wr = {} /\ cur = MemoryOf(pt)
  /\ Explained(pt, wr, cur) /\ Caused(st, wr)
  /\ ~lossy => Kept(st, wr, cur)
PathInv == Path(ptab, store_htable, spec_mode, bugcompat_mode, written, current)

\* A granted access has at least one and at most eight bytes.
LEMMA GrantedParts ==
  ASSUME NEW a \in Granted
  PROVE  /\ a[1] \in Nat /\ a[2] \in 1..BufferSize /\ a = <<a[1], a[2]>> /\ a[1] \in Valid
         /\ \A k \in 1..a[2] : a[1] + k - 1 \in Addrs
BY AccessParts DEF Granted, Permitted, Aligned, IsPowerOfTwo, BufferSize

LEMMA PathInit == ASSUME Init PROVE PathInv
<1>1. /\ ptab = mem_init /\ store_htable = Empty /\ written = {} /\ current = [a \in Addrs |-> 0]
  BY DEF Init, Empty, Hashes
<1>2. ASSUME NEW a \in Addrs PROVE MEM_READ_BYTE(mem_init, a) = 0
  <2>1. a \in Nat /\ MEM_PTAB_SET(a) \in 0 .. MEM_PTAB_SIZE - 1
    BY StateAssumption, AddressParts
  <2>2. mem_init[MEM_PTAB_SET(a)] = <<>>
    BY <2>1 DEF mem_init
  <2>3. Place(<<>>, MEM_PTAB_TAG(a)) = 0
    <3>1. Len(<<>>) = 0 /\ 1..0 = {}
      OBVIOUS
    <3> QED BY <3>1, PlaceOfPage
  <2> QED BY <2>2, <2>3, ByteOfPage DEF PageByte
<1>3. MemoryOf(mem_init) = [a \in Addrs |-> 0]
  BY <1>2 DEF MemoryOf
<1>4. Explained(mem_init, {}, [a \in Addrs |-> 0])
  BY <1>2 DEF Explained
<1>5. Caused(Empty, {}) /\ Kept(Empty, {}, [a \in Addrs |-> 0])
  BY EmptySound DEF Caused, Kept
<1> QED BY <1>1, <1>3, <1>4, <1>5 DEF PathInv, Path

\* Steps that leave the bytes of memory and the data of the store table.
LEMMA PathUnmoved ==
  ASSUME NEW pt, NEW st, NEW spec, NEW lossy, NEW wr, NEW cur, NEW pt2, NEW st2,
         Path(pt, st, spec, lossy, wr, cur), SameBytes(pt, pt2), SameData(st, st2)
  PROVE  Path(pt2, st2, spec, lossy, wr, cur)
<1>1. \A b \in Addrs : MEM_READ_BYTE(pt2, b) = MEM_READ_BYTE(pt, b)
  BY StateAssumption DEF SameBytes
<1>2. MemoryOf(pt2) = MemoryOf(pt)
  BY <1>1 DEF MemoryOf
<1>3. Explained(pt2, wr, cur)
  BY <1>1 DEF Explained, Path
<1>4. Caused(st2, wr)
  BY DEF Caused, SameData, Path
<1>5. Kept(st, wr, cur) /\ wr \subseteq Granted => Kept(st2, wr, cur)
  <2>1. \A w \in Granted : DataIn(st2, w[1]) = DataIn(st, w[1])
    BY GrantedParts DEF SameData
  <2> QED BY <2>1 DEF Kept
<1> QED BY <1>2, <1>3, <1>4, <1>5 DEF Path

LEMMA SelfSame == ASSUME NEW t PROVE SameBytes(t, t) /\ SameData(t, t)
BY DEF SameBytes, SameData

\* A speculative store.
LEMMA PathStored ==
  ASSUME NEW pt, NEW st, NEW lossy \in BOOLEAN, NEW wr, NEW cur, NEW st2,
         Path(pt, st, TRUE, lossy, wr, cur),
         NEW a \in Granted, NEW data \in [1..a[2] -> Bytes],
         NEW old \in [1..BufferSize -> Bytes], NEW m,
         \/ Updated(st, st2, a[1], Overwritten(old, data), m)
         \/ lossy /\ st2 = st
  PROVE  Path(pt, st2, TRUE, lossy, wr \cup {a}, Stored(cur, a[1], data))
<1> DEFINE cur2 == Stored(cur, a[1], data)
<1> DEFINE wr2 == wr \cup {a}
<1> DEFINE new == Overwritten(old, data)
<1> DEFINE p == a[1]
<1> DEFINE n == a[2]
<1>1. p \in Nat /\ n \in 1..BufferSize /\ n \in Nat /\ (\A k \in 1..n : p + k - 1 \in Addrs)
      /\ BufferSize \in Nat
  BY GrantedParts DEF BufferSize
<1>2. \A b \in Addrs : cur2[b] = IF b - p + 1 \in 1..n THEN data[b - p + 1] ELSE cur[b]
  BY <1>1 DEF Stored
<1>3. new \in [1..BufferSize -> Bytes] /\ \A k \in 1..n : new[k] = data[k]
  <2>1. \A k \in 1..n : k \in 1..BufferSize /\ k <= n
    BY <1>1
  <2> QED BY <1>1, <2>1, OverwrittenBytes
<1>4. new # <<>>
  <2>1. 1 \in DOMAIN new /\ DOMAIN <<>> = {}
    BY <1>3 DEF BufferSize
  <2> QED BY <2>1
<1>5. wr2 \subseteq Granted /\ wr \subseteq Granted
  BY DEF Path
<1> HIDE DEF cur2, new
<1>6. Explained(pt, wr2, cur2)
  <2>1. ASSUME NEW b \in Addrs, cur2[b] # MEM_READ_BYTE(pt, b)
        PROVE  \E w \in wr2 : Covers(w, b)
    <3>1. CASE b - p + 1 \in 1..n
      <4>1. Covers(a, b)
        BY <1>1, <3>1, StateAssumption DEF Covers
      <4> QED BY <4>1
    <3>2. CASE b - p + 1 \notin 1..n
      BY <1>2, <2>1, <3>2 DEF Path, Explained
    <3> QED BY <3>1, <3>2
  <2> QED BY <2>1 DEF Explained
<1>7. Caused(st2, wr2)
  <2>1. ASSUME NEW b \in Nat, DataIn(st2, b) # <<>> PROVE \E w \in wr2 : w[1] = b
    <3>1. CASE b = p
      BY <3>1
    <3>2. CASE b # p
      <4>1. DataIn(st2, b) = DataIn(st, b)
        BY <3>2 DEF Updated
      <4> QED BY <2>1, <4>1 DEF Path, Caused
    <3> QED BY <3>1, <3>2
  <2> QED BY <2>1 DEF Caused
<1>8. ~lossy => Kept(st2, wr2, cur2)
  <2>1. ASSUME ~lossy, NEW w \in wr2, Alone(wr2, w) PROVE Holds(DataIn(st2, w[1]), w, cur2)
    <3>1. \A b \in Nat : DataIn(st2, b) = IF b = p THEN new ELSE DataIn(st, b)
      BY <2>1 DEF Updated, new
    <3>2. w[1] \in Nat /\ w[2] \in 1..BufferSize /\ (\A k \in 1..w[2] : w[1] + k - 1 \in Addrs)
      BY <1>5, GrantedParts
    <3>3. CASE w = a
      <4>1. ASSUME NEW k \in 1..n PROVE new[k] = cur2[p + k - 1]
        <5>1. p + k - 1 \in Addrs /\ (p + k - 1) - p + 1 = k
          BY <1>1
        <5> QED BY <1>2, <1>3, <5>1
      <4> QED BY <1>1, <1>4, <3>1, <3>3, <4>1 DEF Holds
    <3>4. CASE w # a
      <4>1. ~Meets(a, w)
        BY <2>1, <3>4 DEF Alone
      <4>2. ASSUME NEW k \in 1..w[2]
            PROVE  ~((w[1] + k - 1) - p + 1 \in 1..n) /\ w[1] + k - 1 \in Addrs
        BY <1>1, <3>2, <4>1 DEF Meets
      <4>3. w[1] # p
        BY <1>1, <3>2, <4>1 DEF Meets
      <4>4. w \in wr /\ Alone(wr, w)
        BY <2>1, <3>4 DEF Alone
      <4>5. Holds(DataIn(st, w[1]), w, cur)
        BY <2>1, <4>4 DEF Path, Kept
      <4>6. DataIn(st2, w[1]) = DataIn(st, w[1])
        BY <3>1, <3>2, <4>3
      <4>7. \A k \in 1..w[2] : cur2[w[1] + k - 1] = cur[w[1] + k - 1]
        BY <1>2, <4>2
      <4> QED BY <4>5, <4>6, <4>7 DEF Holds
    <3> QED BY <3>3, <3>4
  <2> QED BY <2>1 DEF Kept
<1> QED BY <1>5, <1>6, <1>7, <1>8 DEF Path, cur2

\* A store outside of a wrong path.
LEMMA MemoryWritten ==
  ASSUME NEW t, SoundPages(t), NEW a \in Nat, NEW n \in Nat, NEW data \in Data(n)
  PROVE  MemoryOf(AfterWrite(t, a, data)) = Stored(MemoryOf(t), a, data)
<1> DEFINE u == AfterWrite(t, a, data)
<1>1. data \in Seq(Bytes) /\ Len(data) = n /\ DOMAIN data = 1..n
  BY DataParts
<1>2. \A b \in Nat : MEM_READ_BYTE(u, b)
        = IF b - a + 1 \in 1..n THEN data[b - a + 1] ELSE MEM_READ_BYTE(t, b)
  BY <1>1, WriteStores
<1> HIDE DEF u
<1>3. \A b \in Addrs : b \in Nat
  BY StateAssumption
<1>4. MemoryOf(u)
        = [b \in Addrs |-> IF b - a + 1 \in 1..n THEN data[b - a + 1] ELSE MEM_READ_BYTE(t, b)]
  BY <1>2, <1>3 DEF MemoryOf
<1>5. Stored(MemoryOf(t), a, data)
        = [b \in Addrs |-> IF b - a + 1 \in 1..n THEN data[b - a + 1] ELSE MEM_READ_BYTE(t, b)]
  BY <1>1 DEF Stored, MemoryOf
<1> QED BY <1>4, <1>5 DEF u

LEMMA MemoryIs == Memory = MemoryOf(ptab) /\ Memory' = MemoryOf(ptab')
BY DEF Memory, MemoryOf

\* A speculative store, found or new, changes the data of its address.
LEMMA SpecStored ==
  ASSUME TablesInv, NEW a \in Accesses, NEW data \in Data(a[2]), spec_mem_Write(a[1], data)
  PROVE  /\ a \in Granted /\ data \in [1..a[2] -> Bytes] /\ Len(data) = a[2]
         /\ \E old \in [1..BufferSize -> Bytes] : \E m \in {0, 1} :
              \/ Updated(store_htable, store_htable', a[1], Overwritten(old, data), m)
              \/ bugcompat_mode /\ store_htable' = store_htable
<1>1. /\ a[1] \in Nat /\ a[2] \in Nat /\ data \in [1..a[2] -> Bytes] /\ Len(data) = a[2]
      /\ SoundStores(store_htable)
  BY AccessParts, DataParts DEF TablesInv, CountedInv, Counted
<1>2. /\ a \in Granted /\ a[1] \in Valid
      /\ WriteFound(a[1], data) \/ WriteNew(a[1], data)
  BY <1>1 DEF spec_mem_Write, Granted, Permitted
<1>3. CASE WriteFound(a[1], data)
  <2> DEFINE old == DataIn(store_htable, a[1])
  <2>1. old \in [1..BufferSize -> Bytes]
        /\ Updated(store_htable, store_htable', a[1], Overwritten(old, data), 0)
    BY <1>1, <1>3, FoundWritten
  <2> HIDE DEF old
  <2> QED BY <1>1, <1>2, <2>1
<1>4. CASE WriteNew(a[1], data)
  <2>1. ZeroData \in [1..BufferSize -> Bytes]
    BY MemoryAssumption DEF ZeroData
  <2>2. bugcompat_mode => store_htable' = store_htable
    BY <1>4 DEF WriteNew
  <2>3. ~bugcompat_mode =>
          Updated(store_htable, store_htable', a[1], Overwritten(ZeroData, data), 1)
    BY <1>1, <1>2, <1>4, NewWritten
  <2> QED BY <1>1, <1>2, <2>1, <2>2, <2>3
<1> QED BY <1>2, <1>3, <1>4

LEMMA PathStep == ASSUME TablesInv, PathInv, [Next]_vars PROVE PathInv'
<1>0. /\ SoundPages(ptab) /\ SoundStores(store_htable)
      /\ bugcompat_mode \in BOOLEAN /\ spec_mode \in BOOLEAN
      /\ Path(ptab, store_htable, spec_mode, bugcompat_mode, written, current)
  BY DEF TablesInv, PagesInv, CountedInv, ModesInv, Counted, Modes, PathInv
<1> DEFINE pt2 == ptab'
<1> DEFINE st2 == store_htable'
<1>1. ASSUME UNCHANGED <<spec_mode, bugcompat_mode, written, current>>,
             SameBytes(ptab, pt2), SameData(store_htable, st2)
      PROVE  PathInv'
  <2> HIDE DEF pt2, st2
  <2>1. Path(pt2, st2, spec_mode, bugcompat_mode, written, current)
    BY <1>0, <1>1, PathUnmoved
  <2> QED BY <1>1, <2>1 DEF PathInv, pt2, st2
<1>2. CASE GetGPR \/ SetStep
  BY <1>1, <1>2, SelfSame DEF GetGPR, SetStep, SET_GPR, memVars, modes
<1>3. CASE LoadStep
  <2>1. PICK a \in Accesses \cup Blocks : Loaded(a[1], a[2])
    BY <1>3 DEF LoadStep
  <2>2. pt2 = AfterRead(ptab, a[1], a[2]) /\ st2 = store_htable
        /\ UNCHANGED <<spec_mode, bugcompat_mode, written, current>>
    BY <2>1 DEF Loaded, modes
  <2>3. SameBytes(ptab, pt2)
    BY <1>0, <2>2, AccessParts, ReadKeeps
  <2> QED BY <1>1, <2>2, <2>3, SelfSame
<1>4. CASE StoreStep
  <2>1. PICK a \in Accesses \cup Blocks : \E data \in Data(a[2]) : ~spec_mode /\ Wrote(a[1], data)
    BY <1>4 DEF StoreStep
  <2>2. PICK data \in Data(a[2]) : ~spec_mode /\ Wrote(a[1], data)
    BY <2>1
  <2>3. /\ pt2 = AfterWrite(ptab, a[1], data) /\ current' = Stored(current, a[1], data)
        /\ UNCHANGED <<spec_mode, bugcompat_mode, written, store_htable>>
    BY <2>2 DEF Wrote, modes
  <2>4. written = {} /\ current = MemoryOf(ptab) /\ Caused(store_htable, {})
    BY <1>0, <2>2 DEF Path
  <2>5. MemoryOf(pt2) = Stored(MemoryOf(ptab), a[1], data)
    BY <1>0, <2>3, AccessParts, MemoryWritten
  <2> HIDE DEF pt2
  <2>6. Path(pt2, store_htable, spec_mode, bugcompat_mode, {}, MemoryOf(pt2))
    BY <2>4 DEF Path, Explained, Kept, MemoryOf
  <2> QED BY <2>3, <2>4, <2>5, <2>6 DEF PathInv, pt2
<1>5. CASE SpecLoadStep
  <2>1. PICK a \in Accesses : spec_mem_Read(a[1], a[2])
    BY <1>5 DEF SpecLoadStep
  <2>2. /\ UNCHANGED <<spec_mode, bugcompat_mode, written, current>>
        /\ pt2 = ptab \/ pt2 = AfterRead(ptab, a[1], a[2])
        /\ st2 = store_htable \/ st2 = Looked(a[1])
    BY <2>1 DEF spec_mem_Read, modes
  <2>3. SameBytes(ptab, AfterRead(ptab, a[1], a[2]))
    BY <1>0, AccessParts, ReadKeeps
  <2>4. SameData(store_htable, Looked(a[1]))
    BY <1>0, AccessParts, LookedSound DEF LookedUp
  <2> QED BY <1>1, <2>2, <2>3, <2>4, SelfSame
<1>6. CASE SpecStoreStep
  <2>1. PICK a \in Accesses : \E data \in Data(a[2]) : spec_mem_Write(a[1], data)
    BY <1>6 DEF SpecStoreStep
  <2>2. PICK data \in Data(a[2]) : spec_mem_Write(a[1], data)
    BY <2>1
  <2>3. PICK old \in [1..BufferSize -> Bytes], m \in {0, 1} :
              \/ Updated(store_htable, st2, a[1], Overwritten(old, data), m)
              \/ bugcompat_mode /\ st2 = store_htable
    BY <2>2, SpecStored
  <2>4. a \in Granted /\ data \in [1..a[2] -> Bytes] /\ Len(data) = a[2] /\ a = <<a[1], a[2]>>
    BY <2>2, SpecStored, AccessParts
  <2>5. /\ UNCHANGED <<spec_mode, bugcompat_mode, ptab>> /\ spec_mode = TRUE
        /\ written' = written \cup {a} /\ current' = Stored(current, a[1], data)
    BY <1>0, <2>2, <2>4 DEF spec_mem_Write, modes
  <2> HIDE DEF st2
  <2> DEFINE wr2 == written \cup {a}
  <2> DEFINE cur2 == Stored(current, a[1], data)
  <2>6. Path(ptab, store_htable, TRUE, bugcompat_mode, written, current)
    BY <1>0, <2>5
  <2>7. Path(ptab, st2, TRUE, bugcompat_mode, wr2, cur2)
    BY <1>0, <2>3, <2>4, <2>6, PathStored
  <2> HIDE DEF wr2, cur2
  <2>8. written' = wr2 /\ current' = cur2 /\ ptab' = ptab /\ bugcompat_mode' = bugcompat_mode
        /\ spec_mode' = TRUE
    BY <2>5 DEF wr2, cur2
  <2> QED BY <2>7, <2>8 DEF PathInv, st2
<1>7. CASE Mispredict
  <2>1. /\ UNCHANGED <<ptab, store_htable, bugcompat_mode, written, current>>
        /\ spec_mode' = TRUE
    BY <1>7 DEF Mispredict, memVars
  <2>2. Path(ptab, store_htable, TRUE, bugcompat_mode, written, current)
    BY <1>0 DEF Path
  <2> QED BY <2>1, <2>2 DEF PathInv
<1>8. CASE tracer_recover
  <2>1. /\ st2 = [i \in DOMAIN store_htable |-> <<>>]
        /\ spec_mode' = FALSE /\ written' = {} /\ current' = MemoryOf(ptab)
        /\ UNCHANGED <<ptab, bugcompat_mode>>
    BY <1>8, MemoryIs DEF tracer_recover
  <2>2. st2 = Empty
    BY <1>0, <2>1 DEF SoundStores, StoreTables, Empty
  <2>3. Path(ptab, Empty, FALSE, bugcompat_mode, {}, MemoryOf(ptab))
    BY EmptySound DEF Path, Explained, Caused, Kept, MemoryOf
  <2> QED BY <2>1, <2>2, <2>3 DEF PathInv, st2
<1>9. CASE UNCHANGED vars
  BY <1>9 DEF vars, PathInv
<1> QED BY <1>2, <1>3, <1>4, <1>5, <1>6, <1>7, <1>8, <1>9, Steps

THEOREM PathIsKnown == Spec => []PathInv
<1>1. TablesInv /\ PathInv /\ [Next]_vars => PathInv'
  BY PathStep
<1> QED BY <1>1, PathInit, Tables, PTL DEF Spec

-----------------------------------------------------------------------------
(* The refinement.                                                         *)

\* What a load finds, if no other stores overlap it, is the current state.
Exact(wr, lossy, a) == \A w \in wr : Meets(w, a) => w = a /\ ~lossy
Bytewise(cur, a) == [k \in 1 .. a[2] |-> cur[a[1] + k - 1]]

LEMMA ReadIs ==
  ASSUME NEW t, NEW a \in Accesses \cup Blocks
  PROVE  ReadBytes(t, a[1], a[2]) = Bytewise(MemoryOf(t), a)
<1>1. \A k \in 1..a[2] : MemoryOf(t)[a[1] + k - 1] = MEM_READ_BYTE(t, a[1] + k - 1)
  BY AccessParts DEF MemoryOf
<1> QED BY <1>1 DEF ReadBytes, Bytewise

LEMMA FoundInTable ==
  ASSUME NEW pt, NEW st, NEW spec, NEW lossy, NEW wr, NEW cur,
         Path(pt, st, spec, lossy, wr, cur), NEW a \in Granted, Exact(wr, lossy, a),
         DataIn(st, a[1]) # <<>>, DataIn(st, a[1]) \in [1..BufferSize -> Bytes]
  PROVE  SubSeq(DataIn(st, a[1]), 1, a[2]) = Bytewise(cur, a)
<1> DEFINE data == DataIn(st, a[1])
<1>1. a[1] \in Nat /\ a[2] \in 1..BufferSize /\ BufferSize \in Nat
  BY GrantedParts DEF BufferSize
<1>2. PICK w \in wr : w[1] = a[1]
  BY <1>1 DEF Path, Caused
<1>3. w[1] \in Nat /\ w[2] \in 1..BufferSize
  BY GrantedParts DEF Path
<1>4. w = a /\ ~lossy
  <2>1. Meets(w, a)
    BY <1>1, <1>2, <1>3 DEF Meets
  <2> QED BY <2>1 DEF Exact
<1>5. Alone(wr, a)
  BY DEF Exact, Alone
<1>6. Holds(data, a, cur)
  BY <1>4, <1>5 DEF Path, Kept
<1>7. \A k \in 1..a[2] : data[k] = cur[a[1] + k - 1]
  BY <1>6 DEF Holds
<1> HIDE DEF data
<1>8. SubSeq(data, 1, a[2]) = [k \in 1..a[2] |-> data[k]]
  <2> DEFINE n == a[2]
  <2>1. n \in 1..BufferSize /\ data \in [1..BufferSize -> Bytes] /\ data \in Seq(Bytes)
        /\ Len(data) = BufferSize
    BY <1>1, DataParts DEF Data, data
  <2> HIDE DEF n
  <2>2. SubSeq(data, 1, n) = [k \in 1 .. (1 + n) - 1 |-> data[(1 + k) - 1]]
    BY <1>1, <2>1
  <2>3. SubSeq(data, 1, n) = [k \in 1 .. n |-> data[k]]
    <3>1. (1 + n) - 1 = n /\ \A k \in 1..n : (1 + k) - 1 = k
      BY <1>1, <2>1
    <3> QED BY <2>2, <3>1
  <2> QED BY <2>3 DEF n
<1> QED BY <1>7, <1>8 DEF Bytewise, data

LEMMA NotInTable ==
  ASSUME NEW pt, NEW st, NEW spec, NEW lossy, NEW wr, NEW cur,
         Path(pt, st, spec, lossy, wr, cur), NEW a \in Granted, Exact(wr, lossy, a),
         DataIn(st, a[1]) = <<>>
  PROVE  Bytewise(MemoryOf(pt), a) = Bytewise(cur, a)
<1>1. a[1] \in Nat /\ a[2] \in 1..BufferSize /\ BufferSize \in Nat
      /\ \A k \in 1..a[2] : a[1] + k - 1 \in Addrs
  BY GrantedParts DEF BufferSize
<1>2. ASSUME NEW w \in wr, Meets(w, a) PROVE FALSE
  <2>1. w = a /\ ~lossy /\ Alone(wr, a)
    BY <1>2 DEF Exact, Alone
  <2>2. Holds(DataIn(st, a[1]), a, cur)
    BY <2>1 DEF Path, Kept
  <2> QED BY <2>2 DEF Holds
<1>3. ASSUME NEW k \in 1..a[2] PROVE MemoryOf(pt)[a[1] + k - 1] = cur[a[1] + k - 1]
  <2> DEFINE b == a[1] + k - 1
  <2>1. b \in Addrs /\ b \in Nat /\ Covers(a, b)
    BY <1>1, StateAssumption DEF Covers
  <2>2. ASSUME cur[b] # MEM_READ_BYTE(pt, b) PROVE FALSE
    <3>1. PICK w \in wr : Covers(w, b)
      BY <2>1, <2>2 DEF Path, Explained
    <3>2. w[1] \in Nat /\ w[2] \in 1..BufferSize
      BY GrantedParts DEF Path
    <3> HIDE DEF b
    <3>3. Meets(w, a)
      BY <1>1, <2>1, <3>1, <3>2 DEF Covers, Meets
    <3> QED BY <1>2, <3>3
  <2> QED BY <2>1, <2>2 DEF MemoryOf
<1> QED BY <1>3 DEF Bytewise

\* A load is one of the machine with a checkpoint.
LoadReply(a, data) == reply' = [of |-> a, data |-> data]

LEMMA LoadIsLoad ==
  ASSUME NEW a \in Accesses \cup Blocks, spec_mode => a \in Accesses,
         NEW data, LoadReply(a, data),
         IF a \in Granted \/ ~spec_mode
           THEN Exact(written, bugcompat_mode, a) => data = Bytewise(current, a)
           ELSE data = [k \in 1 .. a[2] |-> 0],
         UNCHANGED <<regVars, modes, written, current>>, Memory' = Memory
  PROVE  Checkpointed!Next
<1>1. reply'.of = a /\ reply'.data = data
  BY DEF LoadReply
<1>2. GPR' = GPR
  BY DEF GPR, regVars
<1>3. Checkpointed!Exact(a) => Exact(written, bugcompat_mode, a)
  BY DEF Checkpointed!Exact, Checkpointed!Overlap, Exact, Meets
<1>4. a \in Accesses \cup (IF spec_mode THEN {} ELSE Blocks)
  OBVIOUS
<1>5. Checkpointed!Load
  BY <1>1, <1>2, <1>3, <1>4 DEF Checkpointed!Load, Granted, Bytewise, regVars, modes
<1> QED BY <1>5 DEF Checkpointed!Next, modes

LEMMA RegisterRead == ASSUME GetGPR PROVE Checkpointed!Next
<1>1. reply' = [of |-> <<>>, data |-> <<GPR>>] /\ UNCHANGED <<memVars, regVars, modes>>
  BY DEF GetGPR
<1>2. GPR' = GPR /\ Memory' = Memory
  BY <1>1, MemoryIs DEF GPR, regVars, memVars
<1>3. Checkpointed!ReadRegister
  BY <1>1, <1>2 DEF Checkpointed!ReadRegister, memVars, regVars, modes
<1> QED BY <1>1, <1>3 DEF Checkpointed!Next, modes

LEMMA RegisterWritten == ASSUME ModesInv, SetStep PROVE Checkpointed!Next
<1>1. PICK value \in Bytes : SET_GPR(value)
  BY DEF SetStep
<1>2. reply' = Nothing /\ UNCHANGED <<memVars, modes>>
  BY <1>1 DEF SET_GPR, NoReply
<1>3. Memory' = Memory
  BY <1>2, MemoryIs DEF memVars
<1>4. CASE spec_mode
  <2>1. spec_regs_R' = value /\ use_spec_R' = TRUE /\ regs_R' = regs_R
    BY <1>1, <1>4 DEF SET_GPR
  <2>2. GPR' = value
    BY <2>1 DEF GPR
  <2>3. Checkpointed!WriteRegister
    BY <1>2, <1>3, <1>4, <2>1, <2>2
    DEF Checkpointed!WriteRegister, Checkpointed!Nothing, Nothing, memVars, modes
  <2> QED BY <1>2, <2>3 DEF Checkpointed!Next, modes
<1>5. CASE ~spec_mode
  <2>1. regs_R' = value /\ use_spec_R' = use_spec_R /\ use_spec_R = FALSE
    BY <1>1, <1>5 DEF SET_GPR, ModesInv, Modes
  <2>2. GPR' = value
    BY <2>1 DEF GPR
  <2>3. Checkpointed!WriteRegister
    BY <1>2, <1>3, <1>5, <2>1, <2>2
    DEF Checkpointed!WriteRegister, Checkpointed!Nothing, Nothing, memVars, modes
  <2> QED BY <1>2, <2>3 DEF Checkpointed!Next, modes
<1> QED BY <1>4, <1>5

LEMMA Loads == ASSUME TablesInv, PathInv, LoadStep PROVE Checkpointed!Next
<1>1. PICK a \in Accesses \cup Blocks : ~spec_mode /\ Loaded(a[1], a[2])
  BY DEF LoadStep
<1> DEFINE data == ReadBytes(ptab, a[1], a[2])
<1>2. /\ reply' = [of |-> <<a[1], Len(data)>>, data |-> data]
      /\ ptab' = AfterRead(ptab, a[1], a[2])
      /\ UNCHANGED <<regVars, modes, written, current>>
  BY <1>1 DEF Loaded, Reply
<1>3. SoundPages(ptab) /\ Path(ptab, store_htable, spec_mode, bugcompat_mode, written, current)
  BY DEF TablesInv, PagesInv, PathInv
<1>4. data = Bytewise(current, a)
  <2>1. current = MemoryOf(ptab)
    BY <1>1, <1>3 DEF Path
  <2> QED BY <2>1, ReadIs
<1>5. Len(data) = a[2] /\ a = <<a[1], a[2]>>
  <2>1. a[2] \in Nat /\ data = [k \in 1..a[2] |-> current[a[1] + k - 1]]
    BY <1>4, AccessParts DEF Bytewise
  <2> HIDE DEF data
  <2>2. Len(data) = a[2]
    BY <2>1
  <2> QED BY <2>2, AccessParts
<1> HIDE DEF data
<1>6. Memory' = Memory
  <2>1. SameBytes(ptab, ptab')
    BY <1>2, <1>3, AccessParts, ReadKeeps
  <2>2. \A b \in Addrs : MEM_READ_BYTE(ptab', b) = MEM_READ_BYTE(ptab, b)
    BY <2>1, StateAssumption DEF SameBytes
  <2>3. MemoryOf(ptab') = MemoryOf(ptab)
    BY <2>2 DEF MemoryOf
  <2> QED BY <2>3, MemoryIs
<1>7. LoadReply(a, data)
  BY <1>2, <1>5 DEF LoadReply
<1> QED BY <1>1, <1>2, <1>4, <1>6, <1>7, LoadIsLoad

LEMMA SpecLoads == ASSUME TablesInv, PathInv, SpecLoadStep PROVE Checkpointed!Next
<1>1. PICK a \in Accesses : spec_mem_Read(a[1], a[2])
  BY DEF SpecLoadStep
<1>2. /\ SoundPages(ptab) /\ SoundStores(store_htable)
      /\ bugcompat_mode \in BOOLEAN /\ spec_mode \in BOOLEAN
      /\ Path(ptab, store_htable, spec_mode, bugcompat_mode, written, current)
  BY DEF TablesInv, PagesInv, CountedInv, Counted, ModesInv, Modes, PathInv
<1>3. /\ spec_mode /\ UNCHANGED <<regVars, modes, written, current>>
      /\ Path(ptab, store_htable, TRUE, bugcompat_mode, written, current)
  BY <1>1, <1>2 DEF spec_mem_Read
<1>0. Path(ptab, store_htable, spec_mode, bugcompat_mode, written, current)
  BY <1>2
<1>4. a[1] \in Nat /\ a[2] \in Nat /\ a = <<a[1], a[2]>>
  BY AccessParts
<1>5. Memory' = Memory
  <2>1. ptab' = ptab \/ ptab' = AfterRead(ptab, a[1], a[2])
    BY <1>1 DEF spec_mem_Read
  <2>2. SameBytes(ptab, ptab')
    BY <1>2, <1>4, <2>1, ReadKeeps, SelfSame
  <2>3. \A b \in Addrs : MEM_READ_BYTE(ptab', b) = MEM_READ_BYTE(ptab, b)
    BY <2>2, StateAssumption DEF SameBytes
  <2>4. MemoryOf(ptab') = MemoryOf(ptab)
    BY <2>3 DEF MemoryOf
  <2> QED BY <2>4, MemoryIs
<1>6. ASSUME NEW data, Reply(a[1], data), Len(data) = a[2],
             IF a \in Granted
               THEN Exact(written, bugcompat_mode, a) => data = Bytewise(current, a)
               ELSE data = [k \in 1 .. a[2] |-> 0]
      PROVE  Checkpointed!Next
  <2>1. LoadReply(a, data)
    BY <1>4, <1>6 DEF Reply, LoadReply
  <2> QED BY <1>3, <1>5, <1>6, <2>1, LoadIsLoad
<1>7. CASE ~Permitted(a[1], a[2])
  <2> DEFINE data == [k \in 1 .. a[2] |-> 0]
  <2>1. Reply(a[1], data) /\ a \notin Granted
    BY <1>1, <1>7 DEF spec_mem_Read, Granted
  <2>2. Len(data) = a[2]
    BY <1>4
  <2> QED BY <1>6, <2>1, <2>2
<1>8. CASE Permitted(a[1], a[2]) /\ Found(a[1]) # 0
  <2> DEFINE data == SubSeq(Chain(a[1])[Found(a[1])].data, 1, a[2])
  <2>0. a \in Granted
    BY <1>8 DEF Granted
  <2>1. Reply(a[1], data)
    BY <1>1, <1>8 DEF spec_mem_Read
  <2>2. /\ Chain(a[1])[Found(a[1])].data = DataIn(store_htable, a[1])
        /\ DataIn(store_htable, a[1]) # <<>>
        /\ DataIn(store_htable, a[1]) \in [1..BufferSize -> Bytes]
    BY <1>2, <1>4, <1>8, FoundData
  <2>3. data = SubSeq(DataIn(store_htable, a[1]), 1, a[2])
    BY <2>2
  <2>4. Exact(written, bugcompat_mode, a) => data = Bytewise(current, a)
    <3>1. ASSUME Exact(written, bugcompat_mode, a)
          PROVE  SubSeq(DataIn(store_htable, a[1]), 1, a[2]) = Bytewise(current, a)
      BY <1>0, <2>0, <2>2, <3>1, FoundInTable
    <3> QED BY <2>3, <3>1
  <2> HIDE DEF data
  <2>5. Len(data) = a[2]
    <3> DEFINE old == DataIn(store_htable, a[1])
    <3>1. old \in Seq(Bytes) /\ Len(old) = BufferSize /\ BufferSize \in Nat /\ a[2] \in 1..BufferSize
      BY <2>0, <2>2, DataParts, GrantedParts DEF Data, BufferSize
    <3>2. data = SubSeq(old, 1, a[2])
      BY <2>3
    <3> HIDE DEF old
    <3> QED BY <3>1, <3>2
  <2> QED BY <1>6, <2>0, <2>1, <2>4, <2>5
<1>9. CASE Permitted(a[1], a[2]) /\ Found(a[1]) = 0
  <2> DEFINE data == ReadBytes(ptab, a[1], a[2])
  <2>0. a \in Granted
    BY <1>9 DEF Granted
  <2>1. Reply(a[1], data)
    BY <1>1, <1>9 DEF spec_mem_Read
  <2>2. data = Bytewise(MemoryOf(ptab), a)
    BY ReadIs
  <2>3. DataIn(store_htable, a[1]) = <<>>
    BY <1>2, <1>4, <1>9, FoundData
  <2>4. Exact(written, bugcompat_mode, a) => data = Bytewise(current, a)
    <3>1. ASSUME Exact(written, bugcompat_mode, a)
          PROVE  Bytewise(MemoryOf(ptab), a) = Bytewise(current, a)
      BY <1>0, <2>0, <2>3, <3>1, NotInTable
    <3> QED BY <2>2, <3>1
  <2>5. Len(data) = a[2]
    <3>1. data = [k \in 1..a[2] |-> MemoryOf(ptab)[a[1] + k - 1]]
      BY <2>2 DEF Bytewise
    <3> HIDE DEF data
    <3> QED BY <1>4, <3>1
  <2> HIDE DEF data
  <2> QED BY <1>6, <2>0, <2>1, <2>4, <2>5
<1> QED BY <1>1, <1>7, <1>8, <1>9 DEF spec_mem_Read

\* A store changes the bytes of its access only.
LEMMA OnlyItsBytes ==
  ASSUME NEW mem, NEW a, a[1] \in Nat, a[2] \in Nat, NEW data, DOMAIN data = 1..a[2]
  PROVE  \A b \in Addrs : Stored(mem, a[1], data)[b] # mem[b] => a[1] <= b /\ b < a[1] + a[2]
<1>1. ASSUME NEW b \in Addrs, Stored(mem, a[1], data)[b] # mem[b]
      PROVE  a[1] <= b /\ b < a[1] + a[2]
  <2>1. b - a[1] + 1 \in 1..a[2] /\ b \in Nat
    BY <1>1, StateAssumption DEF Stored
  <2> QED BY <2>1
<1> QED BY <1>1

LEMMA Stores == ASSUME TablesInv, PathInv, StoreStep PROVE Checkpointed!Next
<1>1. PICK a \in Accesses \cup Blocks : \E data \in Data(a[2]) : ~spec_mode /\ Wrote(a[1], data)
  BY DEF StoreStep
<1>2. PICK data \in Data(a[2]) : ~spec_mode /\ Wrote(a[1], data)
  BY <1>1
<1>3. /\ ptab' = AfterWrite(ptab, a[1], data) /\ current' = Stored(current, a[1], data)
      /\ reply' = Nothing /\ UNCHANGED <<written, regVars, modes>>
  BY <1>2 DEF Wrote, NoReply
<1>4. SoundPages(ptab) /\ current = MemoryOf(ptab)
  BY <1>2 DEF TablesInv, PagesInv, PathInv, Path
<1>5. Memory' = current'
  BY <1>3, <1>4, AccessParts, MemoryWritten, MemoryIs
<1>6. \A b \in Addrs : current'[b] # current[b] => a[1] <= b /\ b < a[1] + a[2]
  <2>1. a[1] \in Nat /\ a[2] \in Nat /\ DOMAIN data = 1..a[2]
    BY AccessParts, DataParts
  <2> QED BY <1>3, <2>1, OnlyItsBytes
<1>7. GPR' = GPR
  BY <1>3 DEF GPR, regVars
<1>8. Checkpointed!Store
  BY <1>2, <1>3, <1>5, <1>6, <1>7
  DEF Checkpointed!Store, Checkpointed!Nothing, Nothing, regVars, modes
<1> QED BY <1>3, <1>8 DEF Checkpointed!Next, modes

LEMMA SpecStores == ASSUME TablesInv, SpecStoreStep PROVE Checkpointed!Next
<1>1. PICK a \in Accesses : \E data \in Data(a[2]) : spec_mem_Write(a[1], data)
  BY DEF SpecStoreStep
<1>2. PICK data \in Data(a[2]) : spec_mem_Write(a[1], data)
  BY <1>1
<1>3. a \in Accesses \cup Blocks /\ a[1] \in Nat /\ a[2] \in Nat /\ a = <<a[1], a[2]>>
      /\ Len(data) = a[2] /\ DOMAIN data = 1..a[2]
  BY AccessParts, DataParts
<1>4. /\ spec_mode /\ written' = written \cup {a} /\ current' = Stored(current, a[1], data)
      /\ reply' = Nothing /\ UNCHANGED <<ptab, regVars, modes>>
  BY <1>2, <1>3 DEF spec_mem_Write, NoReply
<1>5. Memory' = Memory /\ GPR' = GPR
  BY <1>4, MemoryIs DEF GPR, regVars
<1>6. \A b \in Addrs : current'[b] # current[b] => a[1] <= b /\ b < a[1] + a[2]
  BY <1>3, <1>4, OnlyItsBytes
<1>7. Checkpointed!Store
  BY <1>4, <1>5, <1>6
  DEF Checkpointed!Store, Checkpointed!Nothing, Nothing, regVars, modes
<1> QED BY <1>4, <1>7 DEF Checkpointed!Next, modes

LEMMA CheckpointTaken == ASSUME Mispredict PROVE Checkpointed!Next
<1>1. /\ ~spec_mode /\ spec_mode' = TRUE /\ reply' = Nothing
      /\ UNCHANGED <<memVars, regVars, bugcompat_mode>>
  BY DEF Mispredict, NoReply
<1>2. Memory' = Memory /\ GPR' = GPR
  BY <1>1, MemoryIs DEF GPR, regVars, memVars
<1>3. Checkpointed!Checkpoint
  BY <1>1, <1>2 DEF Checkpointed!Checkpoint, Checkpointed!Nothing, Nothing, regVars, memVars
<1> QED BY <1>1, <1>3 DEF Checkpointed!Next

LEMMA Returned == ASSUME tracer_recover PROVE Checkpointed!Next
<1>1. /\ spec_mode /\ spec_mode' = FALSE /\ use_spec_R' = FALSE /\ reply' = Nothing
      /\ written' = {} /\ current' = Memory /\ UNCHANGED <<ptab, bugcompat_mode, regs_R>>
  BY DEF tracer_recover, NoReply
<1>2. Memory' = Memory /\ GPR' = regs_R
  BY <1>1, MemoryIs DEF GPR
<1>3. Checkpointed!Return
  BY <1>1, <1>2 DEF Checkpointed!Return, Checkpointed!Nothing, Nothing
<1> QED BY <1>1, <1>3 DEF Checkpointed!Next

\* IsCheckpointed: registers and memory, with their speculative copies, are those
\* of a machine with a checkpoint: loads find the stores of their wrong path, and
\* recovery returns to the state before it.
THEOREM ImplementsCheckpoint == Spec => IsCheckpointed
<1>1. ASSUME Init PROVE Checkpointed!Init
  <2>1. PathInv
    BY <1>1, PathInit
  <2>2. spec_mode = FALSE /\ regs_R = 0 /\ use_spec_R = FALSE /\ current = [a \in Addrs |-> 0]
        /\ written = {} /\ bugcompat_mode \in BOOLEAN /\ reply = Nothing
    BY <1>1 DEF Init
  <2>3. Memory = current /\ GPR = 0
    BY <2>1, <2>2, MemoryIs DEF PathInv, Path, GPR
  <2> QED BY <2>2, <2>3 DEF Checkpointed!Init, Checkpointed!Nothing, Nothing
<1>2. ASSUME TablesInv, PathInv, [Next]_vars PROVE [Checkpointed!Next]_Checkpointed!vars
  <2>1. CASE Next
    BY <1>2, <2>1, Steps, RegisterRead, RegisterWritten, Loads, SpecLoads, Stores, SpecStores,
       CheckpointTaken, Returned DEF TablesInv
  <2>2. CASE UNCHANGED vars
    BY <2>2, MemoryIs DEF vars, Checkpointed!vars, GPR
  <2> QED BY <1>2, <2>1, <2>2
<1> QED BY <1>1, <1>2, Tables, PathIsKnown, PTL DEF Spec, IsCheckpointed, Checkpointed!Spec
=============================================================================
