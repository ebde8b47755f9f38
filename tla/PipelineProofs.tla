--------------------------- MODULE PipelineProofs ---------------------------
(***************************************************************************)
(* The out-of-order core keeps its types and its rings in step, schedules  *)
(* every operation once, contains speculation, and retires instructions in *)
(* the order of the program.  IInv, which is inductive, relates the rings, *)
(* the links that refer to their stations, and the path that fetch follows.*)
(* The first part is about the operators of Stations: the insertion into a *)
(* list, and what waking, enqueueing, renaming and the scan of the         *)
(* load/store queue do to the links of the stations in flight.             *)
(***************************************************************************)
EXTENDS PipelineProperties, ProofFacts

-----------------------------------------------------------------------------
(* Types.                                                                  *)

\* What an operand names, NA for none.
Registers == Regs \cup {NA, DTMP}
\* A link to a station, with a time or an order.
LinkSet == [rs : Ids, tag : Nat, x : Int]
\* A link to an operand of a station.
OperandSet == [rs : Ids, tag : Nat, x : 1 .. 3]
\* What a creation vector holds.
CVSet == {CVLINK_NULL} \cup [rs : Ids, odep_num : 1 .. 2]
\* A station.
StationSet ==
    [op : DOMAIN FUClass, PC : Nat, next_PC : Nat, addr : Nat,
     in_LSQ : BOOLEAN, ea_comp : BOOLEAN, recover_inst : BOOLEAN,
     spec_mode : BOOLEAN, tag : Nat, seq : Nat,
     queued : BOOLEAN, issued : BOOLEAN, completed : BOOLEAN,
     onames : [1 .. 2 -> Registers], odep_list : [1 .. 2 -> Seq(OperandSet)],
     idep_ready : [1 .. 3 -> BOOLEAN]]

\* What the wakeup of operands works on.
ListStates == [station : [Ids -> StationSet], ready_queue : Seq(LinkSet), free : Int]
\* What the renaming of registers works on.
RenameStates ==
    [station : [Ids -> StationSet], ready_queue : Seq(LinkSet), free : Int,
     cv : [Regs \cup {DTMP} -> CVSet], spec_cv : [Regs \cup {DTMP} -> CVSet],
     use : SUBSET (Regs \cup {DTMP})]

-----------------------------------------------------------------------------
(* Links.  st are the stations, F those in flight.                         *)

(* No link is younger than its station, and a good one has it in flight.   *)
Sound(st, F, list) ==
    \A i \in DOMAIN list :
        /\ list[i].tag <= st[list[i].rs].tag
        /\ RSLINK_VALID(st, list[i]) => list[i].rs \in F

(* No station has two links in a list that are not stale.                  *)
Single(st, list) ==
    \A i, j \in DOMAIN list :
        RSLINK_VALID(st, list[i]) /\ RSLINK_VALID(st, list[j]) /\ list[i].rs = list[j].rs
          => i = j

\* A link to the station is in the list and good.
Listed(st, list, id) == \E i \in DOMAIN list : list[i].rs = id /\ RSLINK_VALID(st, list[i])

\* A station is in the ready queue, or among what issue still visits, once if
\* it is queued.
ReadyLinks(st, F, rq, nd) ==
    /\ Sound(st, F, rq) /\ Sound(st, F, nd)
    /\ Single(st, rq) /\ Single(st, nd)
    /\ \A id \in F : /\ st[id].queued <=> Listed(st, rq, id) \/ Listed(st, nd, id)
                     /\ ~(Listed(st, rq, id) /\ Listed(st, nd, id))

\* A station is in the event queue once while it executes.
EventLinks(st, F, eq) ==
    /\ Sound(st, F, eq) /\ Single(st, eq)
    /\ \A id \in F : Listed(st, eq, id) <=> st[id].issued /\ ~st[id].completed

(* The operand of a good link still waits.                                 *)
Waits(st, link) == RSLINK_VALID(st, link) => ~st[link.rs].idep_ready[link.x]

(* An operand that waits is in one output chain of the stations ids.       *)
ChainLinks(st, F, ids) ==
    /\ \A p \in ids, j \in 1 .. 2 :
          /\ Sound(st, F, st[p].odep_list[j])
          /\ \A n \in DOMAIN st[p].odep_list[j] : Waits(st, st[p].odep_list[j][n])
    /\ \A p, q \in ids, i, j \in 1 .. 2 :
          \A m \in DOMAIN st[p].odep_list[i], n \in DOMAIN st[q].odep_list[j] :
             RSLINK_VALID(st, st[p].odep_list[i][m])
               /\ st[p].odep_list[i][m] = st[q].odep_list[j][n]
                  => p = q /\ i = j /\ m = n

(* new: stations that are being filled.                                    *)
Progress(st, F, new) ==
    \A id \in F :
        /\ st[id].queued \/ st[id].issued => OPERANDS_READY(st[id])
        /\ ~(st[id].queued /\ st[id].issued)
        /\ st[id].completed => st[id].issued
        /\ OPERANDS_READY(st[id]) /\ id \notin new
             => st[id].queued \/ st[id].issued \/ IsLoad(st[id])

(* Stations leave: their tags change, and no others do among F.            *)
TagsGrow(st, st2, F, F2) ==
    \A id \in Ids : /\ st[id].tag <= st2[id].tag
                    /\ id \in F2 => st2[id].tag = st[id].tag
                    /\ id \in F \ F2 => st2[id].tag # st[id].tag

-----------------------------------------------------------------------------
(* The rings.                                                              *)

(* The places of a ring hold stations, each once.                          *)
Places(ids, n, R) ==
    /\ \A k \in 1 .. n : ids[k] \in R
    /\ \A j, k \in 1 .. n : ids[j] = ids[k] => j = k

\* The stations of a ring are numbered within it, each once.
LEMMA RingPlace ==
  ASSUME NEW ring, NEW size \in Nat \ {0}, NEW head \in 0..size - 1, NEW num \in 0..size
  PROVE  /\ Places(RingIds(ring, head, num, size), num, {ring} \X (0..size - 1))
         /\ DOMAIN RingIds(ring, head, num, size) = 1..num
<1>1. ASSUME NEW k \in 1..num
      PROVE  (head + k - 1) % size = IF head + k - 1 < size THEN head + k - 1 ELSE head + k - 1 - size
  <2>1. head + k - 1 \in 0..2 * size - 1
    OBVIOUS
  <2> QED OBVIOUS
<1>2. ASSUME NEW k \in 1..num PROVE (head + k - 1) % size \in 0..size - 1
  BY <1>1
<1>3. ASSUME NEW j \in 1..num, NEW k \in 1..num, (head + j - 1) % size = (head + k - 1) % size
      PROVE  j = k
  BY <1>1, <1>3
<1> QED BY <1>2, <1>3 DEF RingIds, Places

(* b is a, which holds num stations, and e, which is not among them.       *)
Longer(a, b, num, e) ==
    /\ b[num + 1] = e
    /\ \A k \in 1 .. num : b[k] = a[k] /\ a[k] # e

(* b is a without its first station e.                                     *)
Shorter(a, b, num, e) ==
    /\ a[1] = e
    /\ \A k \in 1 .. num - 1 : b[k] = a[k + 1]

(* The place k after the place head of a ring.                             *)
Place(head, k, size) == (head + k) % size

\* Without its oldest station a ring is what remains.
LEMMA RingWithoutOldest ==
  ASSUME NEW ring, NEW size \in Nat \ {0}, NEW head \in 0..size - 1, NEW num \in 1..size,
         NEW head2, head2 = Place(head, 1, size), NEW num2, num2 = num - 1,
         NEW tail, tail = Place(head, num, size),
         NEW a, a = RingIds(ring, head, num, size), NEW b, b = RingIds(ring, head2, num2, size),
         NEW e, e = <<ring, head>>
  PROVE  /\ head2 \in 0..size - 1 /\ tail = Place(head2, num2, size) /\ num2 \in 0..size
         /\ Shorter(a, b, num, e)
<1>1. (head + 1) % size = IF head + 1 < size THEN head + 1 ELSE head + 1 - size
  OBVIOUS
<1> DEFINE next == (head + 1) % size
<1>2. next \in 0..size - 1
  BY <1>1
<1>3. ASSUME NEW k \in 1..num
      PROVE  (next + k - 1) % size = (head + k) % size
  <2>1. (head + k) % size = IF head + k < size THEN head + k ELSE head + k - size
    OBVIOUS
  <2>2. (next + k - 1) % size = IF next + k - 1 < size THEN next + k - 1 ELSE next + k - 1 - size
    <3> HIDE DEF next
    <3> QED BY <1>2
  <2> QED BY <1>1, <2>1, <2>2
<1>4. (next + (num - 1)) % size = (head + num) % size
  <2>1. next + (num - 1) = next + num - 1
    BY <1>2
  <2> QED BY <1>3, <2>1
<1>5. (head + 1 - 1) % size = head
  OBVIOUS
<1>6. RingIds(ring, head, num, size)[1] = <<ring, head>>
  <2>1. 1 \in 1..num
    OBVIOUS
  <2> QED BY <2>1, <1>5 DEF RingIds
<1>7. ASSUME NEW k \in 1..num - 1
      PROVE  RingIds(ring, next, num - 1, size)[k] = RingIds(ring, head, num, size)[k + 1]
  <2>1. head + (k + 1) - 1 = head + k /\ k + 1 \in 1..num /\ k \in 1..num
    OBVIOUS
  <2>2. (next + k - 1) % size = (head + (k + 1) - 1) % size
    BY <1>3, <2>1
  <2> HIDE DEF next
  <2> QED BY <2>1, <2>2 DEF RingIds
<1>8. head2 = next /\ tail = (head + num) % size /\ Place(next, num - 1, size) = (next + (num - 1)) % size
  BY DEF Place
<1> HIDE DEF next
<1>9. Shorter(a, b, num, e)
  BY <1>6, <1>7, <1>8 DEF Shorter
<1> QED BY <1>2, <1>4, <1>8, <1>9

\* With a new station at its tail a ring is what it was, and the new one.
LEMMA RingWithNewest ==
  ASSUME NEW ring, NEW size \in Nat \ {0}, NEW head \in 0..size - 1, NEW num \in 0..size - 1,
         NEW tail, tail = Place(head, num, size), NEW num2, num2 = num + 1, NEW tail2,
         tail2 = Place(tail, 1, size),
         NEW a, a = RingIds(ring, head, num, size), NEW b, b = RingIds(ring, head, num2, size),
         NEW e, e = <<ring, tail>>
  PROVE  /\ tail \in 0..size - 1 /\ tail2 = Place(head, num2, size) /\ num2 \in 0..size
         /\ Longer(a, b, num, e)
<1>0. tail = (head + num) % size /\ tail2 = (tail + 1) % size
  BY DEF Place
<1>1. tail = IF head + num < size THEN head + num ELSE head + num - size
  BY <1>0
<1>2. tail \in 0..size - 1
  BY <1>1
<1>3. (head + (num + 1)) % size
        = IF head + (num + 1) < size THEN head + (num + 1) ELSE head + (num + 1) - size
  OBVIOUS
<1>4. (tail + 1) % size = IF tail + 1 < size THEN tail + 1 ELSE tail + 1 - size
  <2> QED BY <1>2
<1>5. (tail + 1) % size = (head + (num + 1)) % size
  BY <1>1, <1>3, <1>4
<1>6. ASSUME NEW k \in 1..num PROVE (head + k - 1) % size # tail
  <2>1. (head + k - 1) % size = IF head + k - 1 < size THEN head + k - 1 ELSE head + k - 1 - size
    OBVIOUS
  <2> QED BY <1>1, <2>1
<1>7. RingIds(ring, head, num + 1, size)[num + 1] = <<ring, tail>>
  <2>1. head + (num + 1) - 1 = head + num /\ num + 1 \in 1..num + 1
    OBVIOUS
  <2> QED BY <1>0, <2>1 DEF RingIds
<1>8. ASSUME NEW k \in 1..num
      PROVE  /\ RingIds(ring, head, num + 1, size)[k] = <<ring, (head + k - 1) % size>>
             /\ RingIds(ring, head, num, size)[k] = <<ring, (head + k - 1) % size>>
  <2>1. k \in 1..num + 1
    OBVIOUS
  <2> QED BY <2>1 DEF RingIds
<1>9. Longer(a, b, num, e)
  <2>1. b[num + 1] = e
    BY <1>7
  <2>2. ASSUME NEW k \in 1..num PROVE b[k] = a[k] /\ a[k] # e
    BY <1>6, <1>8
  <2> QED BY <2>1, <2>2 DEF Longer
<1>10. tail2 = Place(head, num2, size) /\ num2 \in 0..size
  BY <1>0, <1>5 DEF Place
<1> QED BY <1>2, <1>9, <1>10

\* A place of a ring is its own remainder.
LEMMA SmallRemainder ==
  ASSUME NEW size \in Nat \ {0}, NEW x \in 0..size - 1
  PROVE  x % size = x
OBVIOUS

\* The oldest stations of a ring stay in their places when others leave.
LEMMA RingPrefix ==
  ASSUME NEW ring, NEW size, NEW head, NEW num \in Nat, NEW m \in 0..num
  PROVE  \A k \in 1..m : RingIds(ring, head, m, size)[k] = RingIds(ring, head, num, size)[k]
BY DEF RingIds

-----------------------------------------------------------------------------
(* Insertion into a list.                                                  *)

(* list2 is list with the link e somewhere in it.                          *)
Inserted(list, list2, e) ==
    \E p \in 1 .. Len(list) + 1 :
        /\ Len(list2) = Len(list) + 1
        /\ list2[p] = e
        /\ \A i \in 1 .. p - 1 : list2[i] = list[i]
        /\ \A i \in p + 1 .. Len(list) + 1 : list2[i] = list[i - 1]

\* InsertAt moves what follows the new element by one place.
LEMMA InsertAtPlaces ==
  ASSUME NEW S, NEW list \in Seq(S), NEW e \in S, NEW p \in 1..Len(list) + 1
  PROVE  LET new == InsertAt(list, p, e)
         IN /\ new \in Seq(S)
            /\ Len(new) = Len(list) + 1
            /\ new[p] = e
            /\ \A i \in 1..p - 1 : new[i] = list[i]
            /\ \A i \in p + 1..Len(list) + 1 : new[i] = list[i - 1]
<1> DEFINE front == SubSeq(list, 1, p - 1)
           back == SubSeq(list, p, Len(list))
           one == <<e>>
           start == front \o one
<1>1. /\ front \in Seq(S) /\ Len(front) = p - 1
      /\ \A i \in 1..p - 1 : front[i] = list[i]
  OBVIOUS
<1>2. /\ back \in Seq(S) /\ Len(back) = Len(list) - p + 1
      /\ \A i \in 1..Len(list) - p + 1 : back[i] = list[p + i - 1]
  OBVIOUS
<1> HIDE DEF front, back
<1>3. one \in Seq(S) /\ Len(one) = 1 /\ one[1] = e
  OBVIOUS
<1> HIDE DEF one
<1>4. /\ start \in Seq(S) /\ Len(start) = p /\ start[p] = e
      /\ \A i \in 1..p - 1 : start[i] = list[i]
  <2>1. /\ start \in Seq(S) /\ Len(start) = Len(front) + Len(one)
        /\ \A i \in 1..Len(front) + Len(one) : start[i] = IF i <= Len(front) THEN front[i] ELSE one[i - Len(front)]
    BY <1>1, <1>3, ConcatProperties
  <2> HIDE DEF start
  <2> DEFINE n == p - 1
  <2>2. n \in Nat /\ p = n + 1 /\ Len(front) = n /\ Len(one) = 1
    BY <1>1, <1>3
  <2> HIDE DEF n
  <2>3. /\ start \in Seq(S) /\ Len(start) = n + 1
        /\ \A i \in 1..n + 1 : start[i] = IF i <= n THEN front[i] ELSE one[i - n]
    BY <2>1, <2>2
  <2>4. start[n + 1] = one[1]
    BY <2>2, <2>3
  <2>5. \A i \in 1..n : start[i] = front[i]
    BY <2>2, <2>3
  <2>6. p - 1 = n
    BY DEF n
  <2> QED BY <1>1, <1>3, <2>2, <2>3, <2>4, <2>5, <2>6
<1> HIDE DEF start
<1>5. /\ start \o back \in Seq(S) /\ Len(start \o back) = Len(list) + 1
      /\ \A i \in 1..p : (start \o back)[i] = start[i]
      /\ \A i \in p + 1..Len(list) + 1 : (start \o back)[i] = back[i - p]
  <2>1. /\ start \o back \in Seq(S) /\ Len(start \o back) = Len(start) + Len(back)
        /\ \A i \in 1..Len(start) + Len(back) :
              (start \o back)[i] = IF i <= Len(start) THEN start[i] ELSE back[i - Len(start)]
    BY <1>2, <1>4, ConcatProperties
  <2> QED BY <1>2, <1>4, <2>1
<1>6. ASSUME NEW i \in p + 1..Len(list) + 1 PROVE back[i - p] = list[i - 1]
  <2>1. i - p \in 1..Len(list) - p + 1 /\ p + (i - p) - 1 = i - 1
    OBVIOUS
  <2> QED BY <1>2, <2>1
<1> DEFINE new == InsertAt(list, p, e)
<1>7. new = start \o back
  BY DEF start, one, front, back, InsertAt
<1> HIDE DEF new
<1>8. /\ new \in Seq(S) /\ Len(new) = Len(list) + 1 /\ new[p] = e
      /\ \A i \in p + 1..Len(list) + 1 : new[i] = list[i - 1]
  BY <1>4, <1>5, <1>6, <1>7
<1>9. \A i \in 1..p - 1 : new[i] = list[i]
  BY <1>4, <1>5, <1>7
<1> QED BY <1>8, <1>9 DEF new

\* FirstNotBelow is the place before which all links are smaller.
LEMMA FirstNotBelowPlace ==
  ASSUME NEW list \in Seq(LinkSet), NEW x \in Int
  PROVE  LET p == FirstNotBelow(list, x)
         IN /\ p \in 1..Len(list) + 1
            /\ \A i \in 1..p - 1 : list[i].x < x
            /\ p \in DOMAIN list => list[p].x >= x
<1> DEFINE at == {i \in DOMAIN list : list[i].x >= x}
<1>1. ASSUME NEW i \in DOMAIN list PROVE list[i].x \in Int /\ i \in 1..Len(list)
  <2>1. list[i] \in LinkSet
    OBVIOUS
  <2> QED BY <2>1 DEF LinkSet
<1>2. CASE at = {}
  <2>1. FirstNotBelow(list, x) = Len(list) + 1
    BY <1>2 DEF FirstNotBelow
  <2>2. \A i \in 1..Len(list) : i \in DOMAIN list /\ ~(list[i].x >= x)
    BY <1>2
  <2> QED BY <1>1, <2>1, <2>2
<1>3. CASE at # {}
  <2>1. PICK m \in at : \A j \in at : m <= j
    <3>1. at \in SUBSET Nat
      OBVIOUS
    <3> HIDE DEF at
    <3> QED BY <1>3, <3>1, LeastElement
  <2>2. \A n \in at : (\A j \in at : n <= j) => n = m
    BY <1>1, <2>1
  <2>3. FirstNotBelow(list, x) = m
    BY <1>3, <2>1, <2>2 DEF FirstNotBelow
  <2>4. \A i \in 1..m - 1 : i \in DOMAIN list /\ ~(list[i].x >= x)
    BY <1>1, <2>1
  <2> QED BY <1>1, <2>1, <2>3, <2>4
<1> QED BY <1>2, <1>3

\* The fields of a station, and stations with a flag set.
LEMMA StationFields ==
  ASSUME NEW st \in [Ids -> StationSet], NEW id \in Ids
  PROVE  /\ st[id].op \in DOMAIN FUClass /\ st[id].tag \in Nat /\ st[id].seq \in Nat
         /\ st[id].addr \in Nat /\ st[id].in_LSQ \in BOOLEAN
         /\ st[id].queued \in BOOLEAN /\ st[id].issued \in BOOLEAN
         /\ st[id].completed \in BOOLEAN /\ st[id].spec_mode \in BOOLEAN
         /\ st[id].ea_comp \in BOOLEAN /\ st[id].recover_inst \in BOOLEAN
         /\ st[id].idep_ready \in [1..3 -> BOOLEAN]
         /\ st[id].odep_list \in [1..2 -> Seq(OperandSet)]
<1>1. st[id] \in StationSet
  OBVIOUS
<1> QED BY <1>1 DEF StationSet

\* A station with another flag is a station.
LEMMA FlagUpdates ==
  ASSUME NEW st \in [Ids -> StationSet], NEW id \in Ids, NEW b \in BOOLEAN
  PROVE  /\ [st EXCEPT ![id].queued = b] \in [Ids -> StationSet]
         /\ [st EXCEPT ![id].issued = b] \in [Ids -> StationSet]
         /\ [st EXCEPT ![id].completed = b] \in [Ids -> StationSet]
         /\ [st EXCEPT ![id].recover_inst = b] \in [Ids -> StationSet]
         /\ \A k \in 1..3 : [st EXCEPT ![id].idep_ready[k] = b] \in [Ids -> StationSet]
<1>1. st[id] \in StationSet
  OBVIOUS
<1>2. /\ [st[id] EXCEPT !.queued = b] \in StationSet
      /\ [st[id] EXCEPT !.issued = b] \in StationSet
      /\ [st[id] EXCEPT !.completed = b] \in StationSet
      /\ [st[id] EXCEPT !.recover_inst = b] \in StationSet
  BY <1>1 DEF StationSet
<1>3. ASSUME NEW k \in 1..3 PROVE [st[id] EXCEPT !.idep_ready[k] = b] \in StationSet
  BY <1>1 DEF StationSet
<1> QED BY <1>2, <1>3

\* A link is a link.
LEMMA LinkType ==
  ASSUME NEW st \in [Ids -> StationSet], NEW id \in Ids, NEW x \in Int
  PROVE  /\ Link(st, id, x) \in LinkSet
         /\ x \in 1..3 => Link(st, id, x) \in OperandSet
         /\ Link(st, id, x).rs = id /\ Link(st, id, x).tag = st[id].tag
         /\ Link(st, id, x).x = x
BY DEF Link, LinkSet, OperandSet, StationSet

\* readyq_enqueue puts one link into the queue and marks the station.
LEMMA EnqueueEffect ==
  ASSUME NEW q, q \in ListStates \/ q \in RenameStates, NEW id \in Ids
  PROVE  LET e == readyq_enqueue(q, id)
         IN /\ e.station = [q.station EXCEPT ![id].queued = TRUE]
            /\ Inserted(q.ready_queue, e.ready_queue, Link(q.station, id, q.station[id].seq))
            /\ q \in ListStates => e \in ListStates
            /\ q \in RenameStates =>
                 e \in RenameStates /\ e.cv = q.cv /\ e.spec_cv = q.spec_cv /\ e.use = q.use
<1> DEFINE rs == q.station[id]
           link == Link(q.station, id, rs.seq)
           list == q.ready_queue
           new == IF Urgent(rs) THEN <<link>> \o list
                  ELSE InsertAt(list, FirstNotBelow(list, rs.seq), link)
           st == [q.station EXCEPT ![id].queued = TRUE]
<1>1. q.station \in [Ids -> StationSet] /\ list \in Seq(LinkSet) /\ q.free \in Int
  BY DEF ListStates, RenameStates
<1>2. rs.seq \in Int /\ link \in LinkSet
  <2>1. rs.seq \in Int
    BY <1>1, StationFields
  <2> QED BY <1>1, <2>1, LinkType
<1>3. st \in [Ids -> StationSet]
  BY <1>1, FlagUpdates
<1>4. new \in Seq(LinkSet) /\ Inserted(list, new, link)
  <2> HIDE DEF rs, link, list
  <2>1. CASE Urgent(rs)
    <3>1. new = <<link>> \o list
      BY <2>1
    <3>2. /\ new \in Seq(LinkSet) /\ Len(new) = Len(list) + 1 /\ new[1] = link
          /\ \A i \in 2..Len(list) + 1 : new[i] = list[i - 1]
      <4>1. <<link>> \in Seq(LinkSet) /\ Len(<<link>>) = 1 /\ <<link>>[1] = link
        BY <1>2
      <4>2. list \in Seq(LinkSet)
        BY <1>1 DEF list
      <4> HIDE DEF new
      <4>3. /\ new \in Seq(LinkSet) /\ Len(new) = 1 + Len(list)
            /\ \A i \in 1..1 + Len(list) : new[i] = IF i <= 1 THEN <<link>>[i] ELSE list[i - 1]
        BY <3>1, <4>1, <4>2, ConcatProperties
      <4> QED BY <4>1, <4>2, <4>3
    <3>3. 1 \in 1..Len(list) + 1 /\ 1..1 - 1 = {}
      BY <1>1 DEF list
    <3> HIDE DEF new
    <3> QED BY <3>2, <3>3 DEF Inserted
  <2>2. CASE ~Urgent(rs)
    <3> DEFINE p == FirstNotBelow(list, rs.seq)
    <3>1. new = InsertAt(list, p, link)
      BY <2>2
    <3>2. p \in 1..Len(list) + 1
      BY <1>1, <1>2, FirstNotBelowPlace DEF list
    <3> HIDE DEF p, new
    <3>3. list \in Seq(LinkSet)
      BY <1>1 DEF list
    <3>4. /\ new \in Seq(LinkSet) /\ Len(new) = Len(list) + 1 /\ new[p] = link
          /\ \A i \in 1..p - 1 : new[i] = list[i]
          /\ \A i \in p + 1..Len(list) + 1 : new[i] = list[i - 1]
      <4>1. link \in LinkSet
        BY <1>2
      <4> HIDE DEF link, p
      <4>2. /\ InsertAt(list, p, link) \in Seq(LinkSet)
            /\ Len(InsertAt(list, p, link)) = Len(list) + 1
            /\ InsertAt(list, p, link)[p] = link
            /\ \A i \in 1..p - 1 : InsertAt(list, p, link)[i] = list[i]
            /\ \A i \in p + 1..Len(list) + 1 : InsertAt(list, p, link)[i] = list[i - 1]
        BY <4>1, <3>2, <3>3, InsertAtPlaces
      <4> QED BY <4>2, <3>1
    <3> QED BY <3>2, <3>4 DEF Inserted
  <2> QED BY <2>1, <2>2
<1>5. readyq_enqueue(q, id) = [q EXCEPT !.station = st, !.free = q.free - 1, !.ready_queue = new]
  BY DEF readyq_enqueue, ListStates, RenameStates
<1> HIDE DEF st, new, link, list
<1>6. q.free - 1 \in Int
  BY <1>1
<1> QED BY <1>3, <1>4, <1>5, <1>6 DEF st, link, list, ListStates, RenameStates

-----------------------------------------------------------------------------
(* What becomes of links.                                                  *)

\* The members of a list of links.
LEMMA LinkFields ==
  ASSUME NEW S, S = LinkSet \/ S = OperandSet, NEW list \in Seq(S), NEW i \in DOMAIN list
  PROVE  /\ i \in 1..Len(list) /\ list[i] \in S
         /\ list[i].rs \in Ids /\ list[i].tag \in Nat /\ list[i].x \in Int
         /\ S = OperandSet => list[i].x \in 1..3
<1>1. list[i] \in S /\ i \in 1..Len(list)
  OBVIOUS
<1>2. CASE S = LinkSet
  <2>1. list[i] \in [rs : Ids, tag : Nat, x : Int]
    BY <1>1, <1>2 DEF LinkSet
  <2>2. LinkSet = OperandSet => list[i] \in [rs : Ids, tag : Nat, x : 1..3]
    BY <1>1, <1>2 DEF OperandSet
  <2> QED BY <1>1, <1>2, <2>1, <2>2
<1>3. CASE S = OperandSet
  <2>1. list[i] \in [rs : Ids, tag : Nat, x : 1..3]
    BY <1>1, <1>3 DEF OperandSet
  <2>2. list[i].x \in 1..3 /\ list[i].x \in Int
    BY <2>1
  <2> QED BY <1>1, <2>1, <2>2
<1> QED BY <1>2, <1>3

\* When stations leave, the links of those that stay are good, all others not.
LEMMA StillValid ==
  ASSUME NEW st \in [Ids -> StationSet], NEW st2 \in [Ids -> StationSet],
         NEW F \in SUBSET Ids, NEW F2 \in SUBSET F, TagsGrow(st, st2, F, F2),
         NEW S, S = LinkSet \/ S = OperandSet, NEW list \in Seq(S), Sound(st, F, list)
  PROVE  /\ Sound(st2, F2, list)
         /\ \A i \in DOMAIN list : RSLINK_VALID(st2, list[i]) <=>
              RSLINK_VALID(st, list[i]) /\ list[i].rs \in F2
<1>1. ASSUME NEW i \in DOMAIN list
      PROVE  /\ list[i].tag <= st2[list[i].rs].tag
             /\ RSLINK_VALID(st2, list[i]) <=> RSLINK_VALID(st, list[i]) /\ list[i].rs \in F2
  <2> DEFINE id == list[i].rs
             tag == list[i].tag
  <2>1. id \in Ids /\ tag \in Nat
    BY LinkFields
  <2>2. st[id].tag \in Nat /\ st2[id].tag \in Nat
    BY <2>1, StationFields
  <2>3. /\ st[id].tag <= st2[id].tag
        /\ id \in F2 => st2[id].tag = st[id].tag
        /\ id \in F \ F2 => st2[id].tag # st[id].tag
    BY <2>1 DEF TagsGrow
  <2>4. tag <= st[id].tag /\ (tag = st[id].tag => id \in F)
    BY DEF Sound, RSLINK_VALID
  <2> HIDE DEF id, tag
  <2>5. tag <= st2[id].tag /\ (tag = st2[id].tag <=> tag = st[id].tag /\ id \in F2)
    BY <2>1, <2>2, <2>3, <2>4
  <2> QED BY <2>5 DEF id, tag, RSLINK_VALID
<1> QED BY <1>1 DEF Sound

\* Links of stations that stay are kept, and need no more than their flags.
LEMMA ReadyKept ==
  ASSUME NEW st \in [Ids -> StationSet], NEW st2 \in [Ids -> StationSet],
         NEW F \in SUBSET Ids, NEW F2 \in SUBSET F, TagsGrow(st, st2, F, F2),
         NEW rq \in Seq(LinkSet), NEW nd \in Seq(LinkSet), ReadyLinks(st, F, rq, nd),
         \A id \in F2 : st2[id].queued = st[id].queued
  PROVE  ReadyLinks(st2, F2, rq, nd)
<1>1. /\ Sound(st2, F2, rq)
      /\ \A i \in DOMAIN rq : RSLINK_VALID(st2, rq[i]) <=>
           RSLINK_VALID(st, rq[i]) /\ rq[i].rs \in F2
  BY StillValid DEF ReadyLinks
<1>2. /\ Sound(st2, F2, nd)
      /\ \A i \in DOMAIN nd : RSLINK_VALID(st2, nd[i]) <=>
           RSLINK_VALID(st, nd[i]) /\ nd[i].rs \in F2
  BY StillValid DEF ReadyLinks
<1>3. Single(st2, rq) /\ Single(st2, nd)
  BY <1>1, <1>2 DEF Single, ReadyLinks
<1>4. \A id \in F2 : (Listed(st2, rq, id) <=> Listed(st, rq, id))
                     /\ (Listed(st2, nd, id) <=> Listed(st, nd, id))
  BY <1>1, <1>2 DEF Listed
<1>5. \A id \in F2 : id \in F
  OBVIOUS
<1> QED BY <1>1, <1>2, <1>3, <1>4, <1>5 DEF ReadyLinks

\* The events stay in order when tags grow and nothing starts or completes.
LEMMA EventsKept ==
  ASSUME NEW st \in [Ids -> StationSet], NEW st2 \in [Ids -> StationSet],
         NEW F \in SUBSET Ids, NEW F2 \in SUBSET F, TagsGrow(st, st2, F, F2),
         NEW eq \in Seq(LinkSet), EventLinks(st, F, eq),
         \A id \in F2 : (st2[id].issued /\ ~st2[id].completed)
                          <=> (st[id].issued /\ ~st[id].completed)
  PROVE  EventLinks(st2, F2, eq)
<1>1. /\ Sound(st2, F2, eq)
      /\ \A i \in DOMAIN eq : RSLINK_VALID(st2, eq[i]) <=>
           RSLINK_VALID(st, eq[i]) /\ eq[i].rs \in F2
  BY StillValid DEF EventLinks
<1>2. Single(st2, eq)
  BY <1>1 DEF Single, EventLinks
<1>3. \A id \in F2 : Listed(st2, eq, id) <=> Listed(st, eq, id)
  BY <1>1 DEF Listed
<1>4. \A id \in F2 : id \in F
  OBVIOUS
<1> QED BY <1>1, <1>2, <1>3, <1>4 DEF EventLinks

(* Operands are as ready as before, and no chain is new.                   *)
ChainsFrom(st, st2, F2, ids, ids2) ==
    /\ \A id \in F2 : st2[id].idep_ready = st[id].idep_ready
    /\ \A p \in ids2, j \in 1 .. 2 :
          \/ st2[p].odep_list[j] = <<>>
          \/ p \in ids /\ st2[p].odep_list[j] = st[p].odep_list[j]

\* The output chains stay in order when tags grow.
LEMMA ChainsKept ==
  ASSUME NEW st \in [Ids -> StationSet], NEW st2 \in [Ids -> StationSet],
         NEW F \in SUBSET Ids, NEW F2 \in SUBSET F, TagsGrow(st, st2, F, F2),
         NEW ids \in SUBSET Ids, NEW ids2 \in SUBSET Ids, ChainLinks(st, F, ids),
         ChainsFrom(st, st2, F2, ids, ids2)
  PROVE  ChainLinks(st2, F2, ids2)
<1> USE DEF ChainsFrom
<1>1. ASSUME NEW p \in ids2, NEW j \in 1..2, st2[p].odep_list[j] # <<>>
      PROVE  /\ p \in ids /\ st2[p].odep_list[j] = st[p].odep_list[j]
             /\ st[p].odep_list[j] \in Seq(OperandSet)
             /\ Sound(st2, F2, st[p].odep_list[j])
             /\ \A i \in DOMAIN st[p].odep_list[j] :
                  RSLINK_VALID(st2, st[p].odep_list[j][i]) <=>
                    RSLINK_VALID(st, st[p].odep_list[j][i]) /\ st[p].odep_list[j][i].rs \in F2
  <2>1. p \in ids /\ st2[p].odep_list[j] = st[p].odep_list[j]
    BY <1>1
  <2>2. st[p].odep_list[j] \in Seq(OperandSet)
    BY <2>1, StationFields
  <2> DEFINE chain == st[p].odep_list[j]
  <2>3. Sound(st, F, chain)
    BY <2>1 DEF ChainLinks
  <2>4. chain \in Seq(OperandSet) /\ (OperandSet = LinkSet \/ OperandSet = OperandSet)
    BY <2>2
  <2> HIDE DEF chain
  <2>5. /\ Sound(st2, F2, chain)
        /\ \A i \in DOMAIN chain : RSLINK_VALID(st2, chain[i]) <=>
                 RSLINK_VALID(st, chain[i]) /\ chain[i].rs \in F2
    BY <2>3, <2>4, StillValid
  <2> QED BY <2>1, <2>2, <2>5 DEF chain
<1>2. ASSUME NEW p \in ids2, NEW j \in 1..2
      PROVE  /\ Sound(st2, F2, st2[p].odep_list[j])
             /\ \A n \in DOMAIN st2[p].odep_list[j] : Waits(st2, st2[p].odep_list[j][n])
  <2>1. CASE st2[p].odep_list[j] = <<>>
    BY <2>1 DEF Sound
  <2>2. CASE st2[p].odep_list[j] # <<>>
    <3> DEFINE chain == st[p].odep_list[j]
    <3>1. /\ p \in ids /\ st2[p].odep_list[j] = chain /\ Sound(st2, F2, chain)
          /\ \A i \in DOMAIN chain : RSLINK_VALID(st2, chain[i]) =>
                 RSLINK_VALID(st, chain[i]) /\ chain[i].rs \in F2
      BY <2>2, <1>1
    <3>2. \A n \in DOMAIN chain : Waits(st, chain[n])
      BY <3>1 DEF ChainLinks
    <3> HIDE DEF chain
    <3>3. \A n \in DOMAIN chain : Waits(st2, chain[n])
      BY <3>1, <3>2 DEF Waits
    <3> QED BY <3>1, <3>3
  <2> QED BY <2>1, <2>2
<1>3. ASSUME NEW p \in ids2, NEW q \in ids2, NEW i \in 1..2, NEW j \in 1..2,
             NEW m \in DOMAIN st2[p].odep_list[i], NEW n \in DOMAIN st2[q].odep_list[j],
             RSLINK_VALID(st2, st2[p].odep_list[i][m]),
             st2[p].odep_list[i][m] = st2[q].odep_list[j][n]
      PROVE  p = q /\ i = j /\ m = n
  <2>1. st2[p].odep_list[i] # <<>> /\ st2[q].odep_list[j] # <<>>
    OBVIOUS
  <2>2. /\ p \in ids /\ st2[p].odep_list[i] = st[p].odep_list[i]
        /\ q \in ids /\ st2[q].odep_list[j] = st[q].odep_list[j]
    BY <2>1, <1>1
  <2>3. RSLINK_VALID(st, st[p].odep_list[i][m])
    BY <2>1, <2>2, <1>1, <1>3
  <2> QED BY SMTT(30), <2>2, <2>3, <1>3 DEF ChainLinks
<1> QED BY <1>2, <1>3 DEF ChainLinks

\* What was said of the progress of stations stays true of those left.
LEMMA ProgressKept ==
  ASSUME NEW st, NEW st2, NEW F, NEW F2 \in SUBSET F, NEW new, Progress(st, F, new),
         \A id \in F2 : /\ st2[id].queued = st[id].queued /\ st2[id].issued = st[id].issued
                        /\ st2[id].completed = st[id].completed /\ st2[id].op = st[id].op
                        /\ st2[id].idep_ready = st[id].idep_ready
  PROVE  Progress(st2, F2, new)
BY DEF Progress, OPERANDS_READY, IsLoad

\* Only the tags of the stations matter to what a list holds.
SameTags(st, st2) == \A id \in Ids : st2[id].tag = st[id].tag

\* Lists say the same of stations with the same tags.
LEMMA SameTagsSame ==
  ASSUME NEW st, NEW st2, SameTags(st, st2), NEW F,
         NEW S, S = LinkSet \/ S = OperandSet, NEW list \in Seq(S)
  PROVE  /\ Sound(st2, F, list) <=> Sound(st, F, list)
         /\ Single(st2, list) <=> Single(st, list)
         /\ \A id : Listed(st2, list, id) <=> Listed(st, list, id)
         /\ \A i \in DOMAIN list : RSLINK_VALID(st2, list[i]) <=> RSLINK_VALID(st, list[i])
<1>1. \A i \in DOMAIN list : st2[list[i].rs].tag = st[list[i].rs].tag
  BY LinkFields DEF SameTags
<1>2. \A i \in DOMAIN list : RSLINK_VALID(st2, list[i]) <=> RSLINK_VALID(st, list[i])
  BY <1>1 DEF RSLINK_VALID
<1>3. Sound(st2, F, list) <=> Sound(st, F, list)
  BY <1>1, <1>2 DEF Sound
<1>4. Single(st2, list) <=> Single(st, list)
  BY <1>2 DEF Single
<1>5. \A id : Listed(st2, list, id) <=> Listed(st, list, id)
  BY <1>2 DEF Listed
<1> QED BY <1>2, <1>3, <1>4, <1>5

\* A list with one more link.
LEMMA InsertedList ==
  ASSUME NEW st, NEW F, NEW list \in Seq(LinkSet), NEW list2 \in Seq(LinkSet),
         NEW link \in LinkSet, Inserted(list, list2, link),
         RSLINK_VALID(st, link), st[link.rs].tag \in Nat, link.rs \in F,
         Sound(st, F, list), Single(st, list), ~Listed(st, list, link.rs)
  PROVE  /\ Sound(st, F, list2) /\ Single(st, list2)
         /\ \A id : Listed(st, list2, id) <=> Listed(st, list, id) \/ id = link.rs
<1>1. PICK p \in 1..Len(list) + 1 :
        /\ Len(list2) = Len(list) + 1
        /\ list2[p] = link
        /\ \A i \in 1..p - 1 : list2[i] = list[i]
        /\ \A i \in p + 1..Len(list) + 1 : list2[i] = list[i - 1]
  BY DEF Inserted
<1>2. DOMAIN list2 = 1..Len(list) + 1 /\ DOMAIN list = 1..Len(list) /\ Len(list) \in Nat
  BY <1>1
<1> DEFINE from(i) == IF i < p THEN i ELSE i - 1
           to(i) == IF i < p THEN i ELSE i + 1
<1>3. ASSUME NEW i \in DOMAIN list2, i # p
      PROVE  from(i) \in DOMAIN list /\ list2[i] = list[from(i)]
  <2>1. CASE i < p
    <3>1. i \in 1..p - 1 /\ i \in 1..Len(list)
      BY <2>1, <1>2
    <3> QED BY <3>1, <2>1, <1>1, <1>2
  <2>2. CASE ~(i < p)
    <3>1. i \in p + 1..Len(list) + 1 /\ i - 1 \in 1..Len(list)
      BY <2>2, <1>2, <1>3
    <3> QED BY <3>1, <2>2, <1>1, <1>2
  <2> QED BY <2>1, <2>2
<1>4. ASSUME NEW i \in DOMAIN list
      PROVE  to(i) \in DOMAIN list2 /\ to(i) # p /\ list2[to(i)] = list[i]
  <2>1. CASE i < p
    <3>1. i \in 1..p - 1 /\ i \in 1..Len(list) + 1
      BY <2>1, <1>2
    <3> QED BY <3>1, <2>1, <1>1, <1>2
  <2>2. CASE ~(i < p)
    <3>1. i + 1 \in p + 1..Len(list) + 1 /\ i + 1 # p /\ (i + 1) - 1 = i
      BY <2>2, <1>2
    <3> QED BY <3>1, <2>2, <1>1, <1>2
  <2> QED BY <2>1, <2>2
<1>5. \A i, j \in DOMAIN list2 : i # p /\ j # p /\ from(i) = from(j) => i = j
  BY <1>2
<1>6. p \in DOMAIN list2 /\ list2[p] = link
  BY <1>1, <1>2
<1> HIDE DEF from, to
<1>7. Sound(st, F, list2)
  <2>1. link.tag <= st[link.rs].tag
    BY DEF RSLINK_VALID
  <2>2. ASSUME NEW i \in DOMAIN list2
        PROVE  /\ list2[i].tag <= st[list2[i].rs].tag
               /\ RSLINK_VALID(st, list2[i]) => list2[i].rs \in F
    <3>1. CASE i = p
      BY <3>1, <2>1, <1>6
    <3>2. CASE i # p
      BY <3>2, <1>3 DEF Sound
    <3> QED BY <3>1, <3>2
  <2> QED BY <2>2 DEF Sound
<1>8. Single(st, list2)
  <2>1. ASSUME NEW i \in DOMAIN list2, NEW j \in DOMAIN list2,
               RSLINK_VALID(st, list2[i]), RSLINK_VALID(st, list2[j]),
               list2[i].rs = list2[j].rs
        PROVE  i = j
    <3>1. CASE i # p /\ j # p
      <4>1. from(i) = from(j)
        BY <3>1, <2>1, <1>3 DEF Single
      <4> QED BY <4>1, <3>1, <1>5
    <3>2. CASE i = p /\ j # p
      BY <3>2, <2>1, <1>3, <1>6 DEF Listed
    <3>3. CASE i # p /\ j = p
      BY <3>3, <2>1, <1>3, <1>6 DEF Listed
    <3> QED BY <3>1, <3>2, <3>3
  <2> QED BY <2>1 DEF Single
<1>9. ASSUME NEW id PROVE Listed(st, list2, id) <=> Listed(st, list, id) \/ id = link.rs
  <2>1. ASSUME Listed(st, list2, id) PROVE Listed(st, list, id) \/ id = link.rs
    <3>1. PICK i \in DOMAIN list2 : list2[i].rs = id /\ RSLINK_VALID(st, list2[i])
      BY <2>1 DEF Listed
    <3>2. CASE i = p
      BY <3>1, <3>2, <1>6
    <3>3. CASE i # p
      BY <3>1, <3>3, <1>3 DEF Listed
    <3> QED BY <3>2, <3>3
  <2>2. Listed(st, list, id) => Listed(st, list2, id)
    BY <1>4 DEF Listed
  <2>3. Listed(st, list2, link.rs)
    BY <1>6 DEF Listed
  <2> QED BY <2>1, <2>2, <2>3
<1> QED BY <1>7, <1>8, <1>9

\* A list without its first n links.
LEMMA SuffixList ==
  ASSUME NEW list \in Seq(LinkSet), NEW n \in 0..Len(list)
  PROVE  LET rest == SubSeq(list, n + 1, Len(list))
         IN /\ rest \in Seq(LinkSet) /\ Len(rest) = Len(list) - n
            /\ \A i \in DOMAIN rest : i + n \in DOMAIN list /\ rest[i] = list[i + n]
            /\ \A i \in DOMAIN list : i > n => i - n \in DOMAIN rest /\ rest[i - n] = list[i]
<1> DEFINE rest == SubSeq(list, n + 1, Len(list))
<1>1. Len(list) \in Nat /\ n + 1 \in 1..Len(list) + 1 /\ DOMAIN list = 1..Len(list)
  OBVIOUS
<1>2. \A i \in n + 1..Len(list) : list[i] \in LinkSet
  BY <1>1
<1>3. rest \in Seq(LinkSet) /\ Len(rest) = IF n + 1 <= Len(list) THEN Len(list) - (n + 1) + 1 ELSE 0
  BY <1>1, <1>2, SubSeqProperties
<1>4. \A i \in 1..Len(list) - (n + 1) + 1 : rest[i] = list[n + 1 + i - 1]
  BY <1>1, <1>2, SubSeqProperties
<1> HIDE DEF rest
<1>5. Len(rest) = Len(list) - n /\ DOMAIN rest = 1..Len(list) - n
  <2>1. Len(rest) = Len(list) - n
    <3> DEFINE total == Len(list)
               left == Len(rest)
    <3>1. left = IF n + 1 <= total THEN total - (n + 1) + 1 ELSE 0
      BY <1>3
    <3>2. total \in Nat /\ n \in 0..total
      BY <1>1
    <3> HIDE DEF total, left
    <3>3. left = total - n
      BY <3>1, <3>2
    <3> QED BY <3>3 DEF total, left
  <2>2. DOMAIN rest = 1..Len(rest)
    BY <1>3
  <2> QED BY <2>1, <2>2
<1>6. ASSUME NEW i \in DOMAIN rest PROVE i + n \in DOMAIN list /\ rest[i] = list[i + n]
  <2>1. i \in 1..Len(list) - (n + 1) + 1 /\ n + 1 + i - 1 = i + n /\ i + n \in 1..Len(list)
    BY <1>1, <1>5
  <2>2. rest[i] = list[n + 1 + i - 1]
    BY <2>1, <1>4
  <2> QED BY <2>1, <2>2, <1>1
<1>7. ASSUME NEW i \in DOMAIN list, i > n PROVE i - n \in DOMAIN rest /\ rest[i - n] = list[i]
  <2>1. i - n \in DOMAIN rest /\ (i - n) + n = i
    BY <1>1, <1>5, <1>7
  <2> QED BY <2>1, <1>6
<1> QED BY <1>3, <1>5, <1>6, <1>7 DEF rest

\* What is left of a list whose first n links are stale, but for the last one.
LEMMA ShortenedList ==
  ASSUME NEW st, NEW F, NEW list \in Seq(LinkSet), NEW n \in 0..Len(list),
         Sound(st, F, list), Single(st, list),
         \A i \in 1..n - 1 : ~RSLINK_VALID(st, list[i])
  PROVE  LET rest == SubSeq(list, n + 1, Len(list))
         IN /\ Sound(st, F, rest) /\ Single(st, rest)
            /\ \A id : Listed(st, rest, id) <=>
                 /\ Listed(st, list, id)
                 /\ n > 0 /\ RSLINK_VALID(st, list[n]) => id # list[n].rs
<1> DEFINE rest == SubSeq(list, n + 1, Len(list))
<1>1. /\ \A i \in DOMAIN rest : i + n \in DOMAIN list /\ rest[i] = list[i + n]
      /\ \A i \in DOMAIN list : i > n => i - n \in DOMAIN rest /\ rest[i - n] = list[i]
      /\ rest \in Seq(LinkSet)
  BY SuffixList
<1> HIDE DEF rest
<1>2. DOMAIN list = 1..Len(list) /\ Len(list) \in Nat /\ \A i \in DOMAIN rest : i \in Nat \ {0}
  BY <1>1
<1>3. Sound(st, F, rest)
  BY <1>1 DEF Sound
<1>4. Single(st, rest)
  <2>1. ASSUME NEW i \in DOMAIN rest, NEW j \in DOMAIN rest,
               RSLINK_VALID(st, rest[i]), RSLINK_VALID(st, rest[j]), rest[i].rs = rest[j].rs
        PROVE  i = j
    <3>1. i + n = j + n
      BY <2>1, <1>1 DEF Single
    <3> QED BY <3>1, <1>2
  <2> QED BY <2>1 DEF Single
<1>5. ASSUME NEW id, Listed(st, rest, id)
      PROVE  Listed(st, list, id) /\ (n > 0 /\ RSLINK_VALID(st, list[n]) => id # list[n].rs)
  <2>1. PICK i \in DOMAIN rest : rest[i].rs = id /\ RSLINK_VALID(st, rest[i])
    BY <1>5 DEF Listed
  <2>2. i + n \in DOMAIN list /\ list[i + n].rs = id /\ RSLINK_VALID(st, list[i + n])
    BY <2>1, <1>1
  <2>3. n > 0 => n \in DOMAIN list /\ i + n # n
    BY <1>2
  <2> QED BY <2>2, <2>3 DEF Listed, Single
<1>6. ASSUME NEW id, Listed(st, list, id), n > 0 /\ RSLINK_VALID(st, list[n]) => id # list[n].rs
      PROVE  Listed(st, rest, id)
  <2>1. PICK i \in DOMAIN list : list[i].rs = id /\ RSLINK_VALID(st, list[i])
    BY <1>6 DEF Listed
  <2>2. ~(i \in 1..n - 1) /\ (n > 0 => i # n)
    BY <2>1, <1>6
  <2>3. i > n
    BY <2>2, <1>2
  <2> QED BY <2>1, <2>3, <1>1 DEF Listed
<1> QED BY <1>3, <1>4, <1>5, <1>6 DEF rest

\* A station that is not queued is enqueued.
LEMMA ReadyEnqueued ==
  ASSUME NEW st \in [Ids -> StationSet], NEW st2 \in [Ids -> StationSet], NEW F \in SUBSET Ids,
         NEW rq \in Seq(LinkSet), NEW rq2 \in Seq(LinkSet), NEW nd \in Seq(LinkSet),
         NEW id \in F, NEW x \in Int, Inserted(rq, rq2, Link(st, id, x)),
         SameTags(st, st2), st2[id].queued, ~st[id].queued,
         \A k \in F : k # id => st2[k].queued = st[k].queued,
         ReadyLinks(st, F, rq, nd)
  PROVE  ReadyLinks(st2, F, rq2, nd)
<1> DEFINE link == Link(st, id, x)
<1>1. /\ link \in LinkSet /\ link.rs = id /\ RSLINK_VALID(st, link)
      /\ st[id].tag \in Nat
  <2>1. id \in Ids
    OBVIOUS
  <2> QED BY <2>1, LinkType, StationFields DEF RSLINK_VALID
<1>2. /\ Sound(st, F, rq) /\ Single(st, rq) /\ Sound(st, F, nd) /\ Single(st, nd)
      /\ ~Listed(st, rq, id) /\ ~Listed(st, nd, id)
  BY DEF ReadyLinks
<1>3. Inserted(rq, rq2, link)
  OBVIOUS
<1> HIDE DEF link
<1>4. /\ Sound(st, F, rq2) /\ Single(st, rq2)
      /\ \A k : Listed(st, rq2, k) <=> Listed(st, rq, k) \/ k = id
  BY <1>1, <1>2, <1>3, InsertedList
<1>5. /\ Sound(st2, F, rq2) /\ Single(st2, rq2)
      /\ \A k : Listed(st2, rq2, k) <=> Listed(st, rq, k) \/ k = id
  BY <1>4, SameTagsSame
<1>6. /\ Sound(st2, F, nd) /\ Single(st2, nd)
      /\ \A k : Listed(st2, nd, k) <=> Listed(st, nd, k)
  BY <1>2, SameTagsSame
<1>7. ASSUME NEW k \in F
      PROVE  /\ st2[k].queued <=> Listed(st2, rq2, k) \/ Listed(st2, nd, k)
             /\ ~(Listed(st2, rq2, k) /\ Listed(st2, nd, k))
  <2>1. CASE k = id
    BY <2>1, <1>2, <1>5, <1>6
  <2>2. CASE k # id
    BY <2>2, <1>5, <1>6 DEF ReadyLinks
  <2> QED BY <2>1, <2>2
<1> QED BY <1>5, <1>6, <1>7 DEF ReadyLinks

\* A good link is taken from the queue, and its station is no longer queued.
LEMMA ReadyTaken ==
  ASSUME NEW st \in [Ids -> StationSet], NEW st2 \in [Ids -> StationSet], NEW F \in SUBSET Ids,
         NEW rq \in Seq(LinkSet), NEW nd \in Seq(LinkSet), nd # <<>>,
         RSLINK_VALID(st, nd[1]), SameTags(st, st2), ~st2[nd[1].rs].queued,
         \A k \in F : k # nd[1].rs => st2[k].queued = st[k].queued,
         ReadyLinks(st, F, rq, nd)
  PROVE  /\ ReadyLinks(st2, F, rq, SubSeq(nd, 2, Len(nd)))
         /\ nd[1].rs \in F /\ st[nd[1].rs].queued
<1> DEFINE rest == SubSeq(nd, 2, Len(nd))
           id == nd[1].rs
<1>1. 1 \in 0..Len(nd) /\ 1 \in DOMAIN nd /\ 1 + 1 = 2 /\ 1..1 - 1 = {}
  OBVIOUS
<1>2. rest \in Seq(LinkSet)
  BY <1>1, SuffixList
<1>3. /\ Sound(st, F, rest) /\ Single(st, rest)
      /\ \A k : Listed(st, rest, k) <=> Listed(st, nd, k) /\ k # id
  <2>1. Sound(st, F, nd) /\ Single(st, nd) /\ \A i \in 1..1 - 1 : ~RSLINK_VALID(st, nd[i])
    BY <1>1 DEF ReadyLinks
  <2>2. /\ Sound(st, F, rest) /\ Single(st, rest)
        /\ \A k : Listed(st, rest, k) <=> Listed(st, nd, k) /\ (1 > 0 /\ RSLINK_VALID(st, nd[1]) => k # nd[1].rs)
    BY <1>1, <2>1, ShortenedList
  <2> QED BY <2>2
<1>4. Listed(st, nd, id) /\ id \in F
  BY <1>1 DEF Listed, ReadyLinks, Sound
<1> HIDE DEF rest, id
<1>5. /\ Sound(st2, F, rest) /\ Single(st2, rest)
      /\ \A k : Listed(st2, rest, k) <=> Listed(st, nd, k) /\ k # id
  BY <1>2, <1>3, SameTagsSame
<1>6. /\ Sound(st2, F, rq) /\ Single(st2, rq)
      /\ \A k : Listed(st2, rq, k) <=> Listed(st, rq, k)
  BY SameTagsSame DEF ReadyLinks
<1>7. ASSUME NEW k \in F
      PROVE  /\ st2[k].queued <=> Listed(st2, rq, k) \/ Listed(st2, rest, k)
             /\ ~(Listed(st2, rq, k) /\ Listed(st2, rest, k))
  <2>1. CASE k = id
    <3>1. ~Listed(st, rq, id)
      BY <1>4 DEF ReadyLinks
    <3> QED BY <2>1, <3>1, <1>5, <1>6 DEF id
  <2>2. CASE k # id
    BY <2>2, <1>5, <1>6 DEF ReadyLinks, id
  <2> QED BY <2>1, <2>2
<1>8. st[id].queued
  BY <1>4 DEF ReadyLinks
<1> QED BY <1>4, <1>5, <1>6, <1>7, <1>8 DEF ReadyLinks, rest, id

\* A stale link is dropped.
LEMMA ReadyDropped ==
  ASSUME NEW st, NEW F, NEW rq \in Seq(LinkSet), NEW nd \in Seq(LinkSet), nd # <<>>,
         ~RSLINK_VALID(st, nd[1]), ReadyLinks(st, F, rq, nd)
  PROVE  ReadyLinks(st, F, rq, SubSeq(nd, 2, Len(nd)))
<1> DEFINE rest == SubSeq(nd, 2, Len(nd))
<1>1. 1 \in 0..Len(nd) /\ 1 + 1 = 2 /\ 1..1 - 1 = {}
  OBVIOUS
<1>2. /\ Sound(st, F, rest) /\ Single(st, rest)
      /\ \A k : Listed(st, rest, k) <=> Listed(st, nd, k)
  <2>1. Sound(st, F, nd) /\ Single(st, nd) /\ \A i \in 1..1 - 1 : ~RSLINK_VALID(st, nd[i])
    BY <1>1 DEF ReadyLinks
  <2>2. /\ Sound(st, F, rest) /\ Single(st, rest)
        /\ \A k : Listed(st, rest, k) <=> Listed(st, nd, k) /\ (1 > 0 /\ RSLINK_VALID(st, nd[1]) => k # nd[1].rs)
    BY <1>1, <2>1, ShortenedList
  <2> QED BY <2>2
<1> HIDE DEF rest
<1> QED BY <1>2 DEF ReadyLinks, rest

\* ruu_issue takes the ready queue as it is.
LEMMA ReadySwapped ==
  ASSUME NEW st, NEW F, NEW rq, ReadyLinks(st, F, rq, <<>>)
  PROVE  ReadyLinks(st, F, <<>>, rq)
<1>1. \A id : ~Listed(st, <<>>, id)
  BY DEF Listed
<1> QED BY <1>1 DEF ReadyLinks

(* All stations but id have been issued and have completed as before.      *)
OthersRun(st, st2, F, id) ==
    \A k \in F : k # id => st2[k].issued = st[k].issued /\ st2[k].completed = st[k].completed

\* A station that starts has its event in the queue.
LEMMA EventScheduled ==
  ASSUME NEW st \in [Ids -> StationSet], NEW st2 \in [Ids -> StationSet], NEW F \in SUBSET Ids,
         NEW eq \in Seq(LinkSet), NEW eq2 \in Seq(LinkSet),
         NEW id \in F, NEW x \in Int, Inserted(eq, eq2, Link(st, id, x)),
         SameTags(st, st2), ~st[id].issued, st2[id].issued, ~st2[id].completed,
         OthersRun(st, st2, F, id), EventLinks(st, F, eq)
  PROVE  EventLinks(st2, F, eq2)
<1> DEFINE link == Link(st, id, x)
<1>1. /\ link \in LinkSet /\ link.rs = id /\ RSLINK_VALID(st, link)
      /\ st[id].tag \in Nat
  <2>1. id \in Ids
    OBVIOUS
  <2> QED BY <2>1, LinkType, StationFields DEF RSLINK_VALID
<1>2. Sound(st, F, eq) /\ Single(st, eq) /\ ~Listed(st, eq, id)
  BY DEF EventLinks
<1>3. Inserted(eq, eq2, link)
  OBVIOUS
<1> HIDE DEF link
<1>4. /\ Sound(st, F, eq2) /\ Single(st, eq2)
      /\ \A k : Listed(st, eq2, k) <=> Listed(st, eq, k) \/ k = id
  BY <1>1, <1>2, <1>3, InsertedList
<1>5. /\ Sound(st2, F, eq2) /\ Single(st2, eq2)
      /\ \A k : Listed(st2, eq2, k) <=> Listed(st, eq, k) \/ k = id
  BY <1>4, SameTagsSame
<1>6. ASSUME NEW k \in F PROVE Listed(st2, eq2, k) <=> st2[k].issued /\ ~st2[k].completed
  <2>1. CASE k = id
    BY <2>1, <1>5
  <2>2. CASE k # id
    BY <2>2, <1>5 DEF EventLinks, OthersRun
  <2> QED BY <2>1, <2>2
<1> QED BY <1>5, <1>6 DEF EventLinks

(* The links before the n-th are stale.                                    *)
NoneBefore(st, eq, n) == \A i \in 1 .. n - 1 : ~RSLINK_VALID(st, eq[i])

(* rest is what follows the n-th link of a list.                           *)
RestAfter(list, n, rest) == rest = SubSeq(list, n + 1, Len(list))

\* The first good event occurs: its station completes, stale ones are dropped.
LEMMA EventOccurs ==
  ASSUME NEW st \in [Ids -> StationSet], NEW st2 \in [Ids -> StationSet], NEW F \in SUBSET Ids,
         NEW eq \in Seq(LinkSet), NEW n \in DOMAIN eq, NEW link, link = eq[n],
         NEW id, id = link.rs, RSLINK_VALID(st, link), NoneBefore(st, eq, n),
         SameTags(st, st2), st2[id].completed,
         OthersRun(st, st2, F, id), EventLinks(st, F, eq),
         NEW rest, RestAfter(eq, n, rest)
  PROVE  EventLinks(st2, F, rest)
<1>1. n \in 0..Len(eq) /\ n > 0 /\ \A i \in 1..n - 1 : ~RSLINK_VALID(st, eq[i])
  BY DEF NoneBefore
<1>2. rest \in Seq(LinkSet)
  BY <1>1, SuffixList DEF RestAfter
<1>3. /\ Sound(st, F, rest) /\ Single(st, rest)
      /\ \A k : Listed(st, rest, k) <=> Listed(st, eq, k) /\ k # id
  <2>1. Sound(st, F, eq) /\ Single(st, eq)
    BY DEF EventLinks
  <2>2. /\ Sound(st, F, rest) /\ Single(st, rest)
        /\ \A k : Listed(st, rest, k) <=> Listed(st, eq, k) /\ (n > 0 /\ RSLINK_VALID(st, eq[n]) => k # eq[n].rs)
    BY <1>1, <2>1, ShortenedList DEF RestAfter
  <2> QED BY <2>2, <1>1
<1>4. /\ Sound(st2, F, rest) /\ Single(st2, rest)
      /\ \A k : Listed(st2, rest, k) <=> Listed(st, eq, k) /\ k # id
  <2>1. /\ Sound(st2, F, rest) <=> Sound(st, F, rest)
        /\ Single(st2, rest) <=> Single(st, rest)
        /\ \A k : Listed(st2, rest, k) <=> Listed(st, rest, k)
    BY <1>2, SameTagsSame
  <2> QED BY <1>3, <2>1
<1>5. ASSUME NEW k \in F PROVE Listed(st2, rest, k) <=> st2[k].issued /\ ~st2[k].completed
  <2>1. CASE k = id
    BY <2>1, <1>4
  <2>2. CASE k # id
    BY <2>2, <1>4 DEF EventLinks, OthersRun
  <2> QED BY <2>1, <2>2
<1> QED BY <1>4, <1>5 DEF EventLinks

\* Events that are all stale are dropped.
LEMMA EventsDropped ==
  ASSUME NEW st, NEW F, NEW eq \in Seq(LinkSet), NEW n \in 0..Len(eq),
         \A i \in 1..n : ~RSLINK_VALID(st, eq[i]), EventLinks(st, F, eq)
  PROVE  EventLinks(st, F, SubSeq(eq, n + 1, Len(eq)))
<1> DEFINE rest == SubSeq(eq, n + 1, Len(eq))
<1>1. /\ Sound(st, F, rest) /\ Single(st, rest)
      /\ \A k : Listed(st, rest, k) <=> Listed(st, eq, k)
  <2>1. /\ Sound(st, F, eq) /\ Single(st, eq)
        /\ \A i \in 1..n - 1 : ~RSLINK_VALID(st, eq[i])
        /\ n > 0 => ~RSLINK_VALID(st, eq[n])
    BY DEF EventLinks
  <2>2. /\ Sound(st, F, rest) /\ Single(st, rest)
        /\ \A k : Listed(st, rest, k) <=> Listed(st, eq, k) /\ (n > 0 /\ RSLINK_VALID(st, eq[n]) => k # eq[n].rs)
    BY <2>1, ShortenedList
  <2> QED BY <2>1, <2>2
<1> HIDE DEF rest
<1> QED BY <1>1 DEF EventLinks, rest

\* Time does not change whose events are in the queue.
LEMMA EventsAge ==
  ASSUME NEW st, NEW F, NEW eq \in Seq(LinkSet), NEW eq2 \in Seq(LinkSet),
         DOMAIN eq2 = DOMAIN eq,
         \A i \in DOMAIN eq : eq2[i].rs = eq[i].rs /\ eq2[i].tag = eq[i].tag,
         EventLinks(st, F, eq)
  PROVE  EventLinks(st, F, eq2)
<1>1. \A i \in DOMAIN eq : RSLINK_VALID(st, eq2[i]) <=> RSLINK_VALID(st, eq[i])
  BY DEF RSLINK_VALID
<1> QED BY <1>1 DEF EventLinks, Sound, Single, Listed

\* Stations that enter the rings have no links yet.
LEMMA NewStations ==
  ASSUME NEW st \in [Ids -> StationSet], NEW st2 \in [Ids -> StationSet], SameTags(st, st2),
         NEW F \in SUBSET Ids, NEW new \in SUBSET Ids, new \cap F = {},
         NEW rq \in Seq(LinkSet), NEW nd \in Seq(LinkSet), NEW eq \in Seq(LinkSet),
         ReadyLinks(st, F, rq, nd), EventLinks(st, F, eq),
         \A id \in new : ~st2[id].queued /\ ~st2[id].issued /\ ~st2[id].completed,
         \A id \in F : /\ st2[id].queued = st[id].queued /\ st2[id].issued = st[id].issued
                       /\ st2[id].completed = st[id].completed
  PROVE  ReadyLinks(st2, F \cup new, rq, nd) /\ EventLinks(st2, F \cup new, eq)
<1>1. ASSUME NEW list \in Seq(LinkSet), Sound(st, F, list), Single(st, list)
      PROVE  /\ Sound(st2, F \cup new, list) /\ Single(st2, list)
             /\ \A id \in new : ~Listed(st2, list, id)
             /\ \A id \in F : Listed(st2, list, id) <=> Listed(st, list, id)
  <2>1. /\ Sound(st2, F, list) /\ Single(st2, list)
        /\ \A id : Listed(st2, list, id) <=> Listed(st, list, id)
    BY <1>1, SameTagsSame
  <2>2. Sound(st2, F \cup new, list) /\ \A id \in new : ~Listed(st2, list, id)
    BY <2>1 DEF Sound, Listed
  <2> QED BY <2>1, <2>2
<1>2. EventLinks(st2, F \cup new, eq)
  BY <1>1 DEF EventLinks
<1>3. ReadyLinks(st2, F \cup new, rq, nd)
  BY <1>1 DEF ReadyLinks
<1> QED BY <1>2, <1>3

-----------------------------------------------------------------------------
(* Waking the operands of an output chain.                                 *)

\* What only changes in a station when it is filled, issued or completed.
SameFields(st, st2) ==
    \A id \in Ids :
        /\ st2[id].op = st[id].op /\ st2[id].PC = st[id].PC
        /\ st2[id].next_PC = st[id].next_PC /\ st2[id].addr = st[id].addr
        /\ st2[id].in_LSQ = st[id].in_LSQ /\ st2[id].ea_comp = st[id].ea_comp
        /\ st2[id].recover_inst = st[id].recover_inst
        /\ st2[id].spec_mode = st[id].spec_mode /\ st2[id].tag = st[id].tag
        /\ st2[id].seq = st[id].seq /\ st2[id].issued = st[id].issued
        /\ st2[id].completed = st[id].completed /\ st2[id].onames = st[id].onames
        /\ st2[id].odep_list = st[id].odep_list

\* Two steps that keep the fields keep them together.
LEMMA SameFieldsTransitive ==
  ASSUME NEW a, NEW b, NEW c, SameFields(a, b), SameFields(b, c)
  PROVE  SameFields(a, c)
BY DEF SameFields

\* Accesses are loads and stores.
AccessKinds(st) == \A id \in Ids : st[id].in_LSQ => st[id].op \in F_MEM

\* Marking an operand or a station as queued leaves the other fields alone.
LEMMA FlagsSameFields ==
  ASSUME NEW st \in [Ids -> StationSet], NEW id \in Ids, NEW b \in BOOLEAN
  PROVE  /\ SameFields(st, [st EXCEPT ![id].queued = b])
         /\ \A k \in 1..3 : SameFields(st, [st EXCEPT ![id].idep_ready[k] = b])
<1>1. \A j \in Ids : st[j] \in StationSet
  OBVIOUS
<1>2. SameFields(st, [st EXCEPT ![id].queued = b])
  BY ZenonT(60), <1>1 DEF SameFields, StationSet
<1>3. ASSUME NEW k \in 1..3 PROVE SameFields(st, [st EXCEPT ![id].idep_ready[k] = b])
  BY ZenonT(60), <1>1 DEF SameFields, StationSet
<1> QED BY <1>2, <1>3

\* What Wake does to a list state.
LEMMA WakeEffect ==
  ASSUME NEW q \in ListStates, NEW link \in OperandSet
  PROVE  LET w == Wake(q, link)
         IN /\ w \in ListStates
            /\ SameFields(q.station, w.station)
            /\ \A id \in Ids, k \in 1..3 : w.station[id].idep_ready[k] <=>
                 (q.station[id].idep_ready[k]
                    \/ (RSLINK_VALID(q.station, link) /\ id = link.rs /\ k = link.x))
<1> DEFINE st == q.station
           st2 == [st EXCEPT ![link.rs].idep_ready[link.x] = TRUE]
           woken == [q EXCEPT !.station[link.rs].idep_ready[link.x] = TRUE]
<1>1. link.rs \in Ids /\ link.x \in 1..3 /\ link.tag \in Nat
  BY DEF OperandSet
<1>2. st \in [Ids -> StationSet]
  BY DEF ListStates
<1>3. st2 \in [Ids -> StationSet] /\ SameFields(st, st2)
  BY <1>1, <1>2, FlagUpdates, FlagsSameFields
<1>4. woken = [q EXCEPT !.station = st2]
  BY DEF ListStates
<1>5. woken \in ListStates /\ woken.station = st2
  BY <1>3, <1>4 DEF ListStates
<1>6. ASSUME NEW id \in Ids, NEW k \in 1..3
      PROVE  st2[id].idep_ready[k] <=> (st[id].idep_ready[k] \/ (id = link.rs /\ k = link.x))
  <2>1. st[id] \in StationSet /\ st[id].idep_ready \in [1..3 -> BOOLEAN]
    BY <1>2, StationFields
  <2>2. st[link.rs] \in StationSet /\ st[link.rs].idep_ready \in [1..3 -> BOOLEAN]
    BY <1>1, <1>2, StationFields
  <2>3. CASE id = link.rs
    <3>1. st2[id] = [st[id] EXCEPT !.idep_ready = [st[id].idep_ready EXCEPT ![link.x] = TRUE]]
      BY <2>1, <2>3, <1>2 DEF StationSet
    <3>2. st2[id].idep_ready = [st[id].idep_ready EXCEPT ![link.x] = TRUE]
      BY <2>1, <3>1 DEF StationSet
    <3>3. st2[id].idep_ready[k] = IF k = link.x THEN TRUE ELSE st[id].idep_ready[k]
      <4> HIDE DEF st2, st
      <4> QED BY <2>1, <3>2, <1>1
    <3> QED BY <3>3, <2>3
  <2>4. CASE id # link.rs
    <3>1. st2[id] = st[id]
      BY <2>4, <1>2
    <3> QED BY <3>1, <2>4
  <2> QED BY <2>3, <2>4
<1> HIDE DEF st2, woken
<1>7. CASE ~RSLINK_VALID(st, link)
  <2>1. Wake(q, link) = q
    BY <1>7 DEF Wake
  <2>2. SameFields(st, st)
    BY DEF SameFields
  <2>3. \A id \in Ids, k \in 1..3 : st[id].idep_ready[k] \in BOOLEAN
    BY <1>2, StationFields
  <2> QED BY <1>7, <2>1, <2>2, <2>3
<1>8. CASE RSLINK_VALID(st, link)
  <2> DEFINE rs == woken.station[link.rs]
  <2>1. CASE ~(OPERANDS_READY(rs) /\ (rs.in_LSQ => IsStore(rs)))
    <3>1. Wake(q, link) = woken
      BY <1>8, <2>1 DEF Wake, woken
    <3> QED BY <1>3, <1>5, <1>6, <1>8, <3>1
  <2>2. CASE OPERANDS_READY(rs) /\ (rs.in_LSQ => IsStore(rs))
    <3> DEFINE e == readyq_enqueue(woken, link.rs)
    <3>1. Wake(q, link) = e
      BY <1>8, <2>2 DEF Wake, woken
    <3>2. e \in ListStates /\ e.station = [st2 EXCEPT ![link.rs].queued = TRUE]
      BY <1>1, <1>5, EnqueueEffect
    <3> HIDE DEF e
    <3>3. SameFields(st2, e.station)
      <4>1. SameFields(st2, [st2 EXCEPT ![link.rs].queued = TRUE])
        BY <1>1, <1>3, FlagsSameFields
      <4> QED BY <3>2, <4>1
    <3>4. SameFields(st, e.station)
      BY <1>3, <3>3, SameFieldsTransitive
    <3>5. ASSUME NEW id \in Ids, NEW k \in 1..3
          PROVE  e.station[id].idep_ready[k] = st2[id].idep_ready[k]
      <4>1. st2[id] \in StationSet
        BY <1>3
      <4> QED BY <4>1, <1>3, <3>2 DEF StationSet
    <3> QED BY <1>6, <1>8, <3>1, <3>2, <3>4, <3>5
  <2> QED BY <2>1, <2>2
<1> QED BY <1>7, <1>8

\* A woken station is enqueued only when its last operand becomes ready.
LEMMA WakeLinks ==
  ASSUME NEW q \in ListStates, NEW link \in OperandSet, NEW F \in SUBSET Ids,
         NEW nd \in Seq(LinkSet),
         RSLINK_VALID(q.station, link) => link.rs \in F,
         Waits(q.station, link), AccessKinds(q.station),
         ReadyLinks(q.station, F, q.ready_queue, nd), Progress(q.station, F, {})
  PROVE  LET w == Wake(q, link)
         IN ReadyLinks(w.station, F, w.ready_queue, nd) /\ Progress(w.station, F, {})
<1> DEFINE st == q.station
           st2 == [st EXCEPT ![link.rs].idep_ready[link.x] = TRUE]
           woken == [q EXCEPT !.station[link.rs].idep_ready[link.x] = TRUE]
           id == link.rs
<1>1. id \in Ids /\ link.x \in 1..3 /\ link.tag \in Nat
  BY DEF OperandSet
<1>2. st \in [Ids -> StationSet] /\ q.ready_queue \in Seq(LinkSet)
  BY DEF ListStates
<1>3. st2 \in [Ids -> StationSet] /\ SameFields(st, st2)
  BY <1>1, <1>2, FlagUpdates, FlagsSameFields
<1>4. woken = [q EXCEPT !.station = st2]
  BY DEF ListStates
<1>5. woken \in ListStates /\ woken.station = st2 /\ woken.ready_queue = q.ready_queue
  BY <1>3, <1>4 DEF ListStates
<1>6. ASSUME NEW k \in Ids
      PROVE  /\ st2[k].queued = st[k].queued /\ st2[k].issued = st[k].issued
             /\ st2[k].completed = st[k].completed /\ st2[k].tag = st[k].tag
             /\ st2[k].op = st[k].op /\ st2[k].in_LSQ = st[k].in_LSQ
             /\ k # id => st2[k].idep_ready = st[k].idep_ready
  <2>1. st[k] \in StationSet /\ st[id] \in StationSet
    BY <1>1, <1>2
  <2> QED BY <2>1, <1>2 DEF StationSet
<1>7. CASE ~RSLINK_VALID(st, link)
  <2>1. Wake(q, link) = q
    BY <1>7 DEF Wake
  <2> QED BY <2>1
<1>8. CASE RSLINK_VALID(st, link)
  <2>1. id \in F /\ ~OPERANDS_READY(st[id])
    BY <1>1, <1>8 DEF Waits, OPERANDS_READY
  <2>2. ~st[id].queued /\ ~st[id].issued /\ ~st[id].completed
    BY <2>1 DEF Progress
  <2> HIDE DEF st2, woken
  <2>3. ReadyLinks(st2, F, q.ready_queue, nd)
    <3>1. TagsGrow(st, st2, F, F)
      BY <1>2, <1>6, StationFields DEF TagsGrow
    <3>2. \A k \in F : st2[k].queued = st[k].queued
      BY <1>6
    <3> QED BY <1>2, <1>3, <3>1, <3>2, ReadyKept
  <2>4. ASSUME NEW k \in F, k # id
        PROVE  /\ st2[k].queued \/ st2[k].issued => OPERANDS_READY(st2[k])
               /\ ~(st2[k].queued /\ st2[k].issued)
               /\ st2[k].completed => st2[k].issued
               /\ OPERANDS_READY(st2[k]) => st2[k].queued \/ st2[k].issued \/ IsLoad(st2[k])
    <3>1. k \in Ids
      OBVIOUS
    <3> QED BY <3>1, <2>4, <1>6 DEF Progress, OPERANDS_READY, IsLoad
  <2> DEFINE rs == woken.station[link.rs]
  <2>5. rs = st2[id]
    BY <1>5
  <2>6. CASE ~(OPERANDS_READY(rs) /\ (rs.in_LSQ => IsStore(rs)))
    <3>1. Wake(q, link) = woken
      BY <1>8, <2>6 DEF Wake, woken
    <3>2. OPERANDS_READY(st2[id]) => IsLoad(st2[id])
      <4>1. st2[id].in_LSQ => st2[id].op \in F_MEM
        BY <1>1, <1>6 DEF AccessKinds
      <4> QED BY <2>5, <2>6, <4>1 DEF IsLoad, IsStore, F_MEM
    <3>3. Progress(st2, F, {})
      BY <1>1, <1>6, <2>2, <2>4, <3>2 DEF Progress
    <3> QED BY <1>5, <2>3, <3>1, <3>3
  <2>7. CASE OPERANDS_READY(rs) /\ (rs.in_LSQ => IsStore(rs))
    <3> DEFINE e == readyq_enqueue(woken, link.rs)
    <3>1. Wake(q, link) = e
      BY <1>8, <2>7 DEF Wake, woken
    <3>2. /\ e \in ListStates /\ e.station = [st2 EXCEPT ![id].queued = TRUE]
          /\ Inserted(q.ready_queue, e.ready_queue, Link(st2, id, st2[id].seq))
      BY <1>1, <1>5, EnqueueEffect
    <3> HIDE DEF e
    <3>3. /\ e.station \in [Ids -> StationSet] /\ e.ready_queue \in Seq(LinkSet)
          /\ st2[id].seq \in Int
      BY SMTT(30), <3>2, <1>1, <1>3, StationFields DEF ListStates
    <3>4. ASSUME NEW k \in Ids
          PROVE  /\ e.station[k].tag = st2[k].tag
                 /\ e.station[k].queued = IF k = id THEN TRUE ELSE st2[k].queued
                 /\ e.station[k].issued = st2[k].issued
                 /\ e.station[k].completed = st2[k].completed
                 /\ e.station[k].idep_ready = st2[k].idep_ready
                 /\ e.station[k].op = st2[k].op
      <4>1. st2[k] \in StationSet
        BY <1>3
      <4> QED BY <4>1, <1>3, <3>2 DEF StationSet
    <3>5. ReadyLinks(e.station, F, e.ready_queue, nd)
      <4>1. SameTags(st2, e.station)
        BY <3>4 DEF SameTags
      <4>2. e.station[id].queued /\ ~st2[id].queued
        BY <1>1, <1>6, <2>2, <3>4
      <4>3. \A k \in F : k # id => e.station[k].queued = st2[k].queued
        BY <3>4
      <4> DEFINE rq == q.ready_queue
                 rq2 == e.ready_queue
                 st3 == e.station
                 seq == st2[id].seq
      <4>4. /\ st2 \in [Ids -> StationSet] /\ st3 \in [Ids -> StationSet]
            /\ rq \in Seq(LinkSet) /\ rq2 \in Seq(LinkSet) /\ seq \in Int /\ id \in F
            /\ Inserted(rq, rq2, Link(st2, id, seq)) /\ SameTags(st2, st3)
            /\ st3[id].queued /\ ~st2[id].queued
            /\ \A k \in F : k # id => st3[k].queued = st2[k].queued
            /\ ReadyLinks(st2, F, rq, nd)
        BY <1>2, <1>3, <2>1, <2>3, <3>2, <3>3, <4>1, <4>2, <4>3
      <4> HIDE DEF id, rq, rq2, st3, seq
      <4>5. ReadyLinks(st3, F, rq2, nd)
        BY <4>4, ReadyEnqueued
      <4> QED BY <4>5 DEF st3, rq2
    <3>6. OPERANDS_READY(e.station[id])
      BY <1>1, <2>5, <2>7, <3>4 DEF OPERANDS_READY
    <3>7. Progress(e.station, F, {})
      <4>1. ASSUME NEW k \in F
            PROVE  /\ e.station[k].queued \/ e.station[k].issued => OPERANDS_READY(e.station[k])
                   /\ ~(e.station[k].queued /\ e.station[k].issued)
                   /\ e.station[k].completed => e.station[k].issued
                   /\ OPERANDS_READY(e.station[k])
                        => e.station[k].queued \/ e.station[k].issued \/ IsLoad(e.station[k])
        <5>1. k \in Ids
          OBVIOUS
        <5>2. CASE k = id
          BY <5>1, <5>2, <1>6, <2>2, <3>4, <3>6
        <5>3. CASE k # id
          BY <5>1, <5>3, <2>4, <3>4 DEF OPERANDS_READY, IsLoad
        <5> QED BY <5>2, <5>3
      <4> QED BY <4>1 DEF Progress
    <3> QED BY <3>1, <3>5, <3>7
  <2> QED BY <2>6, <2>7
<1> QED BY <1>7, <1>8

\* The links of a list from place n on are all that is left of an output chain.
Outstanding(st, F, ids, links, n) ==
    /\ Sound(st, F, links)
    /\ \A i \in DOMAIN links : i >= n => Waits(st, links[i])
    /\ \A i, j \in DOMAIN links :
          i >= n /\ j >= n /\ RSLINK_VALID(st, links[i]) /\ links[i] = links[j] => i = j
    /\ \A i \in DOMAIN links, p \in ids, j \in 1 .. 2 :
          i >= n /\ RSLINK_VALID(st, links[i]) =>
            \A m \in DOMAIN st[p].odep_list[j] : st[p].odep_list[j][m] # links[i]

\* Good links to an operand are equal.
LEMMA SameOperand ==
  ASSUME NEW st, NEW a \in OperandSet, NEW b \in OperandSet,
         RSLINK_VALID(st, a), RSLINK_VALID(st, b), a.rs = b.rs, a.x = b.x
  PROVE  a = b
BY DEF OperandSet, RSLINK_VALID

\* A woken link leaves the operands of all other links as they are.
LEMMA WakeChains ==
  ASSUME NEW q \in ListStates, NEW links \in Seq(OperandSet), NEW n \in DOMAIN links,
         NEW F \in SUBSET Ids, NEW ids \in SUBSET Ids,
         ChainLinks(q.station, F, ids), Outstanding(q.station, F, ids, links, n)
  PROVE  LET w == Wake(q, links[n])
         IN ChainLinks(w.station, F, ids) /\ Outstanding(w.station, F, ids, links, n + 1)
<1> DEFINE st == q.station
           st2 == Wake(q, links[n]).station
<1>1. links[n] \in OperandSet /\ n \in Nat
  OBVIOUS
<1>2. /\ st \in [Ids -> StationSet] /\ SameFields(st, st2)
      /\ \A id \in Ids, k \in 1..3 : st2[id].idep_ready[k] <=>
           (st[id].idep_ready[k]
              \/ (RSLINK_VALID(st, links[n]) /\ id = links[n].rs /\ k = links[n].x))
  BY <1>1, WakeEffect DEF ListStates
<1> HIDE DEF st, st2
<1>3. ChainLinks(st, F, ids) /\ Outstanding(st, F, ids, links, n)
  BY DEF st
<1>4. SameTags(st, st2) /\ \A id \in Ids : st2[id].odep_list = st[id].odep_list
  BY <1>2 DEF SameFields, SameTags
<1>5. ASSUME NEW a \in OperandSet, Waits(st, a),
             RSLINK_VALID(st, links[n]) => a # links[n]
      PROVE  Waits(st2, a)
  <2>1. a.rs \in Ids /\ a.x \in 1..3
    BY DEF OperandSet
  <2>2. RSLINK_VALID(st2, a) <=> RSLINK_VALID(st, a)
    BY <2>1, <1>4 DEF SameTags, RSLINK_VALID
  <2>3. SUFFICES ASSUME RSLINK_VALID(st, a), st2[a.rs].idep_ready[a.x] PROVE FALSE
    BY <2>2 DEF Waits
  <2>4. ~st[a.rs].idep_ready[a.x]
    BY <2>3, <1>5 DEF Waits
  <2>5. RSLINK_VALID(st, links[n]) /\ a.rs = links[n].rs /\ a.x = links[n].x
    BY <2>1, <2>3, <2>4, <1>2
  <2> QED BY <2>3, <2>5, <1>1, <1>5, SameOperand
<1>6. ASSUME NEW p \in ids, NEW j \in 1..2
      PROVE  /\ st2[p].odep_list[j] = st[p].odep_list[j]
             /\ st[p].odep_list[j] \in Seq(OperandSet)
             /\ Sound(st2, F, st[p].odep_list[j])
             /\ \A m \in DOMAIN st[p].odep_list[j] :
                  /\ st[p].odep_list[j][m] \in OperandSet
                  /\ RSLINK_VALID(st2, st[p].odep_list[j][m])
                        <=> RSLINK_VALID(st, st[p].odep_list[j][m])
  <2>1. st2[p].odep_list[j] = st[p].odep_list[j]
    BY <1>4
  <2> DEFINE chain == st[p].odep_list[j]
  <2>2. chain \in Seq(OperandSet)
    BY <1>2, StationFields
  <2>3. Sound(st, F, chain)
    BY <1>3 DEF ChainLinks
  <2> HIDE DEF chain
  <2>4. /\ Sound(st2, F, chain)
        /\ \A m \in DOMAIN chain : RSLINK_VALID(st2, chain[m]) <=> RSLINK_VALID(st, chain[m])
    BY <2>2, <2>3, <1>4, SameTagsSame
  <2>5. \A m \in DOMAIN chain : chain[m] \in OperandSet
    BY <2>2, LinkFields
  <2> QED BY <2>1, <2>2, <2>4, <2>5 DEF chain
<1>7. ASSUME NEW p \in ids, NEW j \in 1..2, NEW m \in DOMAIN st[p].odep_list[j]
      PROVE  Waits(st2, st[p].odep_list[j][m])
  <2>1. RSLINK_VALID(st, links[n]) => st[p].odep_list[j][m] # links[n]
    BY <1>1, <1>3 DEF Outstanding
  <2>2. Waits(st, st[p].odep_list[j][m])
    BY <1>3 DEF ChainLinks
  <2> QED BY <2>1, <2>2, <1>5, <1>6
<1>8. ChainLinks(st2, F, ids)
  <2>1. ASSUME NEW p \in ids, NEW j \in 1..2
        PROVE  /\ Sound(st2, F, st2[p].odep_list[j])
               /\ \A m \in DOMAIN st2[p].odep_list[j] : Waits(st2, st2[p].odep_list[j][m])
    BY <1>6, <1>7
  <2>2. ASSUME NEW p \in ids, NEW r \in ids, NEW i \in 1..2, NEW j \in 1..2,
               NEW m \in DOMAIN st2[p].odep_list[i], NEW k \in DOMAIN st2[r].odep_list[j],
               RSLINK_VALID(st2, st2[p].odep_list[i][m]),
               st2[p].odep_list[i][m] = st2[r].odep_list[j][k]
        PROVE  p = r /\ i = j /\ m = k
    <3>1. /\ st2[p].odep_list[i] = st[p].odep_list[i]
          /\ st2[r].odep_list[j] = st[r].odep_list[j]
      BY <1>6
    <3>2. m \in DOMAIN st[p].odep_list[i] /\ k \in DOMAIN st[r].odep_list[j]
      BY <3>1
    <3>3. RSLINK_VALID(st, st[p].odep_list[i][m])
      BY <2>2, <3>1, <3>2, <1>6
    <3>4. st[p].odep_list[i][m] = st[r].odep_list[j][k]
      BY <2>2, <3>1
    <3> QED BY SMTT(30), <3>2, <3>3, <3>4, <1>3 DEF ChainLinks
  <2> QED BY SMTT(30), <2>1, <2>2 DEF ChainLinks
<1>9. Outstanding(st2, F, ids, links, n + 1)
  <2>1. /\ Sound(st2, F, links)
        /\ \A i \in DOMAIN links : RSLINK_VALID(st2, links[i]) <=> RSLINK_VALID(st, links[i])
    BY <1>3, <1>4, SameTagsSame DEF Outstanding
  <2>2. \A i \in DOMAIN links : i \in Nat /\ (i >= n + 1 => i >= n /\ i # n)
    BY <1>1
  <2>3. ASSUME NEW i \in DOMAIN links, i >= n + 1 PROVE Waits(st2, links[i])
    <3>1. i >= n /\ i # n /\ n >= n /\ links[i] \in OperandSet
      BY <2>2, <2>3, <1>1
    <3>2. RSLINK_VALID(st, links[n]) => links[i] # links[n]
      BY <3>1, <1>3 DEF Outstanding
    <3>3. Waits(st, links[i])
      BY <3>1, <1>3 DEF Outstanding
    <3> QED BY <3>1, <3>2, <3>3, <1>5
  <2>4. \A i, j \in DOMAIN links :
          i >= n + 1 /\ j >= n + 1 /\ RSLINK_VALID(st2, links[i]) /\ links[i] = links[j] => i = j
    BY <2>1, <2>2, <1>3 DEF Outstanding
  <2>5. \A i \in DOMAIN links, p \in ids, j \in 1..2 :
          i >= n + 1 /\ RSLINK_VALID(st2, links[i]) =>
            \A m \in DOMAIN st2[p].odep_list[j] : st2[p].odep_list[j][m] # links[i]
    BY SMTT(30), <2>1, <2>2, <1>3, <1>6 DEF Outstanding
  <2> QED BY <2>1, <2>3, <2>4, <2>5 DEF Outstanding
<1> QED BY <1>8, <1>9 DEF st2

\* The loop that wakes the links of a chain, state by state.
LEMMA WokenStates ==
  ASSUME NEW q \in ListStates, NEW links \in Seq(OperandSet)
  PROVE  \E f \in [0..Len(links) -> ListStates] :
            /\ f[0] = q
            /\ \A n \in 1..Len(links) : f[n] = Wake(f[n - 1], links[n])
            /\ Woken(q, links) = f[Len(links)]
<1> DEFINE N == Len(links)
           G == [n \in 1..N |-> [u \in ListStates |-> Wake(u, links[n])]]
           Is(f) == f = [n \in 0..N |-> IF n = 0 THEN q ELSE Wake(f[n - 1], links[n])]
           W == CHOOSE f : Is(f)
<1>1. N \in Nat
  OBVIOUS
<1>2. G \in [1..N -> [ListStates -> ListStates]]
  <2>1. ASSUME NEW n \in 1..N, NEW u \in ListStates PROVE Wake(u, links[n]) \in ListStates
    <3>1. links[n] \in OperandSet
      OBVIOUS
    <3> QED BY <3>1, WakeEffect
  <2> QED BY <2>1
<1>3. PICK g \in [0..N -> ListStates] : g[0] = q /\ \A n \in 1..N : g[n] = G[n][g[n - 1]]
  <2> DEFINE U == ListStates
  <2>1. q \in U
    OBVIOUS
  <2>2. G \in [1..N -> [U -> U]]
    BY <1>2
  <2> HIDE DEF N, G, U
  <2>3. \E g \in [0..N -> U] : Loop(g, q, N, G)
    BY <1>1, <2>1, <2>2, LoopStates
  <2> QED BY <2>3 DEF U, Loop
<1>4. \A n \in 1..N : n - 1 \in 0..N /\ n # 0
  BY <1>1
<1>5. \A n \in 1..N : g[n] = Wake(g[n - 1], links[n])
  BY <1>3, <1>4
<1>6. Is(g)
  <2>1. \A n \in 0..N : g[n] = IF n = 0 THEN q ELSE Wake(g[n - 1], links[n])
    BY <1>1, <1>3, <1>5
  <2> QED BY <2>1
<1>7. Is(W)
  <2> HIDE DEF Is
  <2> QED BY <1>6
<1>8. Woken(q, links) = W[N]
  BY DEF Woken
<1> HIDE DEF W
<1>9. W[0] = q /\ \A n \in 1..N : W[n] = Wake(W[n - 1], links[n])
  <2>1. W = [n \in 0..N |-> IF n = 0 THEN q ELSE Wake(W[n - 1], links[n])]
    BY <1>7
  <2>2. 0 \in 0..N /\ \A n \in 1..N : n \in 0..N /\ n # 0
    BY <1>1
  <2> QED BY <2>1, <2>2
<1> DEFINE P == {n \in 0..N : W[n] \in ListStates}
<1>10. P = 0..N
  <2>1. 0 \in P
    BY <1>1, <1>9
  <2>2. ASSUME NEW n \in 1..N, n - 1 \in P PROVE n \in P
    <3>1. W[n] = Wake(W[n - 1], links[n]) /\ links[n] \in OperandSet /\ W[n - 1] \in ListStates
      BY <1>9, <2>2
    <3>2. \A u \in ListStates : Wake(u, links[n]) \in ListStates
      BY <3>1, WakeEffect
    <3>3. W[n] \in ListStates
      BY <3>1, <3>2
    <3> QED BY <3>3, <1>1
  <2>3. P \in SUBSET (0..N)
    OBVIOUS
  <2> HIDE DEF P, N
  <2> QED BY <1>1, <2>1, <2>2, <2>3, Iteration
<1>11. W \in [0..N -> ListStates]
  <2>1. DOMAIN W = 0..N /\ W = [n \in DOMAIN W |-> W[n]]
    BY <1>7
  <2> QED BY <2>1, <1>10
<1> QED BY <1>8, <1>9, <1>11

\* A whole output chain is woken: nothing is queued twice, and what was
\* complete of its operands is queued.
LEMMA WokenEffect ==
  ASSUME NEW q \in ListStates, NEW links \in Seq(OperandSet), NEW F \in SUBSET Ids,
         NEW nd \in Seq(LinkSet), NEW ids \in SUBSET Ids,
         ReadyLinks(q.station, F, q.ready_queue, nd), Progress(q.station, F, {}),
         AccessKinds(q.station), ChainLinks(q.station, F, ids),
         Outstanding(q.station, F, ids, links, 1)
  PROVE  LET w == Woken(q, links)
         IN /\ w \in ListStates /\ SameFields(q.station, w.station)
            /\ ReadyLinks(w.station, F, w.ready_queue, nd) /\ Progress(w.station, F, {})
            /\ ChainLinks(w.station, F, ids)
<1> DEFINE N == Len(links)
<1>1. N \in Nat /\ DOMAIN links = 1..N
  OBVIOUS
<1>2. PICK f \in [0..N -> ListStates] :
         /\ f[0] = q
         /\ \A n \in 1..N : f[n] = Wake(f[n - 1], links[n])
         /\ Woken(q, links) = f[N]
  BY WokenStates
<1> DEFINE Good(n) ==
             /\ ReadyLinks(f[n].station, F, f[n].ready_queue, nd)
             /\ Progress(f[n].station, F, {}) /\ AccessKinds(f[n].station)
             /\ ChainLinks(f[n].station, F, ids)
             /\ Outstanding(f[n].station, F, ids, links, n + 1)
             /\ SameFields(q.station, f[n].station)
           P == {n \in 0..N : Good(n)}
<1>3. Good(0)
  <2>1. f[0] = q /\ 0 + 1 = 1
    BY <1>2
  <2>2. SameFields(q.station, q.station)
    BY DEF SameFields
  <2> QED BY <2>1, <2>2
<1>4. ASSUME NEW n \in 1..N, Good(n - 1) PROVE Good(n)
  <2> DEFINE u == f[n - 1]
             w == Wake(u, links[n])
  <2>1. /\ n - 1 \in 0..N /\ (n - 1) + 1 = n /\ n \in DOMAIN links /\ n \in Nat
        /\ links[n] \in OperandSet
    BY <1>1
  <2>2. u \in ListStates /\ f[n] = w
    BY <1>2, <2>1
  <2>3. /\ ReadyLinks(u.station, F, u.ready_queue, nd)
        /\ Progress(u.station, F, {}) /\ AccessKinds(u.station)
        /\ ChainLinks(u.station, F, ids)
        /\ Outstanding(u.station, F, ids, links, n)
        /\ SameFields(q.station, u.station)
    BY <1>4, <2>1
  <2> HIDE DEF u, N, Good
  <2>4. Waits(u.station, links[n]) /\ (RSLINK_VALID(u.station, links[n]) => links[n].rs \in F)
    BY <2>1, <2>3 DEF Outstanding, Sound
  <2>5. SameFields(u.station, w.station)
    BY <2>1, <2>2, WakeEffect
  <2>6. ReadyLinks(w.station, F, w.ready_queue, nd) /\ Progress(w.station, F, {})
    BY <2>1, <2>2, <2>3, <2>4, WakeLinks
  <2>7. ChainLinks(w.station, F, ids) /\ Outstanding(w.station, F, ids, links, n + 1)
    BY <2>1, <2>2, <2>3, WakeChains
  <2> HIDE DEF w
  <2>8. AccessKinds(w.station)
    BY <2>3, <2>5 DEF AccessKinds, SameFields
  <2>9. SameFields(q.station, w.station)
    BY <2>3, <2>5, SameFieldsTransitive
  <2> QED BY <2>2, <2>6, <2>7, <2>8, <2>9 DEF Good
<1>5. P = 0..N
  <2>1. 0 \in P /\ P \in SUBSET (0..N) /\ \A n \in 1..N : n - 1 \in P => n \in P
    <3> HIDE DEF Good, N
    <3> QED BY <1>1, <1>3, <1>4
  <2> HIDE DEF P, N
  <2> QED BY <1>1, <2>1, Iteration
<1>6. Good(N) /\ f[N] \in ListStates
  <2> HIDE DEF Good, N
  <2> QED BY <1>1, <1>2, <1>5
<1> QED BY <1>2, <1>6

-----------------------------------------------------------------------------
(* The scan of the load/store queue.                                       *)

\* What lsq_refresh works on.
ScanStates == [q : ListStates, stop : BOOLEAN, std_unknowns : Seq(Nat)]

\* An entry of the queue is enqueued, when it waits for nothing, or skipped.
LEMMA RefreshEffect ==
  ASSUME NEW scan \in ScanStates, NEW id \in Ids
  PROVE  LET r == Refresh(scan, id)
             rs == scan.q.station[id]
         IN /\ r \in ScanStates
            /\ \/ r.q = scan.q
               \/ /\ r.q = readyq_enqueue(scan.q, id)
                  /\ ~rs.queued /\ ~rs.issued /\ ~rs.completed /\ OPERANDS_READY(rs)
<1> DEFINE q == scan.q
           rs == q.station[id]
           unknowns == scan.std_unknowns
           hidden == [i \in DOMAIN unknowns |->
                        IF unknowns[i] = rs.addr THEN 0 ELSE unknowns[i]]
           ready == IsLoad(rs) /\ (~rs.queued /\ ~rs.issued /\ ~rs.completed)
                      /\ OPERANDS_READY(rs) /\ ~Contains(unknowns, rs.addr)
<1>1. /\ scan.q \in ListStates /\ scan.stop \in BOOLEAN /\ unknowns \in Seq(Nat)
      /\ q.station \in [Ids -> StationSet]
  BY DEF ScanStates, ListStates
<1>2. rs.addr \in Nat
  BY <1>1, StationFields
<1>3. hidden \in Seq(Nat) /\ Append(unknowns, rs.addr) \in Seq(Nat)
  <2>1. \A i \in DOMAIN unknowns : (IF unknowns[i] = rs.addr THEN 0 ELSE unknowns[i]) \in Nat
    BY <1>1
  <2>2. DOMAIN unknowns = 1..Len(unknowns) /\ Len(unknowns) \in Nat
    BY <1>1
  <2> HIDE DEF rs, unknowns
  <2> QED BY <1>1, <1>2, <2>1, <2>2
<1>4. readyq_enqueue(q, id) \in ListStates
  BY <1>1, EnqueueEffect
<1>5. Refresh(scan, id) =
        IF scan.stop THEN scan
        ELSE IF IsStore(rs)
             THEN IF ~STORE_ADDR_READY(rs) THEN [scan EXCEPT !.stop = TRUE]
                  ELSE [scan EXCEPT !.std_unknowns =
                          IF OPERANDS_READY(rs) THEN hidden ELSE Append(unknowns, rs.addr)]
        ELSE IF ready THEN [scan EXCEPT !.q = readyq_enqueue(q, id)] ELSE scan
  <2>1. CASE scan.stop
    BY <2>1 DEF Refresh
  <2>2. CASE ~scan.stop /\ IsStore(rs)
    BY <2>2 DEF Refresh
  <2>3. CASE ~scan.stop /\ ~IsStore(rs)
    BY <2>3 DEF Refresh
  <2> QED BY <2>1, <2>2, <2>3
<1>6. ready => ~rs.queued /\ ~rs.issued /\ ~rs.completed /\ OPERANDS_READY(rs)
  OBVIOUS
<1> HIDE DEF hidden, ready, unknowns
<1>7. Refresh(scan, id) \in ScanStates
  <2>1. /\ [scan EXCEPT !.stop = TRUE] \in ScanStates
        /\ [scan EXCEPT !.std_unknowns = hidden] \in ScanStates
        /\ [scan EXCEPT !.std_unknowns = Append(unknowns, rs.addr)] \in ScanStates
        /\ [scan EXCEPT !.q = readyq_enqueue(q, id)] \in ScanStates
    <3> DEFINE e == readyq_enqueue(q, id)
               a == Append(unknowns, rs.addr)
    <3>1. e \in ListStates /\ a \in Seq(Nat)
      BY <1>3, <1>4
    <3> HIDE DEF e, a, q, rs
    <3> QED BY <1>1, <1>3, <3>1 DEF ScanStates, e, a
  <2> QED BY <1>5, <2>1
<1>8. \/ Refresh(scan, id).q = scan.q
      \/ ready /\ Refresh(scan, id).q = readyq_enqueue(q, id)
  <2>1. /\ [scan EXCEPT !.stop = TRUE].q = scan.q
        /\ \A u : [scan EXCEPT !.std_unknowns = u].q = scan.q
        /\ \A e : [scan EXCEPT !.q = e].q = e
    BY DEF ScanStates
  <2> QED BY <1>5, <2>1
<1> QED BY <1>6, <1>7, <1>8

(* f holds the states of the scan of the first N entries.                  *)
Scans(f, scan, lsq, N) ==
    /\ f[0] = scan
    /\ \A n \in 1 .. N : f[n] = Refresh(f[n - 1], lsq[n])
    /\ Refreshed(scan, lsq) = f[N]

\* The scan, entry by entry.
LEMMA RefreshedStates ==
  ASSUME NEW scan \in ScanStates, NEW lsq, NEW N \in Nat, Len(lsq) = N,
         \A n \in 1..N : lsq[n] \in Ids
  PROVE  \E f \in [0..N -> ScanStates] : Scans(f, scan, lsq, N)
<1> DEFINE G == [n \in 1..N |-> [u \in ScanStates |-> Refresh(u, lsq[n])]]
           Is(f) == f = [n \in 0..N |-> IF n = 0 THEN scan ELSE Refresh(f[n - 1], lsq[n])]
           W == CHOOSE f : Is(f)
<1>1. ASSUME NEW n \in 1..N, NEW u \in ScanStates PROVE Refresh(u, lsq[n]) \in ScanStates
  BY RefreshEffect
<1>2. G \in [1..N -> [ScanStates -> ScanStates]]
  BY <1>1
<1>3. PICK g \in [0..N -> ScanStates] : g[0] = scan /\ \A n \in 1..N : g[n] = G[n][g[n - 1]]
  <2> DEFINE U == ScanStates
  <2>1. scan \in U
    OBVIOUS
  <2>2. G \in [1..N -> [U -> U]]
    BY <1>2
  <2> HIDE DEF G, U
  <2>3. \E g \in [0..N -> U] : Loop(g, scan, N, G)
    BY <2>1, <2>2, LoopStates
  <2> QED BY <2>3 DEF U, Loop
<1>4. \A n \in 1..N : n - 1 \in 0..N /\ n # 0
  OBVIOUS
<1>5. Is(g)
  <2>1. \A n \in 1..N : g[n] = Refresh(g[n - 1], lsq[n])
    BY <1>3, <1>4
  <2>2. \A n \in 0..N : g[n] = IF n = 0 THEN scan ELSE Refresh(g[n - 1], lsq[n])
    BY <1>3, <2>1
  <2> QED BY <2>2
<1>6. Is(W)
  <2> HIDE DEF Is
  <2> QED BY <1>5
<1>7. Refreshed(scan, lsq) = W[N]
  BY DEF Refreshed
<1> HIDE DEF W
<1>8. W[0] = scan /\ \A n \in 1..N : W[n] = Refresh(W[n - 1], lsq[n])
  <2>1. W = [n \in 0..N |-> IF n = 0 THEN scan ELSE Refresh(W[n - 1], lsq[n])]
    BY <1>6
  <2>2. 0 \in 0..N /\ \A n \in 1..N : n \in 0..N /\ n # 0
    OBVIOUS
  <2> QED BY <2>1, <2>2
<1> DEFINE P == {n \in 0..N : W[n] \in ScanStates}
<1>9. P = 0..N
  <2>1. 0 \in P
    BY <1>8
  <2>2. ASSUME NEW n \in 1..N, n - 1 \in P PROVE n \in P
    <3>1. W[n] = Refresh(W[n - 1], lsq[n]) /\ W[n - 1] \in ScanStates
      BY <1>8, <2>2
    <3>2. W[n] \in ScanStates
      BY <3>1, <1>1
    <3> QED BY <3>2
  <2>3. P \in SUBSET (0..N)
    OBVIOUS
  <2> HIDE DEF P
  <2> QED BY <2>1, <2>2, <2>3, Iteration
<1>10. W \in [0..N -> ScanStates]
  <2>1. DOMAIN W = 0..N /\ W = [n \in DOMAIN W |-> W[n]]
    BY <1>6
  <2> QED BY <2>1, <1>9
<1> QED BY <1>7, <1>8, <1>10 DEF Scans

-----------------------------------------------------------------------------
(* Stations that are enqueued.                                             *)

\* A station that waits with its operands ready goes to the ready queue.
LEMMA EnqueueLinks ==
  ASSUME NEW q, q \in ListStates \/ q \in RenameStates, NEW F \in SUBSET Ids, NEW id \in F,
         NEW nd \in Seq(LinkSet), NEW new,
         ~q.station[id].queued, ~q.station[id].issued, OPERANDS_READY(q.station[id]),
         ReadyLinks(q.station, F, q.ready_queue, nd), Progress(q.station, F, new)
  PROVE  LET e == readyq_enqueue(q, id)
         IN /\ ReadyLinks(e.station, F, e.ready_queue, nd)
            /\ Progress(e.station, F, new \ {id}) /\ SameFields(q.station, e.station)
            /\ \A k \in Ids : /\ e.station[k].idep_ready = q.station[k].idep_ready
                              /\ k # id => e.station[k].queued = q.station[k].queued
<1> DEFINE e == readyq_enqueue(q, id)
           st == q.station
           st2 == e.station
           rq == q.ready_queue
           rq2 == e.ready_queue
           seq == st[id].seq
<1>1. id \in Ids /\ st \in [Ids -> StationSet] /\ rq \in Seq(LinkSet)
  BY DEF ListStates, RenameStates
<1>2. /\ st2 = [st EXCEPT ![id].queued = TRUE] /\ Inserted(rq, rq2, Link(st, id, seq))
      /\ rq2 \in Seq(LinkSet) /\ st2 \in [Ids -> StationSet] /\ seq \in Int
  <2>1. /\ e.station = [q.station EXCEPT ![id].queued = TRUE]
        /\ Inserted(q.ready_queue, e.ready_queue, Link(q.station, id, q.station[id].seq))
        /\ e \in ListStates \/ e \in RenameStates
    BY <1>1, EnqueueEffect
  <2> HIDE DEF e
  <2>2. e.ready_queue \in Seq(LinkSet) /\ e.station \in [Ids -> StationSet]
    BY <2>1 DEF ListStates, RenameStates
  <2>3. st[id].seq \in Int
    BY <1>1, StationFields
  <2> QED BY <2>1, <2>2, <2>3
<1> HIDE DEF e
<1>3. SameFields(st, st2)
  <2>1. SameFields(st, [st EXCEPT ![id].queued = TRUE])
    BY <1>1, FlagsSameFields
  <2> QED BY <1>2, <2>1
<1>4. ASSUME NEW k \in Ids
      PROVE  /\ st2[k].tag = st[k].tag /\ st2[k].queued = IF k = id THEN TRUE ELSE st[k].queued
             /\ st2[k].issued = st[k].issued /\ st2[k].completed = st[k].completed
             /\ st2[k].idep_ready = st[k].idep_ready /\ st2[k].op = st[k].op
  <2>1. st[k] \in StationSet /\ st2 = [st EXCEPT ![id].queued = TRUE]
    BY <1>1, <1>2
  <2> HIDE DEF st, st2
  <2> QED BY <2>1, <1>1 DEF StationSet
<1>5. ReadyLinks(st2, F, rq2, nd)
  <2>1. /\ st2[id].queued /\ ~st[id].queued /\ SameTags(st, st2)
        /\ \A k \in F : k # id => st2[k].queued = st[k].queued
        /\ ReadyLinks(st, F, rq, nd)
    BY <1>1, <1>4 DEF SameTags
  <2> HIDE DEF st, st2, rq, rq2, seq
  <2> QED BY <1>1, <1>2, <2>1, ReadyEnqueued
<1>6. Progress(st2, F, new \ {id})
  <2>1. ASSUME NEW k \in F
        PROVE  /\ st2[k].queued \/ st2[k].issued => OPERANDS_READY(st2[k])
               /\ ~(st2[k].queued /\ st2[k].issued)
               /\ st2[k].completed => st2[k].issued
               /\ OPERANDS_READY(st2[k]) /\ k \notin new \ {id}
                    => st2[k].queued \/ st2[k].issued \/ IsLoad(st2[k])
    <3>1. k \in Ids
      OBVIOUS
    <3>2. CASE k = id
      BY <3>1, <3>2, <1>4 DEF OPERANDS_READY, Progress
    <3>3. CASE k # id
      BY <3>1, <3>3, <1>4 DEF OPERANDS_READY, IsLoad, Progress
    <3> QED BY <3>2, <3>3
  <2> QED BY <2>1 DEF Progress
<1> QED BY <1>3, <1>4, <1>5, <1>6 DEF e

\* The scan of the load/store queue enqueues loads, each once.
LEMMA RefreshedEffect ==
  ASSUME NEW scan \in ScanStates, NEW lsq, NEW N \in Nat, Len(lsq) = N, NEW F \in SUBSET Ids,
         \A n \in 1..N : lsq[n] \in F,
         NEW nd \in Seq(LinkSet),
         ReadyLinks(scan.q.station, F, scan.q.ready_queue, nd), Progress(scan.q.station, F, {})
  PROVE  LET q == Refreshed(scan, lsq).q
         IN /\ q \in ListStates /\ SameFields(scan.q.station, q.station)
            /\ ReadyLinks(q.station, F, q.ready_queue, nd) /\ Progress(q.station, F, {})
            /\ \A k \in Ids : q.station[k].idep_ready = scan.q.station[k].idep_ready
<1>0. \A n \in 1..N : lsq[n] \in Ids
  OBVIOUS
<1>1. PICK f \in [0..N -> ScanStates] :
         /\ f[0] = scan
         /\ \A n \in 1..N : f[n] = Refresh(f[n - 1], lsq[n])
         /\ Refreshed(scan, lsq) = f[N]
  <2>1. \E f \in [0..N -> ScanStates] : Scans(f, scan, lsq, N)
    BY <1>0, RefreshedStates
  <2> QED BY <2>1 DEF Scans
<1> DEFINE Good(q) ==
             /\ q \in ListStates /\ SameFields(scan.q.station, q.station)
             /\ ReadyLinks(q.station, F, q.ready_queue, nd) /\ Progress(q.station, F, {})
             /\ \A k \in Ids : q.station[k].idep_ready = scan.q.station[k].idep_ready
           P == {n \in 0..N : Good(f[n].q)}
<1>2. Good(f[0].q)
  BY <1>1 DEF SameFields, ScanStates
<1>3. ASSUME NEW n \in 1..N, Good(f[n - 1].q) PROVE Good(f[n].q)
  <2> DEFINE u == f[n - 1]
             q == u.q
             id == lsq[n]
             r == Refresh(u, id)
             rs == q.station[id]
             e == readyq_enqueue(q, id)
  <2>1. n - 1 \in 0..N /\ id \in F /\ id \in Ids /\ f[n] = r /\ u \in ScanStates
    BY <1>1
  <2>2. \/ r.q = q
        \/ /\ r.q = e
           /\ ~rs.queued /\ ~rs.issued /\ ~rs.completed /\ OPERANDS_READY(rs)
    <3> HIDE DEF u
    <3> QED BY <2>1, RefreshEffect
  <2>3. /\ q \in ListStates /\ SameFields(scan.q.station, q.station)
        /\ ReadyLinks(q.station, F, q.ready_queue, nd) /\ Progress(q.station, F, {})
        /\ \A k \in Ids : q.station[k].idep_ready = scan.q.station[k].idep_ready
    BY <1>3
  <2>4. e \in ListStates
    <3> HIDE DEF q
    <3> QED BY <2>1, <2>3, EnqueueEffect
  <2>5. CASE r.q = q
    BY <2>1, <2>5, <1>3
  <2>6. CASE /\ r.q = e
             /\ ~rs.queued /\ ~rs.issued /\ ~rs.completed /\ OPERANDS_READY(rs)
    <3>1. /\ ReadyLinks(e.station, F, e.ready_queue, nd)
          /\ Progress(e.station, F, {} \ {id}) /\ SameFields(q.station, e.station)
          /\ \A k \in Ids : e.station[k].idep_ready = q.station[k].idep_ready
      <4> HIDE DEF q, id
      <4> QED BY <2>1, <2>3, <2>6, EnqueueLinks DEF rs
    <3> HIDE DEF e, q
    <3>2. {} \ {id} = {}
      OBVIOUS
    <3>3. SameFields(scan.q.station, e.station)
      BY <2>3, <3>1, SameFieldsTransitive
    <3>4. Good(e)
      BY <2>3, <2>4, <3>1, <3>2, <3>3
    <3> HIDE DEF Good
    <3> QED BY <2>1, <2>6, <3>4
  <2> HIDE DEF r, rs, e
  <2> QED BY <2>2, <2>5, <2>6
<1> HIDE DEF Good
<1>4. P = 0..N
  <2>1. 0 \in P /\ P \in SUBSET (0..N) /\ \A n \in 1..N : n - 1 \in P => n \in P
    BY <1>2, <1>3
  <2> HIDE DEF P
  <2> QED BY <2>1, Iteration
<1>5. Good(f[N].q)
  BY <1>4
<1> QED BY <1>1, <1>5 DEF Good

\* The rest of a list without its first element.
LEMMA RestOfList ==
  ASSUME NEW list \in Seq(LinkSet), NEW n \in 1..Len(list)
  PROVE  LET rest == SubSeq(list, n, Len(list))
         IN /\ rest \in Seq(LinkSet) /\ rest # <<>> /\ rest[1] = list[n]
            /\ Tail(rest) = SubSeq(list, n + 1, Len(list))
            /\ Tail(rest) = SubSeq(rest, 2, Len(rest))
<1> DEFINE rest == SubSeq(list, n, Len(list))
           next == SubSeq(list, n + 1, Len(list))
<1>1. /\ rest \in Seq(LinkSet) /\ Len(rest) = Len(list) - n + 1
      /\ \A i \in 1..Len(list) - n + 1 : rest[i] = list[n + i - 1]
  OBVIOUS
<1>2. /\ next \in Seq(LinkSet) /\ Len(next) = Len(list) - n
      /\ \A i \in 1..Len(list) - n : next[i] = list[n + 1 + i - 1]
  OBVIOUS
<1> HIDE DEF rest, next
<1>3. rest # <<>> /\ rest[1] = list[n]
  BY <1>1
<1>4. Tail(rest) \in Seq(LinkSet) /\ Len(Tail(rest)) = Len(rest) - 1
      /\ \A i \in 1..Len(rest) - 1 : Tail(rest)[i] = rest[i + 1]
  BY <1>1, <1>3
<1>5. Tail(rest) = next
  <2>1. Len(Tail(rest)) = Len(next)
    <3> DEFINE L == Len(list)
    <3>1. L \in Nat /\ n \in Nat
      OBVIOUS
    <3>2. Len(rest) = L - n + 1 /\ Len(Tail(rest)) = Len(rest) - 1 /\ Len(next) = L - n
      BY <1>1, <1>2, <1>4
    <3>3. (L - n + 1) - 1 = L - n
      <4> HIDE DEF L
      <4> QED BY <3>1
    <3> QED BY <3>2, <3>3
  <2>2. ASSUME NEW i \in 1..Len(next) PROVE Tail(rest)[i] = next[i]
    <3>1. i \in 1..Len(list) - n /\ i \in 1..Len(rest) - 1 /\ i + 1 \in 1..Len(list) - n + 1
      BY <1>1, <1>2
    <3>2. n + (i + 1) - 1 = n + 1 + i - 1
      OBVIOUS
    <3> QED BY <1>1, <1>2, <1>4, <3>1, <3>2
  <2> QED BY <1>2, <1>4, <2>1, <2>2, SeqEqual
<1>6. Tail(rest) = SubSeq(rest, 2, Len(rest))
  <2>1. ASSUME NEW s \in Seq(LinkSet), s # <<>> PROVE Tail(s) = SubSeq(s, 2, Len(s))
    <3> DEFINE t == Tail(s)
               u == SubSeq(s, 2, Len(s))
    <3>1. t \in Seq(LinkSet) /\ Len(t) = Len(s) - 1 /\ \A i \in 1..Len(s) - 1 : t[i] = s[i + 1]
      BY <2>1
    <3>2. u \in Seq(LinkSet) /\ Len(u) = Len(s) - 1 /\ \A i \in 1..Len(s) - 1 : u[i] = s[2 + i - 1]
      <4> DEFINE m == 1
      <4>1. m \in 1..Len(s)
        BY <2>1
      <4> HIDE DEF m
      <4> DEFINE v == SubSeq(s, m + 1, Len(s))
      <4>2. /\ v \in Seq(LinkSet) /\ Len(v) = Len(s) - m
            /\ \A i \in 1..Len(s) - m : v[i] = s[m + 1 + i - 1]
        BY <4>1
      <4>3. u = v /\ m = 1 /\ 1 + 1 = 2
        BY DEF m
      <4> HIDE DEF u, v
      <4> QED BY <4>2, <4>3
    <3>3. \A i \in 1..Len(s) - 1 : i + 1 = 2 + i - 1
      OBVIOUS
    <3> HIDE DEF t, u
    <3>4. t = u
      BY <3>1, <3>2, <3>3, SeqEqual
    <3> QED BY <3>4 DEF t, u
  <2> QED BY <1>1, <1>3, <2>1
<1> QED BY <1>1, <1>3, <1>5, <1>6 DEF rest, next

(* The same stations are queued, with nd still to visit.                   *)
Resettled(q, q2, F, nd) ==
    /\ q2 \in ListStates /\ SameFields(q.station, q2.station)
    /\ ReadyLinks(q2.station, F, q2.ready_queue, nd) /\ Progress(q2.station, F, {})
    /\ \A k \in Ids : q2.station[k].idep_ready = q.station[k].idep_ready
    /\ \A k \in F : q2.station[k].queued <=> q.station[k].queued

\* A link that is put back leaves one list for the other.
LEMMA PutBackEffect ==
  ASSUME NEW q \in ListStates, NEW F \in SUBSET Ids, NEW nd \in Seq(LinkSet), nd # <<>>,
         NEW link, link = nd[1],
         ReadyLinks(q.station, F, q.ready_queue, nd), Progress(q.station, F, {})
  PROVE  Resettled(q, PutBack(q, link), F, Tail(nd))
<1> DEFINE st == q.station
           rq == q.ready_queue
           rest == Tail(nd)
           id == link.rs
           st2 == [st EXCEPT ![id].queued = FALSE]
           taken == [q EXCEPT !.station[link.rs].queued = FALSE]
<1>1. /\ st \in [Ids -> StationSet] /\ rq \in Seq(LinkSet) /\ link \in LinkSet
      /\ id \in Ids /\ rest \in Seq(LinkSet)
  <2>1. nd[1] \in LinkSet /\ rest \in Seq(LinkSet)
    OBVIOUS
  <2> QED BY <2>1 DEF ListStates, LinkSet
<1>0. rest = SubSeq(nd, 2, Len(nd))
  <2> DEFINE one == 1
             r == SubSeq(nd, one, Len(nd))
  <2>1. one \in 1..Len(nd) /\ r = nd
    OBVIOUS
  <2> HIDE DEF one
  <2>2. Tail(r) = SubSeq(r, 2, Len(r))
    BY <2>1, RestOfList
  <2> HIDE DEF r
  <2> QED BY <2>1, <2>2
<1> HIDE DEF rest
<1>2. CASE ~RSLINK_VALID(st, link)
  <2>1. PutBack(q, link) = q
    BY <1>2 DEF PutBack
  <2>2. ReadyLinks(st, F, rq, rest)
    <3>1. ~RSLINK_VALID(st, nd[1]) /\ ReadyLinks(st, F, rq, nd)
      BY <1>2
    <3> HIDE DEF st, rq
    <3>2. ReadyLinks(st, F, rq, SubSeq(nd, 2, Len(nd)))
      BY <1>1, <3>1, ReadyDropped
    <3> QED BY <1>0, <3>2
  <2> QED BY <2>1, <2>2 DEF SameFields, Resettled, rest
<1>3. CASE RSLINK_VALID(st, link)
  <2>1. st2 \in [Ids -> StationSet] /\ SameFields(st, st2)
    BY <1>1, FlagUpdates, FlagsSameFields
  <2>2. taken = [q EXCEPT !.station = st2]
    BY DEF ListStates
  <2>3. taken \in ListStates /\ taken.station = st2 /\ taken.ready_queue = rq
    BY <2>1, <2>2 DEF ListStates
  <2>4. ASSUME NEW k \in Ids
        PROVE  /\ st2[k].tag = st[k].tag
               /\ st2[k].queued = IF k = id THEN FALSE ELSE st[k].queued
               /\ st2[k].issued = st[k].issued /\ st2[k].completed = st[k].completed
               /\ st2[k].idep_ready = st[k].idep_ready /\ st2[k].op = st[k].op
    <3>1. st[k] \in StationSet /\ st[id] \in StationSet
      BY <1>1
    <3> HIDE DEF st, id
    <3> QED BY <3>1, <1>1 DEF StationSet
  <2> HIDE DEF st2, taken
  <2>5. ReadyLinks(st2, F, rq, rest) /\ id \in F /\ st[id].queued
    <3>1. /\ RSLINK_VALID(st, nd[1]) /\ SameTags(st, st2) /\ ~st2[nd[1].rs].queued
          /\ \A k \in F : k # nd[1].rs => st2[k].queued = st[k].queued
          /\ ReadyLinks(st, F, rq, nd)
      BY <1>1, <1>3, <2>4 DEF SameTags
    <3> HIDE DEF st, rq
    <3>2. /\ ReadyLinks(st2, F, rq, SubSeq(nd, 2, Len(nd)))
          /\ nd[1].rs \in F /\ st[nd[1].rs].queued
      BY <1>1, <2>1, <3>1, ReadyTaken
    <3> QED BY <1>0, <3>2
  <2>6. OPERANDS_READY(st2[id]) /\ ~st2[id].issued /\ ~st2[id].queued
    BY <1>1, <2>4, <2>5 DEF Progress, OPERANDS_READY
  <2>7. Progress(st2, F, {id})
    <3>1. ASSUME NEW k \in F
          PROVE  /\ st2[k].queued \/ st2[k].issued => OPERANDS_READY(st2[k])
                 /\ ~(st2[k].queued /\ st2[k].issued)
                 /\ st2[k].completed => st2[k].issued
                 /\ OPERANDS_READY(st2[k]) /\ k \notin {id}
                      => st2[k].queued \/ st2[k].issued \/ IsLoad(st2[k])
      <4>1. k \in Ids
        OBVIOUS
      <4>2. CASE k = id
        BY <4>1, <4>2, <2>4, <2>6 DEF Progress
      <4>3. CASE k # id
        BY ZenonT(60), <4>1, <4>3, <2>4 DEF OPERANDS_READY, IsLoad, Progress
      <4> QED BY <4>2, <4>3
    <3> QED BY <3>1 DEF Progress
  <2> DEFINE b == readyq_enqueue(taken, id)
  <2>8. PutBack(q, link) = b
    BY <1>3 DEF PutBack, taken
  <2>9. /\ b \in ListStates /\ ReadyLinks(b.station, F, b.ready_queue, rest)
        /\ Progress(b.station, F, {id} \ {id}) /\ SameFields(st2, b.station)
        /\ \A k \in Ids : /\ b.station[k].idep_ready = st2[k].idep_ready
                          /\ k # id => b.station[k].queued = st2[k].queued
        /\ b.station[id].queued
    <3> HIDE DEF id
    <3>1. /\ ~taken.station[id].queued /\ ~taken.station[id].issued
          /\ OPERANDS_READY(taken.station[id])
          /\ ReadyLinks(taken.station, F, taken.ready_queue, rest)
          /\ Progress(taken.station, F, {id})
      BY <2>3, <2>5, <2>6, <2>7
    <3>2. b \in ListStates /\ b.station = [taken.station EXCEPT ![id].queued = TRUE]
      BY <1>1, <2>3, EnqueueEffect
    <3>3. /\ ReadyLinks(b.station, F, b.ready_queue, rest)
          /\ Progress(b.station, F, {id} \ {id}) /\ SameFields(taken.station, b.station)
          /\ \A k \in Ids : /\ b.station[k].idep_ready = taken.station[k].idep_ready
                            /\ k # id => b.station[k].queued = taken.station[k].queued
      BY <1>1, <2>3, <2>5, <3>1, EnqueueLinks
    <3> HIDE DEF b
    <3>4. b.station[id].queued
      <4>1. st2[id] \in StationSet
        BY <1>1, <2>1
      <4>2. b.station[id] = [st2[id] EXCEPT !.queued = TRUE]
        BY <1>1, <2>1, <2>3, <3>2
      <4> QED BY <4>1, <4>2 DEF StationSet
    <3> QED BY <2>3, <3>2, <3>3, <3>4
  <2> HIDE DEF b
  <2>10. SameFields(st, b.station)
    BY <2>1, <2>9, SameFieldsTransitive
  <2>11. {id} \ {id} = {}
    OBVIOUS
  <2>12. \A k \in F : b.station[k].queued <=> st[k].queued
    <3>1. ASSUME NEW k \in F PROVE b.station[k].queued <=> st[k].queued
      <4>1. CASE k = id
        BY <2>5, <2>9, <4>1
      <4>2. CASE k # id
        BY <2>4, <2>9, <4>2
      <4> QED BY <4>1, <4>2
    <3> QED BY <3>1
  <2>13. /\ SameFields(st, b.station) /\ ReadyLinks(b.station, F, b.ready_queue, rest)
         /\ Progress(b.station, F, {}) /\ b \in ListStates
         /\ \A k \in Ids : b.station[k].idep_ready = st[k].idep_ready
    BY <2>4, <2>9, <2>10, <2>11
  <2> QED BY <2>8, <2>12, <2>13 DEF Resettled, rest
<1> QED BY <1>2, <1>3

(* f holds the states in which the first links have been put back.         *)
PutsBack(f, q, links) ==
    /\ f[0] = q
    /\ \A n \in 1 .. Len(links) : f[n] = PutBack(f[n - 1], links[n])
    /\ AllPutBack(q, links) = f[Len(links)]

\* The links are put back one after the other.
LEMMA PutBackStates ==
  ASSUME NEW q \in ListStates, NEW links \in Seq(LinkSet)
  PROVE  \E f \in [0..Len(links) -> ListStates] : PutsBack(f, q, links)
<1> DEFINE N == Len(links)
           G == [n \in 1..N |-> [u \in ListStates |-> PutBack(u, links[n])]]
           Is(f) == f = [n \in 0..N |-> IF n = 0 THEN q ELSE PutBack(f[n - 1], links[n])]
           W == CHOOSE f : Is(f)
<1>1. ASSUME NEW n \in 1..N, NEW u \in ListStates PROVE PutBack(u, links[n]) \in ListStates
  <2> DEFINE link == links[n]
             st2 == [u.station EXCEPT ![link.rs].queued = FALSE]
             taken == [u EXCEPT !.station[link.rs].queued = FALSE]
  <2>1. link.rs \in Ids /\ u.station \in [Ids -> StationSet]
    <3>1. link \in LinkSet
      OBVIOUS
    <3> QED BY <3>1 DEF LinkSet, ListStates
  <2>2. st2 \in [Ids -> StationSet]
    BY <2>1, FlagUpdates
  <2>3. taken = [u EXCEPT !.station = st2]
    BY DEF ListStates
  <2>4. taken \in ListStates
    BY <2>2, <2>3 DEF ListStates
  <2> HIDE DEF taken
  <2>5. readyq_enqueue(taken, link.rs) \in ListStates
    BY <2>1, <2>4, EnqueueEffect
  <2> QED BY <2>5 DEF PutBack, taken
<1>2. G \in [1..N -> [ListStates -> ListStates]]
  BY <1>1
<1>3. PICK g \in [0..N -> ListStates] : g[0] = q /\ \A n \in 1..N : g[n] = G[n][g[n - 1]]
  <2> DEFINE U == ListStates
  <2>1. q \in U /\ N \in Nat
    OBVIOUS
  <2>2. G \in [1..N -> [U -> U]]
    BY <1>2
  <2> HIDE DEF G, U, N
  <2>3. \E g \in [0..N -> U] : Loop(g, q, N, G)
    BY <2>1, <2>2, LoopStates
  <2> QED BY <2>3 DEF U, Loop
<1>4. N \in Nat /\ \A n \in 1..N : n - 1 \in 0..N /\ n # 0
  OBVIOUS
<1>5. Is(g)
  <2>1. \A n \in 1..N : g[n] = PutBack(g[n - 1], links[n])
    BY <1>3, <1>4
  <2>2. \A n \in 0..N : g[n] = IF n = 0 THEN q ELSE PutBack(g[n - 1], links[n])
    BY <1>3, <2>1
  <2> HIDE DEF N
  <2> QED BY <2>2
<1>6. Is(W)
  <2> HIDE DEF Is
  <2> QED BY <1>5
<1>7. AllPutBack(q, links) = W[N]
  BY DEF AllPutBack
<1> HIDE DEF W, N
<1>8. W[0] = q /\ \A n \in 1..N : W[n] = PutBack(W[n - 1], links[n])
  <2>1. W = [n \in 0..N |-> IF n = 0 THEN q ELSE PutBack(W[n - 1], links[n])]
    BY <1>6
  <2>2. 0 \in 0..N /\ \A n \in 1..N : n \in 0..N /\ n # 0
    BY <1>4
  <2> QED BY <2>1, <2>2
<1> DEFINE P == {n \in 0..N : W[n] \in ListStates}
<1>9. P = 0..N
  <2>1. 0 \in P
    BY <1>4, <1>8
  <2>2. ASSUME NEW n \in 1..N, n - 1 \in P PROVE n \in P
    <3>1. W[n] = PutBack(W[n - 1], links[n]) /\ W[n - 1] \in ListStates
      BY <1>8, <2>2
    <3>2. W[n] \in ListStates
      BY <3>1, <1>1
    <3> QED BY <3>2
  <2>3. P \in SUBSET (0..N)
    OBVIOUS
  <2> HIDE DEF P
  <2> QED BY <1>4, <2>1, <2>2, <2>3, Iteration
<1>10. W \in [0..N -> ListStates]
  <2>1. DOMAIN W = 0..N /\ W = [n \in DOMAIN W |-> W[n]]
    BY <1>6
  <2> QED BY <2>1, <1>9
<1> QED BY <1>7, <1>8, <1>10 DEF PutsBack, N

\* What the issue width left over goes back to the ready queue.
LEMMA AllPutBackEffect ==
  ASSUME NEW q \in ListStates, NEW links \in Seq(LinkSet), NEW F \in SUBSET Ids,
         ReadyLinks(q.station, F, q.ready_queue, links), Progress(q.station, F, {})
  PROVE  Resettled(q, AllPutBack(q, links), F, <<>>)
<1> DEFINE N == Len(links)
           Rest(n) == SubSeq(links, n, N)
<1>1. N \in Nat /\ DOMAIN links = 1..N
  OBVIOUS
<1>2. PICK f \in [0..N -> ListStates] : PutsBack(f, q, links)
  BY PutBackStates
<1> DEFINE Good(u, rest) == Resettled(q, u, F, rest)
           P == {n \in 0..N : Good(f[n], Rest(n + 1))}
<1>3. Good(f[0], Rest(0 + 1))
  <2>1. f[0] = q
    BY <1>2 DEF PutsBack
  <2>2. Rest(0 + 1) = links
    OBVIOUS
  <2> QED BY <2>1, <2>2 DEF SameFields, Resettled
<1>4. ASSUME NEW n \in 1..N, Good(f[n - 1], Rest(n)) PROVE Good(f[n], Rest(n + 1))
  <2> DEFINE u == f[n - 1]
             rest == Rest(n)
             b == PutBack(u, links[n])
             next == Rest(n + 1)
  <2>1. n - 1 \in 0..N /\ u \in ListStates /\ f[n] = b
    BY <1>1, <1>2 DEF PutsBack
  <2>2. /\ rest \in Seq(LinkSet) /\ rest # <<>> /\ rest[1] = links[n]
        /\ next = Tail(rest)
    <3>1. LET r == SubSeq(links, n, Len(links))
          IN /\ r \in Seq(LinkSet) /\ r # <<>> /\ r[1] = links[n]
             /\ Tail(r) = SubSeq(links, n + 1, Len(links))
             /\ Tail(r) = SubSeq(r, 2, Len(r))
      BY <1>1, RestOfList
    <3> QED BY <3>1
  <2>3. /\ SameFields(q.station, u.station)
        /\ ReadyLinks(u.station, F, u.ready_queue, rest) /\ Progress(u.station, F, {})
        /\ \A k \in Ids : u.station[k].idep_ready = q.station[k].idep_ready
        /\ \A k \in F : u.station[k].queued <=> q.station[k].queued
    BY <1>4 DEF Resettled
  <2> HIDE DEF Good, u, rest, next, N
  <2>4. Resettled(u, b, F, next)
    <3> DEFINE link == links[n]
    <3>1. link = rest[1]
      BY <2>2
    <3> HIDE DEF link
    <3>2. Resettled(u, PutBack(u, link), F, Tail(rest))
      BY <2>1, <2>2, <2>3, <3>1, PutBackEffect
    <3> QED BY <2>2, <3>2 DEF link
  <2> HIDE DEF b
  <2>5. SameFields(q.station, b.station)
    BY <2>3, <2>4, SameFieldsTransitive DEF Resettled
  <2>6. Good(b, next)
    BY <2>3, <2>4, <2>5 DEF Good, Resettled
  <2> QED BY <2>1, <2>6 DEF next
<1> HIDE DEF Good, Rest
<1>5. P = 0..N
  <2>1. 0 \in P /\ P \in SUBSET (0..N)
    BY <1>1, <1>3
  <2>2. ASSUME NEW n \in 1..N, n - 1 \in P PROVE n \in P
    <3>1. Good(f[n - 1], Rest(n - 1 + 1)) /\ n - 1 + 1 = n
      BY <2>2
    <3>2. Good(f[n], Rest(n + 1))
      BY <1>4, <3>1
    <3> QED BY <3>2
  <2> HIDE DEF P, N
  <2> QED BY <1>1, <2>1, <2>2, Iteration
<1>6. Good(f[N], Rest(N + 1)) /\ f[N] \in ListStates
  <2>1. N \in 0..N
    BY <1>1
  <2> HIDE DEF N
  <2> QED BY <1>2, <1>5, <2>1
<1>7. Rest(N + 1) = <<>>
  BY <1>1 DEF Rest
<1>8. AllPutBack(q, links) = f[N]
  BY <1>2 DEF PutsBack
<1> QED BY <1>6, <1>7, <1>8 DEF Good

-----------------------------------------------------------------------------
(* Renaming.                                                               *)

(* Only the operands and outputs of id differ, and the output chains.      *)
Renames(st, st2, id) ==
    \A k \in Ids :
        /\ st2[k].op = st[k].op /\ st2[k].PC = st[k].PC
        /\ st2[k].next_PC = st[k].next_PC /\ st2[k].addr = st[k].addr
        /\ st2[k].in_LSQ = st[k].in_LSQ /\ st2[k].ea_comp = st[k].ea_comp
        /\ st2[k].recover_inst = st[k].recover_inst
        /\ st2[k].spec_mode = st[k].spec_mode /\ st2[k].tag = st[k].tag
        /\ st2[k].seq = st[k].seq /\ st2[k].queued = st[k].queued
        /\ st2[k].issued = st[k].issued /\ st2[k].completed = st[k].completed
        /\ k # id => st2[k].idep_ready = st[k].idep_ready /\ st2[k].onames = st[k].onames

(* No operand of id from the k-th on is in an output chain.                *)
Unchained(st, id, k) ==
    \A p \in Ids, j \in 1 .. 2 : \A n \in DOMAIN st[p].odep_list[j] :
        RSLINK_VALID(st, st[p].odep_list[j][n]) /\ st[p].odep_list[j][n].rs = id
          => st[p].odep_list[j][n].x < k

\* What two steps rename both do.
LEMMA RenamesTransitive ==
  ASSUME NEW a, NEW b, NEW c, NEW id, Renames(a, b, id), Renames(b, c, id)
  PROVE  Renames(a, c, id)
BY DEF Renames

\* A station without any link yet joins those in flight.
LEMMA FilledChains ==
  ASSUME NEW st \in [Ids -> StationSet], NEW st2 \in [Ids -> StationSet], SameTags(st, st2),
         NEW F \in SUBSET Ids, NEW new \in SUBSET Ids, new \cap F = {}, ChainLinks(st, F, Ids),
         \A p \in Ids : st2[p].odep_list = st[p].odep_list /\ st2[p].idep_ready = st[p].idep_ready
  PROVE  /\ ChainLinks(st2, F \cup new, Ids)
         /\ \A id \in new : Unchained(st2, id, 1)
<1>1. ASSUME NEW p \in Ids, NEW j \in 1..2, NEW n \in DOMAIN st[p].odep_list[j]
      PROVE  LET link == st[p].odep_list[j][n]
             IN /\ link = st2[p].odep_list[j][n]
                /\ st2[link.rs].tag = st[link.rs].tag
                /\ st2[link.rs].idep_ready = st[link.rs].idep_ready
  <2> DEFINE chain == st[p].odep_list[j]
  <2>1. chain \in Seq(OperandSet)
    BY StationFields
  <2> HIDE DEF chain
  <2>2. ASSUME NEW i \in DOMAIN chain PROVE chain[i].rs \in Ids
    BY <2>1, <2>2, LinkFields
  <2> QED BY <2>2 DEF SameTags, chain
<1>2. ASSUME NEW p \in Ids, NEW j \in 1..2
      PROVE  /\ st2[p].odep_list[j] = st[p].odep_list[j]
             /\ Sound(st2, F \cup new, st2[p].odep_list[j])
             /\ \A n \in DOMAIN st2[p].odep_list[j] : Waits(st2, st2[p].odep_list[j][n])
  <2> DEFINE chain == st[p].odep_list[j]
  <2>1. st2[p].odep_list[j] = chain
    BY Zenon
  <2>2. \A n \in DOMAIN chain : /\ st2[chain[n].rs].tag = st[chain[n].rs].tag
                                /\ st2[chain[n].rs].idep_ready = st[chain[n].rs].idep_ready
    BY Zenon, <1>1
  <2>3. Sound(st, F, chain) /\ \A n \in DOMAIN chain : Waits(st, chain[n])
    BY DEF ChainLinks
  <2> HIDE DEF chain
  <2>4. Sound(st2, F \cup new, chain)
    BY <2>2, <2>3 DEF Sound, RSLINK_VALID
  <2>5. \A n \in DOMAIN chain : Waits(st2, chain[n])
    BY <2>2, <2>3 DEF Waits, RSLINK_VALID
  <2> QED BY <2>1, <2>4, <2>5
<1>3. ASSUME NEW p \in Ids, NEW q \in Ids, NEW i \in 1..2, NEW j \in 1..2,
             NEW m \in DOMAIN st2[p].odep_list[i], NEW n \in DOMAIN st2[q].odep_list[j],
             RSLINK_VALID(st2, st2[p].odep_list[i][m]),
             st2[p].odep_list[i][m] = st2[q].odep_list[j][n]
      PROVE  p = q /\ i = j /\ m = n
  <2>1. st2[p].odep_list[i] = st[p].odep_list[i] /\ st2[q].odep_list[j] = st[q].odep_list[j]
    OBVIOUS
  <2>2. m \in DOMAIN st[p].odep_list[i] /\ n \in DOMAIN st[q].odep_list[j]
    BY Zenon, <2>1
  <2> DEFINE link == st[p].odep_list[i][m]
  <2>3. link = st2[p].odep_list[i][m] /\ st2[link.rs].tag = st[link.rs].tag
    BY <1>1, <2>2
  <2>4. RSLINK_VALID(st, link) /\ link = st[q].odep_list[j][n]
    <3> HIDE DEF link
    <3> QED BY <1>3, <2>1, <2>3 DEF RSLINK_VALID
  <2> QED BY <2>2, <2>4 DEF ChainLinks
<1>4. ASSUME NEW id \in new PROVE Unchained(st2, id, 1)
  <2>1. ASSUME NEW p \in Ids, NEW j \in 1..2, NEW n \in DOMAIN st2[p].odep_list[j],
               RSLINK_VALID(st2, st2[p].odep_list[j][n]), st2[p].odep_list[j][n].rs = id
        PROVE  FALSE
    <3>1. n \in DOMAIN st[p].odep_list[j] /\ RSLINK_VALID(st, st[p].odep_list[j][n])
      BY SMTT(30), <1>1, <1>2, <2>1 DEF RSLINK_VALID
    <3> DEFINE chain == st[p].odep_list[j]
    <3>2. Sound(st, F, chain)
      BY DEF ChainLinks
    <3>3. st2[p].odep_list[j] = chain
      OBVIOUS
    <3>4. n \in DOMAIN chain /\ RSLINK_VALID(st, chain[n]) /\ chain[n].rs = id
      BY <3>1, <3>3, <2>1
    <3> HIDE DEF chain
    <3>5. chain[n].rs \in F
      BY <3>2, <3>4 DEF Sound
    <3>6. id \in F
      BY Zenon, <3>4, <3>5
    <3> QED BY Zenon, <3>6
  <2> QED BY Zenon, <2>1 DEF Unchained
<1>5. ChainLinks(st2, F \cup new, Ids)
  <2>1. \A p \in Ids, j \in 1 .. 2 :
          /\ Sound(st2, F \cup new, st2[p].odep_list[j])
          /\ \A n \in DOMAIN st2[p].odep_list[j] : Waits(st2, st2[p].odep_list[j][n])
    BY <1>2
  <2>2. \A p, q \in Ids, i, j \in 1 .. 2 :
          \A m \in DOMAIN st2[p].odep_list[i], n \in DOMAIN st2[q].odep_list[j] :
             RSLINK_VALID(st2, st2[p].odep_list[i][m])
               /\ st2[p].odep_list[i][m] = st2[q].odep_list[j][n]
                  => p = q /\ i = j /\ m = n
    BY <1>3
  <2> QED BY <2>1, <2>2 DEF ChainLinks
<1> QED BY <1>4, <1>5

\* Only the stations differ.
SameVectors(c, d) == d.cv = c.cv /\ d.spec_cv = c.spec_cv /\ d.use = c.use

\* The vectors once output k of id, which makes r, is installed.
VectorsAfter(c, d, id, k, r) ==
    LET made == [rs |-> id, odep_num |-> k]
    IN IF r = NA THEN SameVectors(c, d)
       ELSE IF c.station[id].spec_mode
       THEN /\ d.cv = c.cv /\ d.use = c.use \cup {r}
            /\ d.spec_cv = [c.spec_cv EXCEPT ![r] = made]
       ELSE /\ d.cv = [c.cv EXCEPT ![r] = made]
            /\ d.spec_cv = c.spec_cv /\ d.use = c.use

\* Output k of id makes r; its chain starts empty.
Installed(c, d, id, k, r) ==
    /\ d.station[id].onames = [c.station[id].onames EXCEPT ![k] = r]
    /\ \A p \in Ids, j \in 1 .. 2 :
          d.station[p].odep_list[j] = IF r # NA /\ p = id /\ j = k THEN <<>>
                                      ELSE c.station[p].odep_list[j]
    /\ VectorsAfter(c, d, id, k, r)

\* An output is a name, and empties its chain.
LEMMA InstallExact ==
  ASSUME NEW c \in RenameStates, NEW id \in Ids, NEW k \in 1..2, NEW r \in Registers
  PROVE  LET d == ruu_install_odep(c, id, k, r)
         IN /\ d \in RenameStates /\ d.ready_queue = c.ready_queue
            /\ Renames(c.station, d.station, id)
            /\ d.station[id].idep_ready = c.station[id].idep_ready
            /\ Installed(c, d, id, k, r)
<1> DEFINE st == c.station
           st1 == [st EXCEPT ![id].onames[k] = r]
           st2 == [st1 EXCEPT ![id].odep_list[k] = <<>>]
           made == [rs |-> id, odep_num |-> k]
           named == [c EXCEPT !.station[id].onames[k] = r]
           new == [named EXCEPT !.station[id].odep_list[k] = <<>>]
           d == ruu_install_odep(c, id, k, r)
<1>1. st \in [Ids -> StationSet] /\ st[id] \in StationSet
  BY DEF RenameStates
<1>2. st1 \in [Ids -> StationSet] /\ st1[id] = [st[id] EXCEPT !.onames[k] = r]
      /\ st1[id] \in StationSet /\ \A p \in Ids : p # id => st1[p] = st[p]
  <2>1. [st[id] EXCEPT !.onames[k] = r] \in StationSet
    BY <1>1 DEF StationSet
  <2> QED BY <1>1, <2>1
<1>3. st2 \in [Ids -> StationSet] /\ st2[id] = [st1[id] EXCEPT !.odep_list[k] = <<>>]
      /\ \A p \in Ids : p # id => st2[p] = st1[p]
  <2> HIDE DEF st1
  <2>1. [st1[id] EXCEPT !.odep_list[k] = <<>>] \in StationSet
    <3>1. <<>> \in Seq(OperandSet)
      OBVIOUS
    <3> QED BY <1>2, <3>1 DEF StationSet
  <2> QED BY <1>2, <2>1
<1>4. named = [c EXCEPT !.station = st1] /\ named.station = st1
  BY DEF RenameStates
<1>5. new = [c EXCEPT !.station = st2]
  <2>1. new = [named EXCEPT !.station = [named.station EXCEPT ![id].odep_list[k] = <<>>]]
    BY <1>4 DEF RenameStates
  <2> HIDE DEF named, st1
  <2> QED BY <1>4, <2>1 DEF RenameStates
<1>6. /\ st1[id].op = st[id].op /\ st1[id].PC = st[id].PC
      /\ st1[id].next_PC = st[id].next_PC /\ st1[id].addr = st[id].addr
      /\ st1[id].in_LSQ = st[id].in_LSQ /\ st1[id].ea_comp = st[id].ea_comp
      /\ st1[id].recover_inst = st[id].recover_inst
      /\ st1[id].spec_mode = st[id].spec_mode /\ st1[id].tag = st[id].tag
      /\ st1[id].seq = st[id].seq /\ st1[id].queued = st[id].queued
      /\ st1[id].issued = st[id].issued /\ st1[id].completed = st[id].completed
      /\ st1[id].idep_ready = st[id].idep_ready /\ st1[id].odep_list = st[id].odep_list
      /\ st1[id].onames = [st[id].onames EXCEPT ![k] = r]
  BY <1>1, <1>2 DEF StationSet
<1>7. /\ st2[id].op = st1[id].op /\ st2[id].PC = st1[id].PC
      /\ st2[id].next_PC = st1[id].next_PC /\ st2[id].addr = st1[id].addr
      /\ st2[id].in_LSQ = st1[id].in_LSQ /\ st2[id].ea_comp = st1[id].ea_comp
      /\ st2[id].recover_inst = st1[id].recover_inst
      /\ st2[id].spec_mode = st1[id].spec_mode /\ st2[id].tag = st1[id].tag
      /\ st2[id].seq = st1[id].seq /\ st2[id].queued = st1[id].queued
      /\ st2[id].issued = st1[id].issued /\ st2[id].completed = st1[id].completed
      /\ st2[id].idep_ready = st1[id].idep_ready /\ st2[id].onames = st1[id].onames
      /\ \A j \in 1..2 : st2[id].odep_list[j] = IF j = k THEN <<>> ELSE st1[id].odep_list[j]
  <2> HIDE DEF st1, st2
  <2> QED BY ZenonT(60), <1>2, <1>3 DEF StationSet
<1> HIDE DEF st1, st2, named, new
<1>8. Renames(st, st1, id) /\ Renames(st, st2, id)
  <2>1. Renames(st, st1, id)
    <3> HIDE DEF st
    <3> QED BY <1>2, <1>6 DEF Renames
  <2>2. Renames(st1, st2, id)
    BY <1>3, <1>7 DEF Renames
  <2> QED BY <2>1, <2>2, RenamesTransitive
<1>9. made \in CVSet
  BY DEF CVSet
<1>10. CASE r = NA
  <2>1. d = [c EXCEPT !.station = st1]
    BY <1>4, <1>10 DEF ruu_install_odep, named
  <2>2. d \in RenameStates /\ d.station = st1 /\ d.ready_queue = c.ready_queue
    <3> HIDE DEF d
    <3> QED BY <1>2, <2>1 DEF RenameStates
  <2> HIDE DEF d
  <2>3. \A p \in Ids : st1[p].odep_list = st[p].odep_list
    BY <1>2, <1>6
  <2>4. VectorsAfter(c, d, id, k, r)
    <3> HIDE DEF st1
    <3> QED BY <1>10, <2>1 DEF VectorsAfter, SameVectors, RenameStates
  <2>5. Installed(c, d, id, k, r)
    BY <1>6, <1>10, <2>2, <2>3, <2>4 DEF Installed
  <2> QED BY <1>6, <1>8, <2>2, <2>5 DEF d
<1>11. CASE r # NA
  <2>1. r \in Regs \cup {DTMP}
    BY <1>11 DEF Registers
  <2>2. d = IF c.station[id].spec_mode
            THEN [new EXCEPT !.use = @ \cup {r}, !.spec_cv[r] = made]
            ELSE [new EXCEPT !.cv[r] = made]
    BY <1>11 DEF ruu_install_odep, named, new
  <2>3. new \in RenameStates /\ new.station = st2 /\ new.ready_queue = c.ready_queue
    BY <1>3, <1>5 DEF RenameStates
  <2>4. d \in RenameStates /\ d.station = st2 /\ d.ready_queue = c.ready_queue
    <3> HIDE DEF d, made
    <3> QED BY <1>9, <2>1, <2>2, <2>3 DEF RenameStates
  <2> HIDE DEF d
  <2>5. ASSUME NEW p \in Ids, NEW j \in 1..2
        PROVE  st2[p].odep_list[j] = IF r # NA /\ p = id /\ j = k THEN <<>>
                                     ELSE st[p].odep_list[j]
    <3>1. CASE p = id
      BY <3>1, <1>6, <1>7, <1>11
    <3>2. CASE p # id
      BY <3>2, <1>2, <1>3
    <3> QED BY <3>1, <3>2
  <2>6. VectorsAfter(c, d, id, k, r)
    <3>1. new.cv = c.cv /\ new.spec_cv = c.spec_cv /\ new.use = c.use
      BY <1>5 DEF RenameStates
    <3>2. IF c.station[id].spec_mode
          THEN /\ d.cv = new.cv /\ d.use = new.use \cup {r}
               /\ d.spec_cv = [new.spec_cv EXCEPT ![r] = made]
          ELSE /\ d.cv = [new.cv EXCEPT ![r] = made]
               /\ d.spec_cv = new.spec_cv /\ d.use = new.use
      <4> HIDE DEF made
      <4> QED BY <2>2, <2>3 DEF RenameStates, d
    <3> QED BY <1>11, <3>1, <3>2 DEF VectorsAfter, made
  <2>7. Installed(c, d, id, k, r)
    BY <1>6, <1>7, <2>4, <2>5, <2>6 DEF Installed, st
  <2> QED BY <1>6, <1>7, <1>8, <2>4, <2>7 DEF d
<1> QED BY <1>10, <1>11

\* A chain is empty or as it was.
LEMMA InstallEffect ==
  ASSUME NEW c \in RenameStates, NEW id \in Ids, NEW k \in 1..2, NEW r \in Registers
  PROVE  LET d == ruu_install_odep(c, id, k, r)
         IN /\ d \in RenameStates /\ d.ready_queue = c.ready_queue
            /\ Renames(c.station, d.station, id)
            /\ d.station[id].idep_ready = c.station[id].idep_ready
            /\ \A p \in Ids, j \in 1..2 : \/ d.station[p].odep_list[j] = <<>>
                                          \/ d.station[p].odep_list[j] = c.station[p].odep_list[j]
<1> DEFINE d == ruu_install_odep(c, id, k, r)
<1>1. /\ d \in RenameStates /\ d.ready_queue = c.ready_queue
      /\ Renames(c.station, d.station, id)
      /\ d.station[id].idep_ready = c.station[id].idep_ready
      /\ Installed(c, d, id, k, r)
  BY InstallExact
<1> HIDE DEF d
<1> QED BY <1>1 DEF Installed, d

(* A link is put at the front of the output chain i of h.                  *)
Pushed(st, st2, h, i, link) ==
    \A p \in Ids, j \in 1 .. 2 :
        st2[p].odep_list[j] = IF p = h /\ j = i THEN <<link>> \o st[p].odep_list[j]
                              ELSE st[p].odep_list[j]

\* The output chains are as they were.
SameChains(st, st2) ==
    \A p \in Ids, j \in 1 .. 2 : st2[p].odep_list[j] = st[p].odep_list[j]

\* What makes the value of a register, if anything is to make it.
Creator(c, r) == IF r = NA THEN CVLINK_NULL ELSE CREATE_VECTOR(c, r)

\* Operand k of id is ready, or it is put into the output chain of its creator.
LinkedTo(c, d, id, k, r) ==
    \/ /\ Creator(c, r).rs = NoRS /\ d.station[id].idep_ready[k]
       /\ SameChains(c.station, d.station)
    \/ /\ Creator(c, r).rs \in Ids /\ Creator(c, r).odep_num \in 1 .. 2
       /\ ~d.station[id].idep_ready[k]
       /\ Pushed(c.station, d.station, Creator(c, r).rs, Creator(c, r).odep_num,
                 Link(c.station, id, k))

\* An operand is ready, or it waits in the output chain of its creator.
LEMMA LinkIdepExact ==
  ASSUME NEW c \in RenameStates, NEW id \in Ids, NEW k \in 1..3, NEW r \in Registers
  PROVE  LET d == ruu_link_idep(c, id, k, r)
         IN /\ d \in RenameStates /\ d.ready_queue = c.ready_queue /\ SameVectors(c, d)
            /\ Renames(c.station, d.station, id) /\ d.station[id].onames = c.station[id].onames
            /\ \A m \in 1..3 : m # k => (d.station[id].idep_ready[m] <=> c.station[id].idep_ready[m])
            /\ LinkedTo(c, d, id, k, r)
<1> DEFINE st == c.station
           head == Creator(c, r)
           d == ruu_link_idep(c, id, k, r)
           Marked(b) == [st EXCEPT ![id].idep_ready[k] = b]
           link == Link(st, id, k)
<1>1. st \in [Ids -> StationSet] /\ st[id] \in StationSet
  BY DEF RenameStates
<1>2. ASSUME NEW b \in BOOLEAN
      PROVE  /\ Marked(b) \in [Ids -> StationSet] /\ SameFields(st, Marked(b))
             /\ \A p \in Ids : Marked(b)[p].queued = st[p].queued
             /\ \A p \in Ids : p # id => Marked(b)[p].idep_ready = st[p].idep_ready
             /\ \A m \in 1..3 : Marked(b)[id].idep_ready[m] <=>
                                  IF m = k THEN b ELSE st[id].idep_ready[m]
  <2>1. Marked(b) \in [Ids -> StationSet] /\ SameFields(st, Marked(b))
    BY <1>1, FlagUpdates, FlagsSameFields
  <2>2. Marked(b)[id] = [st[id] EXCEPT !.idep_ready[k] = b]
        /\ \A p \in Ids : p # id => Marked(b)[p] = st[p]
    BY <1>1
  <2>3. /\ [st[id] EXCEPT !.idep_ready[k] = b].queued = st[id].queued
        /\ [st[id] EXCEPT !.idep_ready[k] = b].idep_ready = [st[id].idep_ready EXCEPT ![k] = b]
    BY <1>1 DEF StationSet
  <2>4. st[id].idep_ready \in [1..3 -> BOOLEAN]
    BY <1>1, StationFields
  <2>5. \A m \in 1..3 : [st[id].idep_ready EXCEPT ![k] = b][m] <=>
                           IF m = k THEN b ELSE st[id].idep_ready[m]
    <3> DEFINE ir == st[id].idep_ready
    <3>1. ir \in [1..3 -> BOOLEAN]
      BY <2>4
    <3> HIDE DEF ir
    <3>2. \A m \in 1..3 : [ir EXCEPT ![k] = b][m] <=> IF m = k THEN b ELSE ir[m]
      BY <3>1, Zenon
    <3> QED BY <3>2 DEF ir
  <2> HIDE DEF Marked
  <2> QED BY ZenonT(60), <2>1, <2>2, <2>3, <2>5
<1>3. head \in CVSet
  BY DEF CVSet, Creator, CREATE_VECTOR, RenameStates, Registers
<1>4. CASE head.rs = NoRS
  <2>1. d = [c EXCEPT !.station[id].idep_ready[k] = TRUE]
    BY <1>4 DEF ruu_link_idep, Creator
  <2>2. d = [c EXCEPT !.station = Marked(TRUE)]
    BY <2>1 DEF RenameStates
  <2> HIDE DEF d, Marked
  <2>3. d \in RenameStates /\ d.station = Marked(TRUE) /\ d.ready_queue = c.ready_queue
        /\ SameVectors(c, d)
    BY <1>2, <2>2 DEF RenameStates, SameVectors
  <2> DEFINE st2 == Marked(TRUE)
  <2>4. /\ SameFields(st, st2) /\ \A p \in Ids : st2[p].queued = st[p].queued
        /\ \A p \in Ids : p # id => st2[p].idep_ready = st[p].idep_ready
        /\ \A m \in 1..3 : st2[id].idep_ready[m] <=> IF m = k THEN TRUE ELSE st[id].idep_ready[m]
    BY <1>2
  <2> HIDE DEF st2, st
  <2>5. Renames(st, st2, id) /\ SameChains(st, st2)
    BY <2>4 DEF Renames, SameFields, SameChains
  <2>6. st2[id].idep_ready[k] /\ \A m \in 1..3 : m # k => (st2[id].idep_ready[m] <=> st[id].idep_ready[m])
    BY <2>4
  <2>7. st2[id].onames = st[id].onames
    BY <2>4 DEF SameFields
  <2>8. LinkedTo(c, d, id, k, r)
    BY <1>4, <2>3, <2>5, <2>6 DEF LinkedTo, st, st2
  <2> QED BY <2>3, <2>5, <2>6, <2>7, <2>8 DEF st, st2, d
<1>5. CASE head.rs # NoRS
  <2> DEFINE h == head.rs
             i == head.odep_num
             st1 == Marked(FALSE)
             st2 == [st1 EXCEPT ![h].odep_list[i] = <<link>> \o @]
             c1 == [c EXCEPT !.station[id].idep_ready[k] = FALSE]
  <2>1. h \in Ids /\ i \in 1..2
    BY <1>3, <1>5 DEF CVSet, CVLINK_NULL
  <2>2. d = [c1 EXCEPT !.station[head.rs].odep_list[head.odep_num] =
                          <<Link(c.station, id, k)>> \o @,
                       !.free = @ - 1]
    BY <1>5 DEF ruu_link_idep, Creator
  <2>3. c1 = [c EXCEPT !.station = st1] /\ c1.station = st1 /\ c1.free = c.free
    BY DEF RenameStates
  <2> HIDE DEF c1, st1, d, head
  <2>4. d = [c1 EXCEPT !.station = [c1.station EXCEPT ![h].odep_list[i] = <<link>> \o @],
                       !.free = @ - 1]
    BY <2>2, <2>3 DEF RenameStates
  <2>6. d = [c EXCEPT !.station = st2, !.free = c.free - 1]
    <3>1. [c1.station EXCEPT ![h].odep_list[i] = <<link>> \o @] = st2
      BY <2>3
    <3> HIDE DEF st2
    <3> QED BY <2>3, <2>4, <3>1 DEF RenameStates
  <2>7. st1 \in [Ids -> StationSet] /\ st1[h] \in StationSet
    BY <1>2, <2>1 DEF st1
  <2>8. link \in OperandSet
    <3>1. k \in Int
      OBVIOUS
    <3> QED BY <1>1, <3>1, LinkType
  <2>9. /\ st2 \in [Ids -> StationSet]
        /\ st2[h] = [st1[h] EXCEPT !.odep_list[i] = <<link>> \o @]
        /\ \A p \in Ids : p # h => st2[p] = st1[p]
    <3> DEFINE new == <<link>> \o st1[h].odep_list[i]
    <3>1. new \in Seq(OperandSet)
      <4>1. st1[h].odep_list[i] \in Seq(OperandSet)
        BY <2>1, <2>7, StationFields
      <4>2. <<link>> \in Seq(OperandSet)
        BY <2>8
      <4> HIDE DEF link
      <4> QED BY <4>1, <4>2, ConcatProperties
    <3> HIDE DEF new
    <3>2. [st1[h] EXCEPT !.odep_list[i] = new] \in StationSet
      BY <2>1, <2>7, <3>1 DEF StationSet
    <3>3. st2 = [st1 EXCEPT ![h] = [st1[h] EXCEPT !.odep_list[i] = new]]
      BY DEF new
    <3> HIDE DEF st2, h
    <3>4. /\ st2 \in [Ids -> StationSet] /\ st2[h] = [st1[h] EXCEPT !.odep_list[i] = new]
          /\ \A p \in Ids : p # h => st2[p] = st1[p]
      BY <2>1, <2>7, <3>2, <3>3
    <3> QED BY <3>4 DEF new
  <2>10. /\ st2[h].op = st1[h].op /\ st2[h].PC = st1[h].PC
         /\ st2[h].next_PC = st1[h].next_PC /\ st2[h].addr = st1[h].addr
         /\ st2[h].in_LSQ = st1[h].in_LSQ /\ st2[h].ea_comp = st1[h].ea_comp
         /\ st2[h].recover_inst = st1[h].recover_inst
         /\ st2[h].spec_mode = st1[h].spec_mode /\ st2[h].tag = st1[h].tag
         /\ st2[h].seq = st1[h].seq /\ st2[h].queued = st1[h].queued
         /\ st2[h].issued = st1[h].issued /\ st2[h].completed = st1[h].completed
         /\ st2[h].idep_ready = st1[h].idep_ready /\ st2[h].onames = st1[h].onames
         /\ st2[h].odep_list = [st1[h].odep_list EXCEPT ![i] = <<link>> \o st1[h].odep_list[i]]
    <3> DEFINE old == st1[h]
               new == <<link>> \o old.odep_list[i]
    <3>1. st2[h] = [old EXCEPT !.odep_list[i] = new] /\ old \in StationSet
      BY <2>7, <2>9
    <3> HIDE DEF st2, new, old
    <3>2. /\ st2[h].op = old.op /\ st2[h].PC = old.PC
          /\ st2[h].next_PC = old.next_PC /\ st2[h].addr = old.addr
          /\ st2[h].in_LSQ = old.in_LSQ /\ st2[h].ea_comp = old.ea_comp
          /\ st2[h].recover_inst = old.recover_inst
          /\ st2[h].spec_mode = old.spec_mode /\ st2[h].tag = old.tag
          /\ st2[h].seq = old.seq /\ st2[h].queued = old.queued
          /\ st2[h].issued = old.issued /\ st2[h].completed = old.completed
          /\ st2[h].idep_ready = old.idep_ready /\ st2[h].onames = old.onames
          /\ st2[h].odep_list = [old.odep_list EXCEPT ![i] = new]
      BY <3>1 DEF StationSet
    <3> QED BY <3>2 DEF new, old
  <2>11. d \in RenameStates /\ d.station = st2 /\ d.ready_queue = c.ready_queue
         /\ SameVectors(c, d)
    <3>1. st2 \in [Ids -> StationSet]
      BY <2>9
    <3>2. c.free - 1 \in Int
      BY DEF RenameStates
    <3> HIDE DEF st2
    <3> QED BY <2>6, <3>1, <3>2 DEF RenameStates, SameVectors
  <2>12. /\ SameFields(st, st1) /\ \A p \in Ids : st1[p].queued = st[p].queued
         /\ \A p \in Ids : p # id => st1[p].idep_ready = st[p].idep_ready
         /\ \A m \in 1..3 : st1[id].idep_ready[m] <=> IF m = k THEN FALSE ELSE st[id].idep_ready[m]
    BY <1>2 DEF st1
  <2> HIDE DEF st, st2, link, h, i
  <2>13. Renames(st, st1, id)
    BY <2>12 DEF Renames, SameFields
  <2>14. Renames(st1, st2, id) /\ \A p \in Ids : st2[p].idep_ready = st1[p].idep_ready
    BY <2>9, <2>10 DEF Renames
  <2>15. Renames(st, st2, id)
    BY <2>13, <2>14, RenamesTransitive
  <2>16. ASSUME NEW p \in Ids, NEW j \in 1..2
         PROVE  st2[p].odep_list[j] = IF p = h /\ j = i THEN <<link>> \o st[p].odep_list[j]
                                      ELSE st[p].odep_list[j]
    <3>1. st1[p].odep_list = st[p].odep_list /\ st1[p].odep_list \in [1..2 -> Seq(OperandSet)]
      BY <2>7, <2>12, StationFields DEF SameFields
    <3>2. CASE p = h
      BY <3>1, <3>2, <2>1, <2>10
    <3>3. CASE p # h
      BY <3>1, <3>3, <2>9
    <3> QED BY <3>2, <3>3
  <2>17. Pushed(st, st2, h, i, link)
    BY <2>16 DEF Pushed
  <2>18. /\ ~st2[id].idep_ready[k]
         /\ \A m \in 1..3 : m # k => (st2[id].idep_ready[m] <=> st[id].idep_ready[m])
    BY <2>12, <2>14
  <2>19. st2[id].onames = st[id].onames
    <3>1. st2[id].onames = st1[id].onames
      BY <2>9, <2>10
    <3> QED BY <3>1, <2>12 DEF SameFields
  <2>20. LinkedTo(c, d, id, k, r)
    BY <2>1, <2>11, <2>17, <2>18 DEF LinkedTo, st, link, h, i, head
  <2> QED BY <2>11, <2>15, <2>18, <2>19, <2>20 DEF st, d
<1> QED BY <1>4, <1>5

\* An operand is ready, or it waits in one output chain.
LEMMA LinkIdepEffect ==
  ASSUME NEW c \in RenameStates, NEW id \in Ids, NEW k \in 1..3, NEW r \in Registers
  PROVE  LET d == ruu_link_idep(c, id, k, r)
         IN /\ d \in RenameStates /\ d.ready_queue = c.ready_queue
            /\ Renames(c.station, d.station, id)
            /\ \A m \in 1..3 : m # k => (d.station[id].idep_ready[m] <=> c.station[id].idep_ready[m])
            /\ \/ d.station[id].idep_ready[k] /\ SameChains(c.station, d.station)
               \/ /\ ~d.station[id].idep_ready[k]
                  /\ \E h \in Ids, i \in 1..2 :
                        Pushed(c.station, d.station, h, i, Link(c.station, id, k))
<1> DEFINE d == ruu_link_idep(c, id, k, r)
<1>1. /\ d \in RenameStates /\ d.ready_queue = c.ready_queue
      /\ Renames(c.station, d.station, id)
      /\ \A m \in 1..3 : m # k => (d.station[id].idep_ready[m] <=> c.station[id].idep_ready[m])
      /\ LinkedTo(c, d, id, k, r)
  BY LinkIdepExact
<1> HIDE DEF d
<1> QED BY <1>1 DEF LinkedTo, d

\* A list with a link in front of it.
LEMMA PrefixedList ==
  ASSUME NEW list \in Seq(OperandSet), NEW link \in OperandSet
  PROVE  LET new == <<link>> \o list
         IN \A m \in DOMAIN new :
              \/ m = 1 /\ new[m] = link
              \/ m - 1 \in DOMAIN list /\ new[m] = list[m - 1]
<1> DEFINE one == <<link>>
<1>1. one \in Seq(OperandSet) /\ Len(one) = 1 /\ one[1] = link
  OBVIOUS
<1> HIDE DEF one
<1> DEFINE new == one \o list
<1>2. /\ new \in Seq(OperandSet) /\ Len(new) = 1 + Len(list)
      /\ \A m \in 1..Len(new) : new[m] = IF m <= 1 THEN one[m] ELSE list[m - 1]
  <2>1. /\ new \in Seq(OperandSet) /\ Len(new) = Len(one) + Len(list)
        /\ \A m \in 1..Len(one) + Len(list) :
              new[m] = IF m <= Len(one) THEN one[m] ELSE list[m - Len(one)]
    BY <1>1, ConcatProperties
  <2> HIDE DEF new
  <2> QED BY <1>1, <2>1
<1>3. ASSUME NEW m \in DOMAIN new
      PROVE  \/ m = 1 /\ new[m] = link
             \/ m - 1 \in DOMAIN list /\ new[m] = list[m - 1]
  <2>1. m \in 1..1 + Len(list) /\ m \in 1..Len(new)
    BY <1>2
  <2>2. new[m] = IF m <= 1 THEN one[m] ELSE list[m - 1]
    BY <1>2, <2>1
  <2> HIDE DEF new
  <2>3. CASE m = 1
    BY <1>1, <2>2, <2>3
  <2>4. CASE m # 1
    <3>1. m - 1 \in 1..Len(list) /\ ~(m <= 1)
      BY <2>1, <2>4
    <3> QED BY <2>2, <3>1
  <2> QED BY <2>3, <2>4
<1> QED BY <1>3 DEF one

(* Other new stations stay without links.                                  *)
OthersUnchained(st, st2, id) ==
    \A o \in Ids : o # id /\ Unchained(st, o, 1) => Unchained(st2, o, 1)

\* The operand of a new station is in one output chain when it waits.
LEMMA LinkIdepChains ==
  ASSUME NEW st \in [Ids -> StationSet], NEW st2 \in [Ids -> StationSet], NEW F \in SUBSET Ids,
         NEW id \in F, NEW k \in 1..3, Renames(st, st2, id),
         \A m \in 1..3 : m # k => (st2[id].idep_ready[m] <=> st[id].idep_ready[m]),
         ChainLinks(st, F, Ids), Unchained(st, id, k),
         \/ SameChains(st, st2)
         \/ /\ ~st2[id].idep_ready[k]
            /\ \E h \in Ids, i \in 1..2 : Pushed(st, st2, h, i, Link(st, id, k))
  PROVE  ChainLinks(st2, F, Ids) /\ Unchained(st2, id, k + 1) /\ OthersUnchained(st, st2, id)
<1> DEFINE link == Link(st, id, k)
           Chain(p, j) == st[p].odep_list[j]
           Chain2(p, j) == st2[p].odep_list[j]
           Old(p, j, m, n) == n \in DOMAIN Chain(p, j) /\ Chain2(p, j)[m] = Chain(p, j)[n]
<1>1. /\ link \in OperandSet /\ link.rs = id /\ link.x = k /\ link.tag = st[id].tag
      /\ id \in Ids /\ k \in Int
  <2>1. id \in Ids /\ k \in Int
    OBVIOUS
  <2> QED BY <2>1, LinkType
<1>2. PICK h \in Ids, i \in 1..2 :
         \A p \in Ids, j \in 1..2 : \A m \in DOMAIN Chain2(p, j) :
            \/ p = h /\ j = i /\ m = 1 /\ Chain2(p, j)[m] = link /\ ~st2[id].idep_ready[k]
            \/ p = h /\ j = i /\ Old(p, j, m, m - 1) /\ ~st2[id].idep_ready[k]
            \/ ~(p = h /\ j = i) /\ Old(p, j, m, m)
            \/ SameChains(st, st2) /\ Old(p, j, m, m)
  <2>1. CASE SameChains(st, st2)
    <3>1. \A p \in Ids, j \in 1..2 : \A m \in DOMAIN Chain2(p, j) : Old(p, j, m, m)
      BY <2>1 DEF SameChains
    <3>2. id \in Ids /\ 1 \in 1..2
      OBVIOUS
    <3> HIDE DEF Old, Chain2
    <3> QED BY <2>1, <3>1, <3>2
  <2>2. CASE /\ ~st2[id].idep_ready[k]
             /\ \E h \in Ids, i \in 1..2 : Pushed(st, st2, h, i, Link(st, id, k))
    <3>1. PICK h \in Ids, i \in 1..2 : Pushed(st, st2, h, i, link)
      BY <2>2
    <3>2. ASSUME NEW p \in Ids, NEW j \in 1..2, NEW m \in DOMAIN Chain2(p, j)
          PROVE  \/ p = h /\ j = i /\ m = 1 /\ Chain2(p, j)[m] = link
                 \/ p = h /\ j = i /\ Old(p, j, m, m - 1)
                 \/ ~(p = h /\ j = i) /\ Old(p, j, m, m)
      <4>1. CASE p = h /\ j = i
        <5> DEFINE list == Chain(p, j)
        <5>1. Chain2(p, j) = <<link>> \o list
          BY <3>1, <4>1 DEF Pushed
        <5>2. list \in Seq(OperandSet)
          BY StationFields
        <5> HIDE DEF list, link, Chain2
        <5>3. \/ m = 1 /\ Chain2(p, j)[m] = link
              \/ m - 1 \in DOMAIN list /\ Chain2(p, j)[m] = list[m - 1]
          BY <1>1, <5>1, <5>2, PrefixedList
        <5> QED BY <4>1, <5>3 DEF list
      <4>2. CASE ~(p = h /\ j = i)
        BY Zenon, <3>1, <4>2 DEF Pushed
      <4> QED BY <4>1, <4>2
    <3> HIDE DEF Old, Chain2, link
    <3> QED BY ZenonT(60), <2>2, <3>2
  <2> QED BY <2>1, <2>2
<1>3. ASSUME NEW p \in Ids, NEW j \in 1..2, NEW n \in DOMAIN Chain(p, j)
      PROVE  LET old == Chain(p, j)[n]
             IN /\ old.rs \in Ids /\ old.x \in 1..3 /\ old.tag \in Nat
                /\ old.tag <= st[old.rs].tag /\ Waits(st, old)
                /\ RSLINK_VALID(st, old) => old.rs \in F /\ (old.rs = id => old.x < k)
  <2> DEFINE chain == Chain(p, j)
  <2>1. chain \in Seq(OperandSet)
    BY StationFields
  <2>2. /\ Sound(st, F, chain) /\ Waits(st, chain[n])
        /\ RSLINK_VALID(st, chain[n]) /\ chain[n].rs = id => chain[n].x < k
    BY DEF ChainLinks, Unchained
  <2> HIDE DEF chain
  <2>3. chain[n].rs \in Ids /\ chain[n].x \in 1..3 /\ chain[n].tag \in Nat /\ n \in DOMAIN chain
    <3>1. n \in DOMAIN chain
      BY DEF chain
    <3> QED BY <2>1, <3>1, LinkFields
  <2> QED BY <2>2, <2>3 DEF Sound, chain
<1>4. ASSUME NEW l \in Ids
      PROVE  /\ st2[l].tag = st[l].tag /\ st[l].tag \in Nat
             /\ \A x \in 1..3 : l # id \/ x # k =>
                   (st2[l].idep_ready[x] <=> st[l].idep_ready[x])
  BY Zenon, StationFields DEF Renames
<1> HIDE DEF link
<1>5. ASSUME NEW p \in Ids, NEW j \in 1..2, NEW m \in DOMAIN Chain2(p, j)
      PROVE  LET now == Chain2(p, j)[m]
             IN /\ now.tag <= st2[now.rs].tag
                /\ RSLINK_VALID(st2, now) =>
                     /\ now.rs \in F /\ ~st2[now.rs].idep_ready[now.x]
                     /\ now.rs = id => now.x < k + 1
  <2> DEFINE now == Chain2(p, j)[m]
  <2>1. CASE now = link /\ ~st2[id].idep_ready[k]
    <3>1. /\ now.rs = id /\ now.x = k /\ now.tag = st[id].tag /\ k < k + 1
      BY <1>1, <2>1
    <3> HIDE DEF now
    <3>2. /\ now.tag <= st2[now.rs].tag /\ now.rs \in F /\ now.x < k + 1
          /\ ~st2[now.rs].idep_ready[now.x]
      BY <1>1, <1>4, <2>1, <3>1
    <3> QED BY <3>2 DEF now
  <2>2. ASSUME NEW n, Old(p, j, m, n)
        PROVE  /\ now.tag <= st2[now.rs].tag
               /\ RSLINK_VALID(st2, now) =>
                    /\ now.rs \in F /\ ~st2[now.rs].idep_ready[now.x]
                    /\ now.rs = id => now.x < k + 1
    <3>1. /\ now.rs \in Ids /\ now.x \in 1..3 /\ now.tag \in Nat
          /\ now.tag <= st[now.rs].tag /\ Waits(st, now)
          /\ RSLINK_VALID(st, now) => now.rs \in F /\ (now.rs = id => now.x < k)
      BY <1>3, <2>2
    <3> HIDE DEF now
    <3>2. st2[now.rs].tag = st[now.rs].tag /\ (RSLINK_VALID(st2, now) <=> RSLINK_VALID(st, now))
      BY <1>4, <3>1 DEF RSLINK_VALID
    <3>3. ASSUME RSLINK_VALID(st, now)
          PROVE  ~st2[now.rs].idep_ready[now.x] /\ (now.rs = id => now.x < k + 1)
      <4>1. now.rs = id => now.x < k
        BY <3>1, <3>3
      <4>2. now.rs # id \/ now.x # k
        BY <4>1, <3>1
      <4> QED BY <1>4, <3>1, <3>3, <4>1, <4>2 DEF Waits
    <3> QED BY Zenon, <3>1, <3>2, <3>3
  <2>3. \/ now = link /\ ~st2[id].idep_ready[k]
        \/ \E n : Old(p, j, m, n)
    <3> HIDE DEF Old
    <3> QED BY Zenon, <1>2
  <2> HIDE DEF now, Old
  <2>4. QED BY Zenon, <2>1, <2>2, <2>3 DEF now
<1>6. Unchained(st2, id, k + 1)
  BY <1>5 DEF Unchained
<1>7. ASSUME NEW p \in Ids, NEW q \in Ids, NEW a \in 1..2, NEW b \in 1..2,
             NEW m \in DOMAIN Chain2(p, a), NEW n \in DOMAIN Chain2(q, b),
             RSLINK_VALID(st2, Chain2(p, a)[m]), Chain2(p, a)[m] = Chain2(q, b)[n]
      PROVE  p = q /\ a = b /\ m = n
  <2>1. ASSUME NEW p1 \in Ids, NEW a1 \in 1..2, NEW m1, NEW o1, Old(p1, a1, m1, o1),
               RSLINK_VALID(st2, Chain2(p1, a1)[m1])
        PROVE  RSLINK_VALID(st, Chain(p1, a1)[o1]) /\ Chain2(p1, a1)[m1] # link
    <3> DEFINE old == Chain(p1, a1)[o1]
    <3>1. old = Chain2(p1, a1)[m1] /\ old.rs \in Ids
          /\ (RSLINK_VALID(st, old) => (old.rs = id => old.x < k))
      BY <1>3, <2>1
    <3>2. RSLINK_VALID(st2, old)
      BY <2>1, <3>1
    <3>3. RSLINK_VALID(st, old)
      <4> HIDE DEF old
      <4> QED BY <1>4, <3>1, <3>2 DEF RSLINK_VALID
    <3>4. old # link
      <4> HIDE DEF old
      <4> QED BY <1>1, <3>1, <3>3
    <3> QED BY Zenon, <3>1, <3>3, <3>4
  <2>2. ASSUME NEW o1, NEW o2, Old(p, a, m, o1), Old(q, b, n, o2)
        PROVE  p = q /\ a = b /\ o1 = o2
    <3>1. RSLINK_VALID(st, Chain(p, a)[o1]) /\ Chain(p, a)[o1] = Chain(q, b)[o2]
          /\ o1 \in DOMAIN Chain(p, a) /\ o2 \in DOMAIN Chain(q, b)
      <4>1. RSLINK_VALID(st, Chain(p, a)[o1])
        <5> HIDE DEF Old, Chain, Chain2
        <5> QED BY <1>7, <2>1, <2>2
      <4> QED BY <4>1, <1>7, <2>2
    <3> QED BY <3>1 DEF ChainLinks
  <2>3. RSLINK_VALID(st2, Chain2(q, b)[n])
    BY <1>7
  <2>4. /\ \A o \in Int : Old(p, a, m, o) => Chain2(p, a)[m] # link
        /\ \A o \in Int : Old(q, b, n, o) => Chain2(q, b)[n] # link
    <3> HIDE DEF Old, Chain, Chain2
    <3> QED BY <1>7, <2>1, <2>3
  <2>5. m \in Nat /\ n \in Nat
    <3>1. Chain2(p, a) \in Seq(OperandSet) /\ Chain2(q, b) \in Seq(OperandSet)
      BY StationFields
    <3> HIDE DEF Chain2
    <3> QED BY <3>1
  <2>6. CASE SameChains(st, st2)
    <3>1. Old(p, a, m, m) /\ Old(q, b, n, n)
      BY <2>6 DEF SameChains
    <3> HIDE DEF Old
    <3> QED BY <2>2, <3>1
  <2>7. CASE ~SameChains(st, st2)
    <3> HIDE DEF Old, Chain, Chain2
    <3>1. \/ p = h /\ a = i /\ m = 1 /\ Chain2(p, a)[m] = link
          \/ p = h /\ a = i /\ Old(p, a, m, m - 1)
          \/ ~(p = h /\ a = i) /\ Old(p, a, m, m)
      BY <1>2, <2>7
    <3>2. \/ q = h /\ b = i /\ n = 1 /\ Chain2(q, b)[n] = link
          \/ q = h /\ b = i /\ Old(q, b, n, n - 1)
          \/ ~(q = h /\ b = i) /\ Old(q, b, n, n)
      BY <1>2, <2>7
    <3>3. m - 1 \in Int /\ n - 1 \in Int /\ m \in Int /\ n \in Int
          /\ (m - 1 = n - 1 => m = n)
      BY <2>5
    <3> QED BY <1>7, <2>2, <2>4, <3>1, <3>2, <3>3
  <2> QED BY <2>6, <2>7
<1>8. ChainLinks(st2, F, Ids)
  <2>1. \A p \in Ids, j \in 1 .. 2 :
          /\ Sound(st2, F, st2[p].odep_list[j])
          /\ \A n \in DOMAIN st2[p].odep_list[j] : Waits(st2, st2[p].odep_list[j][n])
    BY <1>5 DEF Sound, Waits
  <2>2. \A p, q \in Ids, a, b \in 1 .. 2 :
          \A m \in DOMAIN st2[p].odep_list[a], n \in DOMAIN st2[q].odep_list[b] :
             RSLINK_VALID(st2, st2[p].odep_list[a][m])
               /\ st2[p].odep_list[a][m] = st2[q].odep_list[b][n]
                  => p = q /\ a = b /\ m = n
    BY <1>7
  <2> QED BY Zenon, <2>1, <2>2 DEF ChainLinks
<1>9. ASSUME NEW o \in Ids, o # id, Unchained(st, o, 1)
      PROVE  Unchained(st2, o, 1)
  <2>1. ASSUME NEW p \in Ids, NEW j \in 1..2, NEW m \in DOMAIN Chain2(p, j),
               RSLINK_VALID(st2, Chain2(p, j)[m]), Chain2(p, j)[m].rs = o
        PROVE  Chain2(p, j)[m].x < 1
    <3> DEFINE now == Chain2(p, j)[m]
    <3>1. now # link
      BY <1>1, <1>9, <2>1
    <3>2. PICK n : Old(p, j, m, n)
      <4> HIDE DEF Old
      <4> QED BY <1>2, <3>1
    <3>3. now = Chain(p, j)[n] /\ n \in DOMAIN Chain(p, j) /\ RSLINK_VALID(st2, now) /\ now.rs = o
      BY <2>1, <3>2
    <3> HIDE DEF now
    <3>4. RSLINK_VALID(st, now)
      BY <1>4, <3>3 DEF RSLINK_VALID
    <3>5. now.x < 1
      BY <1>9, <3>3, <3>4 DEF Unchained
    <3> QED BY <3>5 DEF now
  <2> QED BY <2>1 DEF Unchained
<1> QED BY <1>6, <1>8, <1>9 DEF OthersUnchained

\* An output that is installed leaves no new link in a chain.
LEMMA InstallChains ==
  ASSUME NEW st \in [Ids -> StationSet], NEW st2 \in [Ids -> StationSet], NEW F \in SUBSET Ids,
         NEW id \in F, Renames(st, st2, id), st2[id].idep_ready = st[id].idep_ready,
         ChainLinks(st, F, Ids),
         \A p \in Ids, j \in 1..2 : \/ st2[p].odep_list[j] = <<>>
                                    \/ st2[p].odep_list[j] = st[p].odep_list[j]
  PROVE  ChainLinks(st2, F, Ids) /\ OthersUnchained(st, st2, id)
<1>1. \A p \in Ids : st2[p].tag = st[p].tag /\ st[p].tag \in Nat
  BY StationFields DEF Renames
<1>2. ChainLinks(st2, F, Ids)
  <2>1. TagsGrow(st, st2, F, F)
    BY <1>1 DEF TagsGrow
  <2> DEFINE ids == Ids
  <2>2. ChainsFrom(st, st2, F, ids, ids)
    BY DEF Renames, ChainsFrom
  <2>3. ids \in SUBSET Ids /\ F \in SUBSET F /\ ChainLinks(st, F, ids)
    OBVIOUS
  <2> HIDE DEF ids
  <2>4. ChainLinks(st2, F, ids)
    BY <2>1, <2>2, <2>3, ChainsKept
  <2> QED BY <2>4 DEF ids
<1>3. ASSUME NEW o \in Ids, Unchained(st, o, 1),
             NEW p \in Ids, NEW j \in 1..2, NEW n \in DOMAIN st2[p].odep_list[j],
             RSLINK_VALID(st2, st2[p].odep_list[j][n]), st2[p].odep_list[j][n].rs = o
      PROVE  st2[p].odep_list[j][n].x < 1
  <2>1. st2[p].odep_list[j] # <<>>
    <3>1. DOMAIN <<>> = {}
      OBVIOUS
    <3> QED BY <3>1
  <2>2. st2[p].odep_list[j] = st[p].odep_list[j]
    BY <2>1
  <2> DEFINE link == st[p].odep_list[j][n]
  <2>3. n \in DOMAIN st[p].odep_list[j] /\ RSLINK_VALID(st2, link) /\ link.rs = o
        /\ link = st2[p].odep_list[j][n]
    BY <1>3, <2>2
  <2> HIDE DEF link
  <2>4. RSLINK_VALID(st, link)
    BY <1>1, <2>3 DEF RSLINK_VALID
  <2>5. link.x < 1
    BY <1>3, <2>3, <2>4 DEF Unchained, link
  <2> QED BY <2>3, <2>5
<1> QED BY <1>2, <1>3 DEF OthersUnchained, Unchained

(* What renaming the new station id does.                                  *)
Renaming(c, d, F, id) ==
    /\ d \in RenameStates /\ d.ready_queue = c.ready_queue
    /\ Renames(c.station, d.station, id)
    /\ ChainLinks(d.station, F, Ids) /\ OthersUnchained(c.station, d.station, id)

\* Two steps of renaming rename together.
LEMMA RenamingTransitive ==
  ASSUME NEW a, NEW b, NEW c, NEW F, NEW id, Renaming(a, b, F, id), Renaming(b, c, F, id)
  PROVE  Renaming(a, c, F, id)
<1>1. Renames(a.station, c.station, id)
  BY RenamesTransitive DEF Renaming
<1>2. OthersUnchained(a.station, c.station, id)
  BY DEF Renaming, OthersUnchained
<1> QED BY <1>1, <1>2 DEF Renaming

\* The k-th input of a new station.
LEMMA LinkIdep ==
  ASSUME NEW c \in RenameStates, NEW F \in SUBSET Ids, NEW id \in F, NEW k \in 1..3,
         NEW r \in Registers, ChainLinks(c.station, F, Ids), Unchained(c.station, id, k)
  PROVE  LET d == ruu_link_idep(c, id, k, r)
         IN Renaming(c, d, F, id) /\ Unchained(d.station, id, k + 1)
<1> DEFINE d == ruu_link_idep(c, id, k, r)
           st == c.station
           st2 == d.station
<1>1. id \in Ids
  OBVIOUS
<1>2. /\ d \in RenameStates /\ d.ready_queue = c.ready_queue /\ Renames(st, st2, id)
      /\ \A m \in 1..3 : m # k => (st2[id].idep_ready[m] <=> st[id].idep_ready[m])
      /\ \/ st2[id].idep_ready[k] /\ SameChains(st, st2)
         \/ /\ ~st2[id].idep_ready[k]
            /\ \E h \in Ids, i \in 1..2 : Pushed(st, st2, h, i, Link(st, id, k))
  BY <1>1, LinkIdepEffect
<1> HIDE DEF d
<1>3. st \in [Ids -> StationSet] /\ st2 \in [Ids -> StationSet]
  BY <1>2 DEF RenameStates
<1> HIDE DEF st, st2
<1>4. ChainLinks(st2, F, Ids) /\ Unchained(st2, id, k + 1) /\ OthersUnchained(st, st2, id)
  <2>1. ChainLinks(st, F, Ids) /\ Unchained(st, id, k)
    BY DEF st
  <2>2. \/ SameChains(st, st2)
        \/ /\ ~st2[id].idep_ready[k]
           /\ \E h \in Ids, i \in 1..2 : Pushed(st, st2, h, i, Link(st, id, k))
    BY <1>2
  <2> QED BY <1>2, <1>3, <2>1, <2>2, LinkIdepChains
<1> QED BY <1>2, <1>4 DEF Renaming, st, st2, d

\* The k-th output of a new station.
LEMMA InstallOdep ==
  ASSUME NEW c \in RenameStates, NEW F \in SUBSET Ids, NEW id \in F, NEW k \in 1..2,
         NEW r \in Registers, ChainLinks(c.station, F, Ids)
  PROVE  Renaming(c, ruu_install_odep(c, id, k, r), F, id)
<1> DEFINE d == ruu_install_odep(c, id, k, r)
           st == c.station
           st2 == d.station
<1>1. id \in Ids
  OBVIOUS
<1>2. /\ d \in RenameStates /\ d.ready_queue = c.ready_queue /\ Renames(st, st2, id)
      /\ st2[id].idep_ready = st[id].idep_ready
      /\ \A p \in Ids, j \in 1..2 : \/ st2[p].odep_list[j] = <<>>
                                    \/ st2[p].odep_list[j] = st[p].odep_list[j]
  BY <1>1, InstallEffect
<1> HIDE DEF d
<1>3. st \in [Ids -> StationSet] /\ st2 \in [Ids -> StationSet]
  BY <1>2 DEF RenameStates
<1> HIDE DEF st, st2
<1>4. ChainLinks(st2, F, Ids) /\ OthersUnchained(st, st2, id)
  <2>1. ChainLinks(st, F, Ids)
    BY DEF st
  <2> QED BY <1>2, <1>3, <2>1, InstallChains
<1> QED BY <1>2, <1>4 DEF Renaming, st, st2, d

\* A new station is chained to the creators of its operands.
LEMMA RenamedEffect ==
  ASSUME NEW c \in RenameStates, NEW F \in SUBSET Ids, NEW id \in F,
         NEW ins, \A k \in 1..3 : ins[k] \in Registers,
         NEW outs, \A k \in 1..2 : outs[k] \in Registers,
         ChainLinks(c.station, F, Ids), Unchained(c.station, id, 1)
  PROVE  Renaming(c, Renamed(c, id, ins, outs), F, id)
<1> DEFINE in1 == ruu_link_idep(c, id, 1, ins[1])
           in2 == ruu_link_idep(in1, id, 2, ins[2])
           in3 == ruu_link_idep(in2, id, 3, ins[3])
           out1 == ruu_install_odep(in3, id, 1, outs[1])
           out2 == ruu_install_odep(out1, id, 2, outs[2])
<1>1. /\ ins[1] \in Registers /\ ins[2] \in Registers /\ ins[3] \in Registers
      /\ outs[1] \in Registers /\ outs[2] \in Registers
      /\ 1 \in 1..3 /\ 2 \in 1..3 /\ 3 \in 1..3 /\ 1 \in 1..2 /\ 2 \in 1..2
      /\ 1 + 1 = 2 /\ 2 + 1 = 3
  OBVIOUS
<1>2. Renaming(c, in1, F, id) /\ Unchained(in1.station, id, 1 + 1)
  BY <1>1, LinkIdep
<1> HIDE DEF in1
<1>3. Renaming(in1, in2, F, id) /\ Unchained(in2.station, id, 2 + 1)
  <2>1. in1 \in RenameStates /\ ChainLinks(in1.station, F, Ids) /\ Unchained(in1.station, id, 2)
    BY <1>1, <1>2 DEF Renaming
  <2> QED BY <1>1, <2>1, LinkIdep
<1> HIDE DEF in2
<1>4. Renaming(in2, in3, F, id)
  <2>1. in2 \in RenameStates /\ ChainLinks(in2.station, F, Ids) /\ Unchained(in2.station, id, 3)
    BY <1>1, <1>3 DEF Renaming
  <2> QED BY <1>1, <2>1, LinkIdep
<1> HIDE DEF in3
<1>5. Renaming(in3, out1, F, id)
  <2>1. in3 \in RenameStates /\ ChainLinks(in3.station, F, Ids)
    BY <1>4 DEF Renaming
  <2> QED BY <1>1, <2>1, InstallOdep
<1> HIDE DEF out1
<1>6. Renaming(out1, out2, F, id)
  <2>1. out1 \in RenameStates /\ ChainLinks(out1.station, F, Ids)
    BY <1>5 DEF Renaming
  <2> QED BY <1>1, <2>1, InstallOdep
<1> HIDE DEF out2
<1>7. Renaming(c, out2, F, id)
  <2>1. Renaming(c, in2, F, id)
    BY <1>2, <1>3, RenamingTransitive
  <2>2. Renaming(c, in3, F, id)
    BY <1>4, <2>1, RenamingTransitive
  <2>3. Renaming(c, out1, F, id)
    BY <1>5, <2>2, RenamingTransitive
  <2> QED BY <1>6, <2>3, RenamingTransitive
<1> QED BY <1>7 DEF Renamed, in1, in2, in3, out1, out2

-----------------------------------------------------------------------------
(* The two rings: ruu with n stations, lsq with m, of the stations st.     *)

\* Accesses are in the LSQ; their addresses, and all else, are computed in the
\* RUU, and no computation of an address recovers.
Kinds(st, lsq, m) ==
    /\ \A id \in Ids : st[id].in_LSQ => st[id].op \in F_MEM
    /\ \A id \in RUU : st[id].op \notin F_MEM
    /\ \A id \in LSQ : ~st[id].recover_inst /\ ~st[id].ea_comp
    /\ \A id \in RUU : st[id].recover_inst => ~st[id].ea_comp
    /\ \A k \in 1 .. m : st[lsq[k]].in_LSQ

\* Stations are numbered in the order of the program.
InOrder(st, ids, n) == \A j, k \in 1 .. n : j < k => st[ids[j]].seq < st[ids[k]].seq

\* Both rings are in this order, and top is the last number given.
Order(st, ruu, n, lsq, m, top) ==
    /\ InOrder(st, ruu, n) /\ InOrder(st, lsq, m)
    /\ \A k \in 1 .. n : st[ruu[k]].seq <= top
    /\ \A k \in 1 .. m : st[lsq[k]].seq <= top

(* b has the number after that of a.                                       *)
Successor(st, a, b) == st[b].seq = st[a].seq + 1
\* A number lies between those of a and of b.
Apart(st, a, b) == st[a].seq + 1 < st[b].seq

(* The computation of an address and its access have subsequent numbers.   *)
Pairs(st, ruu, n, lsq, m) ==
    /\ \A a \in 1 .. n : st[ruu[a]].ea_comp => \E k \in 1 .. m : Successor(st, ruu[a], lsq[k])
    /\ \A k \in 1 .. m : \E a \in 1 .. n : st[ruu[a]].ea_comp /\ Successor(st, ruu[a], lsq[k])
    /\ \A a, j \in 1 .. n : st[ruu[a]].ea_comp /\ a < j => Apart(st, ruu[a], ruu[j])

\* The station will recover from its misprediction when it completes.
Recovering(st, id) == st[id].recover_inst /\ ~st[id].completed

(* The stations that are speculative are those after b, which recovers.    *)
After(st, ruu, n, lsq, m, b) ==
    /\ \A k \in 1 .. n : /\ Recovering(st, ruu[k]) <=> k = b
                         /\ st[ruu[k]].spec_mode <=> b < k
    /\ \A k \in 1 .. m : st[lsq[k]].spec_mode <=> st[ruu[b]].seq < st[lsq[k]].seq

\* Dispatch is speculative exactly as long as a station recovers, to pc.
Contained(st, ruu, n, lsq, m, spec, pc) ==
    /\ ~spec => /\ \A k \in 1 .. n : ~Recovering(st, ruu[k]) /\ ~st[ruu[k]].spec_mode
                /\ \A k \in 1 .. m : ~st[lsq[k]].spec_mode
    /\ spec => \E b \in 1 .. n : st[ruu[b]].next_PC = pc /\ After(st, ruu, n, lsq, m, b)

(* Only NOPs lie between a and b.                                          *)
Path(a, b) == b >= a /\ \A p \in a .. b - 1 : Inst(p).op = "nop"

(* front is what is dispatched next.                                       *)
Flow(st, ruu, n, spec, front) ==
    /\ \A k \in 1 .. n : /\ st[ruu[k]].next_PC \in NextPCs(st[ruu[k]].PC)
                         /\ st[ruu[k]].PC \in PCs
    /\ \A k \in 1 .. n - 1 : ~st[ruu[k + 1]].spec_mode =>
         Path(st[ruu[k]].next_PC, st[ruu[k + 1]].PC)
    /\ n > 0 /\ ~spec => Path(st[ruu[n]].next_PC, front)
    /\ front \in PCs

(* What the structure of the rings depends on.                             *)
SameShape(st, st2) ==
    \A id \in Ids :
        /\ st2[id].op = st[id].op /\ st2[id].in_LSQ = st[id].in_LSQ
        /\ st2[id].PC = st[id].PC /\ st2[id].next_PC = st[id].next_PC
        /\ st2[id].seq = st[id].seq /\ st2[id].ea_comp = st[id].ea_comp
        /\ st2[id].recover_inst = st[id].recover_inst
        /\ st2[id].spec_mode = st[id].spec_mode

\* Stations of the same shape are in the same structure.
LEMMA StructureKept ==
  ASSUME NEW st, NEW st2, SameShape(st, st2),
         NEW n \in Nat, NEW m \in Nat, NEW ruu, NEW lsq,
         Places(ruu, n, RUU), Places(lsq, m, LSQ), NEW top
  PROVE  /\ Kinds(st, lsq, m) => Kinds(st2, lsq, m)
         /\ Order(st, ruu, n, lsq, m, top) => Order(st2, ruu, n, lsq, m, top)
         /\ Pairs(st, ruu, n, lsq, m) => Pairs(st2, ruu, n, lsq, m)
         /\ \A spec, front : Flow(st, ruu, n, spec, front) => Flow(st2, ruu, n, spec, front)
<1>1. /\ \A k \in 1..n : ruu[k] \in Ids
      /\ \A k \in 1..m : lsq[k] \in Ids
      /\ LSQ \subseteq Ids /\ RUU \subseteq Ids
  BY DEF Places, Ids
<1>2. Kinds(st, lsq, m) => Kinds(st2, lsq, m)
  BY <1>1 DEF Kinds, SameShape
<1>3. Order(st, ruu, n, lsq, m, top) => Order(st2, ruu, n, lsq, m, top)
  BY <1>1 DEF Order, InOrder, SameShape
<1>4. Pairs(st, ruu, n, lsq, m) => Pairs(st2, ruu, n, lsq, m)
  <2>1. \A k \in 1..n : st2[ruu[k]].seq = st[ruu[k]].seq /\ st2[ruu[k]].ea_comp = st[ruu[k]].ea_comp
    BY <1>1 DEF SameShape
  <2>2. \A k \in 1..m : st2[lsq[k]].seq = st[lsq[k]].seq
    BY <1>1 DEF SameShape
  <2>3. /\ \A a \in 1..n, k \in 1..m : Successor(st2, ruu[a], lsq[k]) <=> Successor(st, ruu[a], lsq[k])
        /\ \A a, j \in 1..n : Apart(st2, ruu[a], ruu[j]) <=> Apart(st, ruu[a], ruu[j])
    BY <2>1, <2>2 DEF Successor, Apart
  <2> QED BY <2>1, <2>3 DEF Pairs
<1>5. ASSUME NEW spec, NEW front, Flow(st, ruu, n, spec, front)
      PROVE  Flow(st2, ruu, n, spec, front)
  <2>1. \A k \in 1..n - 1 : k \in 1..n /\ k + 1 \in 1..n
    OBVIOUS
  <2>2. n > 0 => n \in 1..n
    OBVIOUS
  <2>3. \A k \in 1..n : /\ st2[ruu[k]].PC = st[ruu[k]].PC
                        /\ st2[ruu[k]].next_PC = st[ruu[k]].next_PC
                        /\ st2[ruu[k]].spec_mode = st[ruu[k]].spec_mode
    BY <1>1 DEF SameShape
  <2> QED BY <1>5, <2>1, <2>2, <2>3 DEF Flow
<1> QED BY <1>2, <1>3, <1>4, <1>5

\* The branch that recovers stays as it is, and what is after it.
LEMMA ContainedKept ==
  ASSUME NEW st, NEW st2, SameShape(st, st2),
         NEW n \in Nat, NEW m \in Nat, NEW ruu, NEW lsq,
         Places(ruu, n, RUU), Places(lsq, m, LSQ), NEW spec, NEW pc,
         \A k \in 1..n : Recovering(st2, ruu[k]) <=> Recovering(st, ruu[k]),
         Contained(st, ruu, n, lsq, m, spec, pc)
  PROVE  Contained(st2, ruu, n, lsq, m, spec, pc)
<1>1. /\ \A k \in 1..n : ruu[k] \in Ids
      /\ \A k \in 1..m : lsq[k] \in Ids
  BY DEF Places, Ids
<1>2. ASSUME NEW k \in 1..n
      PROVE  /\ st2[ruu[k]].spec_mode = st[ruu[k]].spec_mode
             /\ st2[ruu[k]].next_PC = st[ruu[k]].next_PC
             /\ st2[ruu[k]].seq = st[ruu[k]].seq
  BY <1>1 DEF SameShape
<1>3. ASSUME NEW k \in 1..m
      PROVE  /\ st2[lsq[k]].spec_mode = st[lsq[k]].spec_mode
             /\ st2[lsq[k]].seq = st[lsq[k]].seq
  BY <1>1 DEF SameShape
<1> QED BY <1>2, <1>3 DEF Contained, After

-----------------------------------------------------------------------------
(* The oldest station leaves.                                              *)

\* The first access belongs to the first address computation.
LEMMA OldestAccessFirst ==
  ASSUME NEW st \in [Ids -> StationSet], NEW n \in Nat \ {0}, NEW m \in Nat, NEW ruu, NEW lsq,
         Places(ruu, n, RUU), Places(lsq, m, LSQ), NEW top,
         Order(st, ruu, n, lsq, m, top), Pairs(st, ruu, n, lsq, m), st[ruu[1]].ea_comp
  PROVE  m > 0 /\ Successor(st, ruu[1], lsq[1])
<1>1. 1 \in 1..n
  OBVIOUS
<1>2. PICK k \in 1..m : Successor(st, ruu[1], lsq[k])
  BY <1>1 DEF Pairs
<1>3. m > 0 /\ 1 \in 1..m
  BY <1>2
<1>4. PICK a \in 1..n : st[ruu[a]].ea_comp /\ Successor(st, ruu[a], lsq[1])
  BY <1>3 DEF Pairs
<1>5. /\ st[ruu[1]].seq \in Nat /\ st[ruu[a]].seq \in Nat
      /\ st[lsq[1]].seq \in Nat /\ st[lsq[k]].seq \in Nat
  <2>1. ruu[1] \in Ids /\ ruu[a] \in Ids /\ lsq[1] \in Ids /\ lsq[k] \in Ids
    BY <1>1, <1>3 DEF Places, Ids
  <2> QED BY <2>1, StationFields
<1>6. CASE a # 1
  <2>1. Apart(st, ruu[1], ruu[a])
    BY <1>1, <1>6 DEF Pairs
  <2>2. st[lsq[1]].seq > st[lsq[k]].seq
    BY <1>2, <1>4, <1>5, <2>1 DEF Apart, Successor
  <2>3. k # 1 => st[lsq[1]].seq < st[lsq[k]].seq
    BY <1>3 DEF Order, InOrder
  <2> QED BY <1>5, <2>2, <2>3
<1> QED BY <1>3, <1>4, <1>6

(* A ring, and the accesses, without the oldest station.                   *)
RestOf(ruu, ruu2, n) == \A k \in 1 .. n - 1 : ruu2[k] = ruu[k + 1]

\* The accesses, without the oldest one when it retires (mem).
AccessesLeft(mem, lsq, m, lsq2, m2) ==
    IF mem THEN m2 = m - 1 /\ RestOf(lsq, lsq2, m)
    ELSE m2 = m /\ \A k \in 1 .. m : lsq2[k] = lsq[k]

\* The rings, the speculation and the path that is fetched.
StructureOf(st, ruu, n, lsq, m, top, spec, pc, front) ==
    /\ Kinds(st, lsq, m) /\ Order(st, ruu, n, lsq, m, top) /\ Pairs(st, ruu, n, lsq, m)
    /\ Contained(st, ruu, n, lsq, m, spec, pc) /\ Flow(st, ruu, n, spec, front)

(* Only NOPs lie between the oldest station e and the next one.            *)
NextPath(st, e, ruu, n, front) ==
    Path(st[e].next_PC, IF n > 1 THEN st[ruu[2]].PC ELSE front)

(* The oldest station, e, has completed and leaves the ring.               *)
OldestGoes(st, ruu, n, ruu2, n2, e, mem) ==
    /\ n2 = n - 1 /\ RestOf(ruu, ruu2, n) /\ e = ruu[1]
    /\ mem = st[e].ea_comp /\ st[e].completed

\* What follows a completed oldest station is on its path.
LEMMA OldestOnPath ==
  ASSUME NEW st, NEW n \in Nat \ {0}, NEW m, NEW ruu, NEW lsq,
         NEW top, NEW spec, NEW pc, NEW front,
         StructureOf(st, ruu, n, lsq, m, top, spec, pc, front), st[ruu[1]].completed
  PROVE  NextPath(st, ruu[1], ruu, n, front)
<1> USE DEF StructureOf
<1>1. 1 \in 1..n
  OBVIOUS
<1>2. Path(st[ruu[1]].next_PC, IF n > 1 THEN st[ruu[2]].PC ELSE front)
  <2>1. spec => \E b \in 1..n : b # 1 /\ After(st, ruu, n, lsq, m, b)
    BY <1>1 DEF Contained, After, Recovering
  <2>2. CASE n > 1
    <3>1. 2 \in 1..n /\ 1 \in 1..n - 1 /\ 1 + 1 = 2
      BY <2>2
    <3>2. ~st[ruu[2]].spec_mode
      <4>1. CASE spec
        <5>1. PICK b \in 1..n : b # 1 /\ After(st, ruu, n, lsq, m, b)
          BY <2>1, <4>1
        <5>2. ~(b < 2)
          BY <5>1
        <5> QED BY <3>1, <5>1, <5>2 DEF After
      <4>2. CASE ~spec
        BY <3>1, <4>2 DEF Contained
      <4> QED BY <4>1, <4>2
    <3> QED BY <2>2, <3>1, <3>2 DEF Flow
  <2>3. CASE ~(n > 1)
    <3>1. n = 1
      BY <2>3
    <3>2. ~spec
      BY <2>1, <3>1
    <3> QED BY <3>1, <3>2 DEF Flow
  <2> QED BY <2>2, <2>3
<1> QED BY <1>2 DEF NextPath

\* Without its oldest station the structure is what it was.
LEMMA OldestLeaves ==
  ASSUME NEW st \in [Ids -> StationSet], NEW n \in Nat \ {0}, NEW m \in Nat, NEW ruu, NEW lsq,
         Places(ruu, n, RUU), Places(lsq, m, LSQ), NEW top, NEW spec, NEW pc, NEW front,
         NEW n2, NEW ruu2, NEW m2, NEW lsq2, NEW e, NEW mem,
         OldestGoes(st, ruu, n, ruu2, n2, e, mem), AccessesLeft(mem, lsq, m, lsq2, m2),
         StructureOf(st, ruu, n, lsq, m, top, spec, pc, front)
  PROVE  StructureOf(st, ruu2, n2, lsq2, m2, top, spec, pc, front)
<1> USE DEF RestOf, AccessesLeft, StructureOf, OldestGoes
<1> DEFINE agen == st[ruu[1]].ea_comp
           Old(k) == IF agen THEN k + 1 ELSE k
<1>1. \A k \in 1..n - 1 : ruu2[k] = ruu[k + 1] /\ k + 1 \in 1..n /\ k \in Int /\ k + 1 # 1
  OBVIOUS
<1>2. m2 \in Nat /\ \A k \in 1..m2 : lsq2[k] = lsq[Old(k)] /\ Old(k) \in 1..m /\ k \in Int
      /\ (agen => Old(k) # 1)
  <2>1. CASE agen
    <3>1. m > 0
      BY <2>1, OldestAccessFirst
    <3> QED BY <2>1, <3>1
  <2>2. CASE ~agen
    BY <2>2
  <2> QED BY <2>1, <2>2
<1>3. \A i, j \in 1..m2 : i < j => Old(i) < Old(j)
  OBVIOUS
<1>4. /\ 1 \in 1..n
      /\ \A k \in 1..n : st[ruu[k]].seq \in Nat /\ ruu[k] \in Ids
      /\ \A k \in 1..m : st[lsq[k]].seq \in Nat /\ lsq[k] \in Ids
  <2>1. \A k \in 1..n : ruu[k] \in Ids
    BY DEF Places, Ids
  <2>2. \A k \in 1..m : lsq[k] \in Ids
    BY DEF Places, Ids
  <2> QED BY <2>1, <2>2, StationFields
<1> HIDE DEF Old, agen
<1>5. Kinds(st, lsq2, m2)
  BY <1>2 DEF Kinds
<1>6. Order(st, ruu2, n - 1, lsq2, m2, top)
  <2>1. InOrder(st, ruu2, n - 1)
    BY <1>1 DEF Order, InOrder
  <2>2. InOrder(st, lsq2, m2)
    BY <1>2, <1>3 DEF Order, InOrder
  <2> QED BY <1>1, <1>2, <2>1, <2>2 DEF Order
<1>7. Pairs(st, ruu2, n - 1, lsq2, m2)
  <2>1. ASSUME NEW a \in 1..n - 1, st[ruu2[a]].ea_comp
        PROVE  \E k \in 1..m2 : Successor(st, ruu2[a], lsq2[k])
    <3>1. a + 1 \in 1..n /\ ruu2[a] = ruu[a + 1] /\ 1 < a + 1
      BY <1>1
    <3>2. PICK k \in 1..m : Successor(st, ruu[a + 1], lsq[k])
      BY <2>1, <3>1 DEF Pairs
    <3>3. CASE agen
      <4>1. Successor(st, ruu[1], lsq[1])
        BY <3>3, OldestAccessFirst DEF agen
      <4>2. Apart(st, ruu[1], ruu[a + 1])
        BY <1>4, <3>1, <3>3 DEF Pairs, agen
      <4>3. k # 1
        <5>1. ASSUME k = 1 PROVE FALSE
          <6>1. st[lsq[1]].seq = st[ruu[a + 1]].seq + 1 /\ st[lsq[1]].seq = st[ruu[1]].seq + 1
                /\ st[ruu[1]].seq + 1 < st[ruu[a + 1]].seq
            BY <3>2, <4>1, <4>2, <5>1 DEF Successor, Apart
          <6> QED BY <1>4, <3>1, <6>1
        <5> QED BY <5>1
      <4>4. k - 1 \in 1..m2 /\ lsq2[k - 1] = lsq[k]
        <5>1. m2 = m - 1 /\ \A i \in 1..m - 1 : lsq2[i] = lsq[i + 1]
          BY <3>3 DEF agen
        <5>2. k - 1 \in 1..m - 1 /\ (k - 1) + 1 = k
          BY <4>3
        <5> QED BY <5>1, <5>2
      <4> QED BY <3>1, <3>2, <4>4
    <3>4. CASE ~agen
      <4>1. k \in 1..m2 /\ lsq2[k] = lsq[k]
        BY <3>4 DEF agen
      <4> QED BY <3>1, <3>2, <4>1
    <3> QED BY <3>3, <3>4
  <2>2. ASSUME NEW k \in 1..m2
        PROVE  \E a \in 1..n - 1 : st[ruu2[a]].ea_comp /\ Successor(st, ruu2[a], lsq2[k])
    <3>1. lsq2[k] = lsq[Old(k)] /\ Old(k) \in 1..m
      BY <1>2
    <3>2. PICK a \in 1..n : st[ruu[a]].ea_comp /\ Successor(st, ruu[a], lsq[Old(k)])
      BY <3>1 DEF Pairs
    <3>3. a # 1
      <4>1. CASE agen
        <5>1. 1 \in 1..m /\ 1 < Old(k) /\ Successor(st, ruu[1], lsq[1])
          <6>1. m > 0 /\ Successor(st, ruu[1], lsq[1])
            BY <4>1, OldestAccessFirst DEF agen
          <6>2. Old(k) # 1 /\ Old(k) \in 1..m
            BY <1>2, <4>1
          <6> QED BY <6>1, <6>2
        <5>2. st[lsq[1]].seq < st[lsq[Old(k)]].seq
          BY <3>1, <5>1 DEF Order, InOrder
        <5>3. ASSUME a = 1 PROVE FALSE
          <6>1. st[lsq[Old(k)]].seq = st[lsq[1]].seq
            BY <3>2, <5>1, <5>3 DEF Successor
          <6> QED BY <1>4, <3>1, <5>1, <5>2, <6>1
        <5> QED BY <5>3
      <4>2. CASE ~agen
        BY <3>2, <4>2 DEF agen
      <4> QED BY <4>1, <4>2
    <3>4. a - 1 \in 1..n - 1 /\ ruu2[a - 1] = ruu[a]
      <4>1. a - 1 \in 1..n - 1 /\ (a - 1) + 1 = a
        BY <3>3
      <4> QED BY <1>1, <4>1
    <3> QED BY <3>1, <3>2, <3>4
  <2>3. ASSUME NEW a \in 1..n - 1, NEW j \in 1..n - 1, st[ruu2[a]].ea_comp, a < j
        PROVE  Apart(st, ruu2[a], ruu2[j])
    <3>1. a + 1 < j + 1
      BY <2>3
    <3> QED BY <1>1, <2>3, <3>1 DEF Pairs
  <2> QED BY <2>1, <2>2, <2>3 DEF Pairs
<1>8. Contained(st, ruu2, n - 1, lsq2, m2, spec, pc)
  <2>1. ASSUME ~spec
        PROVE  /\ \A k \in 1..n - 1 : ~Recovering(st, ruu2[k]) /\ ~st[ruu2[k]].spec_mode
               /\ \A k \in 1..m2 : ~st[lsq2[k]].spec_mode
    BY <1>1, <1>2, <2>1 DEF Contained
  <2>2. ASSUME spec
        PROVE  \E b \in 1..n - 1 : st[ruu2[b]].next_PC = pc /\ After(st, ruu2, n - 1, lsq2, m2, b)
    <3>1. PICK b \in 1..n : st[ruu[b]].next_PC = pc /\ After(st, ruu, n, lsq, m, b)
      BY <2>2 DEF Contained
    <3>2. b # 1
      BY <1>4, <3>1 DEF After, Recovering
    <3>3. b - 1 \in 1..n - 1 /\ ruu2[b - 1] = ruu[b]
      <4>1. b - 1 \in 1..n - 1 /\ (b - 1) + 1 = b
        BY <3>2
      <4> QED BY <1>1, <4>1
    <3>4. ASSUME NEW k \in 1..n - 1
          PROVE  /\ Recovering(st, ruu2[k]) <=> k = b - 1
                 /\ st[ruu2[k]].spec_mode <=> b - 1 < k
      <4>1. (k + 1 = b <=> k = b - 1) /\ (b < k + 1 <=> b - 1 < k)
        OBVIOUS
      <4> QED BY <1>1, <3>1, <4>1 DEF After
    <3>5. ASSUME NEW k \in 1..m2
          PROVE  st[lsq2[k]].spec_mode <=> st[ruu2[b - 1]].seq < st[lsq2[k]].seq
      BY <1>2, <3>1, <3>3 DEF After
    <3>6. After(st, ruu2, n - 1, lsq2, m2, b - 1)
      BY <3>4, <3>5 DEF After
    <3> QED BY <3>1, <3>3, <3>6
  <2> QED BY <2>1, <2>2 DEF Contained
<1>9. Flow(st, ruu2, n - 1, spec, front)
  <2>1. ASSUME NEW k \in 1..(n - 1) - 1, ~st[ruu2[k + 1]].spec_mode
        PROVE  Path(st[ruu2[k]].next_PC, st[ruu2[k + 1]].PC)
    <3>1. k \in 1..n - 1 /\ k + 1 \in 1..n - 1
      OBVIOUS
    <3>2. ruu2[k] = ruu[k + 1] /\ ruu2[k + 1] = ruu[(k + 1) + 1]
      BY <1>1, <3>1
    <3> QED BY <2>1, <3>1, <3>2 DEF Flow
  <2>2. ASSUME n - 1 > 0, ~spec PROVE Path(st[ruu2[n - 1]].next_PC, front)
    <3>1. n - 1 \in 1..n - 1 /\ (n - 1) + 1 = n
      BY <2>2
    <3>2. ruu2[n - 1] = ruu[n]
      BY <3>1, <1>1
    <3> QED BY <2>2, <3>2 DEF Flow
  <2>3. \A k \in 1..n - 1 : /\ st[ruu2[k]].next_PC \in NextPCs(st[ruu2[k]].PC)
                            /\ st[ruu2[k]].PC \in PCs
    BY <1>1 DEF Flow
  <2>4. front \in PCs
    BY DEF Flow
  <2> QED BY <2>1, <2>2, <2>3, <2>4 DEF Flow
<1> QED BY <1>5, <1>6, <1>7, <1>8, <1>9

-----------------------------------------------------------------------------
(* How many accesses belong to some of the address computations.           *)

\* The accesses of the computations of addresses T of the ring from shift on.
AccessesOf(st, ruu, shift, T, lsq, m) ==
    {k \in 1 .. m : \E a \in T : Successor(st, ruu[shift + a], lsq[k])}

\* The accesses of address computations are as many as these.
LEMMA MatchedCount ==
  ASSUME NEW st \in [Ids -> StationSet], NEW n \in Nat, NEW m \in Nat, NEW ruu, NEW lsq,
         Places(ruu, n, RUU), Places(lsq, m, LSQ), NEW top,
         Order(st, ruu, n, lsq, m, top), Pairs(st, ruu, n, lsq, m),
         NEW shift \in 0..n, NEW T \in SUBSET (1..n - shift),
         \A a \in T : st[ruu[shift + a]].ea_comp
  PROVE  LET Y == AccessesOf(st, ruu, shift, T, lsq, m)
         IN IsFiniteSet(T) /\ IsFiniteSet(Y) /\ Cardinality(Y) = Cardinality(T)
<1> DEFINE Y == AccessesOf(st, ruu, shift, T, lsq, m)
           f == [a \in T |-> CHOOSE k \in 1..m : Successor(st, ruu[shift + a], lsq[k])]
<1>1. /\ \A k \in 1..n : st[ruu[k]].seq \in Nat
      /\ \A k \in 1..m : st[lsq[k]].seq \in Nat
  <2>1. \A k \in 1..n : ruu[k] \in Ids
    BY DEF Places, Ids
  <2>2. \A k \in 1..m : lsq[k] \in Ids
    BY DEF Places, Ids
  <2> QED BY <2>1, <2>2, StationFields
<1>2. \A a \in T : shift + a \in 1..n /\ a \in Int /\ a \in 1..n - shift
  OBVIOUS
<1>3. ASSUME NEW a \in T PROVE f[a] \in Y /\ Successor(st, ruu[shift + a], lsq[f[a]])
  <2>1. \E k \in 1..m : Successor(st, ruu[shift + a], lsq[k])
    BY <1>2 DEF Pairs
  <2>2. f[a] = CHOOSE k \in 1..m : Successor(st, ruu[shift + a], lsq[k])
    OBVIOUS
  <2>3. f[a] \in 1..m /\ Successor(st, ruu[shift + a], lsq[f[a]])
    BY <2>1, <2>2
  <2> QED BY <2>3 DEF AccessesOf
<1>4. ASSUME NEW a \in T, NEW b \in T, st[ruu[shift + a]].seq = st[ruu[shift + b]].seq
      PROVE  a = b
  <2>1. \A i, j \in 1..n : i < j => st[ruu[i]].seq < st[ruu[j]].seq
    BY DEF Order, InOrder
  <2>2. ASSUME a < b PROVE FALSE
    <3>1. shift + a < shift + b
      BY <1>2, <2>2
    <3>2. st[ruu[shift + a]].seq < st[ruu[shift + b]].seq
      BY <1>2, <2>1, <3>1
    <3> QED BY <1>1, <1>2, <1>4, <3>2
  <2>3. ASSUME b < a PROVE FALSE
    <3>1. shift + b < shift + a
      BY <1>2, <2>3
    <3>2. st[ruu[shift + b]].seq < st[ruu[shift + a]].seq
      BY <1>2, <2>1, <3>1
    <3> QED BY <1>1, <1>2, <1>4, <3>2
  <2> QED BY <1>2, <2>2, <2>3
<1>5. ASSUME NEW i \in 1..m, NEW j \in 1..m, st[lsq[i]].seq = st[lsq[j]].seq PROVE i = j
  <2>1. \A x, y \in 1..m : x < y => st[lsq[x]].seq < st[lsq[y]].seq
    BY DEF Order, InOrder
  <2> QED BY <1>1, <1>5, <2>1
<1>6. Y \subseteq 1..m /\ \A k \in Y : \E a \in T : Successor(st, ruu[shift + a], lsq[k])
  BY DEF AccessesOf
<1>7. f \in [T -> Y]
  BY <1>3
<1>8. \A a, b \in T : f[a] = f[b] => a = b
  <2>1. ASSUME NEW a \in T, NEW b \in T, f[a] = f[b] PROVE a = b
    <3>1. st[lsq[f[a]]].seq = st[ruu[shift + a]].seq + 1
      BY Zenon, <1>3 DEF Successor
    <3>2. st[lsq[f[a]]].seq = st[ruu[shift + b]].seq + 1
      BY <1>3, <2>1 DEF Successor
    <3> HIDE DEF f
    <3> QED BY <1>1, <1>2, <1>4, <3>1, <3>2
  <2> QED BY <2>1
<1>9. \A k \in Y : \E a \in T : f[a] = k
  <2>1. ASSUME NEW k \in Y PROVE \E a \in T : f[a] = k
    <3>1. PICK a \in T : Successor(st, ruu[shift + a], lsq[k])
      BY <1>6
    <3>2. f[a] \in 1..m /\ k \in 1..m /\ Successor(st, ruu[shift + a], lsq[f[a]])
      BY <1>3, <1>6
    <3> HIDE DEF f, Y
    <3>3. f[a] = k
      BY <1>5, <3>1, <3>2 DEF Successor
    <3> QED BY <3>3
  <2> QED BY <2>1
<1> HIDE DEF f, Y
<1>10. f \in Bijection(T, Y)
  BY <1>7, <1>8, <1>9 DEF Bijection, Injection, Surjection, IsInjective
<1>11. IsFiniteSet(T)
  <2>1. IsFiniteSet(1..n - shift)
    BY FS_Interval
  <2> QED BY <2>1, FS_Subset
<1>12. IsFiniteSet(Y) /\ Cardinality(Y) = Cardinality(T)
  <2>1. ExistsBijection(T, Y)
    BY <1>10 DEF ExistsBijection
  <2> QED BY <1>11, <2>1, FS_Bijection
<1> QED BY <1>11, <1>12 DEF Y

\* The numbers of the stations in a ring.
LEMMA RingNumbers ==
  ASSUME NEW st \in [Ids -> StationSet], NEW n \in Nat, NEW m \in Nat, NEW ruu, NEW lsq,
         Places(ruu, n, RUU), Places(lsq, m, LSQ)
  PROVE  /\ \A k \in 1..n : ruu[k] \in Ids /\ st[ruu[k]].seq \in Nat
         /\ \A k \in 1..m : lsq[k] \in Ids /\ st[lsq[k]].seq \in Nat
<1>1. \A k \in 1..n : ruu[k] \in Ids
  BY DEF Places, Ids
<1>2. \A k \in 1..m : lsq[k] \in Ids
  BY DEF Places, Ids
<1> QED BY <1>1, <1>2, StationFields

(* The address computations after place b, and how many accesses are older. *)
YoungAgens(st, ruu, n, b) == {k \in 1 .. n - b : st[ruu[b + k]].ea_comp}
\* How many accesses recovery at the station b keeps.
OldAccesses(st, ruu, n, m, b) == m - Cardinality(YoungAgens(st, ruu, n, b))

\* The accesses younger than the station b are those that recovery counts.
LEMMA AccessesCounted ==
  ASSUME NEW st \in [Ids -> StationSet], NEW n \in Nat, NEW m \in Nat, NEW ruu, NEW lsq,
         Places(ruu, n, RUU), Places(lsq, m, LSQ), NEW top,
         Order(st, ruu, n, lsq, m, top), Pairs(st, ruu, n, lsq, m),
         NEW b \in 1..n, ~st[ruu[b]].ea_comp
  PROVE  LET t == OldAccesses(st, ruu, n, m, b)
         IN /\ t \in 0..m
            /\ \A k \in 1..m : st[ruu[b]].seq < st[lsq[k]].seq <=> k > t
<1> DEFINE T == YoungAgens(st, ruu, n, b)
           Y == AccessesOf(st, ruu, b, T, lsq, m)
           s == st[ruu[b]].seq
<1>1. /\ \A k \in 1..n : st[ruu[k]].seq \in Nat
      /\ \A k \in 1..m : st[lsq[k]].seq \in Nat
      /\ s \in Nat
  BY RingNumbers
<1>2. T \in SUBSET (1..n - b) /\ (\A a \in T : st[ruu[b + a]].ea_comp) /\ b \in 0..n
      /\ \A k \in 1..n - b : st[ruu[b + k]].ea_comp => k \in T
  BY DEF YoungAgens
<1>3. \A i, j \in 1..n : i < j => st[ruu[i]].seq < st[ruu[j]].seq
  BY DEF Order, InOrder
<1>4. \A i, j \in 1..m : i < j => st[lsq[i]].seq < st[lsq[j]].seq
  BY DEF Order, InOrder
<1> HIDE DEF T
<1>5. ASSUME NEW k \in 1..m, s < st[lsq[k]].seq PROVE k \in Y
  <2>1. PICK a \in 1..n : st[ruu[a]].ea_comp /\ Successor(st, ruu[a], lsq[k])
    BY DEF Pairs
  <2>2. s <= st[ruu[a]].seq
    BY <1>1, <1>5, <2>1 DEF Successor
  <2>3. b < a
    <3>1. ~(a < b)
      BY <1>1, <1>3, <2>2
    <3> QED BY <2>1, <3>1
  <2>4. a - b \in 1..n - b /\ b + (a - b) = a
    BY <2>3
  <2>5. a - b \in T
    BY <1>2, <2>1, <2>4
  <2> QED BY <2>1, <2>4, <2>5 DEF AccessesOf
<1>6. ASSUME NEW k \in Y PROVE k \in 1..m /\ s < st[lsq[k]].seq
  <2>1. PICK a \in T : Successor(st, ruu[b + a], lsq[k])
    BY DEF AccessesOf
  <2>2. b + a \in 1..n /\ b < b + a
    BY <1>2
  <2>3. s < st[ruu[b + a]].seq
    BY <1>3, <2>2
  <2>4. k \in 1..m
    BY DEF AccessesOf
  <2> QED BY <1>1, <2>1, <2>2, <2>3, <2>4 DEF Successor
<1> HIDE DEF Y, s
<1>7. Y \in SUBSET (1..m) /\ \A i, j \in 1..m : i < j /\ i \in Y => j \in Y
  <2>1. ASSUME NEW i \in 1..m, NEW j \in 1..m, i < j, i \in Y PROVE j \in Y
    <3>1. s < st[lsq[i]].seq /\ st[lsq[i]].seq < st[lsq[j]].seq
      BY <1>4, <1>6, <2>1
    <3>2. s < st[lsq[j]].seq
      BY <1>1, <3>1
    <3> QED BY <1>5, <3>2
  <2> QED BY <1>6, <2>1
<1>8. Cardinality(Y) \in 0..m /\ \A k \in 1..m : k \in Y <=> k > m - Cardinality(Y)
  BY <1>7, SuffixInterval
<1>9. Cardinality(Y) = Cardinality(T)
  BY <1>2, MatchedCount DEF Y
<1>10. OldAccesses(st, ruu, n, m, b) = m - Cardinality(Y)
  BY <1>9 DEF OldAccesses, T
<1>11. m - Cardinality(Y) \in 0..m
  BY <1>8
<1> QED BY <1>5, <1>6, <1>8, <1>10, <1>11 DEF s

(* The address computations up to place c.                                 *)
AgensUpTo(st, ruu, n, c) == {k \in 1 .. n : k <= c /\ st[ruu[k]].ea_comp}

\* The k-th access belongs to the k-th address computation.
LEMMA AccessRanks ==
  ASSUME NEW st \in [Ids -> StationSet], NEW n \in Nat, NEW m \in Nat, NEW ruu, NEW lsq,
         Places(ruu, n, RUU), Places(lsq, m, LSQ), NEW top,
         Order(st, ruu, n, lsq, m, top), Pairs(st, ruu, n, lsq, m)
  PROVE  /\ Cardinality(AgensUpTo(st, ruu, n, n)) = m
         /\ \A k \in 1..m : \E a \in 1..n :
               /\ st[ruu[a]].ea_comp /\ Successor(st, ruu[a], lsq[k])
               /\ Cardinality(AgensUpTo(st, ruu, n, a)) = k
<1> DEFINE T(c) == AgensUpTo(st, ruu, n, c)
           Y(c) == AccessesOf(st, ruu, 0, T(c), lsq, m)
<1>1. /\ \A k \in 1..n : st[ruu[k]].seq \in Nat
      /\ \A k \in 1..m : st[lsq[k]].seq \in Nat
  BY RingNumbers
<1>2. \A i, j \in 1..n : i < j => st[ruu[i]].seq < st[ruu[j]].seq
  BY DEF Order, InOrder
<1>3. \A i, j \in 1..m : i < j => st[lsq[i]].seq < st[lsq[j]].seq
  BY DEF Order, InOrder
<1>4. ASSUME NEW c \in 0..n
      PROVE  /\ \A a : a \in T(c) <=> a \in 1..n /\ a <= c /\ st[ruu[a]].ea_comp
             /\ Y(c) \in SUBSET (1..m)
             /\ \A k \in 1..m : k \in Y(c) <=> \E a \in T(c) : Successor(st, ruu[a], lsq[k])
             /\ Cardinality(Y(c)) = Cardinality(T(c))
  <2> DEFINE U == T(c)
  <2>1. \A a : a \in U <=> a \in 1..n /\ a <= c /\ st[ruu[a]].ea_comp
    BY DEF AgensUpTo
  <2>2. U \in SUBSET (1..n - 0) /\ 0 \in 0..n /\ \A a \in U : 0 + a = a
    BY <2>1
  <2>3. \A a \in U : st[ruu[0 + a]].ea_comp
    BY <2>1, <2>2
  <2> HIDE DEF U
  <2> DEFINE V == AccessesOf(st, ruu, 0, U, lsq, m)
             z == 0
  <2>4. Cardinality(AccessesOf(st, ruu, z, U, lsq, m)) = Cardinality(U)
    <3>1. U \in SUBSET (1..n - z) /\ z \in 0..n /\ \A a \in U : st[ruu[z + a]].ea_comp
      BY <2>2, <2>3
    <3> HIDE DEF z
    <3> QED BY <3>1, MatchedCount
  <2>5. V \in SUBSET (1..m) /\ \A k \in 1..m : k \in V <=> \E a \in U : Successor(st, ruu[a], lsq[k])
    BY <2>2 DEF AccessesOf
  <2> QED BY <2>1, <2>4, <2>5 DEF U
<1> HIDE DEF T, Y
<1>5. ASSUME NEW c \in 0..n
      PROVE  /\ Cardinality(T(c)) \in 0..m
             /\ \A k \in 1..m : k \in Y(c) <=> k <= Cardinality(T(c))
  <2>1. ASSUME NEW i \in 1..m, NEW j \in 1..m, i < j, j \in Y(c) PROVE i \in Y(c)
    <3>1. PICK a \in T(c) : Successor(st, ruu[a], lsq[j])
      BY <1>4, <2>1
    <3>2. a \in 1..n /\ a <= c
      BY <1>4, <3>1
    <3>3. PICK d \in 1..n : st[ruu[d]].ea_comp /\ Successor(st, ruu[d], lsq[i])
      BY DEF Pairs
    <3>4. st[lsq[i]].seq < st[lsq[j]].seq
      BY <1>3, <2>1
    <3>5. st[ruu[d]].seq < st[ruu[a]].seq
      BY <1>1, <3>1, <3>2, <3>3, <3>4 DEF Successor
    <3>6. d <= a
      <4>1. ~(a < d)
        BY <1>1, <1>2, <3>2, <3>5
      <4> QED BY <3>2, <4>1
    <3>7. d \in T(c)
      BY <1>4, <3>2, <3>3, <3>6
    <3> QED BY <1>4, <3>3, <3>7
  <2> DEFINE y == Y(c)
  <2>2. y \in SUBSET (1..m) /\ \A i, j \in 1..m : i < j /\ j \in y => i \in y
    BY <1>4, <2>1
  <2> HIDE DEF y
  <2>3. Cardinality(y) \in 0..m /\ \A k \in 1..m : k \in y <=> k <= Cardinality(y)
    BY <2>2, PrefixInterval
  <2>4. Cardinality(y) = Cardinality(T(c))
    BY <1>4 DEF y
  <2> QED BY <2>3, <2>4 DEF y
<1>6. Cardinality(T(n)) = m
  <2>1. n \in 0..n
    OBVIOUS
  <2>2. \A k \in 1..m : k \in Y(n)
    <3>1. ASSUME NEW k \in 1..m PROVE k \in Y(n)
      <4>1. PICK a \in 1..n : st[ruu[a]].ea_comp /\ Successor(st, ruu[a], lsq[k])
        BY DEF Pairs
      <4>2. a \in T(n)
        BY <1>4, <2>1, <4>1
      <4> QED BY <1>4, <2>1, <4>1, <4>2
    <3> QED BY <3>1
  <2>3. m > 0 => m \in 1..m
    OBVIOUS
  <2>4. Cardinality(T(n)) \in 0..m /\ (m > 0 => m <= Cardinality(T(n)))
    BY <1>5, <2>1, <2>2, <2>3
  <2> QED BY <2>4
<1>7. ASSUME NEW k \in 1..m
      PROVE  \E a \in 1..n : /\ st[ruu[a]].ea_comp /\ Successor(st, ruu[a], lsq[k])
                             /\ Cardinality(T(a)) = k
  <2>1. PICK a \in 1..n : st[ruu[a]].ea_comp /\ Successor(st, ruu[a], lsq[k])
    BY DEF Pairs
  <2>2. a \in 0..n /\ a \in T(a)
    <3>1. a \in 0..n /\ a <= a
      OBVIOUS
    <3> QED BY <1>4, <2>1, <3>1
  <2>3. k <= Cardinality(T(a)) /\ Cardinality(T(a)) \in 0..m
    BY <1>4, <1>5, <2>1, <2>2
  <2>4. ASSUME k < Cardinality(T(a)) PROVE FALSE
    <3>1. k + 1 \in 1..m /\ k + 1 <= Cardinality(T(a)) /\ k < k + 1
      BY <2>3, <2>4
    <3>2. k + 1 \in Y(a)
      BY <1>5, <2>2, <3>1
    <3>3. PICK d \in T(a) : Successor(st, ruu[d], lsq[k + 1])
      BY <1>4, <2>2, <3>1, <3>2
    <3>4. d \in 1..n /\ d <= a
      BY <1>4, <2>2, <3>3
    <3>5. st[ruu[d]].seq <= st[ruu[a]].seq
      BY <1>1, <1>2, <3>4
    <3>6. st[lsq[k]].seq < st[lsq[k + 1]].seq
      BY <1>3, <3>1
    <3>7. st[lsq[k]].seq = st[ruu[a]].seq + 1 /\ st[lsq[k + 1]].seq = st[ruu[d]].seq + 1
      BY <2>1, <3>3 DEF Successor
    <3>8. st[ruu[d]].seq \in Nat /\ st[ruu[a]].seq \in Nat
      BY <1>1, <3>4
    <3> QED BY <3>5, <3>6, <3>7, <3>8
  <2>5. Cardinality(T(a)) = k
    BY <2>3, <2>4
  <2> QED BY <2>1, <2>5
<1> QED BY <1>6, <1>7 DEF T

-----------------------------------------------------------------------------
(* The youngest stations leave, when b recovers.                           *)

\* Only the right path is in flight.
NothingSpeculative(st, ruu, n, lsq, m) ==
    /\ \A k \in 1 .. n : ~st[ruu[k]].spec_mode
    /\ \A k \in 1 .. m : ~st[lsq[k]].spec_mode

(* The first num places of two rings are the same.                         *)
SameFirst(a, a2, num) == \A k \in 1 .. num : a2[k] = a[k]

(* What is left after a recovery, at whose end is the branch.              *)
Remains(st, ruu, n, lsq, m, top, pc) ==
    /\ Kinds(st, lsq, m) /\ Order(st, ruu, n, lsq, m, top)
    /\ Pairs(st, ruu, n, lsq, m) /\ Flow(st, ruu, n, FALSE, pc)
    /\ NothingSpeculative(st, ruu, n, lsq, m)
    /\ \A k \in 1 .. n : Recovering(st, ruu[k]) <=> k = n

\* What is left after a recovery is as if the wrong path had not been taken.
LEMMA YoungestLeave ==
  ASSUME NEW st \in [Ids -> StationSet], NEW n \in Nat, NEW m \in Nat, NEW ruu, NEW lsq,
         Places(ruu, n, RUU), Places(lsq, m, LSQ), NEW top, NEW pc, NEW front, NEW spec,
         Kinds(st, lsq, m), Order(st, ruu, n, lsq, m, top), Pairs(st, ruu, n, lsq, m),
         Flow(st, ruu, n, spec, front), pc \in PCs, pc \in Nat,
         NEW b \in 1..n, NEW e, e = ruu[b], st[e].next_PC = pc, After(st, ruu, n, lsq, m, b),
         ~st[e].ea_comp, NEW t, t = OldAccesses(st, ruu, n, m, b),
         NEW ruu2, SameFirst(ruu, ruu2, b), NEW lsq2, SameFirst(lsq, lsq2, t)
  PROVE  t \in 0..m /\ Remains(st, ruu2, b, lsq2, t, top, pc)
<1>1. /\ \A k \in 1..n : st[ruu[k]].seq \in Nat
      /\ \A k \in 1..m : st[lsq[k]].seq \in Nat
  BY RingNumbers
<1>2. /\ t \in 0..m
      /\ \A k \in 1..m : st[ruu[b]].seq < st[lsq[k]].seq <=> k > t
  BY AccessesCounted
<1>3. /\ \A k \in 1..b : ruu2[k] = ruu[k] /\ k \in 1..n /\ ~(b < k)
      /\ \A k \in 1..t : lsq2[k] = lsq[k] /\ k \in 1..m /\ ~(k > t)
  BY <1>2 DEF SameFirst
<1>4. Kinds(st, lsq2, t)
  BY <1>3 DEF Kinds
<1>5. Order(st, ruu2, b, lsq2, t, top)
  BY <1>3 DEF Order, InOrder
<1>6. Pairs(st, ruu2, b, lsq2, t)
  <2>1. ASSUME NEW a \in 1..b, st[ruu2[a]].ea_comp
        PROVE  \E k \in 1..t : Successor(st, ruu2[a], lsq2[k])
    <3>1. a \in 1..n /\ ruu2[a] = ruu[a]
      BY <1>3
    <3>2. PICK k \in 1..m : Successor(st, ruu[a], lsq[k])
      BY <2>1, <3>1 DEF Pairs
    <3>3. a < b
      <4>1. a # b
        BY <2>1, <3>1
      <4> QED BY <4>1
    <3>4. Apart(st, ruu[a], ruu[b])
      BY <2>1, <3>1, <3>3 DEF Pairs
    <3>5. ~(st[ruu[b]].seq < st[lsq[k]].seq)
      BY <1>1, <3>1, <3>2, <3>4 DEF Successor, Apart
    <3>6. k \in 1..t
      BY <1>2, <3>5
    <3> QED BY <1>3, <3>1, <3>2, <3>6
  <2>2. ASSUME NEW k \in 1..t
        PROVE  \E a \in 1..b : st[ruu2[a]].ea_comp /\ Successor(st, ruu2[a], lsq2[k])
    <3>1. k \in 1..m /\ lsq2[k] = lsq[k] /\ ~(k > t)
      BY <1>3
    <3>2. PICK a \in 1..n : st[ruu[a]].ea_comp /\ Successor(st, ruu[a], lsq[k])
      BY <3>1 DEF Pairs
    <3>3. ~(st[ruu[b]].seq < st[lsq[k]].seq)
      BY <1>2, <3>1
    <3>4. st[ruu[a]].seq < st[ruu[b]].seq
      BY <1>1, <3>1, <3>2, <3>3 DEF Successor
    <3>5. ~(b < a)
      <4>1. ASSUME b < a PROVE FALSE
        <5>1. st[ruu[b]].seq < st[ruu[a]].seq
          BY <4>1 DEF Order, InOrder
        <5> QED BY <1>1, <3>4, <5>1
      <4> QED BY <4>1
    <3>6. a \in 1..b
      BY <3>5
    <3> QED BY <1>3, <3>1, <3>2, <3>6
  <2>3. ASSUME NEW a \in 1..b, NEW j \in 1..b, st[ruu2[a]].ea_comp, a < j
        PROVE  Apart(st, ruu2[a], ruu2[j])
    BY <1>3, <2>3 DEF Pairs
  <2> QED BY <2>1, <2>2, <2>3 DEF Pairs
<1>7. NothingSpeculative(st, ruu2, b, lsq2, t)
  <2>1. ASSUME NEW k \in 1..b PROVE ~st[ruu2[k]].spec_mode
    BY <1>3 DEF After
  <2>2. ASSUME NEW k \in 1..t PROVE ~st[lsq2[k]].spec_mode
    BY <1>2, <1>3 DEF After
  <2> QED BY <2>1, <2>2 DEF NothingSpeculative
<1>8. Flow(st, ruu2, b, FALSE, pc)
  <2>1. \A k \in 1..b : /\ st[ruu2[k]].next_PC \in NextPCs(st[ruu2[k]].PC)
                        /\ st[ruu2[k]].PC \in PCs
    BY <1>3 DEF Flow
  <2>2. ASSUME NEW k \in 1..b - 1, ~st[ruu2[k + 1]].spec_mode
        PROVE  Path(st[ruu2[k]].next_PC, st[ruu2[k + 1]].PC)
    <3>1. k \in 1..b /\ k + 1 \in 1..b /\ k \in 1..n - 1
      OBVIOUS
    <3> QED BY <1>3, <2>2, <3>1 DEF Flow
  <2>3. Path(st[ruu2[b]].next_PC, pc)
    <3>1. b \in 1..b
      OBVIOUS
    <3>2. st[ruu2[b]].next_PC = pc
      BY <1>3, <3>1
    <3>3. pc >= pc /\ pc..pc - 1 = {}
      OBVIOUS
    <3> QED BY <3>2, <3>3 DEF Path
  <2> QED BY <2>1, <2>2, <2>3 DEF Flow
<1>9. \A k \in 1..b : Recovering(st, ruu2[k]) <=> k = b
  BY <1>3 DEF After
<1> QED BY <1>2, <1>4, <1>5, <1>6, <1>7, <1>8, <1>9 DEF Remains

-----------------------------------------------------------------------------
(* A new station enters the rings, with its access if there is one.        *)

\* The station is in the rings as it was.
SameStation(st, st2, id) ==
    /\ st2[id].op = st[id].op /\ st2[id].in_LSQ = st[id].in_LSQ
    /\ st2[id].PC = st[id].PC /\ st2[id].next_PC = st[id].next_PC
    /\ st2[id].seq = st[id].seq /\ st2[id].ea_comp = st[id].ea_comp
    /\ st2[id].recover_inst = st[id].recover_inst
    /\ st2[id].spec_mode = st[id].spec_mode /\ st2[id].completed = st[id].completed

(* id holds the instruction at front, which goes to npc.                   *)
NewOperation(st, id, top, spec, front, npc, mem, mis) ==
    /\ st[id].seq = top + 1 /\ ~st[id].completed
    /\ st[id].PC = front /\ st[id].next_PC = npc
    /\ st[id].spec_mode <=> spec
    /\ st[id].ea_comp <=> mem
    /\ st[id].recover_inst <=> mis

\* The access of an instruction dispatched after the number top.
NewAccess(st, id, top, spec) ==
    st[id].seq = top + 2 /\ st[id].in_LSQ /\ (st[id].spec_mode <=> spec)

(* The rings with the stations of an instruction.                          *)
RingGrows(a, b, num, num2, e, arrives) ==
    IF arrives THEN num2 = num + 1 /\ Longer(a, b, num, e) ELSE num2 = num /\ b = a

(* e enters the ring ruu, and e2 the ring lsq if the instruction is an     *)
(* access.                                                                 *)
Growth(st, st2, ruu, n, ruu2, n2, e, lsq, m, lsq2, m2, e2, mem) ==
    /\ n2 = n + 1 /\ Longer(ruu, ruu2, n, e) /\ RingGrows(lsq, lsq2, m, m2, e2, mem)
    /\ \A k \in 1 .. n : ruu[k] # e2
    /\ \A k \in 1 .. m : lsq[k] # e /\ lsq[k] # e2
    /\ \A k \in Ids : k # e /\ k # e2 => SameStation(st, st2, k)

(* The instruction at front goes to npc, and front2 is dispatched next.    *)
Advance(top, top2, spec, spec2, pc, pc2, front, front2, npc, mem, mis) ==
    /\ mis => ~mem /\ ~spec
    /\ npc \in NextPCs(front) /\ front2 \in PCs
    /\ ~spec /\ ~mis => Path(npc, front2)
    /\ top2 = IF mem THEN top + 2 ELSE top + 1
    /\ spec2 <=> spec \/ mis
    /\ pc2 = IF mis THEN npc ELSE pc

(* The accesses of the ring are accesses.                                  *)
AllAccesses(st, lsq, m) == \A k \in 1 .. m : st[lsq[k]].in_LSQ

(* All of StructureOf but the kinds of the stations.                       *)
RingsOf(st, ruu, n, lsq, m, top, spec, pc, front) ==
    /\ AllAccesses(st, lsq, m) /\ Order(st, ruu, n, lsq, m, top) /\ Pairs(st, ruu, n, lsq, m)
    /\ Contained(st, ruu, n, lsq, m, spec, pc) /\ Flow(st, ruu, n, spec, front)

(* The access, if there is one, has the number after the next.             *)
AccessComes(st, id, top, spec, mem) == mem => NewAccess(st, id, top, spec)

\* A new station is the youngest, and on the path of those before it.
LEMMA NewestArrives ==
  ASSUME NEW st \in [Ids -> StationSet], NEW st2, NEW n \in Nat, NEW m \in Nat,
         NEW ruu, NEW lsq, NEW ruu2, NEW lsq2, NEW n2, NEW m2, NEW e, NEW e2,
         NEW mem \in BOOLEAN, NEW mis \in BOOLEAN, NEW spec \in BOOLEAN, NEW spec2 \in BOOLEAN,
         NEW top \in Nat, NEW top2, NEW pc, NEW pc2, NEW front, NEW front2, NEW npc,
         Places(ruu, n, RUU), Places(lsq, m, LSQ),
         StructureOf(st, ruu, n, lsq, m, top, spec, pc, front),
         Growth(st, st2, ruu, n, ruu2, n2, e, lsq, m, lsq2, m2, e2, mem),
         Advance(top, top2, spec, spec2, pc, pc2, front, front2, npc, mem, mis),
         NewOperation(st2, e, top, spec, front, npc, mem, mis),
         AccessComes(st2, e2, top, spec, mem)
  PROVE  RingsOf(st2, ruu2, n2, lsq2, m2, top2, spec2, pc2, front2)
<1>a. /\ Order(st, ruu, n, lsq, m, top) /\ Pairs(st, ruu, n, lsq, m)
      /\ \A k \in 1..m : st[lsq[k]].in_LSQ
      /\ Contained(st, ruu, n, lsq, m, spec, pc) /\ Flow(st, ruu, n, spec, front)
  BY DEF StructureOf, Kinds
<1>b. \A k \in 1..n : ruu2[k] = ruu[k] /\ SameStation(st, st2, ruu[k])
  BY DEF Places, Longer, Ids, Growth
<1>c. \A k \in 1..m : lsq2[k] = lsq[k] /\ SameStation(st, st2, lsq[k])
  <2>1. ASSUME NEW k \in 1..m PROVE lsq2[k] = lsq[k]
    BY DEF RingGrows, Longer, Growth
  <2> QED BY <2>1 DEF Places, Ids, Growth
<1>d. /\ ruu2[n2] = e /\ n2 = n + 1
      /\ m2 = (IF mem THEN m + 1 ELSE m) /\ (mem => lsq2[m2] = e2)
  BY DEF RingGrows, Longer, Growth
<1>e. /\ NewOperation(st2, ruu2[n2], top, spec, front, npc, mem, mis)
      /\ mem => NewAccess(st2, lsq2[m2], top, spec)
  BY <1>d DEF AccessComes
<1>f. /\ mis => ~mem /\ ~spec
      /\ npc \in NextPCs(front) /\ front2 \in PCs
      /\ ~spec /\ ~mis => Path(npc, front2)
      /\ top2 = IF mem THEN top + 2 ELSE top + 1
      /\ spec2 <=> spec \/ mis
      /\ pc2 = IF mis THEN npc ELSE pc
  BY DEF Advance
<1> USE <1>a, <1>b, <1>c, <1>d, <1>e, <1>f
<1> DEFINE A == ruu2[n2]
           L == lsq2[m2]
<1>1. /\ \A k \in 1..n : st[ruu[k]].seq \in Nat
      /\ \A k \in 1..m : st[lsq[k]].seq \in Nat
  BY RingNumbers
<1>2. /\ \A k \in 1..n : ruu2[k] = ruu[k] /\ st2[ruu[k]].seq = st[ruu[k]].seq
            /\ st2[ruu[k]].ea_comp = st[ruu[k]].ea_comp
            /\ st2[ruu[k]].recover_inst = st[ruu[k]].recover_inst
            /\ st2[ruu[k]].completed = st[ruu[k]].completed
            /\ st2[ruu[k]].spec_mode = st[ruu[k]].spec_mode
            /\ st2[ruu[k]].PC = st[ruu[k]].PC /\ st2[ruu[k]].next_PC = st[ruu[k]].next_PC
      /\ \A k \in 1..m : lsq2[k] = lsq[k] /\ st2[lsq[k]].seq = st[lsq[k]].seq
            /\ st2[lsq[k]].in_LSQ = st[lsq[k]].in_LSQ
            /\ st2[lsq[k]].spec_mode = st[lsq[k]].spec_mode
  BY DEF SameStation
<1>3. /\ \A k \in 1..n2 : k \in 1..n \/ k = n2
      /\ \A k \in 1..m2 : k \in 1..m \/ (mem /\ k = m2)
      /\ n2 \in 1..n2 /\ (mem => m2 \in 1..m2) /\ n2 \notin 1..n /\ (mem => m2 \notin 1..m)
      /\ \A k \in 1..n : k \in 1..n2 /\ k < n2 /\ ~(n2 < k)
      /\ \A k \in 1..m : k \in 1..m2 /\ (mem => k < m2 /\ ~(m2 < k))
  OBVIOUS
<1>4. /\ st2[A].seq = top + 1 /\ ~st2[A].completed
      /\ st2[A].PC = front /\ st2[A].next_PC = npc
      /\ st2[A].spec_mode <=> spec
      /\ st2[A].ea_comp <=> mem
      /\ st2[A].recover_inst <=> mis
  BY DEF NewOperation
<1>5. mem => st2[L].seq = top + 2 /\ st2[L].in_LSQ /\ (st2[L].spec_mode <=> spec)
  BY DEF NewAccess
<1>6. /\ \A k \in 1..n : st[ruu[k]].seq <= top
      /\ \A k \in 1..m : st[lsq[k]].seq <= top
  BY DEF Order
<1> HIDE DEF A, L
<1>7. Order(st2, ruu2, n2, lsq2, m2, top2)
  <2>1. ASSUME NEW j \in 1..n2, NEW k \in 1..n2, j < k
        PROVE  st2[ruu2[j]].seq < st2[ruu2[k]].seq
    <3>1. j \in 1..n
      BY <1>3, <2>1
    <3>2. CASE k \in 1..n
      BY <1>2, <2>1, <3>1, <3>2 DEF Order, InOrder
    <3>3. CASE k = n2
      BY <1>1, <1>2, <1>4, <1>6, <3>1, <3>3 DEF A
    <3> QED BY <1>3, <3>2, <3>3
  <2>2. ASSUME NEW j \in 1..m2, NEW k \in 1..m2, j < k
        PROVE  st2[lsq2[j]].seq < st2[lsq2[k]].seq
    <3>1. j \in 1..m
      BY <1>3, <2>2
    <3>2. CASE k \in 1..m
      BY <1>2, <2>2, <3>1, <3>2 DEF Order, InOrder
    <3>3. CASE mem /\ k = m2
      BY <1>1, <1>2, <1>5, <1>6, <3>1, <3>3 DEF L
    <3> QED BY <1>3, <3>2, <3>3
  <2>3. ASSUME NEW k \in 1..n2 PROVE st2[ruu2[k]].seq <= top2
    BY <1>1, <1>2, <1>3, <1>4, <1>6 DEF A
  <2>4. ASSUME NEW k \in 1..m2 PROVE st2[lsq2[k]].seq <= top2
    BY <1>1, <1>2, <1>3, <1>5, <1>6 DEF L
  <2> QED BY <2>1, <2>2, <2>3, <2>4 DEF Order, InOrder
<1>8. Pairs(st2, ruu2, n2, lsq2, m2)
  <2>1. \A a \in 1..n, k \in 1..m :
          Successor(st2, ruu2[a], lsq2[k]) <=> Successor(st, ruu[a], lsq[k])
    BY <1>2 DEF Successor
  <2>2. mem => Successor(st2, ruu2[n2], lsq2[m2])
    BY <1>4, <1>5 DEF Successor, A, L
  <2>3. ASSUME NEW a \in 1..n2, st2[ruu2[a]].ea_comp
        PROVE  \E k \in 1..m2 : Successor(st2, ruu2[a], lsq2[k])
    <3>1. CASE a \in 1..n
      <4>1. PICK k \in 1..m : Successor(st, ruu[a], lsq[k])
        BY <1>2, <2>3, <3>1 DEF Pairs
      <4> QED BY <1>3, <2>1, <3>1, <4>1
    <3>2. CASE a = n2
      BY <1>3, <1>4, <2>2, <2>3, <3>2 DEF A
    <3> QED BY <1>3, <3>1, <3>2
  <2>4. ASSUME NEW k \in 1..m2
        PROVE  \E a \in 1..n2 : st2[ruu2[a]].ea_comp /\ Successor(st2, ruu2[a], lsq2[k])
    <3>1. CASE k \in 1..m
      <4>1. PICK a \in 1..n : st[ruu[a]].ea_comp /\ Successor(st, ruu[a], lsq[k])
        BY <3>1 DEF Pairs
      <4>2. st2[ruu2[a]].ea_comp
        BY <1>2, <4>1
      <4> QED BY <1>3, <2>1, <3>1, <4>1, <4>2
    <3>2. CASE mem /\ k = m2
      BY <1>3, <1>4, <2>2, <3>2 DEF A
    <3> QED BY <1>3, <3>1, <3>2
  <2>5. ASSUME NEW a \in 1..n2, NEW j \in 1..n2, st2[ruu2[a]].ea_comp, a < j
        PROVE  Apart(st2, ruu2[a], ruu2[j])
    <3>1. a \in 1..n
      BY <1>3, <2>5
    <3>2. st[ruu[a]].ea_comp /\ st2[ruu2[a]].seq = st[ruu[a]].seq
      BY <1>2, <2>5, <3>1
    <3>3. CASE j \in 1..n
      <4>1. Apart(st, ruu[a], ruu[j])
        BY <2>5, <3>1, <3>2, <3>3 DEF Pairs
      <4> QED BY <1>2, <3>2, <3>3, <4>1 DEF Apart
    <3>4. CASE j = n2
      <4>1. PICK k \in 1..m : Successor(st, ruu[a], lsq[k])
        BY <3>1, <3>2 DEF Pairs
      <4>2. st[ruu[a]].seq + 1 <= top
        BY <1>6, <4>1 DEF Successor
      <4>3. st2[ruu2[j]].seq = top + 1
        BY <1>4, <3>4 DEF A
      <4> QED BY <1>1, <3>1, <3>2, <4>2, <4>3 DEF Apart
    <3> QED BY <1>3, <3>3, <3>4
  <2> QED BY <2>3, <2>4, <2>5 DEF Pairs
<1>9. ASSUME NEW k \in 1..m2 PROVE st2[lsq2[k]].in_LSQ
  BY <1>2, <1>3, <1>5 DEF L
<1>10. Contained(st2, ruu2, n2, lsq2, m2, spec2, pc2)
  <2>1. \A k \in 1..n : Recovering(st2, ruu2[k]) <=> Recovering(st, ruu[k])
    BY <1>2 DEF Recovering
  <2>2. Recovering(st2, A) <=> mis
    BY <1>4 DEF Recovering
  <2>3. ASSUME ~spec2
        PROVE  /\ \A k \in 1..n2 : ~Recovering(st2, ruu2[k]) /\ ~st2[ruu2[k]].spec_mode
               /\ \A k \in 1..m2 : ~st2[lsq2[k]].spec_mode
    <3>1. ~spec /\ ~mis
      BY <2>3
    <3>2. ASSUME NEW k \in 1..n2 PROVE ~Recovering(st2, ruu2[k]) /\ ~st2[ruu2[k]].spec_mode
      BY <1>2, <1>3, <1>4, <2>1, <2>2, <3>1 DEF Contained, A
    <3>3. ASSUME NEW k \in 1..m2 PROVE ~st2[lsq2[k]].spec_mode
      BY <1>2, <1>3, <1>5, <3>1 DEF Contained, L
    <3> QED BY <3>2, <3>3
  <2>4. CASE spec
    <3>1. PICK b \in 1..n : st[ruu[b]].next_PC = pc /\ After(st, ruu, n, lsq, m, b)
      BY <2>4 DEF Contained
    <3>2. b \in 1..n2 /\ st2[ruu2[b]].next_PC = pc2 /\ b < n2 /\ b # n2 /\ ~mis
      BY <1>2, <1>3, <2>4, <3>1
    <3>3. ASSUME NEW k \in 1..n2
          PROVE  /\ Recovering(st2, ruu2[k]) <=> k = b
                 /\ st2[ruu2[k]].spec_mode <=> b < k
      <4>1. CASE k \in 1..n
        BY <1>2, <2>1, <3>1, <4>1 DEF After
      <4>2. CASE k = n2
        BY <1>4, <2>2, <2>4, <3>2, <4>2 DEF A
      <4> QED BY <1>3, <4>1, <4>2
    <3>4. ASSUME NEW k \in 1..m2
          PROVE  st2[lsq2[k]].spec_mode <=> st2[ruu2[b]].seq < st2[lsq2[k]].seq
      <4>1. CASE k \in 1..m
        BY <1>2, <3>1, <4>1 DEF After
      <4>2. CASE mem /\ k = m2
        <5>1. st2[ruu2[b]].seq <= top /\ st2[ruu2[b]].seq \in Nat
          BY <1>1, <1>2, <1>6
        <5> QED BY <1>5, <2>4, <4>2, <5>1 DEF L
      <4> QED BY <1>3, <4>1, <4>2
    <3>5. After(st2, ruu2, n2, lsq2, m2, b)
      BY <3>3, <3>4 DEF After
    <3> QED BY <2>3, <2>4, <3>2, <3>5 DEF Contained
  <2>5. CASE mis
    <3>1. ~spec /\ ~mem /\ m2 = m /\ st2[ruu2[n2]].next_PC = pc2
      BY <1>4, <2>5 DEF A
    <3>2. ASSUME NEW k \in 1..n2
          PROVE  /\ Recovering(st2, ruu2[k]) <=> k = n2
                 /\ st2[ruu2[k]].spec_mode <=> n2 < k
      <4>1. CASE k \in 1..n
        BY <1>2, <1>3, <2>1, <3>1, <4>1 DEF Contained
      <4>2. CASE k = n2
        BY <1>4, <2>2, <2>5, <3>1, <4>2 DEF A
      <4> QED BY <1>3, <4>1, <4>2
    <3>3. ASSUME NEW k \in 1..m2
          PROVE  st2[lsq2[k]].spec_mode <=> st2[ruu2[n2]].seq < st2[lsq2[k]].seq
      <4>1. k \in 1..m /\ ~st[lsq[k]].spec_mode
        BY <3>1 DEF Contained
      <4>2. ~st2[lsq2[k]].spec_mode /\ st2[lsq2[k]].seq \in Nat /\ st2[lsq2[k]].seq <= top
        BY <1>1, <1>2, <1>6, <4>1
      <4> QED BY <1>4, <4>2 DEF A
    <3>4. After(st2, ruu2, n2, lsq2, m2, n2)
      BY <3>2, <3>3 DEF After
    <3> QED BY <1>3, <2>5, <3>1, <3>4 DEF Contained
  <2>6. CASE ~spec /\ ~mis
    BY <2>3, <2>6 DEF Contained
  <2> QED BY <2>4, <2>5, <2>6
<1>11. Flow(st2, ruu2, n2, spec2, front2)
  <2>1. ASSUME NEW k \in 1..n2
        PROVE  /\ st2[ruu2[k]].next_PC \in NextPCs(st2[ruu2[k]].PC)
               /\ st2[ruu2[k]].PC \in PCs
    <3>1. CASE k \in 1..n
      BY <1>2, <3>1 DEF Flow
    <3>2. CASE k = n2
      BY <1>4, <3>2 DEF Flow, A
    <3> QED BY <1>3, <3>1, <3>2
  <2>2. ASSUME NEW k \in 1..n2 - 1, ~st2[ruu2[k + 1]].spec_mode
        PROVE  Path(st2[ruu2[k]].next_PC, st2[ruu2[k + 1]].PC)
    <3>1. k \in 1..n
      OBVIOUS
    <3>2. CASE k \in 1..n - 1
      <4>1. k + 1 \in 1..n
        BY <3>2
      <4> QED BY <1>2, <2>2, <3>1, <3>2, <4>1 DEF Flow
    <3>3. CASE k = n
      <4>1. k + 1 = n2 /\ n > 0
        BY <3>3
      <4>2. ~spec /\ st2[ruu2[k + 1]].PC = front
        BY <1>4, <2>2, <4>1 DEF A
      <4> QED BY <1>2, <3>1, <3>3, <4>1, <4>2 DEF Flow
    <3> QED BY <3>1, <3>2, <3>3
  <2>3. ASSUME ~spec2 PROVE Path(st2[ruu2[n2]].next_PC, front2)
    BY <1>4, <2>3 DEF A
  <2> QED BY <2>1, <2>2, <2>3 DEF Flow
<1> QED BY <1>7, <1>8, <1>9, <1>10, <1>11 DEF RingsOf, AllAccesses

-----------------------------------------------------------------------------
(* The invariant.                                                          *)

\* The program and the options are those of a setup.
Program == \E s \in Setups : text = s.text /\ options = s.options /\ uncached \subseteq s.uncached

\* What each variable holds.
CoreTypes ==
    /\ Program
    /\ stage \in {"commit", "writeback", "refresh", "issue", "dispatch", "fetch", "exited"}
    /\ station \in [Ids -> StationSet]
    /\ event_queue \in Seq(LinkSet) /\ ready_queue \in Seq(LinkSet) /\ node \in Seq(LinkSet)
    /\ rslink_free \in Int /\ inst_seq \in Nat /\ spec_mode \in BOOLEAN
    /\ create_vector \in [Regs \cup {DTMP} -> CVSet]
    /\ spec_create_vector \in [Regs \cup {DTMP} -> CVSet]
    /\ use_spec_cv \in SUBSET (Regs \cup {DTMP})
    /\ busy \in [DOMAIN fu_pool -> Nat]

\* The two rings as their counts say.
RingTypes ==
    /\ RUU_head \in 0 .. RUU_size - 1 /\ RUU_num \in 0 .. RUU_size
    /\ RUU_tail = (RUU_head + RUU_num) % RUU_size
    /\ LSQ_head \in 0 .. LSQ_size - 1 /\ LSQ_num \in 0 .. LSQ_size
    /\ LSQ_tail = (LSQ_head + LSQ_num) % LSQ_size

(* The fetch queue holds a path: every entry was fetched because the one   *)
(* before it predicted so, and next is what the last one predicts.         *)
IFQ(head, num) == RingIds("IFQ", head, num, ruu_ifq_size)

\* What was fetched leads from one entry of the queue to the next.
FetchedPath(data, slots, n, next) ==
    \A k \in 1 .. n :
        LET f == data[slots[k][2]]
        IN /\ f.pred_PC = Following(f.regs_PC) \/ Inst(f.regs_PC).op \in F_CTRL
           /\ f.pred_PC = IF k = n THEN next ELSE data[slots[k + 1][2]].regs_PC

\* The fetch queue and the addresses of fetch.
FetchOf(head, tail, num, data, pred, regs, rec) ==
    /\ head \in 0 .. ruu_ifq_size - 1 /\ num \in 0 .. ruu_ifq_size
    /\ tail = (head + num) % ruu_ifq_size
    /\ data \in [0 .. ruu_ifq_size - 1 -> [regs_PC : PCs, pred_PC : PCs]]
    /\ pred \in PCs /\ regs \in PCs /\ rec \in PCs
    /\ FetchedPath(data, IFQ(head, num), num, pred)

\* The fetch queue of the core.
FetchInv ==
    FetchOf(fetch_head, fetch_tail, fetch_num, fetch_data, fetch_pred_PC, fetch_regs_PC, recover_PC)

(* The links of the stations F are in order.                               *)
LinksOf(st, F, rq, nd, eq) ==
    /\ ReadyLinks(st, F, rq, nd) /\ EventLinks(st, F, eq)
    /\ ChainLinks(st, F, Ids) /\ Progress(st, F, {})

\* The stations in flight.
Flight(ruu, n, lsq, m) == {ruu[k] : k \in 1 .. n} \cup {lsq[k] : k \in 1 .. m}

\* Every link of the core is in order; what issue visits is put back.
LinksInv ==
    /\ LinksOf(station, Flight(RUUIds, RUU_num, LSQIds, LSQ_num), ready_queue, node, event_queue)
    /\ stage # "issue" => node = <<>>

(* What is dispatched next.                                                *)
FrontPC == IF fetch_num > 0 THEN Fetched.regs_PC ELSE fetch_pred_PC

\* The structure of the core.
Structure ==
    StructureOf(station, RUUIds, RUU_num, LSQIds, LSQ_num, inst_seq, spec_mode, recover_PC, FrontPC)

\* The inductive invariant.
IInv == CoreTypes /\ RingTypes /\ FetchInv /\ LinksInv /\ EventsInOrder /\ Structure

(* A step that retires what is oldest: only NOPs lie between the address   *)
(* that it leads to and what is oldest after it.                           *)
Retires == \E next \in NextPCs(OldestPC) : Path(next, OldestPC')

-----------------------------------------------------------------------------
(* What the proofs of the actions share.                                   *)

\* The places of the two rings, and the stations in flight.
LEMMA RingPlaces ==
  ASSUME NEW h \in 0..RUU_size - 1, NEW n \in 0..RUU_size,
         NEW g \in 0..LSQ_size - 1, NEW m \in 0..LSQ_size
  PROVE  LET ruu == RingIds("RUU", h, n, RUU_size)
             lsq == RingIds("LSQ", g, m, LSQ_size)
         IN /\ Places(ruu, n, RUU) /\ Places(lsq, m, LSQ)
            /\ n \in Nat /\ m \in Nat
            /\ ToSet(ruu) \cup ToSet(lsq) = Flight(ruu, n, lsq, m)
            /\ Flight(ruu, n, lsq, m) \in SUBSET Ids
            /\ DOMAIN ruu = 1..n /\ DOMAIN lsq = 1..m
<1> DEFINE ruu == RingIds("RUU", h, n, RUU_size)
           lsq == RingIds("LSQ", g, m, LSQ_size)
<1>1. RUU_size \in Nat \ {0} /\ LSQ_size \in Nat \ {0} /\ n \in Nat /\ m \in Nat
  BY SizesAssumption
<1>2. Places(ruu, n, RUU) /\ DOMAIN ruu = 1..n
  BY <1>1, RingPlace DEF RUU
<1>3. Places(lsq, m, LSQ) /\ DOMAIN lsq = 1..m
  BY <1>1, RingPlace DEF LSQ
<1> HIDE DEF ruu, lsq
<1>5. ToSet(ruu) \cup ToSet(lsq) = Flight(ruu, n, lsq, m)
  BY <1>2, <1>3 DEF ToSet, Flight
<1>6. Flight(ruu, n, lsq, m) \in SUBSET Ids
  BY <1>2, <1>3 DEF Flight, Ids, Places
<1> QED BY <1>1, <1>2, <1>3, <1>5, <1>6 DEF ruu, lsq

\* The ids are finitely many.
LEMMA IdsFinite == IsFiniteSet(Ids)
<1>1. RUU_size - 1 \in Int /\ LSQ_size - 1 \in Int /\ 0 \in Int
  BY SizesAssumption
<1>2. IsFiniteSet(0..RUU_size - 1) /\ IsFiniteSet(0..LSQ_size - 1)
  BY <1>1, FS_Interval
<1>3. IsFiniteSet({"RUU"}) /\ IsFiniteSet({"LSQ"})
  BY FS_Singleton
<1>4. IsFiniteSet({"RUU"} \X (0..RUU_size - 1)) /\ IsFiniteSet({"LSQ"} \X (0..LSQ_size - 1))
  BY <1>2, <1>3, FS_Product
<1> QED BY <1>4, FS_Union DEF Ids, RUU, LSQ

\* Where the output chains of some stations have links.
ChainPlaces(st, ids) ==
    UNION {{<<id, j, n>> : n \in DOMAIN st[id].odep_list[j]} : id \in ids, j \in 1 .. 2}

\* The links in the chains of some stations are finitely many.
LEMMA ChainsCounted ==
  ASSUME NEW st \in [Ids -> StationSet], NEW ids \in SUBSET Ids
  PROVE  Chains(st, ids) \in Nat /\ IsFiniteSet(ChainPlaces(st, ids))
<1> DEFINE Of(id, j) == {<<id, j, n>> : n \in DOMAIN st[id].odep_list[j]}
           S == {Of(id, j) : id \in ids, j \in 1..2}
           P == ids \X (1..2)
           f == [x \in P |-> Of(x[1], x[2])]
<1>1. ASSUME NEW id \in ids, NEW j \in 1..2 PROVE IsFiniteSet(Of(id, j))
  <2> DEFINE list == st[id].odep_list[j]
             I == 1..Len(list)
             T == Of(id, j)
             g == [n \in I |-> <<id, j, n>>]
  <2>1. list \in Seq(OperandSet)
    BY StationFields
  <2>2. Len(list) \in Nat /\ DOMAIN list = 1..Len(list)
    BY <2>1
  <2>3. IsFiniteSet(1..Len(list))
    BY <2>2, IntervalFinite
  <2>4. g \in [I -> T] /\ \A t \in T : \E n \in I : g[n] = t
    BY <2>2
  <2> HIDE DEF g, I, T
  <2>5. g \in Surjection(I, T)
    BY <2>4 DEF Surjection
  <2>6. IsFiniteSet(T)
    BY <2>3, <2>5, FS_Surjection DEF I
  <2> QED BY <2>6 DEF T
<1>2. IsFiniteSet(P)
  <2>1. IsFiniteSet(ids)
    BY IdsFinite, FS_Subset
  <2>2. IsFiniteSet(1..2)
    <3> DEFINE two == 2
    <3>1. two \in Int
      OBVIOUS
    <3> HIDE DEF two
    <3>2. IsFiniteSet(1..two)
      BY <3>1, IntervalFinite
    <3> QED BY <3>2 DEF two
  <2> QED BY <2>1, <2>2, FS_Product
<1>3. f \in [P -> S] /\ \A T \in S : \E x \in P : f[x] = T
  <2>1. ASSUME NEW x \in P PROVE f[x] \in S
    <3>1. x[1] \in ids /\ x[2] \in 1..2
      OBVIOUS
    <3>2. f[x] = Of(x[1], x[2])
      OBVIOUS
    <3> HIDE DEF f, Of
    <3> QED BY <3>1, <3>2
  <2>2. ASSUME NEW T \in S PROVE \E x \in P : f[x] = T
    <3>1. PICK id \in ids, j \in 1..2 : T = Of(id, j)
      OBVIOUS
    <3>2. <<id, j>> \in P /\ f[<<id, j>>] = Of(id, j)
      OBVIOUS
    <3> HIDE DEF f, Of, P
    <3> QED BY <3>1, <3>2
  <2> HIDE DEF S, Of
  <2> QED BY <2>1, <2>2
<1> HIDE DEF f, P
<1>4. IsFiniteSet(S)
  <2> HIDE DEF S
  <2>1. f \in Surjection(P, S)
    BY <1>3 DEF Surjection
  <2> QED BY <1>2, <2>1, FS_Surjection
<1>5. \A T \in S : IsFiniteSet(T)
  <2> HIDE DEF Of
  <2> QED BY <1>1
<1>6. IsFiniteSet(UNION S)
  <2> HIDE DEF S
  <2> QED BY <1>4, <1>5, FS_UNION
<1>7. Cardinality(UNION S) \in Nat
  <2> HIDE DEF S
  <2> QED BY <1>6, FS_CardinalityType
<1> QED BY <1>6, <1>7 DEF Chains, ChainPlaces

\* The links are in the order of their times.
Sorted(list) == \A i, j \in DOMAIN list : i < j => list[i].x <= list[j].x

\* An event is put where the order of times wants it.
LEMMA SortedInsert ==
  ASSUME NEW list \in Seq(LinkSet), NEW link \in LinkSet, Sorted(list)
  PROVE  LET new == eventq_queue_event(list, link)
         IN /\ new \in Seq(LinkSet) /\ Inserted(list, new, link) /\ Sorted(new)
            /\ (\A i \in DOMAIN list : list[i].x > 0) /\ link.x > 0
                 => \A i \in DOMAIN new : new[i].x > 0
<1> DEFINE p == FirstNotBelow(list, link.x)
           new == InsertAt(list, p, link)
           L == Len(list)
<1>1. link.x \in Int /\ L \in Nat /\ DOMAIN list = 1..L
  BY DEF LinkSet
<1>2. /\ p \in 1..L + 1 /\ \A i \in 1..p - 1 : list[i].x < link.x
      /\ p \in DOMAIN list => list[p].x >= link.x
  BY <1>1, FirstNotBelowPlace
<1> HIDE DEF p, new
<1>3. /\ new \in Seq(LinkSet) /\ Len(new) = L + 1 /\ new[p] = link
      /\ \A i \in 1..p - 1 : new[i] = list[i]
      /\ \A i \in p + 1..L + 1 : new[i] = list[i - 1]
  BY <1>2, InsertAtPlaces DEF new
<1>4. \A i \in 1..L : list[i].x \in Int
  BY <1>1, LinkFields
<1>5. \A i \in p..L : list[i].x >= link.x
  <2>1. ASSUME NEW i \in p..L PROVE list[i].x >= link.x
    <3>1. p \in 1..L /\ i \in 1..L
      BY <1>2, <2>1
    <3>2. p < i => list[p].x <= list[i].x
      BY <1>1, <3>1 DEF Sorted
    <3> QED BY <1>1, <1>2, <1>4, <2>1, <3>1, <3>2
  <2> QED BY <2>1
<1>6. Inserted(list, new, link)
  BY <1>2, <1>3 DEF Inserted, L
<1> HIDE DEF L
<1>7. DOMAIN new = 1..L + 1
  BY <1>3
<1>8. ASSUME NEW i \in 1..L + 1
      PROVE  \/ i \in 1..p - 1 /\ i \in 1..L /\ new[i] = list[i]
             \/ i = p /\ new[i] = link
             \/ i - 1 \in p..L /\ i - 1 \in 1..L /\ new[i] = list[i - 1] /\ i > p
  BY <1>1, <1>2, <1>3
<1>9. ASSUME NEW i \in 1..L + 1, NEW j \in 1..L + 1, i < j PROVE new[i].x <= new[j].x
  <2>1. \A a, b \in 1..L : a < b => list[a].x <= list[b].x
    BY <1>1 DEF Sorted
  <2>2. CASE i \in 1..p - 1
    <3>1. new[i] = list[i] /\ i \in 1..L
      BY <1>2, <1>3, <1>8, <2>2
    <3>2. CASE j \in 1..p - 1
      <4>1. new[j] = list[j] /\ j \in 1..L
        BY <1>2, <1>3, <1>8, <3>2
      <4> QED BY <1>9, <2>1, <3>1, <4>1
    <3>3. CASE j = p
      <4>1. new[j] = link /\ new[i].x < link.x
        BY <1>2, <1>3, <2>2, <3>1, <3>3
      <4> QED BY <1>1, <1>4, <3>1, <4>1
    <3>4. CASE j > p
      <4>1. new[j] = list[j - 1] /\ j - 1 \in 1..L /\ i < j - 1
        BY <1>2, <1>8, <2>2, <3>4
      <4> QED BY <2>1, <3>1, <4>1
    <3> QED BY <1>2, <1>8, <3>2, <3>3, <3>4
  <2>3. CASE i = p
    <3>1. new[j] = list[j - 1] /\ j - 1 \in p..L
      BY <1>2, <1>8, <1>9, <2>3
    <3>2. new[i] = link
      BY <1>3, <2>3
    <3>3. list[j - 1].x >= link.x /\ list[j - 1].x \in Int
      BY <1>2, <1>4, <1>5, <3>1
    <3> QED BY <1>1, <3>1, <3>2, <3>3
  <2>4. CASE i > p
    <3>1. /\ new[j] = list[j - 1] /\ new[i] = list[i - 1]
          /\ i - 1 \in 1..L /\ j - 1 \in 1..L /\ i - 1 < j - 1
      BY <1>2, <1>8, <1>9, <2>4
    <3> QED BY <2>1, <3>1
  <2> QED BY <1>2, <1>8, <2>2, <2>3, <2>4
<1>10. Sorted(new)
  BY <1>7, <1>9 DEF Sorted
<1>11. ASSUME \A i \in DOMAIN list : list[i].x > 0, link.x > 0, NEW i \in DOMAIN new
       PROVE  new[i].x > 0
  BY <1>1, <1>7, <1>8, <1>11
<1>12. eventq_queue_event(list, link) = new
  BY DEF eventq_queue_event, new, p
<1> QED BY <1>3, <1>6, <1>10, <1>11, <1>12

\* The rest of a sorted list is sorted.
LEMMA SortedSuffix ==
  ASSUME NEW list \in Seq(LinkSet), NEW n \in 0..Len(list), Sorted(list)
  PROVE  LET rest == SubSeq(list, n + 1, Len(list))
         IN rest \in Seq(LinkSet) /\ Sorted(rest)
<1> DEFINE rest == SubSeq(list, n + 1, Len(list))
<1>1. /\ rest \in Seq(LinkSet)
      /\ \A i \in DOMAIN rest : i + n \in DOMAIN list /\ rest[i] = list[i + n]
  BY SuffixList
<1>2. \A i, j \in DOMAIN rest : i < j => i + n < j + n
  <2>1. DOMAIN rest = 1..Len(rest)
    BY <1>1
  <2> HIDE DEF rest
  <2> QED BY <2>1
<1> HIDE DEF rest
<1>3. Sorted(rest)
  BY <1>1, <1>2 DEF Sorted
<1> QED BY <1>1, <1>3 DEF rest

\* Stations of which only flags of the ready queue differ keep their other links.
LEMMA FlagsOnly ==
  ASSUME NEW st \in [Ids -> StationSet], NEW st2 \in [Ids -> StationSet], SameFields(st, st2),
         \A id \in Ids : st2[id].idep_ready = st[id].idep_ready,
         NEW F \in SUBSET Ids, NEW eq \in Seq(LinkSet),
         EventLinks(st, F, eq), ChainLinks(st, F, Ids)
  PROVE  EventLinks(st2, F, eq) /\ ChainLinks(st2, F, Ids)
<1>1. TagsGrow(st, st2, F, F)
  <2>1. \A id \in Ids : st2[id].tag = st[id].tag /\ st[id].tag \in Nat
    BY StationFields DEF SameFields
  <2> QED BY <2>1 DEF TagsGrow
<1>2. \A id \in F : (st2[id].issued /\ ~st2[id].completed) <=> (st[id].issued /\ ~st[id].completed)
  BY DEF SameFields
<1>3. EventLinks(st2, F, eq)
  BY <1>1, <1>2, EventsKept
<1> DEFINE ids == Ids
<1>4. ChainsFrom(st, st2, F, ids, ids)
  BY DEF SameFields, ChainsFrom
<1>5. ids \in SUBSET Ids /\ F \in SUBSET F /\ ChainLinks(st, F, ids)
  OBVIOUS
<1> HIDE DEF ids
<1>6. ChainLinks(st2, F, ids)
  BY <1>1, <1>4, <1>5, ChainsKept
<1> QED BY <1>3, <1>6 DEF ids

\* The structure depends on the shape of the stations, and who recovers.
LEMMA StructureSame ==
  ASSUME NEW st, NEW st2, SameShape(st, st2), \A id \in Ids : st2[id].completed = st[id].completed,
         NEW n \in Nat, NEW m \in Nat, NEW ruu, NEW lsq,
         Places(ruu, n, RUU), Places(lsq, m, LSQ), NEW top, NEW spec, NEW pc, NEW front,
         StructureOf(st, ruu, n, lsq, m, top, spec, pc, front)
  PROVE  StructureOf(st2, ruu, n, lsq, m, top, spec, pc, front)
<1>1. \A k \in 1..n : Recovering(st2, ruu[k]) <=> Recovering(st, ruu[k])
  BY DEF Recovering, SameShape, Places, Ids
<1>2. Contained(st2, ruu, n, lsq, m, spec, pc)
  BY <1>1, ContainedKept DEF StructureOf
<1> QED BY <1>2, StructureKept DEF StructureOf

\* Stations with the same fields have the same shape.
LEMMA FieldsShape ==
  ASSUME NEW st, NEW st2, SameFields(st, st2)
  PROVE  SameShape(st, st2) /\ \A id \in Ids : st2[id].completed = st[id].completed
BY DEF SameFields, SameShape

\* The structure after a step of the same program.
LEMMA StructurePrimed ==
  ASSUME text' = text,
         StructureOf(station', RUUIds', RUU_num', LSQIds', LSQ_num', inst_seq', spec_mode',
                     recover_PC', FrontPC')
  PROVE  Structure'
<1>1. \A p : (Inst(p) = Inst(p)') /\ (Following(p) = Following(p)') /\ (PCs = PCs')
  BY DEF Inst, Following, PCs, Bogus
<1>2. \A p : NextPCs(p) = NextPCs(p)'
  BY DEF NextPCs, Inst, Following, Bogus
<1>3. \A a, b : Path(a, b) = Path(a, b)'
  BY <1>1 DEF Path
<1> QED BY <1>1, <1>2, <1>3 DEF Structure, StructureOf, Flow

\* The fetch queue after a step of the same program.
LEMMA FetchPrimed ==
  ASSUME text' = text,
         FetchOf(fetch_head', fetch_tail', fetch_num', fetch_data', fetch_pred_PC',
                 fetch_regs_PC', recover_PC')
  PROVE  FetchInv'
<1>1. \A p : (Inst(p) = Inst(p)') /\ (Following(p) = Following(p)') /\ (PCs = PCs')
  BY DEF Inst, Following, PCs, Bogus
<1> QED BY <1>1 DEF FetchInv, FetchOf, FetchedPath, IFQ

\* Fetch is not touched.
LEMMA FetchStays ==
  ASSUME FetchInv, text' = text, UNCHANGED <<ifqVars, fetch_pred_PC, fetch_regs_PC, recover_PC>>
  PROVE  FetchInv' /\ FrontPC' = FrontPC
<1>1. FetchInv'
  <2>1. FetchOf(fetch_head', fetch_tail', fetch_num', fetch_data', fetch_pred_PC',
                fetch_regs_PC', recover_PC')
    BY DEF FetchInv, ifqVars
  <2> QED BY <2>1, FetchPrimed
<1> QED BY <1>1 DEF FrontPC, Fetched, ifqVars

\* Where the stations in flight are.
LEMMA RingsPlaced ==
  ASSUME RingTypes
  PROVE  /\ Places(RUUIds, RUU_num, RUU) /\ Places(LSQIds, LSQ_num, LSQ)
         /\ RUU_num \in Nat /\ LSQ_num \in Nat
         /\ InFlight = Flight(RUUIds, RUU_num, LSQIds, LSQ_num)
         /\ Flight(RUUIds, RUU_num, LSQIds, LSQ_num) \in SUBSET Ids
         /\ DOMAIN RUUIds = 1..RUU_num /\ DOMAIN LSQIds = 1..LSQ_num
BY RingPlaces DEF RingTypes, RUUIds, LSQIds, InFlight

\* The oldest station is the first of its ring.
LEMMA OldestFirst ==
  ASSUME RingTypes, RUU_num > 0
  PROVE  RUUIds[1] = Oldest
<1> DEFINE h == RUU_head
           size == RUU_size
<1>1. 1 \in 1..RUU_num /\ h \in 0..size - 1 /\ size \in Nat \ {0}
  BY SizesAssumption DEF RingTypes
<1>2. RUUIds[1] = <<"RUU", (h + 1 - 1) % size>>
  BY <1>1 DEF RUUIds, RingIds
<1> HIDE DEF h, size
<1>3. h + 1 - 1 = h /\ h % size = h
  BY <1>1, SmallRemainder
<1> QED BY <1>2, <1>3 DEF Oldest, h

\* What is to be retired next stays if the oldest station does.
LEMMA OldestKept ==
  ASSUME RingTypes, RUU_head' = RUU_head, SameShape(station, station'),
         RUU_num' > 0 <=> RUU_num > 0, RUU_num > 0 \/ FrontPC' = FrontPC
  PROVE  OldestPC' = OldestPC
<1>1. CASE RUU_num > 0
  <2>1. Oldest \in Ids /\ Oldest' = Oldest
    BY DEF Oldest, Ids, RUU, RingTypes
  <2> QED BY <1>1, <2>1 DEF OldestPC, SameShape
<1>2. CASE ~(RUU_num > 0)
  BY <1>2 DEF OldestPC, FrontPC
<1> QED BY <1>1, <1>2

\* The rings, and what they hold, stay as they are.
LEMMA StructureStays ==
  ASSUME IInv, text' = text, UNCHANGED <<ruuVars, lsqVars, inst_seq, specVars>>,
         FrontPC' = FrontPC, SameShape(station, station'),
         \A k \in 1..RUU_num : Recovering(station', RUUIds[k]) <=> Recovering(station, RUUIds[k])
  PROVE  /\ RingTypes' /\ Structure' /\ OldestPC' = OldestPC
         /\ RUUIds' = RUUIds /\ RUU_num' = RUU_num /\ LSQIds' = LSQIds /\ LSQ_num' = LSQ_num
<1>1. RUUIds' = RUUIds /\ RUU_num' = RUU_num /\ LSQIds' = LSQIds /\ LSQ_num' = LSQ_num
      /\ inst_seq' = inst_seq /\ spec_mode' = spec_mode /\ recover_PC' = recover_PC
  BY DEF RUUIds, LSQIds, ruuVars, lsqVars, specVars
<1>2. RingTypes'
  BY DEF IInv, RingTypes, ruuVars, lsqVars
<1>3. /\ Places(RUUIds, RUU_num, RUU) /\ Places(LSQIds, LSQ_num, LSQ)
      /\ RUU_num \in Nat /\ LSQ_num \in Nat
  BY RingsPlaced DEF IInv
<1> DEFINE st == station
           st2 == station'
           ruu == RUUIds
           lsq == LSQIds
           n == RUU_num
           m == LSQ_num
           top == inst_seq
           spec == spec_mode
           pc == recover_PC
           front == FrontPC
<1>4. /\ StructureOf(st, ruu, n, lsq, m, top, spec, pc, front)
      /\ SameShape(st, st2) /\ Places(ruu, n, RUU) /\ Places(lsq, m, LSQ)
      /\ n \in Nat /\ m \in Nat
      /\ \A k \in 1..n : Recovering(st2, ruu[k]) <=> Recovering(st, ruu[k])
  BY <1>3 DEF IInv, Structure
<1> HIDE DEF st, st2, ruu, lsq, n, m, top, spec, pc, front
<1>5. Contained(st2, ruu, n, lsq, m, spec, pc)
  BY <1>4, ContainedKept DEF StructureOf
<1>6. StructureOf(st2, ruu, n, lsq, m, top, spec, pc, front)
  BY <1>4, <1>5, StructureKept DEF StructureOf
<1>7. StructureOf(station', RUUIds', RUU_num', LSQIds', LSQ_num', inst_seq', spec_mode',
                  recover_PC', FrontPC')
  BY <1>1, <1>6 DEF st2, ruu, lsq, n, m, top, spec, pc, front
<1>8. Structure'
  BY <1>7, StructurePrimed
<1>9. OldestPC' = OldestPC
  BY OldestKept DEF IInv, ruuVars
<1> QED BY <1>1, <1>2, <1>8, <1>9

\* No station changes.
LEMMA StationsStay ==
  ASSUME IInv, text' = text, UNCHANGED <<station, ruuVars, lsqVars, inst_seq, specVars>>,
         FrontPC' = FrontPC
  PROVE  RingTypes' /\ Structure' /\ OldestPC' = OldestPC
<1>1. SameShape(station, station')
  BY DEF SameShape
<1>2. \A k \in 1..RUU_num : Recovering(station', RUUIds[k]) <=> Recovering(station, RUUIds[k])
  OBVIOUS
<1> QED BY <1>1, <1>2, StructureStays

\* The program is fixed; what it finds in the I-cache only grows.
LEMMA ProgramFixed ==
  ASSUME Program, UNCHANGED programVars, uncached' \subseteq uncached
  PROVE  Program'
BY DEF Program, programVars

-----------------------------------------------------------------------------
(* The steps that leave the stations as they are.                          *)

\* The rings and the lists stay; the node list is empty outside of ruu_issue.
LEMMA LinksStay ==
  ASSUME IInv, UNCHANGED <<station, ruuVars, lsqVars, ready_queue, node>>,
         EventLinks(station, Flight(RUUIds, RUU_num, LSQIds, LSQ_num), event_queue'),
         stage # "issue"
  PROVE  LinksInv'
<1>1. RUUIds' = RUUIds /\ RUU_num' = RUU_num /\ LSQIds' = LSQIds /\ LSQ_num' = LSQ_num
  BY DEF RUUIds, LSQIds, ruuVars, lsqVars
<1>2. station' = station /\ ready_queue' = ready_queue /\ node' = node /\ node = <<>>
  BY DEF IInv, LinksInv
<1>3. LinksOf(station, Flight(RUUIds, RUU_num, LSQIds, LSQ_num), ready_queue, node, event_queue')
  BY DEF IInv, LinksInv, LinksOf
<1> QED BY <1>1, <1>2, <1>3 DEF LinksInv

\* Units are released.
LEMMA ReleaseKeeps ==
  ASSUME IInv, ruu_release_fu
  PROVE  IInv' /\ OldestPC' = OldestPC
<1> USE DEF ruu_release_fu
<1>1. CoreTypes'
  <2>1. Program'
    BY ProgramFixed DEF IInv, CoreTypes, fetchVars
  <2>2. busy' \in [DOMAIN fu_pool -> Nat]
    BY DEF IInv, CoreTypes
  <2> QED BY <2>1, <2>2 DEF IInv, CoreTypes, cvVars, specVars, issueVars
<1>2. FetchInv' /\ FrontPC' = FrontPC
  BY FetchStays DEF IInv, programVars, fetchVars, specVars
<1>3. RingTypes' /\ Structure' /\ OldestPC' = OldestPC
  BY <1>2, StationsStay DEF programVars
<1>4. LinksInv'
  BY LinksStay DEF IInv, LinksInv, LinksOf, issueVars
<1>5. EventsInOrder'
  BY DEF IInv, EventsInOrder
<1> QED BY <1>1, <1>2, <1>3, <1>4, <1>5 DEF IInv

\* Dispatch ends, or the program does.
LEMMA DispatchEndKeeps ==
  ASSUME IInv, ruu_dispatch_exit \/ ruu_dispatch_done
  PROVE  IInv' /\ OldestPC' = OldestPC
<1>1. /\ UNCHANGED <<programVars, station, ruuVars, lsqVars, rslink_free, event_queue,
                     ready_queue, issueVars, cvVars, inst_seq, last_op, specVars,
                     ifqVars, fetchVars, branch_cnt, busy>>
      /\ stage = "dispatch" /\ stage' \in {"exited", "refresh", "fetch"}
  BY DEF ruu_dispatch_exit, ruu_dispatch_done, CanDispatch
<1>2. CoreTypes'
  <2>1. Program'
    BY <1>1, ProgramFixed DEF IInv, CoreTypes, fetchVars
  <2> QED BY <1>1, <2>1 DEF IInv, CoreTypes, cvVars, specVars, issueVars
<1>3. FetchInv' /\ FrontPC' = FrontPC
  BY <1>1, FetchStays DEF IInv, programVars, fetchVars, specVars
<1>4. RingTypes' /\ Structure' /\ OldestPC' = OldestPC
  BY <1>1, <1>3, StationsStay DEF programVars
<1>5. LinksInv'
  BY <1>1, LinksStay DEF IInv, LinksInv, LinksOf, issueVars
<1>6. EventsInOrder'
  BY <1>1 DEF IInv, EventsInOrder
<1> QED BY <1>2, <1>3, <1>4, <1>5, <1>6 DEF IInv

\* What is due is a prefix of the events.
LEMMA DueIsPrefix ==
  ASSUME IInv
  PROVE  /\ Cardinality(Due) \in 0..Len(event_queue)
         /\ \A i \in DOMAIN event_queue : event_queue[i].x <= 0 <=> i <= Cardinality(Due)
         /\ \A i \in Due : i \in DOMAIN event_queue
<1> DEFINE m == Len(event_queue)
           Y == Due
<1>1. event_queue \in Seq(LinkSet) /\ m \in Nat /\ DOMAIN event_queue = 1..m
  BY DEF IInv, CoreTypes
<1>2. \A i \in 1..m : event_queue[i].x \in Int
  BY <1>1, LinkFields
<1>3. \A i \in 1..m : i \in Y <=> event_queue[i].x <= 0
  BY <1>1 DEF Due
<1>4. \A i, j \in 1..m : i < j => event_queue[i].x <= event_queue[j].x
  BY <1>1 DEF IInv, EventsInOrder
<1>5. Y \in SUBSET (1..m)
  BY <1>1 DEF Due
<1> HIDE DEF Y, m
<1>6. ASSUME NEW i \in 1..m, NEW j \in 1..m, i < j, j \in Y PROVE i \in Y
  BY <1>2, <1>3, <1>4, <1>6
<1>7. Cardinality(Y) \in 0..m /\ \A k \in 1..m : k \in Y <=> k <= Cardinality(Y)
  BY <1>1, <1>5, <1>6, PrefixInterval
<1> QED BY <1>1, <1>3, <1>5, <1>7 DEF Y, m

\* Stale events are dropped.
LEMMA WritebackEndKeeps ==
  ASSUME IInv, ruu_writeback_done
  PROVE  IInv' /\ OldestPC' = OldestPC
<1> DEFINE d == Cardinality(Due)
           F == Flight(RUUIds, RUU_num, LSQIds, LSQ_num)
           eq == event_queue
           L == Len(event_queue)
<1>1. /\ UNCHANGED <<programVars, station, ruuVars, lsqVars, ready_queue, issueVars,
                     cvVars, inst_seq, specVars, ifqVars, fetchVars, busy>>
      /\ event_queue' = SubSeq(eq, d + 1, L) /\ rslink_free' = rslink_free + d
      /\ stage = "writeback" /\ stage' \in {"dispatch", "refresh"}
  BY DEF ruu_writeback_done
<1>2. d \in 0..L /\ \A i \in DOMAIN eq : eq[i].x <= 0 <=> i <= d
  BY DueIsPrefix
<1>3. eq \in Seq(LinkSet) /\ L \in Nat /\ DOMAIN eq = 1..L
  BY DEF IInv, CoreTypes
<1>4. \A i \in 1..d : ~RSLINK_VALID(station, eq[i])
  BY <1>2, <1>3 DEF ruu_writeback_done, Occurred, Due
<1>5. Sorted(eq)
  BY DEF IInv, EventsInOrder, Sorted
<1>6. \A i \in 1..L : eq[i].x \in Int
  BY <1>3, LinkFields
<1>7. EventLinks(station, F, eq)
  BY DEF IInv, LinksInv, LinksOf
<1> HIDE DEF d, F
<1>8. EventLinks(station, F, SubSeq(eq, d + 1, Len(eq)))
  <2> HIDE DEF eq
  <2> QED BY <1>2, <1>3, <1>4, <1>7, EventsDropped
<1> DEFINE rest == SubSeq(eq, d + 1, L)
<1>9. /\ rest \in Seq(LinkSet) /\ Sorted(rest)
      /\ \A i \in DOMAIN rest : i + d \in DOMAIN eq /\ rest[i] = eq[i + d] /\ i \in Nat \ {0}
  <2> HIDE DEF eq
  <2>1. rest \in Seq(LinkSet) /\ Sorted(rest)
    BY <1>2, <1>3, <1>5, SortedSuffix
  <2>2. \A i \in DOMAIN rest : i + d \in DOMAIN eq /\ rest[i] = eq[i + d]
    BY <1>2, <1>3, SuffixList
  <2>3. DOMAIN rest = 1..Len(rest)
    BY <2>1
  <2> HIDE DEF rest
  <2> QED BY <2>1, <2>2, <2>3
<1> HIDE DEF rest
<1>10. ASSUME NEW i \in DOMAIN rest PROVE rest[i].x > 0
  <2>1. i + d \in DOMAIN eq /\ rest[i] = eq[i + d] /\ ~(i + d <= d)
    BY <1>2, <1>9
  <2> QED BY <1>2, <1>3, <1>6, <2>1
<1>11. event_queue' = rest
  BY <1>1 DEF rest
<1>12. EventsInOrder'
  BY <1>9, <1>10, <1>11 DEF EventsInOrder, Sorted
<1>13. CoreTypes'
  <2>1. Program'
    BY <1>1, ProgramFixed DEF IInv, CoreTypes, fetchVars
  <2>2. rslink_free' \in Int
    BY <1>1, <1>2 DEF IInv, CoreTypes
  <2> QED
    BY <1>1, <1>9, <1>11, <2>1, <2>2 DEF IInv, CoreTypes, cvVars, specVars, issueVars
<1>14. FetchInv' /\ FrontPC' = FrontPC
  BY <1>1, FetchStays DEF IInv, programVars, fetchVars, specVars
<1>15. RingTypes' /\ Structure' /\ OldestPC' = OldestPC
  BY <1>1, <1>14, StationsStay DEF programVars
<1>16. LinksInv'
  BY <1>1, <1>8, LinksStay DEF issueVars, F
<1> QED BY <1>12, <1>13, <1>14, <1>15, <1>16 DEF IInv

-----------------------------------------------------------------------------
(* The steps that move links between the ready queue and ruu_issue.        *)

\* A step that changes no more than which stations are queued.
LEMMA ResettledKeeps ==
  ASSUME IInv, UNCHANGED <<programVars, ruuVars, lsqVars, event_queue, cvVars, inst_seq,
                           specVars, ifqVars, fetchVars, busy>>,
         station' \in [Ids -> StationSet], ready_queue' \in Seq(LinkSet), node' \in Seq(LinkSet),
         rslink_free' \in Int, SameFields(station, station'),
         \A id \in Ids : station'[id].idep_ready = station[id].idep_ready,
         stage \in {"refresh", "issue"},
         stage' \in {"refresh", "issue", "dispatch", "fetch"},
         stage' # "issue" => node' = <<>>,
         ReadyLinks(station', Flight(RUUIds, RUU_num, LSQIds, LSQ_num), ready_queue', node'),
         Progress(station', Flight(RUUIds, RUU_num, LSQIds, LSQ_num), {})
  PROVE  IInv' /\ OldestPC' = OldestPC
<1>1. CoreTypes'
  <2>1. Program'
    BY ProgramFixed DEF IInv, CoreTypes, fetchVars
  <2> QED BY <2>1 DEF IInv, CoreTypes, cvVars, specVars
<1>2. FetchInv' /\ FrontPC' = FrontPC
  BY FetchStays DEF IInv, programVars, fetchVars, specVars
<1>3. SameShape(station, station') /\ \A id \in Ids : station'[id].completed = station[id].completed
  BY FieldsShape
<1>4. /\ Places(RUUIds, RUU_num, RUU) /\ Flight(RUUIds, RUU_num, LSQIds, LSQ_num) \in SUBSET Ids
  BY RingsPlaced DEF IInv
<1>5. \A k \in 1..RUU_num : Recovering(station', RUUIds[k]) <=> Recovering(station, RUUIds[k])
  BY <1>3, <1>4 DEF Recovering, SameShape, Places, Ids
<1>6. /\ RingTypes' /\ Structure' /\ OldestPC' = OldestPC
      /\ RUUIds' = RUUIds /\ RUU_num' = RUU_num /\ LSQIds' = LSQIds /\ LSQ_num' = LSQ_num
  BY <1>2, <1>3, <1>5, StructureStays DEF programVars
<1>7. LinksInv'
  <2> DEFINE F == Flight(RUUIds, RUU_num, LSQIds, LSQ_num)
             eq == event_queue
             st == station
             st2 == station'
  <2>1. /\ st \in [Ids -> StationSet] /\ st2 \in [Ids -> StationSet] /\ SameFields(st, st2)
        /\ \A id \in Ids : st2[id].idep_ready = st[id].idep_ready
        /\ F \in SUBSET Ids /\ eq \in Seq(LinkSet)
        /\ EventLinks(st, F, eq) /\ ChainLinks(st, F, Ids)
    BY <1>4 DEF IInv, CoreTypes, LinksInv, LinksOf
  <2> HIDE DEF F, eq, st, st2
  <2>2. EventLinks(st2, F, eq) /\ ChainLinks(st2, F, Ids)
    BY <2>1, FlagsOnly
  <2>3. LinksOf(station', F, ready_queue', node', event_queue')
    BY <2>2 DEF LinksOf, F, st2, eq
  <2> QED BY <1>6, <2>3 DEF LinksInv, F
<1>8. EventsInOrder'
  BY DEF IInv, EventsInOrder
<1> QED BY <1>1, <1>2, <1>6, <1>7, <1>8 DEF IInv

\* Where lsq_refresh starts to scan, and what it scans.
LEMMA ScanStarts ==
  ASSUME IInv, stage = "refresh", NEW scan,
         scan = [q |-> Lists(station), stop |-> FALSE, std_unknowns |-> <<>>]
  PROVE  /\ Flight(RUUIds, RUU_num, LSQIds, LSQ_num) \in SUBSET Ids
         /\ LSQ_num \in Nat /\ DOMAIN LSQIds = 1..LSQ_num /\ Len(LSQIds) = LSQ_num
         /\ \A n \in 1..LSQ_num : LSQIds[n] \in Flight(RUUIds, RUU_num, LSQIds, LSQ_num)
         /\ scan \in ScanStates /\ scan.q.station = station /\ scan.q.ready_queue = ready_queue
         /\ ReadyLinks(station, Flight(RUUIds, RUU_num, LSQIds, LSQ_num), ready_queue, <<>>)
         /\ Progress(station, Flight(RUUIds, RUU_num, LSQIds, LSQ_num), {})
<1> DEFINE lsq == LSQIds
           N == LSQ_num
           F == Flight(RUUIds, RUU_num, LSQIds, LSQ_num)
<1>2. /\ F \in SUBSET Ids /\ N \in Nat /\ DOMAIN lsq = 1..N
      /\ \A n \in 1..N : lsq[n] \in F
  BY RingsPlaced DEF IInv, Flight
<1>3. Len(lsq) = N
  <2>1. lsq \in Seq(Ids)
    <3>1. \A n \in 1..N : lsq[n] \in Ids
      BY <1>2
    <3>2. lsq = [k \in 1..N |-> <<"LSQ", (LSQ_head + k - 1) % LSQ_size>>]
      BY DEF LSQIds, RingIds
    <3>3. lsq \in [1..N -> Ids]
      BY <3>1, <3>2
    <3> QED BY <1>2, <3>3
  <2> QED BY <1>2, <2>1
<1>4. scan \in ScanStates /\ scan.q.station = station /\ scan.q.ready_queue = ready_queue
  BY DEF ScanStates, Lists, ListStates, IInv, CoreTypes
<1>5. ReadyLinks(station, F, ready_queue, <<>>) /\ Progress(station, F, {})
  BY DEF IInv, LinksInv, LinksOf
<1> QED BY <1>2, <1>3, <1>4, <1>5

\* Loads become ready, and ruu_issue takes the ready queue.
LEMMA RefreshKeeps ==
  ASSUME IInv, lsq_refresh
  PROVE  IInv' /\ OldestPC' = OldestPC
<1> DEFINE scan == [q |-> Lists(station), stop |-> FALSE, std_unknowns |-> <<>>]
           lsq == LSQIds
           N == LSQ_num
           F == Flight(RUUIds, RUU_num, LSQIds, LSQ_num)
           q2 == Refreshed(scan, lsq).q
           nd == <<>>
<1>1. /\ UNCHANGED <<programVars, ruuVars, lsqVars, event_queue, cvVars, inst_seq,
                     specVars, ifqVars, fetchVars, busy>>
      /\ stage = "refresh" /\ stage' = "issue"
      /\ station' = q2.station /\ rslink_free' = q2.free
      /\ node' = q2.ready_queue /\ ready_queue' = <<>>
  BY DEF lsq_refresh
<1>2. /\ F \in SUBSET Ids /\ N \in Nat /\ DOMAIN lsq = 1..N /\ Len(lsq) = N
      /\ \A n \in 1..N : lsq[n] \in F
      /\ scan \in ScanStates /\ scan.q.station = station /\ scan.q.ready_queue = ready_queue
      /\ ReadyLinks(station, F, ready_queue, nd) /\ Progress(station, F, {})
  <2> HIDE DEF scan
  <2> QED BY <1>1, ScanStarts DEF scan
<1>3. nd \in Seq(LinkSet)
  OBVIOUS
<1>6. /\ q2 \in ListStates /\ SameFields(scan.q.station, q2.station)
      /\ ReadyLinks(q2.station, F, q2.ready_queue, nd) /\ Progress(q2.station, F, {})
      /\ \A k \in Ids : q2.station[k].idep_ready = scan.q.station[k].idep_ready
  <2>1. ReadyLinks(scan.q.station, F, scan.q.ready_queue, nd) /\ Progress(scan.q.station, F, {})
    BY <1>2
  <2> HIDE DEF scan, lsq, N, F, nd
  <2> QED BY <1>2, <1>3, <2>1, RefreshedEffect
<1> HIDE DEF scan, lsq, N, q2
<1>7. ReadyLinks(q2.station, F, <<>>, q2.ready_queue)
  BY <1>6, ReadySwapped
<1>8. /\ q2.station \in [Ids -> StationSet] /\ q2.ready_queue \in Seq(LinkSet) /\ q2.free \in Int
  BY <1>6 DEF ListStates
<1> QED BY <1>1, <1>2, <1>6, <1>7, <1>8, ResettledKeeps

\* What the issue width left over is put back.
LEMMA IssueEndKeeps ==
  ASSUME IInv, ruu_issue_done
  PROVE  IInv' /\ OldestPC' = OldestPC
<1> DEFINE q == Lists(station)
           F == Flight(RUUIds, RUU_num, LSQIds, LSQ_num)
           nd == node
           q2 == AllPutBack(q, nd)
           none == <<>>
<1>1. /\ UNCHANGED <<programVars, ruuVars, lsqVars, event_queue, cvVars, inst_seq,
                     specVars, ifqVars, fetchVars, busy>>
      /\ stage = "issue" /\ stage' \in {"fetch", "dispatch"}
      /\ station' = q2.station /\ rslink_free' = q2.free + Len(nd)
      /\ node' = <<>> /\ ready_queue' = q2.ready_queue
  BY DEF ruu_issue_done
<1>2. F \in SUBSET Ids
  BY RingsPlaced DEF IInv
<1>3. /\ q \in ListStates /\ nd \in Seq(LinkSet) /\ Len(nd) \in Nat
      /\ q.station = station /\ q.ready_queue = ready_queue
  BY DEF Lists, ListStates, IInv, CoreTypes
<1>4. ReadyLinks(station, F, ready_queue, nd) /\ Progress(station, F, {})
  BY DEF IInv, LinksInv, LinksOf
<1>5. ReadyLinks(q.station, F, q.ready_queue, nd) /\ Progress(q.station, F, {})
  BY <1>3, <1>4
<1> HIDE DEF q, nd, F
<1>6. Resettled(q, AllPutBack(q, nd), F, <<>>)
  BY <1>2, <1>3, <1>5, AllPutBackEffect
<1> HIDE DEF q2
<1>7. /\ q2 \in ListStates /\ SameFields(station, q2.station)
      /\ ReadyLinks(q2.station, F, q2.ready_queue, <<>>) /\ Progress(q2.station, F, {})
      /\ \A k \in Ids : q2.station[k].idep_ready = station[k].idep_ready
  BY <1>3, <1>6 DEF Resettled, q2
<1>8. /\ q2.station \in [Ids -> StationSet] /\ q2.ready_queue \in Seq(LinkSet) /\ q2.free \in Int
      /\ <<>> \in Seq(LinkSet)
  BY <1>7 DEF ListStates
<1>9. q2.free + Len(nd) \in Int
  BY <1>3, <1>8
<1> QED BY <1>1, <1>7, <1>8, <1>9, ResettledKeeps DEF F

\* A unit that is idle serves the class, and is busy for some time.
LEMMA UnitReserved ==
  ASSUME IInv, NEW class, Idle(class) # {}
  PROVE  /\ fu_pool[res_get(class)][class].oplat \in Nat \ {0}
         /\ Reserve(class) => busy' \in [DOMAIN fu_pool -> Nat]
<1> DEFINE u == res_get(class)
<1>1. Idle(class) \in SUBSET Nat /\ \A v \in Idle(class) : v \in DOMAIN fu_pool /\ class \in DOMAIN fu_pool[v]
  BY UnitsAssumption DEF Idle
<1>2. \E v \in Idle(class) : \A w \in Idle(class) : v <= w
  BY <1>1, LeastElement
<1>3. u \in Idle(class)
  BY <1>2 DEF res_get
<1> HIDE DEF u
<1>4. fu_pool[u][class].oplat \in Nat \ {0} /\ fu_pool[u][class].issuelat \in Nat
  BY <1>1, <1>3, UnitsAssumption
<1>5. busy \in [DOMAIN fu_pool -> Nat]
  BY DEF IInv, CoreTypes
<1> QED BY <1>1, <1>3, <1>4, <1>5 DEF Reserve, u

(* st2 is st in which the operation v has started, and perhaps completed.  *)
Starts(st, st2, v) ==
    /\ SameShape(st, st2) /\ SameTags(st, st2)
    /\ \A id \in Ids : id # v => st2[id] = st[id]
    /\ \A id \in Ids : /\ st2[id].odep_list = st[id].odep_list
                       /\ st2[id].idep_ready = st[id].idep_ready
                       /\ st2[id].onames = st[id].onames /\ st2[id].addr = st[id].addr
    /\ ~st2[v].queued /\ st2[v].issued

\* The flags of an operation that starts, and of a store that completes at once.
LEMMA StartedFields ==
  ASSUME NEW st \in [Ids -> StationSet], NEW v \in Ids
  PROVE  LET st2 == [st EXCEPT ![v].queued = FALSE, ![v].issued = TRUE]
             st3 == [st2 EXCEPT ![v].completed = TRUE]
         IN /\ st2 \in [Ids -> StationSet] /\ Starts(st, st2, v)
            /\ st2[v].completed = st[v].completed
            /\ st3 \in [Ids -> StationSet] /\ Starts(st, st3, v) /\ st3[v].completed
<1> DEFINE st1 == [st EXCEPT ![v].queued = FALSE]
           st2 == [st1 EXCEPT ![v].issued = TRUE]
           st3 == [st2 EXCEPT ![v].completed = TRUE]
<1>1. st1 \in [Ids -> StationSet]
  BY FlagUpdates
<1>2. st2 \in [Ids -> StationSet]
  <2> HIDE DEF st1
  <2> QED BY <1>1, FlagUpdates
<1>3. st3 \in [Ids -> StationSet]
  <2> HIDE DEF st2
  <2> QED BY <1>2, FlagUpdates
<1>4. Starts(st, st2, v) /\ st2[v].completed = st[v].completed
  <2>1. \A id \in Ids : id # v => st2[id] = st[id]
    OBVIOUS
  <2>2. st2[v] = [st[v] EXCEPT !.queued = FALSE, !.issued = TRUE] /\ st[v] \in StationSet
    BY <1>1
  <2> DEFINE r == st[v]
             r2 == st2[v]
  <2>3. /\ r2.op = r.op /\ r2.PC = r.PC /\ r2.next_PC = r.next_PC /\ r2.in_LSQ = r.in_LSQ
        /\ r2.ea_comp = r.ea_comp /\ r2.recover_inst = r.recover_inst
        /\ r2.spec_mode = r.spec_mode /\ r2.tag = r.tag /\ r2.seq = r.seq
        /\ r2.completed = r.completed /\ r2.odep_list = r.odep_list
        /\ r2.onames = r.onames /\ r2.addr = r.addr
        /\ r2.idep_ready = r.idep_ready /\ ~r2.queued /\ r2.issued
    <3> HIDE DEF r2, r
    <3>1. r \in StationSet /\ r2 = [r EXCEPT !.queued = FALSE, !.issued = TRUE]
      BY <2>2 DEF r, r2
    <3> QED BY <3>1 DEF StationSet
  <2> HIDE DEF st2
  <2> QED BY <2>1, <2>3 DEF Starts, SameShape, SameTags
<1>5. Starts(st, st3, v) /\ st3[v].completed
  <2>1. \A id \in Ids : id # v => st3[id] = st[id]
    OBVIOUS
  <2>2. st3[v] = [st[v] EXCEPT !.queued = FALSE, !.issued = TRUE, !.completed = TRUE]
        /\ st[v] \in StationSet
    BY <1>2
  <2> DEFINE r == st[v]
             r2 == st3[v]
  <2>3. /\ r2.op = r.op /\ r2.PC = r.PC /\ r2.next_PC = r.next_PC /\ r2.in_LSQ = r.in_LSQ
        /\ r2.ea_comp = r.ea_comp /\ r2.recover_inst = r.recover_inst
        /\ r2.spec_mode = r.spec_mode /\ r2.tag = r.tag /\ r2.seq = r.seq
        /\ r2.completed /\ r2.odep_list = r.odep_list
        /\ r2.onames = r.onames /\ r2.addr = r.addr
        /\ r2.idep_ready = r.idep_ready /\ ~r2.queued /\ r2.issued
    <3> HIDE DEF r2, r
    <3>1. r \in StationSet /\ r2 = [r EXCEPT !.queued = FALSE, !.issued = TRUE, !.completed = TRUE]
      BY <2>2 DEF r, r2
    <3> QED BY <3>1 DEF StationSet
  <2> HIDE DEF st3
  <2> QED BY <2>1, <2>3 DEF Starts, SameShape, SameTags
<1> QED BY <1>2, <1>3, <1>4, <1>5

\* In ruu_issue these are the stations.
LEMMA OperationStarts ==
  ASSUME station \in [Ids -> StationSet], NEW v \in Ids, NEW started, started = Started(v),
         NEW done, done = [started EXCEPT ![v].completed = TRUE]
  PROVE  /\ started \in [Ids -> StationSet] /\ Starts(station, started, v)
         /\ started[v].completed = station[v].completed
         /\ done \in [Ids -> StationSet] /\ Starts(station, done, v) /\ done[v].completed
<1> DEFINE st == station
           a == [st EXCEPT ![v].queued = FALSE, ![v].issued = TRUE]
           b == [a EXCEPT ![v].completed = TRUE]
<1>1. st \in [Ids -> StationSet]
  OBVIOUS
<1> HIDE DEF st
<1>2. /\ a \in [Ids -> StationSet] /\ Starts(st, a, v) /\ a[v].completed = st[v].completed
      /\ b \in [Ids -> StationSet] /\ Starts(st, b, v) /\ b[v].completed
  BY <1>1, StartedFields
<1>3. started = a
  BY DEF Started, st
<1> HIDE DEF a
<1> QED BY Zenon, <1>2, <1>3 DEF st, b

(* A store has no event; the event of another operation is added.          *)
EventAfter(st, st2, v, eq, eq2) ==
    \/ st2[v].completed /\ eq2 = eq
    \/ /\ st2[v].completed = st[v].completed
       /\ \E x \in Int : Inserted(eq, eq2, Link(st, v, x))

\* An operation that starts leaves the ready queue for the event queue.
LEMMA StartLinks ==
  ASSUME NEW st \in [Ids -> StationSet], NEW st2 \in [Ids -> StationSet], NEW F \in SUBSET Ids,
         NEW rq \in Seq(LinkSet), NEW nd \in Seq(LinkSet), nd # <<>>,
         NEW eq \in Seq(LinkSet), NEW eq2 \in Seq(LinkSet), NEW link, link = nd[1],
         NEW v, v = link.rs, RSLINK_VALID(st, link), Starts(st, st2, v), LinksOf(st, F, rq, nd, eq),
         EventAfter(st, st2, v, eq, eq2), NEW nd2, nd2 = Tail(nd)
  PROVE  LinksOf(st2, F, rq, nd2, eq2) /\ v \in F
<1>1. ReadyLinks(st, F, rq, nd) /\ EventLinks(st, F, eq) /\ ChainLinks(st, F, Ids)
      /\ Progress(st, F, {})
  BY DEF LinksOf
<1>2. v \in Ids /\ Tail(nd) = SubSeq(nd, 2, Len(nd))
  <2>1. 1 \in DOMAIN nd
    OBVIOUS
  <2>2. v \in Ids
    BY <2>1, LinkFields
  <2> QED BY <2>2 DEF Tail
<1>3. \A k \in F : k # v => st2[k].queued = st[k].queued
  BY DEF Starts
<1>4. /\ ReadyLinks(st2, F, rq, SubSeq(nd, 2, Len(nd)))
      /\ nd[1].rs \in F /\ st[nd[1].rs].queued
  <2>1. SameTags(st, st2) /\ ~st2[nd[1].rs].queued
        /\ \A k \in F : k # nd[1].rs => st2[k].queued = st[k].queued
    BY <1>3 DEF Starts
  <2> QED BY <1>1, <2>1, ReadyTaken
<1>5. v \in F /\ ~st[v].issued /\ ~st[v].completed /\ OPERANDS_READY(st[v])
  BY <1>1, <1>4 DEF Progress
<1>6. TagsGrow(st, st2, F, F)
  <2>1. \A id \in Ids : st2[id].tag = st[id].tag /\ st[id].tag \in Nat
    BY StationFields DEF Starts, SameTags
  <2> QED BY <2>1 DEF TagsGrow
<1>7. EventLinks(st2, F, eq2)
  <2>1. CASE st2[v].completed /\ eq2 = eq
    <3>1. \A id \in F : (st2[id].issued /\ ~st2[id].completed) <=> (st[id].issued /\ ~st[id].completed)
      BY <1>5, <2>1 DEF Starts
    <3> QED BY <1>1, <1>6, <2>1, <3>1, EventsKept
  <2>2. ASSUME st2[v].completed = st[v].completed, NEW x \in Int, Inserted(eq, eq2, Link(st, v, x))
        PROVE  EventLinks(st2, F, eq2)
    <3>1. /\ SameTags(st, st2) /\ ~st[v].issued /\ st2[v].issued /\ ~st2[v].completed
          /\ OthersRun(st, st2, F, v)
      BY <1>5, <2>2 DEF Starts, OthersRun
    <3> QED BY <1>1, <1>5, <2>2, <3>1, EventScheduled
  <2> QED BY <2>1, <2>2 DEF EventAfter
<1>8. ChainLinks(st2, F, Ids)
  <2> DEFINE ids == Ids
  <2>1. ChainsFrom(st, st2, F, ids, ids)
    BY DEF Starts, ChainsFrom
  <2>2. ids \in SUBSET Ids /\ F \in SUBSET F /\ ChainLinks(st, F, ids)
    BY <1>1
  <2> HIDE DEF ids
  <2>3. ChainLinks(st2, F, ids)
    BY <1>6, <2>1, <2>2, ChainsKept
  <2> QED BY <2>3 DEF ids
<1>9. Progress(st2, F, {})
  <2>1. ASSUME NEW id \in F
        PROVE  /\ st2[id].queued \/ st2[id].issued => OPERANDS_READY(st2[id])
               /\ ~(st2[id].queued /\ st2[id].issued)
               /\ st2[id].completed => st2[id].issued
               /\ OPERANDS_READY(st2[id])
                    => st2[id].queued \/ st2[id].issued \/ IsLoad(st2[id])
    <3>1. CASE id = v
      <4>1. OPERANDS_READY(st2[v]) /\ ~st2[v].queued /\ st2[v].issued
        BY <1>2, <1>5 DEF Starts, OPERANDS_READY
      <4> QED BY <3>1, <4>1
    <3>2. CASE id # v
      <4>1. st2[id] = st[id]
        BY <3>2 DEF Starts
      <4> QED BY <1>1, <4>1 DEF Progress
    <3> QED BY <3>1, <3>2
  <2> QED BY <2>1 DEF Progress
<1> QED BY <1>2, <1>4, <1>5, <1>7, <1>8, <1>9 DEF LinksOf

\* An operation starts: a store is complete, others have their event.
LEMMA StartKeeps ==
  ASSUME IInv, Visit, RSLINK_VALID(station, Head(node)),
         UNCHANGED <<programVars, stage, ruuVars, lsqVars, ready_queue, cvVars, inst_seq,
                     specVars, ifqVars, fetchVars>>,
         node' = Tail(node), rslink_free' \in Int, busy' \in [DOMAIN fu_pool -> Nat],
         station' \in [Ids -> StationSet], Starts(station, station', Visited),
         \/ /\ station'[Visited].completed /\ IsStore(station[Visited])
            /\ event_queue' = event_queue
         \/ /\ station'[Visited].completed = station[Visited].completed
            /\ \E x \in Int : x > 0 /\ Scheduled(Visited, x)
  PROVE  IInv' /\ OldestPC' = OldestPC
<1> DEFINE st == station
           st2 == station'
           F == Flight(RUUIds, RUU_num, LSQIds, LSQ_num)
           rq == ready_queue
           nd == node
           eq == event_queue
           eq2 == event_queue'
           v == Visited
<1>1. /\ st \in [Ids -> StationSet] /\ rq \in Seq(LinkSet) /\ nd \in Seq(LinkSet)
      /\ eq \in Seq(LinkSet) /\ nd # <<>> /\ stage = "issue" /\ v = nd[1].rs
      /\ RSLINK_VALID(st, nd[1])
  BY DEF IInv, CoreTypes, Visit, Visited
<1>2. v \in Ids
  <2>1. 1 \in DOMAIN nd
    BY <1>1
  <2> QED BY <1>1, <2>1, LinkFields
<1>3. F \in SUBSET Ids /\ Places(RUUIds, RUU_num, RUU)
  BY RingsPlaced DEF IInv
<1>4. /\ LinksOf(st, F, rq, nd, eq) /\ Sorted(eq) /\ \A i \in DOMAIN eq : eq[i].x > 0
  BY <1>1 DEF IInv, LinksInv, EventsInOrder, Sorted
<1>5. ASSUME NEW x \in Int, x > 0, Scheduled(Visited, x)
      PROVE  /\ eq2 \in Seq(LinkSet) /\ Sorted(eq2) /\ \A i \in DOMAIN eq2 : eq2[i].x > 0
             /\ Inserted(eq, eq2, Link(st, v, x))
  <2> DEFINE link == Link(st, v, x)
  <2>1. link \in LinkSet /\ link.x = x
    <3> HIDE DEF v
    <3> QED BY SMTT(30), <1>1, <1>2, LinkType
  <2>2. eq2 = eventq_queue_event(eq, link)
    BY <1>5 DEF Scheduled
  <2> HIDE DEF link, eq, eq2
  <2>3. /\ eq2 \in Seq(LinkSet) /\ Inserted(eq, eq2, link) /\ Sorted(eq2)
        /\ \A i \in DOMAIN eq2 : eq2[i].x > 0
    BY <1>1, <1>4, <1>5, <2>1, <2>2, SortedInsert
  <2> QED BY <2>3 DEF link
<1>6. /\ eq2 \in Seq(LinkSet) /\ Sorted(eq2) /\ \A i \in DOMAIN eq2 : eq2[i].x > 0
      /\ EventAfter(st, st2, v, eq, eq2)
  BY <1>1, <1>4, <1>5 DEF EventAfter
<1>7. LinksOf(st2, F, rq, Tail(nd), eq2) /\ v \in F
  <2> DEFINE nd2 == Tail(nd)
             link == nd[1]
  <2>1. /\ st2 \in [Ids -> StationSet] /\ Starts(st, st2, v) /\ nd2 = Tail(nd)
        /\ link = nd[1] /\ v = link.rs /\ RSLINK_VALID(st, link)
    BY <1>1
  <2> HIDE DEF st, st2, F, rq, nd, eq, eq2, v, nd2, link
  <2>2. LinksOf(st2, F, rq, nd2, eq2) /\ v \in F
    BY <1>1, <1>3, <1>4, <1>6, <2>1, StartLinks
  <2> QED BY <2>2 DEF nd2
<1>8. FetchInv' /\ FrontPC' = FrontPC
  BY FetchStays DEF IInv, programVars, fetchVars, specVars
<1>9. SameShape(station, station') /\ \A id \in Ids : id # v => st2[id] = st[id]
  BY DEF Starts
<1>10. ASSUME NEW k \in 1..RUU_num
       PROVE  Recovering(station', RUUIds[k]) <=> Recovering(station, RUUIds[k])
  <2>1. RUUIds[k] \in RUU /\ RUUIds[k] \in Ids
    BY <1>3 DEF Places, Ids
  <2>2. ~IsStore(st[RUUIds[k]])
    BY <2>1 DEF IInv, Structure, StructureOf, Kinds, IsStore, F_MEM
  <2>3. CASE RUUIds[k] = v
    <3>1. st2[v].completed = st[v].completed
      BY <2>2, <2>3
    <3>2. st2[v].recover_inst = st[v].recover_inst
      BY <1>2, <1>9 DEF SameShape
    <3> QED BY <2>3, <3>1, <3>2 DEF Recovering
  <2>4. CASE RUUIds[k] # v
    BY <1>9, <2>1, <2>4 DEF Recovering
  <2> QED BY <2>3, <2>4
<1>11. /\ RingTypes' /\ Structure' /\ OldestPC' = OldestPC
       /\ RUUIds' = RUUIds /\ RUU_num' = RUU_num /\ LSQIds' = LSQIds /\ LSQ_num' = LSQ_num
  BY <1>8, <1>9, <1>10, StructureStays DEF programVars
<1>12. LinksInv'
  BY <1>1, <1>7, <1>11 DEF LinksInv
<1>13. EventsInOrder'
  BY <1>6 DEF EventsInOrder, Sorted
<1>14. CoreTypes'
  <2>1. Program'
    BY ProgramFixed DEF IInv, CoreTypes, fetchVars
  <2>2. Tail(nd) \in Seq(LinkSet)
    BY <1>1
  <2> QED BY <1>6, <2>1, <2>2 DEF IInv, CoreTypes, cvVars, specVars
<1> QED BY <1>8, <1>11, <1>12, <1>13, <1>14 DEF IInv

\* A link of ruu_issue is visited.
LEMMA IssueKeeps ==
  ASSUME IInv, ruu_issue
  PROVE  IInv' /\ OldestPC' = OldestPC
<1>1. /\ Visit /\ node' = Tail(node) /\ stage = "issue" /\ node # <<>>
      /\ UNCHANGED <<programVars, stage, ruuVars, lsqVars, cvVars, inst_seq, last_op,
                     specVars, ifqVars, fetchVars, count, branch_cnt>>
      /\ IssueStale \/ IssueStore \/ IssueFree \/ IssueToUnit \/ IssueLater
  BY DEF ruu_issue, Visit
<1> DEFINE st == station
           F == Flight(RUUIds, RUU_num, LSQIds, LSQ_num)
           nd == node
           v == Visited
<1>2. /\ st \in [Ids -> StationSet] /\ nd \in Seq(LinkSet) /\ ready_queue \in Seq(LinkSet)
      /\ nd # <<>> /\ Head(nd) = nd[1] /\ Tail(nd) \in Seq(LinkSet) /\ nd[1] \in LinkSet
      /\ rslink_free \in Int /\ busy \in [DOMAIN fu_pool -> Nat]
  BY <1>1 DEF IInv, CoreTypes
<1>3. v \in Ids
  BY <1>2 DEF Visited, LinkSet
<1>4. LinksOf(st, F, ready_queue, nd, event_queue) /\ F \in SUBSET Ids
  BY RingsPlaced DEF IInv, LinksInv
<1> DEFINE started == Started(v)
           done == [started EXCEPT ![v].completed = TRUE]
<1>5. /\ started \in [Ids -> StationSet] /\ Starts(st, started, v)
      /\ started[v].completed = st[v].completed
      /\ done \in [Ids -> StationSet] /\ Starts(st, done, v) /\ done[v].completed
  <2> HIDE DEF v, F, nd
  <2> QED BY Zenon, <1>2, <1>3, OperationStarts
<1>6. CASE IssueStale
  <2>1. /\ ~RSLINK_VALID(st, nd[1])
        /\ rslink_free' = rslink_free + 1
        /\ UNCHANGED <<station, event_queue, ready_queue, busy>>
    BY <1>2, <1>6 DEF IssueStale
  <2>2. ReadyLinks(station, F, ready_queue, Tail(nd))
    <3>1. ReadyLinks(st, F, ready_queue, SubSeq(nd, 2, Len(nd)))
      BY <1>2, <1>4, <2>1, ReadyDropped DEF LinksOf
    <3>2. Tail(nd) = SubSeq(nd, 2, Len(nd))
      <4> HIDE DEF nd
      <4> QED BY <1>2 DEF Tail
    <3> QED BY <3>1, <3>2
  <2>3. SameFields(station, station') /\ \A id \in Ids : station'[id].idep_ready = station[id].idep_ready
    BY <2>1 DEF SameFields
  <2>4. rslink_free' \in Int
    BY <1>2, <2>1
  <2> QED BY <1>1, <1>2, <1>4, <2>1, <2>2, <2>3, <2>4, ResettledKeeps DEF LinksOf
<1>7. CASE IssueStore
  <2>1. /\ RSLINK_VALID(station, Head(node)) /\ IsStore(station[Visited])
        /\ station' = done /\ rslink_free' = rslink_free + 1
        /\ UNCHANGED <<event_queue, ready_queue, busy>>
    BY <1>7 DEF IssueStore
  <2>2. rslink_free' \in Int
    BY <1>2, <2>1
  <2> HIDE DEF done
  <2> QED BY <1>1, <1>2, <1>5, <2>1, <2>2, StartKeeps
<1>8. CASE IssueFree
  <2>1. /\ RSLINK_VALID(station, Head(node))
        /\ station' = started /\ rslink_free' = rslink_free /\ Scheduled(Visited, 1)
        /\ UNCHANGED <<ready_queue, busy>>
    BY <1>8 DEF IssueFree
  <2>2. 1 \in Int /\ 1 > 0
    OBVIOUS
  <2> HIDE DEF started
  <2> QED BY <1>1, <1>2, <1>5, <2>1, <2>2, StartKeeps
<1>9. CASE IssueToUnit
  <2> DEFINE class == FUClass[station[Visited].op]
  <2>1. /\ RSLINK_VALID(station, Head(node)) /\ Idle(class) # {} /\ Reserve(class)
        /\ station' = started /\ rslink_free' = rslink_free /\ UNCHANGED ready_queue
    BY <1>9 DEF IssueToUnit
  <2>2. /\ fu_pool[res_get(class)][class].oplat \in Nat \ {0}
        /\ busy' \in [DOMAIN fu_pool -> Nat]
    <3> HIDE DEF class
    <3> QED BY <2>1, UnitReserved
  <2>3. \E x \in Int : x > 0 /\ Scheduled(Visited, x)
    <3>1. CASE IsLoad(station[Visited])
      <4> DEFINE data == IF Forwards(station, LSQIds, Visited) THEN {1} ELSE DataLatencies
      <4>1. PICK load_lat \in data, tlb_lat \in TLBLatencies :
               Scheduled(Visited, IF tlb_lat > load_lat THEN tlb_lat ELSE load_lat)
        BY <1>9, <3>1 DEF IssueToUnit
      <4>2. load_lat \in Nat \ {0} /\ tlb_lat \in Nat \ {0}
        BY WidthsAssumption
      <4> DEFINE x == IF tlb_lat > load_lat THEN tlb_lat ELSE load_lat
      <4>3. x \in Int /\ x > 0
        BY <4>2
      <4> QED BY <4>1, <4>3
    <3>2. CASE ~IsLoad(station[Visited])
      <4> DEFINE x == fu_pool[res_get(class)][class].oplat
      <4>1. Scheduled(Visited, x)
        BY <1>9, <3>2 DEF IssueToUnit
      <4>2. x \in Nat \ {0}
        BY <2>2
      <4> HIDE DEF x
      <4>3. x \in Int /\ x > 0
        BY <4>2
      <4> QED BY <4>1, <4>3
    <3> QED BY <3>1, <3>2
  <2> HIDE DEF started
  <2> QED BY <1>1, <1>2, <1>5, <2>1, <2>2, <2>3, StartKeeps
<1>10. CASE IssueLater
  <2> DEFINE q == Lists(station)
             link == Head(node)
             back == PutBack(q, link)
  <2>1. /\ station' = back.station /\ ready_queue' = back.ready_queue
        /\ rslink_free' = back.free + 1 /\ UNCHANGED <<event_queue, busy>>
    BY <1>10 DEF IssueLater
  <2>2. /\ q \in ListStates /\ link = nd[1]
        /\ q.station = station /\ q.ready_queue = ready_queue
    BY <1>2 DEF Lists, ListStates
  <2>3. ReadyLinks(q.station, F, q.ready_queue, nd) /\ Progress(q.station, F, {})
    BY <1>4, <2>2 DEF LinksOf
  <2> HIDE DEF q, link
  <2>4. Resettled(q, PutBack(q, link), F, Tail(nd))
    <3> HIDE DEF F, nd
    <3> QED BY <1>2, <1>4, <2>2, <2>3, PutBackEffect
  <2> HIDE DEF back
  <2>5. /\ back \in ListStates /\ SameFields(station, back.station)
        /\ ReadyLinks(back.station, F, back.ready_queue, Tail(nd)) /\ Progress(back.station, F, {})
        /\ \A k \in Ids : back.station[k].idep_ready = station[k].idep_ready
    BY <2>2, <2>4 DEF Resettled, back
  <2>6. /\ back.station \in [Ids -> StationSet] /\ back.ready_queue \in Seq(LinkSet)
        /\ back.free \in Int
    BY <2>5 DEF ListStates
  <2>7. back.free + 1 \in Int
    BY <2>6
  <2> QED BY <1>1, <1>2, <2>1, <2>5, <2>6, <2>7, ResettledKeeps
<1> QED BY <1>1, <1>6, <1>7, <1>8, <1>9, <1>10

-----------------------------------------------------------------------------
(* Fetch.                                                                  *)

\* The cycle ends: the events come nearer.
LEMMA CycleEndKeeps ==
  ASSUME IInv, ruu_fetch_miss \/ ruu_fetch_done
  PROVE  IInv' /\ OldestPC' = OldestPC
<1>1. /\ EndCycle /\ stage = "fetch" /\ uncached' \subseteq uncached
      /\ fetch_regs_PC' = fetch_pred_PC \/ fetch_regs_PC' = fetch_regs_PC
  BY DEF ruu_fetch_miss, ruu_fetch_done, CanFetch
<1>2. /\ UNCHANGED <<programVars, station, ruuVars, lsqVars, rslink_free, ready_queue,
                     issueVars, cvVars, inst_seq, specVars, ifqVars, fetch_pred_PC, busy>>
      /\ stage' = "commit"
      /\ event_queue' = [i \in DOMAIN event_queue |-> [event_queue[i] EXCEPT !.x = @ - 1]]
  BY <1>1 DEF EndCycle
<1> DEFINE eq == event_queue
           eq2 == event_queue'
<1>3. eq \in Seq(LinkSet) /\ DOMAIN eq = 1..Len(eq) /\ Len(eq) \in Nat
  BY DEF IInv, CoreTypes
<1>4. ASSUME NEW i \in DOMAIN eq
      PROVE  /\ eq2[i] \in LinkSet /\ eq2[i].x = eq[i].x - 1 /\ eq[i].x \in Int
             /\ eq2[i].rs = eq[i].rs /\ eq2[i].tag = eq[i].tag
  <2> DEFINE e == eq[i]
  <2>1. e \in LinkSet /\ eq2[i] = [e EXCEPT !.x = @ - 1]
    BY <1>2, <1>3
  <2> HIDE DEF e, eq2, eq
  <2>2. eq2[i] \in LinkSet /\ eq2[i].x = e.x - 1 /\ e.x \in Int
        /\ eq2[i].rs = e.rs /\ eq2[i].tag = e.tag
    BY <2>1 DEF LinkSet
  <2> QED BY <2>2 DEF e
<1>5. DOMAIN eq2 = DOMAIN eq /\ eq2 \in Seq(LinkSet)
  <2>1. DOMAIN eq2 = 1..Len(eq) /\ eq2 = [i \in 1..Len(eq) |-> eq2[i]]
    BY <1>2, <1>3
  <2>2. eq2 \in [1..Len(eq) -> LinkSet]
    BY <1>3, <1>4, <2>1
  <2> HIDE DEF eq2, eq
  <2> QED BY <1>3, <2>1, <2>2
<1>6. EventsInOrder'
  <2>1. \A i, j \in DOMAIN eq : i < j => eq[i].x <= eq[j].x
    BY DEF IInv, EventsInOrder
  <2> HIDE DEF eq2, eq
  <2>2. \A i, j \in DOMAIN eq2 : i < j => eq2[i].x <= eq2[j].x
    BY <1>4, <1>5, <2>1
  <2> QED BY <1>2, <2>2 DEF EventsInOrder, eq2
<1>7. CoreTypes'
  <2>1. Program'
    BY <1>1, <1>2, ProgramFixed DEF IInv, CoreTypes
  <2> QED BY <1>2, <1>5, <2>1 DEF IInv, CoreTypes, cvVars, specVars, issueVars
<1>8. FetchInv' /\ FrontPC' = FrontPC
  <2>1. FetchOf(fetch_head', fetch_tail', fetch_num', fetch_data', fetch_pred_PC',
                fetch_regs_PC', recover_PC')
    BY <1>1, <1>2 DEF IInv, FetchInv, FetchOf, ifqVars, specVars
  <2>2. FetchInv'
    BY <1>2, <2>1, FetchPrimed DEF programVars
  <2> QED BY <1>2, <2>2 DEF FrontPC, Fetched, ifqVars
<1>9. RingTypes' /\ Structure' /\ OldestPC' = OldestPC
  BY <1>2, <1>8, StationsStay DEF programVars
<1>10. LinksInv'
  <2> DEFINE F == Flight(RUUIds, RUU_num, LSQIds, LSQ_num)
             st == station
  <2>1. EventLinks(st, F, eq)
    BY DEF IInv, LinksInv, LinksOf
  <2>2. \A i \in DOMAIN eq : eq2[i].rs = eq[i].rs /\ eq2[i].tag = eq[i].tag
    BY <1>4
  <2> HIDE DEF F, eq, eq2, st
  <2>3. EventLinks(st, F, eq2)
    BY <1>3, <1>5, <2>1, <2>2, EventsAge
  <2> QED BY <1>1, <1>2, <2>3, LinksStay DEF issueVars, F, eq2, st
<1> QED BY <1>6, <1>7, <1>8, <1>9, <1>10 DEF IInv

\* Outside of the text is an instruction that leads nowhere else.
LEMMA BogusFacts ==
  /\ MD_NOP_INST \in Instructions \cup {NOP}
  /\ MD_NOP_INST.op \notin F_DIRJMP \cup {"store"}
<1>1. CASE MD_NOP_INST = NOP
  BY <1>1 DEF NOP, F_DIRJMP
<1>2. CASE MD_NOP_INST = ZeroAdd
  BY <1>2 DEF ZeroAdd, Instructions, FUClass, F_DIRJMP
<1> QED BY <1>1, <1>2, BogusAssumption

\* The text is a sequence, and leads only to its addresses.
LEMMA TextFacts ==
  ASSUME Program
  PROVE  /\ Len(text) \in Nat /\ DOMAIN text = 1..Len(text) /\ DOMAIN text \subseteq PCs
         /\ PCs \subseteq Nat
         /\ \A p \in PCs : /\ Following(p) \in PCs
                           /\ Inst(p) \in Instructions \cup {NOP}
                           /\ NextPCs(p) \subseteq PCs
<1>1. PICK s \in Setups : text = s.text
  BY DEF Program
<1>2. /\ text \in Seq(Instructions \cup {NOP})
      /\ \A p \in DOMAIN text : text[p].op \in F_DIRJMP => text[p].target \in 1..Len(text) + 1
  BY <1>1, SetupsAssumption
<1>3. /\ Len(text) \in Nat /\ DOMAIN text = 1..Len(text)
      /\ \A p \in DOMAIN text : text[p] \in Instructions \cup {NOP}
  BY <1>2
<1>4. DOMAIN text \subseteq PCs /\ PCs \subseteq Nat
  BY <1>3 DEF PCs, Bogus
<1>5. ASSUME NEW p \in PCs
      PROVE  Following(p) \in PCs /\ Inst(p) \in Instructions \cup {NOP}
  BY <1>3, BogusFacts DEF PCs, Bogus, Following, Inst
<1>6. ASSUME NEW p \in PCs, NEW q \in NextPCs(p)
      PROVE  q \in PCs
  <2>1. Inst(p).op \in F_DIRJMP => Inst(p).target \in PCs
    BY <1>2, BogusFacts DEF Inst, PCs, Bogus
  <2>2. Inst(p).op = "branch" \/ Inst(p).op = "jal" => Inst(p).op \in F_DIRJMP
    BY DEF F_DIRJMP
  <2> QED BY <1>4, <1>5, <1>6, <2>1, <2>2 DEF NextPCs
<1> QED BY <1>3, <1>4, <1>5, <1>6

\* The contents of a fetch queue.
FetchData(size) == [0 .. size - 1 -> [regs_PC : PCs, pred_PC : PCs]]

(* The entry that fetch writes.                                            *)
FetchedInto(data, data2, tail, pc, pred2) ==
    data2 = [data EXCEPT ![tail] = [regs_PC |-> pc, pred_PC |-> pred2]]

\* An instruction enters the fetch queue at its tail.
LEMMA FetchedPathGrows ==
  ASSUME NEW size, size = ruu_ifq_size, NEW head \in 0..size - 1, NEW num \in 0..size - 1,
         NEW tail, tail = Place(head, num, size), NEW data, NEW data2, NEW pc, NEW pred2,
         data \in FetchData(size), pc \in PCs, pred2 \in PCs,
         FetchedInto(data, data2, tail, pc, pred2),
         pred2 = Following(pc) \/ Inst(pc).op \in F_CTRL,
         FetchedPath(data, IFQ(head, num), num, pc), NEW num2, num2 = num + 1,
         NEW tail2, tail2 = Place(tail, 1, size)
  PROVE  /\ FetchedPath(data2, IFQ(head, num2), num2, pred2)
         /\ tail \in 0..size - 1 /\ tail2 = Place(head, num2, size)
         /\ data2[head].regs_PC = IF num > 0 THEN data[head].regs_PC ELSE pc
<1> DEFINE old == IFQ(head, num)
           new == IFQ(head, num + 1)
           f == [regs_PC |-> pc, pred_PC |-> pred2]
           N == num + 1
<1>1. size \in Nat \ {0} /\ num \in Nat /\ N \in Nat
  BY WidthsAssumption
<1>2. /\ tail \in 0..size - 1 /\ tail2 = Place(head, N, size)
      /\ new[N] = <<"IFQ", tail>>
      /\ \A k \in 1..num : new[k] = old[k] /\ old[k] # <<"IFQ", tail>>
  <2> DEFINE ring == "IFQ"
             e == <<ring, tail>>
  <2>1. /\ old = RingIds(ring, head, num, size) /\ new = RingIds(ring, head, N, size)
        /\ N = num + 1 /\ e = <<ring, tail>>
    BY DEF IFQ
  <2> HIDE DEF ring, e, old, new, N
  <2>2. tail \in 0..size - 1 /\ tail2 = Place(head, N, size) /\ Longer(old, new, num, e)
    BY <1>1, <2>1, RingWithNewest
  <2> QED BY <2>2 DEF Longer, ring, e, N
<1>3. \A k \in 1..num : old[k] = <<"IFQ", old[k][2]>> /\ old[k][2] \in 0..size - 1
  <2>1. Places(old, num, {"IFQ"} \X (0..size - 1))
    BY <1>1, RingPlace DEF IFQ
  <2> HIDE DEF old
  <2> QED BY <2>1 DEF Places
<1>4. /\ new[N][2] = tail /\ data2[tail] = f
      /\ \A i \in 0..size - 1 : i # tail => data2[i] = data[i]
  BY <1>2 DEF FetchedInto, FetchData
<1>5. \A k \in 1..num : new[k][2] = old[k][2] /\ old[k][2] # tail
  BY <1>2, <1>3
<1> HIDE DEF old, new
<1>6. \A k \in 1..num : data2[new[k][2]] = data[old[k][2]]
  BY <1>3, <1>4, <1>5
<1>7. FetchedPath(data2, new, N, pred2)
  <2>1. ASSUME NEW k \in 1..N
        PROVE  /\ data2[new[k][2]].pred_PC = Following(data2[new[k][2]].regs_PC)
                    \/ Inst(data2[new[k][2]].regs_PC).op \in F_CTRL
               /\ data2[new[k][2]].pred_PC = IF k = N THEN pred2 ELSE data2[new[k + 1][2]].regs_PC
    <3>1. CASE k = N
      BY <1>4, <3>1
    <3>2. CASE k # N
      <4>1. k \in 1..num
        BY <1>1, <3>2
      <4> DEFINE g == data[old[k][2]]
      <4>2. /\ g.pred_PC = Following(g.regs_PC) \/ Inst(g.regs_PC).op \in F_CTRL
            /\ g.pred_PC = IF k = num THEN pc ELSE data[old[k + 1][2]].regs_PC
            /\ data2[new[k][2]] = g
        BY <1>6, <4>1 DEF FetchedPath, old
      <4>3. g.pred_PC = data2[new[k + 1][2]].regs_PC
        <5>1. CASE k = num
          BY <1>4, <4>2, <5>1
        <5>2. CASE k # num
          <6>1. k + 1 \in 1..num
            BY <1>1, <4>1, <5>2
          <6> QED BY <1>6, <4>2, <5>2, <6>1
        <5> QED BY <5>1, <5>2
      <4> QED BY <3>2, <4>2, <4>3
    <3> QED BY <3>1, <3>2
  <2> QED BY <2>1 DEF FetchedPath
<1>8. data2[head].regs_PC = IF num > 0 THEN data[head].regs_PC ELSE pc
  <2>1. CASE num > 0
    <3>1. 1 \in 1..num /\ old[1] = <<"IFQ", head>>
      <4>1. (head + 1 - 1) % size = head
        <5>1. head + 1 - 1 = head
          OBVIOUS
        <5>2. head % size = head
          BY <1>1, SmallRemainder
        <5> QED BY <5>1, <5>2
      <4> QED BY <2>1, <4>1 DEF old, IFQ, RingIds
    <3>2. head # tail
      BY <1>2, <3>1
    <3> QED BY <1>4, <2>1, <3>2
  <2>2. CASE ~(num > 0)
    <3>1. num = 0
      BY <2>2
    <3>2. tail = head
      <4>1. head + num = head
        BY <3>1
      <4>2. head % size = head
        BY <1>1, SmallRemainder
      <4> QED BY <4>1, <4>2 DEF Place
    <3> QED BY <1>4, <2>2, <3>2
  <2> QED BY <2>1, <2>2
<1> QED BY <1>2, <1>7, <1>8 DEF new

\* An instruction is fetched.
LEMMA FetchKeeps ==
  ASSUME IInv, ruu_fetch
  PROVE  IInv' /\ OldestPC' = OldestPC
<1>1. /\ stage = "fetch" /\ fetch_num < ruu_ifq_size /\ fetch_regs_PC' = fetch_pred_PC
      /\ fetch_data' = [fetch_data EXCEPT ![fetch_tail] =
                          [regs_PC |-> fetch_pred_PC, pred_PC |-> fetch_pred_PC']]
      /\ fetch_tail' = (fetch_tail + 1) % ruu_ifq_size /\ fetch_num' = fetch_num + 1
      /\ UNCHANGED <<programVars, stage, station, ruuVars, lsqVars, rslink_free,
                     event_queue, ready_queue, issueVars, cvVars, inst_seq,
                     specVars, fetch_head, uncached, busy>>
      /\ \/ fetch_pred_PC' = Following(fetch_pred_PC)
         \/ fetch_pred_PC' \in Predictions(fetch_pred_PC)
  BY DEF ruu_fetch, CanFetch, NextSlot
<1>2. /\ fetch_head \in 0..ruu_ifq_size - 1 /\ fetch_num \in 0..ruu_ifq_size
      /\ fetch_tail = (fetch_head + fetch_num) % ruu_ifq_size
      /\ fetch_data \in [0..ruu_ifq_size - 1 -> [regs_PC : PCs, pred_PC : PCs]]
      /\ fetch_pred_PC \in PCs /\ fetch_regs_PC \in PCs /\ recover_PC \in PCs
      /\ FetchedPath(fetch_data, IFQ(fetch_head, fetch_num), fetch_num, fetch_pred_PC)
  BY DEF IInv, FetchInv, FetchOf
<1>3. /\ DOMAIN text \subseteq PCs /\ \A p \in PCs : Following(p) \in PCs
  BY TextFacts DEF IInv, CoreTypes
<1>4. /\ fetch_pred_PC' \in PCs
      /\ fetch_pred_PC' = Following(fetch_pred_PC) \/ Inst(fetch_pred_PC).op \in F_CTRL
  BY <1>1, <1>2, <1>3 DEF Predictions
<1>5. ruu_ifq_size \in Nat /\ fetch_num \in 0..ruu_ifq_size - 1
  BY <1>1, <1>2, WidthsAssumption
<1> DEFINE head == fetch_head
           num == fetch_num
           tail == fetch_tail
           data == fetch_data
           data2 == fetch_data'
           pc == fetch_pred_PC
           pred2 == fetch_pred_PC'
           size == ruu_ifq_size
           num2 == fetch_num'
           tail2 == fetch_tail'
<1>6. /\ FetchedPath(data2, IFQ(head, num2), num2, pred2)
      /\ tail \in 0..size - 1 /\ tail2 = Place(head, num2, size)
      /\ data2[head].regs_PC = IF num > 0 THEN data[head].regs_PC ELSE pc
  <2>1. /\ size = ruu_ifq_size /\ head \in 0..size - 1 /\ num \in 0..size - 1
        /\ tail = Place(head, num, size)
        /\ data \in FetchData(size) /\ pc \in PCs /\ pred2 \in PCs
        /\ FetchedInto(data, data2, tail, pc, pred2) /\ tail2 = Place(tail, 1, size)
        /\ pred2 = Following(pc) \/ Inst(pc).op \in F_CTRL
        /\ FetchedPath(data, IFQ(head, num), num, pc) /\ num2 = num + 1
    BY <1>1, <1>2, <1>4, <1>5 DEF Place, FetchedInto, FetchData
  <2> HIDE DEF head, num, tail, data, data2, pc, pred2, size, num2, tail2
  <2> QED BY <2>1, FetchedPathGrows
<1>7. /\ fetch_data' \in [0..ruu_ifq_size - 1 -> [regs_PC : PCs, pred_PC : PCs]]
      /\ fetch_num' \in 0..ruu_ifq_size
  BY <1>1, <1>2, <1>4, <1>5, <1>6
<1>8. FetchInv'
  <2>1. FetchOf(fetch_head', fetch_tail', fetch_num', fetch_data', fetch_pred_PC',
                fetch_regs_PC', recover_PC')
    BY <1>1, <1>2, <1>4, <1>6, <1>7 DEF FetchOf, specVars, Place
  <2> QED BY <1>1, <2>1, FetchPrimed DEF programVars
<1>9. FrontPC' = FrontPC
  <2>1. fetch_num' > 0
    BY <1>1, <1>2
  <2> QED BY <1>1, <1>6, <2>1 DEF FrontPC, Fetched
<1>10. CoreTypes'
  <2>1. Program'
    BY <1>1, ProgramFixed DEF IInv, CoreTypes
  <2> QED BY <1>1, <2>1 DEF IInv, CoreTypes, cvVars, specVars, issueVars
<1>11. RingTypes' /\ Structure' /\ OldestPC' = OldestPC
  BY <1>1, <1>9, StationsStay DEF programVars
<1>12. LinksInv'
  BY <1>1, LinksStay DEF IInv, LinksInv, LinksOf, issueVars
<1>13. EventsInOrder'
  BY <1>1 DEF IInv, EventsInOrder
<1> QED BY <1>8, <1>10, <1>11, <1>12, <1>13 DEF IInv

-----------------------------------------------------------------------------
(* Commit.                                                                 *)

(* Output chains are what they were, or empty.                             *)
ChainsShrink(st, st2) ==
    \A p \in Ids, j \in 1 .. 2 : \/ st2[p].odep_list[j] = <<>>
                               \/ st2[p].odep_list[j] = st[p].odep_list[j]

(* What the links of a station depend on.                                  *)
SameRun(st, st2) ==
    \A id \in Ids :
        /\ st2[id].queued = st[id].queued /\ st2[id].issued = st[id].issued
        /\ st2[id].completed = st[id].completed /\ st2[id].op = st[id].op
        /\ st2[id].idep_ready = st[id].idep_ready

\* Links stay in order when stations leave, and their chains may be cleared.
LEMMA LinksLeft ==
  ASSUME NEW st \in [Ids -> StationSet], NEW st2 \in [Ids -> StationSet],
         NEW F \in SUBSET Ids, NEW F2 \in SUBSET F, TagsGrow(st, st2, F, F2), SameRun(st, st2),
         ChainsShrink(st, st2),
         NEW rq \in Seq(LinkSet), NEW nd \in Seq(LinkSet), NEW eq \in Seq(LinkSet),
         LinksOf(st, F, rq, nd, eq)
  PROVE  LinksOf(st2, F2, rq, nd, eq)
<1>1. /\ ReadyLinks(st, F, rq, nd) /\ EventLinks(st, F, eq) /\ ChainLinks(st, F, Ids)
      /\ Progress(st, F, {})
  BY DEF LinksOf
<1>2. ReadyLinks(st2, F2, rq, nd)
  <2>1. \A id \in F2 : st2[id].queued = st[id].queued
    BY DEF SameRun
  <2> QED BY <1>1, <2>1, ReadyKept
<1>3. EventLinks(st2, F2, eq)
  <2>1. \A id \in F2 : (st2[id].issued /\ ~st2[id].completed) <=> (st[id].issued /\ ~st[id].completed)
    BY DEF SameRun
  <2> QED BY <1>1, <2>1, EventsKept
<1>4. ChainLinks(st2, F2, Ids)
  <2> DEFINE ids == Ids
  <2>1. ChainsFrom(st, st2, F2, ids, ids)
    BY DEF SameRun, ChainsFrom, ChainsShrink
  <2>2. ids \in SUBSET Ids /\ ChainLinks(st, F, ids)
    BY <1>1
  <2> HIDE DEF ids
  <2>3. ChainLinks(st2, F2, ids)
    BY <2>1, <2>2, ChainsKept
  <2> QED BY <2>3 DEF ids
<1>5. Progress(st2, F2, {})
  <2>1. \A id \in F2 : /\ st2[id].queued = st[id].queued /\ st2[id].issued = st[id].issued
                       /\ st2[id].completed = st[id].completed /\ st2[id].op = st[id].op
                       /\ st2[id].idep_ready = st[id].idep_ready
    BY DEF SameRun
  <2> QED BY <1>1, <2>1, ProgressKept
<1> QED BY <1>2, <1>3, <1>4, <1>5 DEF LinksOf

\* The stations in flight without a, and without b if it is its access (mem).
FlightWithout(F, F2, a, mem, b) ==
    \A id : id \in F2 <=> id \in F /\ id # a /\ ~(mem /\ id = b)

\* The stations in flight, without the oldest one.
LEMMA FlightShrinks ==
  ASSUME NEW n \in Nat \ {0}, NEW m \in Nat, NEW ruu, NEW lsq,
         Places(ruu, n, RUU), Places(lsq, m, LSQ),
         NEW n2, n2 = n - 1, NEW ruu2, RestOf(ruu, ruu2, n),
         NEW m2, NEW lsq2, NEW mem \in BOOLEAN, mem => m > 0, AccessesLeft(mem, lsq, m, lsq2, m2),
         NEW a, a = ruu[1], NEW b, b = lsq[1]
  PROVE  FlightWithout(Flight(ruu, n, lsq, m), Flight(ruu2, n2, lsq2, m2), a, mem, b)
<1>1. \A k \in 1..n2 : ruu2[k] = ruu[k + 1] /\ k + 1 \in 1..n /\ k + 1 # 1
  BY DEF RestOf
<1>2. 1 \in 1..n /\ \A k \in 1..n : k # 1 => k - 1 \in 1..n2 /\ ruu2[k - 1] = ruu[k]
  <2>1. ASSUME NEW k \in 1..n, k # 1 PROVE k - 1 \in 1..n2 /\ ruu2[k - 1] = ruu[k]
    <3>1. k - 1 \in 1..n2 /\ (k - 1) + 1 = k
      BY <2>1
    <3> QED BY <1>1, <3>1
  <2> QED BY <2>1
<1>3. ASSUME NEW id
      PROVE  (\E k \in 1..n2 : ruu2[k] = id) <=> (\E k \in 1..n : ruu[k] = id) /\ id # ruu[1]
  <2>1. \A k \in 1..n : ruu[k] = ruu[1] => k = 1
    BY <1>2 DEF Places
  <2>2. (\E k \in 1..n2 : ruu2[k] = id) => (\E k \in 1..n : ruu[k] = id) /\ id # ruu[1]
    BY <1>1, <2>1
  <2>3. (\E k \in 1..n : ruu[k] = id) /\ id # ruu[1] => (\E k \in 1..n2 : ruu2[k] = id)
    BY <1>2
  <2> QED BY <2>2, <2>3
<1>4. ASSUME NEW id
      PROVE  (\E k \in 1..m2 : lsq2[k] = id) <=>
                (\E k \in 1..m : lsq[k] = id) /\ ~(mem /\ id = lsq[1])
  <2>1. CASE mem
    <3>1. m > 0 /\ 1 \in 1..m /\ \A k \in 1..m : lsq[k] = lsq[1] => k = 1
      BY <2>1 DEF Places
    <3>2. m2 = m - 1 /\ \A k \in 1..m2 : lsq2[k] = lsq[k + 1] /\ k + 1 \in 1..m /\ k + 1 # 1
      BY <2>1, <3>1 DEF AccessesLeft, RestOf
    <3>3. ASSUME NEW k \in 1..m, k # 1 PROVE k - 1 \in 1..m2 /\ lsq2[k - 1] = lsq[k]
      <4>1. k - 1 \in 1..m2 /\ (k - 1) + 1 = k
        BY <3>2, <3>3
      <4> QED BY <3>2, <4>1
    <3>4. (\E k \in 1..m2 : lsq2[k] = id) => (\E k \in 1..m : lsq[k] = id) /\ id # lsq[1]
      BY <3>1, <3>2
    <3>5. (\E k \in 1..m : lsq[k] = id) /\ id # lsq[1] => (\E k \in 1..m2 : lsq2[k] = id)
      BY <3>3
    <3> QED BY <2>1, <3>4, <3>5
  <2>2. CASE ~mem
    BY <2>2 DEF AccessesLeft
  <2> QED BY <2>1, <2>2
<1>5. ASSUME NEW id PROVE (\E k \in 1..n : ruu[k] = id) => ~(mem /\ id = lsq[1])
  <2>1. ASSUME NEW k \in 1..n, mem, ruu[k] = lsq[1] PROVE FALSE
    <3>1. 1 \in 1..m
      BY <2>1
    <3>2. ruu[k] \in RUU /\ lsq[1] \in LSQ
      BY <3>1 DEF Places
    <3> QED BY <2>1, <3>2 DEF RUU, LSQ
  <2> QED BY <2>1
<1>6. ASSUME NEW id PROVE (\E k \in 1..m : lsq[k] = id) => id # ruu[1]
  <2>1. \A k \in 1..m : lsq[k] \in LSQ
    BY DEF Places
  <2>2. ruu[1] \in RUU
    BY <1>2 DEF Places
  <2> QED BY <2>1, <2>2 DEF RUU, LSQ
<1>7. ASSUME NEW id
      PROVE  /\ id \in Flight(ruu2, n2, lsq2, m2) <=>
                  (\E k \in 1..n2 : ruu2[k] = id) \/ (\E k \in 1..m2 : lsq2[k] = id)
             /\ id \in Flight(ruu, n, lsq, m) <=>
                  (\E k \in 1..n : ruu[k] = id) \/ (\E k \in 1..m : lsq[k] = id)
  BY DEF Flight
<1>8. ASSUME NEW id
      PROVE  id \in Flight(ruu2, n2, lsq2, m2) <=>
                id \in Flight(ruu, n, lsq, m) /\ id # ruu[1] /\ ~(mem /\ id = lsq[1])
  <2> DEFINE A2 == \E k \in 1..n2 : ruu2[k] = id
             A == \E k \in 1..n : ruu[k] = id
             L2 == \E k \in 1..m2 : lsq2[k] = id
             L == \E k \in 1..m : lsq[k] = id
  <2>1. /\ A2 <=> (A /\ id # ruu[1])
        /\ L2 <=> (L /\ ~(mem /\ id = lsq[1]))
        /\ A => ~(mem /\ id = lsq[1])
        /\ L => id # ruu[1]
        /\ id \in Flight(ruu2, n2, lsq2, m2) <=> A2 \/ L2
        /\ id \in Flight(ruu, n, lsq, m) <=> A \/ L
    BY <1>3, <1>4, <1>5, <1>6, <1>7
  <2> HIDE DEF A2, A, L2, L
  <2> QED BY <2>1
<1> QED BY <1>8 DEF FlightWithout

(* What a commit leaves of the stations and the rings; mem: with an access. *)
LeftByCommit(mem) ==
    /\ station' \in [Ids -> StationSet]
    /\ SameShape(station, station') /\ SameRun(station, station')
    /\ \A id \in Ids :
          /\ station'[id].tag = IF id = Oldest \/ (mem /\ id = OldestAccess)
                                THEN station[id].tag + 1 ELSE station[id].tag
          /\ station'[id].odep_list = station[id].odep_list
          /\ station'[id].onames = station[id].onames /\ station'[id].addr = station[id].addr
    /\ RestOf(RUUIds, RUUIds', RUU_num) /\ RUUIds[1] = Oldest
    /\ AccessesLeft(mem, LSQIds, LSQ_num, LSQIds', LSQ_num')
    /\ mem => LSQ_num > 0 /\ LSQIds[1] = OldestAccess
    /\ FlightWithout(Flight(RUUIds, RUU_num, LSQIds, LSQ_num),
                     Flight(RUUIds, RUU_num, LSQIds, LSQ_num)', Oldest, mem, OldestAccess)

\* The oldest station leaves, and its access.
LEMMA CommitLeaves ==
  ASSUME IInv, ruu_commit, NEW mem, mem = station[Oldest].ea_comp
  PROVE  LeftByCommit(mem) /\ RingTypes'
<1> DEFINE st == station
           st2 == station'
           ruu == RUUIds
           ruu2 == RUUIds'
           lsq == LSQIds
           lsq2 == LSQIds'
           n == RUU_num
           n2 == RUU_num'
           m == LSQ_num
           m2 == LSQ_num'
           F == Flight(ruu, n, lsq, m)
           F2 == Flight(ruu2, n2, lsq2, m2)
           Gone(id) == id = Oldest \/ (mem /\ id = OldestAccess)
<1>1. /\ stage = "commit" /\ n > 0 /\ st[Oldest].completed
      /\ mem /\ IsStore(st[OldestAccess]) => Idle("WrPort") # {}
      /\ st2 = [id \in Ids |-> [st[id] EXCEPT !.tag = IF Gone(id) THEN @ + 1 ELSE @]]
      /\ IF mem THEN /\ LSQ_head' = (LSQ_head + 1) % LSQ_size /\ m2 = m - 1
         ELSE UNCHANGED <<LSQ_head, LSQ_num>>
      /\ busy' = busy \/ (mem /\ IsStore(st[OldestAccess]) /\ Reserve("WrPort"))
      /\ RUU_head' = (RUU_head + 1) % RUU_size /\ n2 = n - 1
      /\ UNCHANGED <<programVars, stage, RUU_tail, LSQ_tail, rslink_free,
                   event_queue, ready_queue, issueVars, cvVars, inst_seq,
                   last_op, specVars, ifqVars, fetchVars, branch_cnt>>
  BY DEF ruu_commit, CanCommit
<1>2. /\ st \in [Ids -> StationSet] /\ ready_queue \in Seq(LinkSet) /\ node \in Seq(LinkSet)
      /\ event_queue \in Seq(LinkSet) /\ busy \in [DOMAIN fu_pool -> Nat]
  BY DEF IInv, CoreTypes
<1>3. /\ RUU_head \in 0..RUU_size - 1 /\ n \in 0..RUU_size
      /\ RUU_tail = Place(RUU_head, n, RUU_size)
      /\ LSQ_head \in 0..LSQ_size - 1 /\ m \in 0..LSQ_size
      /\ LSQ_tail = Place(LSQ_head, m, LSQ_size)
      /\ RUU_size \in Nat \ {0} /\ LSQ_size \in Nat \ {0} /\ n \in 1..RUU_size
  BY <1>1, SizesAssumption DEF IInv, RingTypes, Place
<1>4. /\ Places(ruu, n, RUU) /\ Places(lsq, m, LSQ) /\ n \in Nat \ {0} /\ m \in Nat
      /\ F \in SUBSET Ids
  BY <1>1, <1>3, RingsPlaced DEF IInv
<1>5. /\ RUU_head' \in 0..RUU_size - 1 /\ RUU_tail' = Place(RUU_head', n2, RUU_size)
      /\ n2 \in 0..RUU_size /\ Shorter(ruu, ruu2, n, Oldest)
  <2> DEFINE ring == "RUU"
             size == RUU_size
             head == RUU_head
             head2 == RUU_head'
             tail == RUU_tail
             e == Oldest
  <2>1. /\ size \in Nat \ {0} /\ head \in 0..size - 1 /\ n \in 1..size
        /\ head2 = Place(head, 1, size) /\ n2 = n - 1 /\ tail = Place(head, n, size)
        /\ ruu = RingIds(ring, head, n, size) /\ ruu2 = RingIds(ring, head2, n2, size)
        /\ e = <<ring, head>>
    BY <1>1, <1>3 DEF Place, RUUIds, Oldest
  <2> HIDE DEF ring, size, head, head2, tail, e, n, n2, ruu, ruu2
  <2>2. /\ head2 \in 0..size - 1 /\ tail = Place(head2, n2, size) /\ n2 \in 0..size
        /\ Shorter(ruu, ruu2, n, e)
    BY <2>1, RingWithoutOldest
  <2> QED BY <1>1, <2>2 DEF size, head, head2, tail, e
<1>6. RestOf(ruu, ruu2, n) /\ ruu[1] = Oldest
  BY <1>5 DEF RestOf, Shorter
<1>7. mem => m > 0
  <2>1. Order(st, ruu, n, lsq, m, inst_seq) /\ Pairs(st, ruu, n, lsq, m)
    BY DEF IInv, Structure, StructureOf
  <2> DEFINE top == inst_seq
  <2> HIDE DEF st, ruu, n, lsq, m, top
  <2>2. st[ruu[1]].ea_comp => m > 0
    BY <1>2, <1>4, <2>1, OldestAccessFirst DEF top
  <2> QED BY <1>6, <2>2 DEF st
<1>8. /\ LSQ_head' \in 0..LSQ_size - 1 /\ LSQ_tail' = Place(LSQ_head', m2, LSQ_size)
      /\ m2 \in 0..LSQ_size /\ AccessesLeft(mem, lsq, m, lsq2, m2)
      /\ (mem => lsq[1] = OldestAccess)
  <2>1. CASE mem
    <3> DEFINE ring == "LSQ"
               size == LSQ_size
               head == LSQ_head
               head2 == LSQ_head'
               tail == LSQ_tail
               e == OldestAccess
    <3>1. /\ size \in Nat \ {0} /\ head \in 0..size - 1 /\ m \in 1..size
          /\ head2 = Place(head, 1, size) /\ m2 = m - 1 /\ tail = Place(head, m, size)
          /\ lsq = RingIds(ring, head, m, size) /\ lsq2 = RingIds(ring, head2, m2, size)
          /\ e = <<ring, head>>
      BY <1>1, <1>3, <1>7, <2>1 DEF Place, LSQIds, OldestAccess
    <3> HIDE DEF ring, size, head, head2, tail, e, m, m2, lsq, lsq2
    <3>2. /\ head2 \in 0..size - 1 /\ tail = Place(head2, m2, size) /\ m2 \in 0..size
          /\ Shorter(lsq, lsq2, m, e)
      BY <3>1, RingWithoutOldest
    <3>3. AccessesLeft(mem, lsq, m, lsq2, m2) /\ lsq[1] = e
      BY <2>1, <3>1, <3>2 DEF AccessesLeft, Shorter, RestOf
    <3> QED BY <1>1, <2>1, <3>2, <3>3 DEF size, head, head2, tail, e
  <2>2. CASE ~mem
    BY <1>1, <1>3, <2>2 DEF AccessesLeft, LSQIds
  <2> QED BY <2>1, <2>2
<1>9. RingTypes'
  BY <1>5, <1>8 DEF RingTypes, Place
<1>10. Places(ruu2, n2, RUU) /\ Places(lsq2, m2, LSQ) /\ n2 \in Nat /\ m2 \in Nat
  <2>1. RUU_head' \in 0..RUU_size - 1 /\ n2 \in 0..RUU_size
        /\ LSQ_head' \in 0..LSQ_size - 1 /\ m2 \in 0..LSQ_size
    BY <1>5, <1>8
  <2> QED BY <2>1, RingPlaces DEF RUUIds, LSQIds
<1>11. st2 \in [Ids -> StationSet] /\ SameShape(st, st2) /\ SameRun(st, st2)
       /\ \A id \in Ids : /\ st2[id].tag = IF Gone(id) THEN st[id].tag + 1 ELSE st[id].tag
                          /\ st2[id].odep_list = st[id].odep_list
                          /\ st2[id].onames = st[id].onames /\ st2[id].addr = st[id].addr
  <2>1. ASSUME NEW id \in Ids
        PROVE  /\ st2[id] \in StationSet
               /\ st2[id].tag = IF Gone(id) THEN st[id].tag + 1 ELSE st[id].tag
               /\ st2[id] = [st[id] EXCEPT !.tag = st2[id].tag]
    <3> DEFINE r == st[id]
               t == IF Gone(id) THEN r.tag + 1 ELSE r.tag
    <3>1. r \in StationSet /\ st2[id] = [r EXCEPT !.tag = t]
      BY <1>1, <1>2
    <3>2. t \in Nat
      <4>1. r.tag \in Nat
        BY <1>2, StationFields
      <4> HIDE DEF r, Gone
      <4> QED BY <4>1
    <3> HIDE DEF r, st2, t
    <3>3. st2[id] \in StationSet /\ st2[id].tag = t
      BY <3>1, <3>2 DEF StationSet
    <3> QED BY <3>1, <3>3 DEF t, r
  <2>2. st2 \in [Ids -> StationSet]
    BY <1>1, <2>1
  <2> HIDE DEF st, st2, Gone
  <2>3. ASSUME NEW id \in Ids
        PROVE  /\ st2[id].op = st[id].op /\ st2[id].in_LSQ = st[id].in_LSQ
               /\ st2[id].PC = st[id].PC /\ st2[id].next_PC = st[id].next_PC
               /\ st2[id].seq = st[id].seq /\ st2[id].ea_comp = st[id].ea_comp
               /\ st2[id].recover_inst = st[id].recover_inst
               /\ st2[id].spec_mode = st[id].spec_mode
               /\ st2[id].queued = st[id].queued /\ st2[id].issued = st[id].issued
               /\ st2[id].completed = st[id].completed
               /\ st2[id].idep_ready = st[id].idep_ready
               /\ st2[id].odep_list = st[id].odep_list
               /\ st2[id].onames = st[id].onames /\ st2[id].addr = st[id].addr
    <3> DEFINE r == st[id]
               r2 == st2[id]
               t == r2.tag
    <3>1. r \in StationSet /\ r2 = [r EXCEPT !.tag = t]
      BY <1>2, <2>1
    <3> HIDE DEF r, r2, t
    <3>2. /\ r2.op = r.op /\ r2.in_LSQ = r.in_LSQ
          /\ r2.PC = r.PC /\ r2.next_PC = r.next_PC
          /\ r2.seq = r.seq /\ r2.ea_comp = r.ea_comp
          /\ r2.recover_inst = r.recover_inst /\ r2.spec_mode = r.spec_mode
          /\ r2.queued = r.queued /\ r2.issued = r.issued /\ r2.completed = r.completed
          /\ r2.idep_ready = r.idep_ready /\ r2.odep_list = r.odep_list
          /\ r2.onames = r.onames /\ r2.addr = r.addr
      BY <3>1 DEF StationSet
    <3> QED BY <3>2 DEF r, r2
  <2> QED BY <2>1, <2>2, <2>3 DEF SameShape, SameRun
<1>12. FlightWithout(F, F2, Oldest, mem, OldestAccess)
  <2> DEFINE a == ruu[1]
             b == lsq[1]
  <2>1. mem \in BOOLEAN
    <3>1. Oldest \in Ids
      BY <1>3 DEF Oldest, Ids, RUU
    <3> QED BY <1>2, <3>1, StationFields
  <2>2. FlightWithout(F, F2, a, mem, b)
    <3>1. n2 = n - 1 /\ a = ruu[1] /\ b = lsq[1]
      BY <1>1
    <3> HIDE DEF ruu, ruu2, n, n2, lsq, lsq2, m, m2, a, b
    <3> QED BY <1>4, <1>6, <1>7, <1>8, <2>1, <3>1, FlightShrinks
  <2> HIDE DEF F, F2, ruu, lsq
  <2> QED BY <1>6, <1>8, <2>2 DEF FlightWithout
<1> QED BY <1>6, <1>7, <1>8, <1>9, <1>11, <1>12 DEF LeftByCommit

\* The oldest station is retired.
LEMMA CommitKeeps ==
  ASSUME IInv, ruu_commit
  PROVE  IInv' /\ Retires
<1> DEFINE st == station
           st2 == station'
           ruu == RUUIds
           ruu2 == RUUIds'
           lsq == LSQIds
           lsq2 == LSQIds'
           n == RUU_num
           n2 == RUU_num'
           m == LSQ_num
           m2 == LSQ_num'
           mem == st[Oldest].ea_comp
           F == Flight(ruu, n, lsq, m)
           F2 == Flight(ruu2, n2, lsq2, m2)
           Gone(id) == id = Oldest \/ (mem /\ id = OldestAccess)
<1>1. /\ stage = "commit" /\ n > 0 /\ st[Oldest].completed
      /\ mem /\ IsStore(st[OldestAccess]) => Idle("WrPort") # {}
      /\ st2 = [id \in Ids |-> [st[id] EXCEPT !.tag = IF Gone(id) THEN @ + 1 ELSE @]]
      /\ IF mem THEN /\ LSQ_head' = (LSQ_head + 1) % LSQ_size /\ m2 = m - 1
         ELSE UNCHANGED <<LSQ_head, LSQ_num>>
      /\ busy' = busy \/ (mem /\ IsStore(st[OldestAccess]) /\ Reserve("WrPort"))
      /\ RUU_head' = (RUU_head + 1) % RUU_size /\ n2 = n - 1
      /\ UNCHANGED <<programVars, stage, RUU_tail, LSQ_tail, rslink_free,
                   event_queue, ready_queue, issueVars, cvVars, inst_seq,
                   last_op, specVars, ifqVars, fetchVars, branch_cnt>>
  BY DEF ruu_commit, CanCommit
<1>2. /\ st \in [Ids -> StationSet] /\ ready_queue \in Seq(LinkSet) /\ node \in Seq(LinkSet)
      /\ event_queue \in Seq(LinkSet) /\ busy \in [DOMAIN fu_pool -> Nat]
  BY DEF IInv, CoreTypes
<1>3. /\ RUU_head \in 0..RUU_size - 1 /\ n \in 0..RUU_size
      /\ RUU_tail = Place(RUU_head, n, RUU_size)
      /\ LSQ_head \in 0..LSQ_size - 1 /\ m \in 0..LSQ_size
      /\ LSQ_tail = Place(LSQ_head, m, LSQ_size)
      /\ RUU_size \in Nat \ {0} /\ LSQ_size \in Nat \ {0} /\ n \in 1..RUU_size
  BY <1>1, SizesAssumption DEF IInv, RingTypes, Place
<1>4. /\ Places(ruu, n, RUU) /\ Places(lsq, m, LSQ) /\ n \in Nat \ {0} /\ m \in Nat
      /\ F \in SUBSET Ids
  BY <1>1, <1>3, RingsPlaced DEF IInv
<1>5. LeftByCommit(mem) /\ RingTypes'
  <2> HIDE DEF mem
  <2> QED BY CommitLeaves DEF mem
<1>6. RestOf(ruu, ruu2, n) /\ ruu[1] = Oldest
  BY <1>5 DEF LeftByCommit
<1>7. /\ (mem => m > 0) /\ AccessesLeft(mem, lsq, m, lsq2, m2)
      /\ (mem => lsq[1] = OldestAccess)
  BY <1>5 DEF LeftByCommit
<1>8. Places(ruu2, n2, RUU) /\ Places(lsq2, m2, LSQ) /\ n2 \in Nat /\ m2 \in Nat
  <2>1. RUU_head' \in 0..RUU_size - 1 /\ n2 \in 0..RUU_size
        /\ LSQ_head' \in 0..LSQ_size - 1 /\ m2 \in 0..LSQ_size
    BY <1>5 DEF RingTypes
  <2> QED BY <2>1, RingPlaces DEF RUUIds, LSQIds
<1>9. st2 \in [Ids -> StationSet] /\ SameShape(st, st2) /\ SameRun(st, st2)
      /\ \A id \in Ids : /\ st2[id].tag = IF Gone(id) THEN st[id].tag + 1 ELSE st[id].tag
                         /\ st2[id].odep_list = st[id].odep_list
  BY <1>5 DEF LeftByCommit
<1>10. F2 \in SUBSET F /\ \A id \in Ids : id \in F2 <=> id \in F /\ ~Gone(id)
  <2>1. FlightWithout(F, F2, Oldest, mem, OldestAccess)
    BY <1>5 DEF LeftByCommit
  <2> HIDE DEF F, F2, mem
  <2> QED BY <2>1 DEF FlightWithout
<1>11. Structure' /\ NextPath(st, Oldest, ruu, n, FrontPC)
  <2> DEFINE top == inst_seq
             spec == spec_mode
             pc == recover_PC
             front == FrontPC
             e == Oldest
  <2>1. StructureOf(st, ruu, n, lsq, m, top, spec, pc, front) /\ st[e].completed
        /\ mem = st[e].ea_comp /\ n2 = n - 1 /\ e = ruu[1]
    BY <1>1, <1>6 DEF IInv, Structure
  <2>2. \A id \in Ids : st2[id].completed = st[id].completed
    BY <1>9 DEF SameRun
  <2>3. /\ StructureOf(st2, ruu2, n2, lsq2, m2, top, spec, pc, front)
        /\ NextPath(st, ruu[1], ruu, n, front)
    <3> HIDE DEF st, st2, ruu, ruu2, n, n2, lsq, lsq2, m, m2, top, spec, pc, front, mem, e
    <3>1. StructureOf(st, ruu2, n2, lsq2, m2, top, spec, pc, front)
      <4>1. OldestGoes(st, ruu, n, ruu2, n2, e, mem)
        BY <1>6, <2>1 DEF OldestGoes
      <4> QED BY SMTT(30), <1>2, <1>4, <1>7, <2>1, <4>1, OldestLeaves
    <3>2. NextPath(st, ruu[1], ruu, n, front)
      <4>1. st[ruu[1]].completed
        BY <2>1
      <4> QED BY <1>4, <2>1, <4>1, OldestOnPath
    <3> QED BY <1>8, <1>9, <2>2, <3>1, <3>2, StructureSame
  <2>4. inst_seq' = top /\ spec_mode' = spec /\ recover_PC' = pc /\ FrontPC' = front
    BY <1>1 DEF specVars, FrontPC, Fetched, ifqVars, fetchVars
  <2> HIDE DEF top, spec, pc, front
  <2>5. StructureOf(station', RUUIds', RUU_num', LSQIds', LSQ_num', inst_seq', spec_mode',
                    recover_PC', FrontPC')
    BY <2>3, <2>4
  <2>6. Structure'
    BY <1>1, <2>5, StructurePrimed DEF programVars
  <2> QED BY <1>6, <2>3, <2>6 DEF front
<1>12. TagsGrow(st, st2, F, F2)
  <2>1. ASSUME NEW id \in Ids
        PROVE  /\ st[id].tag <= st2[id].tag
               /\ id \in F2 => st2[id].tag = st[id].tag
               /\ id \in F \ F2 => st2[id].tag # st[id].tag
    <3>1. st[id].tag \in Nat
      BY <1>2, StationFields
    <3> HIDE DEF st, st2, F, F2, Gone
    <3> QED BY <1>9, <1>10, <3>1
  <2> HIDE DEF st, st2, F, F2
  <2> QED BY <2>1 DEF TagsGrow
<1>13. LinksInv'
  <2> DEFINE rq == ready_queue
             nd == node
             eq == event_queue
  <2>1. LinksOf(st, F, rq, nd, eq) /\ nd = <<>>
    BY <1>1 DEF IInv, LinksInv
  <2>2. ChainsShrink(st, st2)
    BY <1>9 DEF ChainsShrink
  <2>3. LinksOf(st2, F2, rq, nd, eq)
    <3> HIDE DEF st, st2, F, F2, rq, nd, eq
    <3> QED BY <1>2, <1>4, <1>9, <1>10, <1>12, <2>1, <2>2, LinksLeft DEF rq, nd, eq
  <2>4. ready_queue' = rq /\ node' = nd /\ event_queue' = eq
    BY <1>1 DEF issueVars
  <2> HIDE DEF rq, nd, eq
  <2> QED BY <2>1, <2>3, <2>4 DEF LinksInv
<1>14. CoreTypes'
  <2>1. Program'
    BY <1>1, ProgramFixed DEF IInv, CoreTypes, fetchVars
  <2>2. busy' \in [DOMAIN fu_pool -> Nat]
    <3>1. CASE busy' = busy
      BY <1>2, <3>1
    <3>2. CASE mem /\ IsStore(st[OldestAccess]) /\ Reserve("WrPort")
      <4> DEFINE class == "WrPort"
      <4>1. Idle(class) # {} /\ Reserve(class)
        BY <1>1, <3>2
      <4> HIDE DEF class
      <4> QED BY <1>2, <4>1, UnitReserved
    <3> QED BY <1>1, <3>1, <3>2
  <2> HIDE DEF st2
  <2> QED
    BY <1>1, <1>2, <1>9, <2>1, <2>2 DEF IInv, CoreTypes, cvVars, specVars, issueVars, st2
<1>15. FetchInv'
  BY <1>1, FetchStays DEF IInv, programVars, fetchVars, specVars
<1>16. EventsInOrder'
  BY <1>1 DEF IInv, EventsInOrder
<1>17. Retires
  <2>1. OldestPC = st[Oldest].PC
    BY <1>1 DEF OldestPC
  <2>2. st[Oldest].next_PC \in NextPCs(st[Oldest].PC)
    <3>1. 1 \in 1..n
      BY <1>4
    <3> QED BY <1>6, <3>1 DEF IInv, Structure, StructureOf, Flow
  <2>3. OldestPC' = IF n > 1 THEN st[ruu[2]].PC ELSE FrontPC
    <3>1. CASE n > 1
      <4>1. ruu2[1] = Oldest'
        <5>1. 1 \in 1..n2 /\ (RUU_head' + 1 - 1) % RUU_size = RUU_head'
          <6> DEFINE h == RUU_head'
          <6>1. RUU_head' + 1 - 1 = RUU_head'
            <7>1. h \in Int
              BY <1>3, <1>5 DEF RingTypes
            <7> HIDE DEF h
            <7>2. h + 1 - 1 = h
              BY <7>1
            <7> QED BY <7>2 DEF h
          <6> QED
            BY <1>1, <1>3, <1>4, <1>5, <3>1, <6>1, SmallRemainder DEF RingTypes
        <5> QED BY <5>1 DEF RUUIds, RingIds, Oldest
      <4>2. ruu2[1] = ruu[2] /\ ruu[2] \in Ids
        <5>1. 1 \in 1..n - 1 /\ 1 + 1 = 2 /\ 2 \in 1..n
          BY <1>4, <3>1
        <5> QED BY <1>4, <1>6, <5>1 DEF RestOf, Places, Ids
      <4>3. n2 > 0
        BY <1>1, <1>4, <3>1
      <4> HIDE DEF ruu, ruu2
      <4> QED BY <1>9, <3>1, <4>1, <4>2, <4>3 DEF OldestPC, SameShape
    <3>2. CASE ~(n > 1)
      <4>1. ~(n2 > 0)
        BY <1>1, <1>4, <3>2
      <4> QED BY <1>1, <3>2, <4>1 DEF OldestPC, FrontPC, Fetched, ifqVars, fetchVars
    <3> QED BY <3>1, <3>2
  <2> QED BY <1>11, <2>1, <2>2, <2>3 DEF NextPath, Retires
<1> QED BY <1>5, <1>11, <1>13, <1>14, <1>15, <1>16, <1>17 DEF IInv

-----------------------------------------------------------------------------
(* Writeback.                                                              *)

\* The two output chains of a station, taken from it, are still to be woken.
LEMMA ChainTaken ==
  ASSUME NEW st \in [Ids -> StationSet], NEW F \in SUBSET Ids, NEW id \in Ids,
         ChainLinks(st, F, Ids), NEW links, links = st[id].odep_list[1] \o st[id].odep_list[2],
         NEW ids, ids = Ids \ {id}
  PROVE  /\ links \in Seq(OperandSet)
         /\ ChainLinks(st, F, ids) /\ Outstanding(st, F, ids, links, 1)
<1> DEFINE a == st[id].odep_list[1]
           b == st[id].odep_list[2]
<1>1. a \in Seq(OperandSet) /\ b \in Seq(OperandSet)
  <2>1. st[id].odep_list \in [1..2 -> Seq(OperandSet)] /\ 1 \in 1..2 /\ 2 \in 1..2
    BY StationFields
  <2> QED BY <2>1
<1> DEFINE Of(i) == IF i <= Len(a) THEN 1 ELSE 2
           At(i) == IF i <= Len(a) THEN i ELSE i - Len(a)
<1>2. /\ links \in Seq(OperandSet)
      /\ \A i \in DOMAIN links :
            /\ Of(i) \in 1..2 /\ At(i) \in DOMAIN st[id].odep_list[Of(i)]
            /\ links[i] = st[id].odep_list[Of(i)][At(i)] /\ i \in Int
  <2>1. links = a \o b
    OBVIOUS
  <2>2. ASSUME NEW i \in DOMAIN links
        PROVE  /\ i <= Len(a) => i \in DOMAIN a /\ links[i] = a[i]
               /\ ~(i <= Len(a)) => i - Len(a) \in DOMAIN b /\ links[i] = b[i - Len(a)]
               /\ i \in Int
    <3> HIDE DEF a, b
    <3> QED BY <1>1, <2>1
  <2>3. links \in Seq(OperandSet)
    <3> HIDE DEF a, b
    <3> QED BY <1>1, <2>1
  <2>4. ASSUME NEW i \in DOMAIN links
        PROVE  /\ Of(i) \in 1..2 /\ At(i) \in DOMAIN st[id].odep_list[Of(i)]
               /\ links[i] = st[id].odep_list[Of(i)][At(i)]
    <3>1. CASE i <= Len(a)
      <4>1. Of(i) = 1 /\ At(i) = i
        BY <3>1
      <4>2. i \in DOMAIN a /\ links[i] = a[i]
        BY <2>2, <3>1
      <4> HIDE DEF Of, At
      <4> QED BY <4>1, <4>2
    <3>2. CASE ~(i <= Len(a))
      <4>1. Of(i) = 2 /\ At(i) = i - Len(a)
        BY <3>2
      <4>2. i - Len(a) \in DOMAIN b /\ links[i] = b[i - Len(a)]
        BY <2>2, <3>2
      <4> HIDE DEF Of, At
      <4> QED BY <4>1, <4>2
    <3> QED BY <3>1, <3>2
  <2> QED BY <2>2, <2>3, <2>4
<1>3. ASSUME NEW i \in DOMAIN links, NEW j \in DOMAIN links, Of(i) = Of(j), At(i) = At(j)
      PROVE  i = j
  <2>1. i \in Int /\ j \in Int /\ Len(a) \in Nat /\ i > 0 /\ j > 0
    <3>1. DOMAIN links = 1..Len(links)
      BY <1>2
    <3> HIDE DEF a
    <3> QED BY <1>1, <1>2, <3>1
  <2>2. (i <= Len(a)) <=> (j <= Len(a))
    BY <1>3
  <2> HIDE DEF a, b
  <2> QED BY <1>3, <2>1, <2>2
<1> HIDE DEF Of, At
<1>4. ChainLinks(st, F, ids)
  BY Zenon DEF ChainLinks
<1>5. Sound(st, F, links)
  <2>1. ASSUME NEW i \in DOMAIN links
        PROVE  /\ links[i].tag <= st[links[i].rs].tag
               /\ RSLINK_VALID(st, links[i]) => links[i].rs \in F
    <3> DEFINE c == st[id].odep_list[Of(i)]
    <3>1. Sound(st, F, c) /\ At(i) \in DOMAIN c /\ links[i] = c[At(i)]
      BY <1>2 DEF ChainLinks
    <3> HIDE DEF c
    <3> QED BY <3>1 DEF Sound
  <2> QED BY <2>1 DEF Sound
<1>6. ASSUME NEW i \in DOMAIN links PROVE Waits(st, links[i])
  <2> DEFINE c == st[id].odep_list[Of(i)]
  <2>1. (\A k \in DOMAIN c : Waits(st, c[k])) /\ At(i) \in DOMAIN c /\ links[i] = c[At(i)]
    BY <1>2 DEF ChainLinks
  <2> HIDE DEF c
  <2> QED BY <2>1
<1>7. ASSUME NEW i \in DOMAIN links, NEW j \in DOMAIN links,
             RSLINK_VALID(st, links[i]), links[i] = links[j]
      PROVE  i = j
  <2>1. Of(i) = Of(j) /\ At(i) = At(j)
    <3>1. /\ Of(i) \in 1..2 /\ Of(j) \in 1..2
          /\ At(i) \in DOMAIN st[id].odep_list[Of(i)] /\ At(j) \in DOMAIN st[id].odep_list[Of(j)]
          /\ RSLINK_VALID(st, st[id].odep_list[Of(i)][At(i)])
          /\ st[id].odep_list[Of(i)][At(i)] = st[id].odep_list[Of(j)][At(j)]
      BY <1>2, <1>7
    <3> QED BY SMTT(30), <3>1 DEF ChainLinks
  <2> QED BY <1>3, <2>1
<1>8. ASSUME NEW i \in DOMAIN links, NEW p \in ids, NEW j \in 1..2, RSLINK_VALID(st, links[i]),
             NEW m \in DOMAIN st[p].odep_list[j], st[p].odep_list[j][m] = links[i]
      PROVE  FALSE
  <2>1. /\ Of(i) \in 1..2 /\ At(i) \in DOMAIN st[id].odep_list[Of(i)]
        /\ RSLINK_VALID(st, st[id].odep_list[Of(i)][At(i)])
        /\ st[id].odep_list[Of(i)][At(i)] = st[p].odep_list[j][m] /\ p \in Ids /\ p # id
    BY <1>2, <1>8
  <2> QED BY <2>1 DEF ChainLinks
<1>9. Outstanding(st, F, ids, links, 1)
  BY <1>5, <1>6, <1>7, <1>8 DEF Outstanding
<1> QED BY <1>2, <1>4, <1>9

(* part is what follows the first b of the n stations of a ring.           *)
EndOf(part, ids, b, n) ==
    /\ Len(part) = n - b /\ DOMAIN part = 1 .. n - b
    /\ \A k \in 1 .. n - b : part[k] = ids[b + k]
    /\ ToSet(part) = {ids[k] : k \in b + 1 .. n}

\* The entries of a part of a ring.
LEMMA PartOfRing ==
  ASSUME NEW ids, NEW S, NEW n \in Nat, ids \in [1..n -> S], NEW b \in 0..n,
         NEW part, part = SubSeq(ids, b + 1, n)
  PROVE  EndOf(part, ids, b, n)
<1> DEFINE cut == SubSeq(ids, b + 1, n)
<1>1. ids \in Seq(S) /\ Len(ids) = n
  OBVIOUS
<1>2. Len(cut) = n - b /\ DOMAIN cut = 1..n - b
  BY <1>1
<1>3. \A k \in 1..n - b : cut[k] = ids[b + k]
  BY <1>1
<1>5. part = cut
  OBVIOUS
<1> HIDE DEF cut
<1>4. ToSet(cut) = {ids[k] : k \in b + 1..n}
  <2>1. \A k \in 1..n - b : b + k \in b + 1..n
    OBVIOUS
  <2>2. ASSUME NEW k \in b + 1..n PROVE k - b \in 1..n - b /\ cut[k - b] = ids[k]
    <3>1. k - b \in 1..n - b /\ b + (k - b) = k
      OBVIOUS
    <3> QED BY <1>3, <3>1
  <2>3. ASSUME NEW k \in 1..n - b PROVE cut[k] \in {ids[j] : j \in b + 1..n}
    BY <1>3, <2>1
  <2>4. ASSUME NEW k \in b + 1..n PROVE ids[k] \in ToSet(cut)
    <3>1. k - b \in DOMAIN cut /\ cut[k - b] = ids[k]
      BY <1>2, <2>2
    <3> QED BY <3>1 DEF ToSet
  <2>5. ToSet(cut) \subseteq {ids[j] : j \in b + 1..n}
    BY <1>2, <2>3 DEF ToSet
  <2> QED BY <2>4, <2>5
<1> QED BY <1>2, <1>3, <1>4, <1>5 DEF EndOf

\* A station without output chains.
LEMMA NoChains ==
  LET none == << <<>>, <<>> >>
  IN none \in [1..2 -> Seq(OperandSet)] /\ \A j \in 1..2 : none[j] = <<>>
<1>1. ASSUME NEW S, NEW e \in S PROVE <<e, e>> \in [1..2 -> S] /\ \A j \in 1..2 : <<e, e>>[j] = e
  OBVIOUS
<1> DEFINE T == Seq(OperandSet)
           e == <<>>
<1>2. e \in T
  OBVIOUS
<1> HIDE DEF T, e
<1>3. <<e, e>> \in [1..2 -> T] /\ \A j \in 1..2 : <<e, e>>[j] = e
  BY <1>1, <1>2
<1> QED BY <1>3 DEF T, e

(* The stations gone lost their tags and chains, and nothing else.         *)
SquashedTo(st, s, gone) ==
    /\ s \in [Ids -> StationSet] /\ SameShape(st, s) /\ SameRun(st, s) /\ ChainsShrink(st, s)
    /\ \A id \in Ids : /\ s[id].tag = IF id \in gone THEN st[id].tag + 1 ELSE st[id].tag
                       /\ id \notin gone => s[id] = st[id]

\* What Squash does.
LEMMA SquashEffect ==
  ASSUME NEW st \in [Ids -> StationSet], NEW gone, NEW s, s = Squash(st, gone)
  PROVE  SquashedTo(st, s, gone)
<1> DEFINE none == << <<>>, <<>> >>
<1>1. none \in [1..2 -> Seq(OperandSet)] /\ \A j \in 1..2 : none[j] = <<>>
  BY NoChains
<1>2. ASSUME NEW id \in Ids
      PROVE  /\ s[id] \in StationSet
             /\ id \notin gone => s[id] = st[id]
             /\ id \in gone => s[id].tag = st[id].tag + 1 /\ s[id].odep_list = none
             /\ s[id].op = st[id].op /\ s[id].in_LSQ = st[id].in_LSQ
             /\ s[id].PC = st[id].PC /\ s[id].next_PC = st[id].next_PC
             /\ s[id].seq = st[id].seq /\ s[id].ea_comp = st[id].ea_comp
             /\ s[id].recover_inst = st[id].recover_inst
             /\ s[id].spec_mode = st[id].spec_mode
             /\ s[id].queued = st[id].queued /\ s[id].issued = st[id].issued
             /\ s[id].completed = st[id].completed /\ s[id].idep_ready = st[id].idep_ready
  <2> DEFINE r == st[id]
             r2 == s[id]
             t == r.tag + 1
  <2>1. r \in StationSet
    OBVIOUS
  <2>2. CASE id \notin gone
    BY <2>1, <2>2 DEF Squash
  <2>3. CASE id \in gone
    <3>1. r2 = [r EXCEPT !.tag = t, !.odep_list = none]
      BY <2>3 DEF Squash
    <3>2. t \in Nat
      BY <2>1 DEF StationSet
    <3> HIDE DEF r, r2, t, none
    <3>3. /\ r2 \in StationSet /\ r2.tag = t /\ r2.odep_list = none
          /\ r2.op = r.op /\ r2.in_LSQ = r.in_LSQ /\ r2.PC = r.PC /\ r2.next_PC = r.next_PC
          /\ r2.seq = r.seq /\ r2.ea_comp = r.ea_comp /\ r2.recover_inst = r.recover_inst
          /\ r2.spec_mode = r.spec_mode /\ r2.queued = r.queued /\ r2.issued = r.issued
          /\ r2.completed = r.completed /\ r2.idep_ready = r.idep_ready
      BY <1>1, <2>1, <3>1, <3>2 DEF StationSet
    <3> QED BY <2>3, <3>3 DEF r, r2, t
  <2> QED BY <2>2, <2>3
<1>3. s \in [Ids -> StationSet]
  <2>1. s = [id \in Ids |-> s[id]]
    BY DEF Squash
  <2> QED BY <1>2, <2>1
<1> HIDE DEF none
<1>4. SameShape(st, s) /\ SameRun(st, s)
  BY <1>2 DEF SameShape, SameRun
<1>5. ASSUME NEW p \in Ids, NEW j \in 1..2
      PROVE  s[p].odep_list[j] = <<>> \/ s[p].odep_list[j] = st[p].odep_list[j]
  BY <1>1, <1>2
<1> QED BY <1>2, <1>3, <1>4, <1>5 DEF SquashedTo, ChainsShrink

(* The output chains of id are empty, and nothing else differs.            *)
ClearedTo(st, s, id) ==
    /\ s \in [Ids -> StationSet] /\ SameShape(st, s) /\ SameRun(st, s) /\ SameTags(st, s)
    /\ \A p \in Ids : p # id => s[p] = st[p]
    /\ \A j \in 1 .. 2 : s[id].odep_list[j] = <<>>

\* The output chains of a station are taken from it.
LEMMA ChainsCleared ==
  ASSUME NEW st \in [Ids -> StationSet], NEW id \in Ids, NEW s,
         s = [st EXCEPT ![id].odep_list = << <<>>, <<>> >>]
  PROVE  ClearedTo(st, s, id)
<1> DEFINE none == << <<>>, <<>> >>
           r == st[id]
           r2 == s[id]
<1>1. none \in [1..2 -> Seq(OperandSet)] /\ \A j \in 1..2 : none[j] = <<>>
  BY NoChains
<1>2. r \in StationSet /\ r2 = [r EXCEPT !.odep_list = none] /\ \A p \in Ids : p # id => s[p] = st[p]
  OBVIOUS
<1>3. /\ r2 \in StationSet /\ r2.odep_list = none /\ r2.tag = r.tag
      /\ r2.op = r.op /\ r2.in_LSQ = r.in_LSQ /\ r2.PC = r.PC /\ r2.next_PC = r.next_PC
      /\ r2.seq = r.seq /\ r2.ea_comp = r.ea_comp /\ r2.recover_inst = r.recover_inst
      /\ r2.spec_mode = r.spec_mode /\ r2.queued = r.queued /\ r2.issued = r.issued
      /\ r2.completed = r.completed /\ r2.idep_ready = r.idep_ready
  <2> HIDE DEF r, r2, none
  <2> QED BY <1>1, <1>2 DEF StationSet
<1>4. s \in [Ids -> StationSet]
  <2>1. s = [k \in Ids |-> s[k]] /\ \A k \in Ids : s[k] \in StationSet
    BY <1>2, <1>3
  <2> QED BY <2>1
<1> HIDE DEF none
<1>5. SameShape(st, s) /\ SameRun(st, s) /\ SameTags(st, s)
  BY <1>2, <1>3 DEF SameShape, SameRun, SameTags
<1> QED BY <1>1, <1>2, <1>3, <1>4, <1>5 DEF ClearedTo

(* id has completed, and nothing else differs.                             *)
CompletesTo(st, s, id) ==
    /\ s \in [Ids -> StationSet] /\ SameShape(st, s) /\ SameTags(st, s)
    /\ \A p \in Ids : /\ s[p].completed <=> st[p].completed \/ p = id
                      /\ s[p].queued = st[p].queued /\ s[p].issued = st[p].issued
                      /\ s[p].idep_ready = st[p].idep_ready
                      /\ s[p].odep_list = st[p].odep_list

\* A station completes.
LEMMA Completes ==
  ASSUME NEW st \in [Ids -> StationSet], NEW id \in Ids, NEW s,
         s = [st EXCEPT ![id].completed = TRUE]
  PROVE  CompletesTo(st, s, id)
<1> DEFINE r == st[id]
           r2 == s[id]
<1>1. r \in StationSet /\ r2 = [r EXCEPT !.completed = TRUE] /\ \A p \in Ids : p # id => s[p] = st[p]
  OBVIOUS
<1>2. /\ r2 \in StationSet /\ r2.odep_list = r.odep_list /\ r2.tag = r.tag
      /\ r2.op = r.op /\ r2.in_LSQ = r.in_LSQ /\ r2.PC = r.PC /\ r2.next_PC = r.next_PC
      /\ r2.seq = r.seq /\ r2.ea_comp = r.ea_comp /\ r2.recover_inst = r.recover_inst
      /\ r2.spec_mode = r.spec_mode /\ r2.queued = r.queued /\ r2.issued = r.issued
      /\ r2.completed /\ r2.idep_ready = r.idep_ready
  <2> HIDE DEF r, r2
  <2> QED BY <1>1 DEF StationSet
<1>3. s \in [Ids -> StationSet]
  <2>1. s = [k \in Ids |-> s[k]] /\ \A k \in Ids : s[k] \in StationSet
    BY <1>1, <1>2
  <2> QED BY <2>1
<1>4. SameShape(st, s) /\ SameTags(st, s)
  BY <1>1, <1>2 DEF SameShape, SameTags
<1>5. ASSUME NEW p \in Ids
      PROVE  /\ s[p].completed <=> st[p].completed \/ p = id
             /\ s[p].queued = st[p].queued /\ s[p].issued = st[p].issued
             /\ s[p].idep_ready = st[p].idep_ready /\ s[p].odep_list = st[p].odep_list
  <2>1. CASE p = id
    BY <1>2, <2>1
  <2>2. CASE p # id
    BY <1>1, <2>2
  <2> QED BY <2>1, <2>2
<1> QED BY <1>3, <1>4, <1>5 DEF CompletesTo

(* F2 are the stations F without those gone.                               *)
SetWithout(F, gone, F2) == F2 = F \ gone

(* The station id completes, those in gone leave, and what waits is woken. *)
WritesBack(st, rq, free, id, gone, w, st2) ==
    LET left == Squash([st EXCEPT ![id].completed = TRUE], gone)
        q == [station |-> left, ready_queue |-> rq, free |-> free]
    IN /\ w = Woken(q, st[id].odep_list[1] \o st[id].odep_list[2])
       /\ st2 = [w.station EXCEPT ![id].odep_list = << <<>>, <<>> >>]

\* The station id has completed, and no other.
Completed(st, st2, id) ==
    \A p \in Ids : st2[p].completed <=> st[p].completed \/ p = id

\* The links after an event has occurred.
LEMMA WrittenBack ==
  ASSUME NEW st \in [Ids -> StationSet], NEW F \in SUBSET Ids, AccessKinds(st),
         NEW rq \in Seq(LinkSet), NEW nd \in Seq(LinkSet), NEW eq \in Seq(LinkSet),
         NEW n \in DOMAIN eq, NEW link, link = eq[n], NEW id, id = link.rs,
         RSLINK_VALID(st, link), NoneBefore(st, eq, n), LinksOf(st, F, rq, nd, eq),
         NEW gone \in SUBSET Ids, id \notin gone, NEW F2, SetWithout(F, gone, F2), NEW free \in Int,
         NEW rest, RestAfter(eq, n, rest), NEW w, NEW st2,
         WritesBack(st, rq, free, id, gone, w, st2)
  PROVE  /\ w \in ListStates /\ st2 \in [Ids -> StationSet] /\ SameShape(st, st2)
         /\ Completed(st, st2, id) /\ LinksOf(st2, F2, w.ready_queue, nd, rest)
<1> DEFINE st1 == [st EXCEPT ![id].completed = TRUE]
           left == Squash(st1, gone)
           q == [station |-> left, ready_queue |-> rq, free |-> free]
           links == left[id].odep_list[1] \o left[id].odep_list[2]
           ids == Ids \ {id}
           st3 == w.station
<1>1. id \in Ids
  BY LinkFields
<1>2. /\ ReadyLinks(st, F, rq, nd) /\ EventLinks(st, F, eq) /\ ChainLinks(st, F, Ids)
      /\ Progress(st, F, {})
  BY DEF LinksOf
<1>3. id \in F /\ st[id].issued /\ ~st[id].completed
  <2>1. id \in F
    BY <1>2 DEF EventLinks, Sound
  <2>2. Listed(st, eq, id)
    BY DEF Listed
  <2> QED BY <1>2, <2>1, <2>2 DEF EventLinks
<1>4. /\ st1 \in [Ids -> StationSet] /\ SameShape(st, st1) /\ SameTags(st, st1)
      /\ \A p \in Ids : /\ st1[p].completed <=> st[p].completed \/ p = id
                        /\ st1[p].queued = st[p].queued /\ st1[p].issued = st[p].issued
                        /\ st1[p].idep_ready = st[p].idep_ready
                        /\ st1[p].odep_list = st[p].odep_list
  <2>1. CompletesTo(st, st1, id)
    BY <1>1, Completes
  <2> QED BY <2>1 DEF CompletesTo
<1> HIDE DEF st1
<1>5. TagsGrow(st, st1, F, F) /\ F \in SUBSET F
  <2>1. \A p \in Ids : st1[p].tag = st[p].tag /\ st[p].tag \in Nat
    BY <1>4, StationFields DEF SameTags
  <2> QED BY <2>1 DEF TagsGrow
<1>6. LinksOf(st1, F, rq, nd, rest)
  <2>1. ReadyLinks(st1, F, rq, nd)
    <3>1. \A p \in F : st1[p].queued = st[p].queued
      BY <1>4
    <3> QED BY <1>2, <1>4, <1>5, <3>1, ReadyKept
  <2>2. EventLinks(st1, F, rest)
    <3>1. st1[id].completed /\ OthersRun(st, st1, F, id)
      <4>1. ASSUME NEW p \in F, p # id
            PROVE  st1[p].issued = st[p].issued /\ st1[p].completed = st[p].completed
        <5>1. p \in Ids /\ st1[p].completed \in BOOLEAN /\ st[p].completed \in BOOLEAN
          BY <1>4, StationFields
        <5> QED BY <1>4, <4>1, <5>1
      <4> QED BY <1>1, <1>4, <4>1 DEF OthersRun
    <3> QED BY <1>2, <1>4, <3>1, EventOccurs
  <2>3. ChainLinks(st1, F, Ids)
    <3> DEFINE all == Ids
    <3>1. ChainsFrom(st, st1, F, all, all) /\ all \in SUBSET Ids /\ ChainLinks(st, F, all)
      BY <1>2, <1>4 DEF ChainsFrom
    <3> HIDE DEF all
    <3>2. ChainLinks(st1, F, all)
      BY <1>4, <1>5, <3>1, ChainsKept
    <3> QED BY <3>2 DEF all
  <2>4. Progress(st1, F, {})
    <3>1. ASSUME NEW p \in F
          PROVE  /\ st1[p].queued = st[p].queued /\ st1[p].issued = st[p].issued
                 /\ st1[p].idep_ready = st[p].idep_ready /\ st1[p].op = st[p].op
                 /\ st1[p].completed => st[p].completed \/ p = id
      BY <1>4 DEF SameShape
    <3>2. st[id].issued
      BY <1>3
    <3> HIDE <1>4
    <3> QED BY <1>2, <3>1, <3>2 DEF Progress, OPERANDS_READY, IsLoad
  <2> QED BY <2>1, <2>2, <2>3, <2>4 DEF LinksOf
<1>7. /\ left \in [Ids -> StationSet] /\ SameShape(st1, left) /\ SameRun(st1, left)
      /\ \A p \in Ids : /\ left[p].tag = IF p \in gone THEN st1[p].tag + 1 ELSE st1[p].tag
                        /\ p \notin gone => left[p] = st1[p]
      /\ ChainsShrink(st1, left)
  <2>1. SquashedTo(st1, left, gone)
    BY <1>4, SquashEffect
  <2> QED BY <2>1 DEF SquashedTo
<1> HIDE DEF left
<1>8. TagsGrow(st1, left, F, F2) /\ F2 \in SUBSET F /\ F2 \in SUBSET Ids
  <2>1. \A p \in Ids : st1[p].tag \in Nat
    BY <1>4, StationFields
  <2> QED BY <1>7, <2>1 DEF TagsGrow, SetWithout
<1>9. rest \in Seq(LinkSet)
  <2>1. n \in 0..Len(eq)
    OBVIOUS
  <2> QED BY <2>1, SuffixList DEF RestAfter
<1>10. LinksOf(left, F2, rq, nd, rest)
  BY <1>4, <1>6, <1>7, <1>8, <1>9, LinksLeft
<1>11. /\ links \in Seq(OperandSet) /\ ids \in SUBSET Ids
       /\ ChainLinks(left, F2, ids) /\ Outstanding(left, F2, ids, links, 1)
  <2>1. ChainLinks(left, F2, Ids) /\ F2 \in SUBSET Ids
    BY <1>8, <1>10 DEF LinksOf
  <2>2. ids = Ids \ {id} /\ links = left[id].odep_list[1] \o left[id].odep_list[2]
    OBVIOUS
  <2> HIDE DEF ids, links
  <2> QED BY <1>1, <1>7, <2>1, <2>2, ChainTaken
<1>12. links = st[id].odep_list[1] \o st[id].odep_list[2]
  <2>1. left[id].odep_list = st[id].odep_list
    BY <1>1, <1>4, <1>7
  <2> QED BY <2>1
<1>13. /\ q \in ListStates /\ q.station = left /\ q.ready_queue = rq /\ w = Woken(q, links)
       /\ st2 = [st3 EXCEPT ![id].odep_list = << <<>>, <<>> >>]
  BY <1>7, <1>12 DEF WritesBack, ListStates, left, st1
<1>14. AccessKinds(left)
  <2>1. \A p \in Ids : left[p].in_LSQ = st[p].in_LSQ /\ left[p].op = st[p].op
    BY <1>4, <1>7 DEF SameShape
  <2> QED BY <2>1 DEF AccessKinds
<1> HIDE DEF q, links, ids
<1>15. /\ w \in ListStates /\ SameFields(left, st3)
       /\ ReadyLinks(st3, F2, w.ready_queue, nd) /\ Progress(st3, F2, {})
       /\ ChainLinks(st3, F2, ids)
  <2>1. /\ ReadyLinks(q.station, F2, q.ready_queue, nd) /\ Progress(q.station, F2, {})
        /\ AccessKinds(q.station) /\ ChainLinks(q.station, F2, ids)
        /\ Outstanding(q.station, F2, ids, links, 1) /\ F2 \in SUBSET Ids
    BY <1>8, <1>10, <1>11, <1>13, <1>14 DEF LinksOf
  <2>2. LET v == Woken(q, links)
        IN /\ v \in ListStates /\ SameFields(q.station, v.station)
           /\ ReadyLinks(v.station, F2, v.ready_queue, nd) /\ Progress(v.station, F2, {})
           /\ ChainLinks(v.station, F2, ids)
    BY <1>11, <1>13, <2>1, WokenEffect
  <2> QED BY <1>13, <2>2
<1>16. st3 \in [Ids -> StationSet] /\ w.ready_queue \in Seq(LinkSet)
  BY <1>15 DEF ListStates
<1> HIDE DEF st3
<1>17. /\ st2 \in [Ids -> StationSet] /\ SameShape(st3, st2) /\ SameRun(st3, st2)
       /\ SameTags(st3, st2) /\ \A p \in Ids : p # id => st2[p] = st3[p]
       /\ \A j \in 1..2 : st2[id].odep_list[j] = <<>>
  <2>1. ClearedTo(st3, st2, id)
    BY <1>1, <1>13, <1>16, ChainsCleared
  <2> QED BY <2>1 DEF ClearedTo
<1>18. TagsGrow(st3, st2, F2, F2) /\ TagsGrow(left, st3, F2, F2) /\ F2 \in SUBSET F2
       /\ F2 \in SUBSET Ids
  <2>1. \A p \in Ids : st3[p].tag = left[p].tag /\ st2[p].tag = st3[p].tag /\ left[p].tag \in Nat
    BY <1>7, <1>15, <1>17, StationFields DEF SameTags, SameFields
  <2>2. F2 \in SUBSET F2 /\ F2 \in SUBSET Ids
    BY <1>8
  <2> QED BY <2>1, <2>2 DEF TagsGrow
<1>19. EventLinks(st2, F2, rest)
  <2>1. EventLinks(left, F2, rest)
    BY <1>10 DEF LinksOf
  <2>2. \A p \in F2 : (st3[p].issued /\ ~st3[p].completed) <=> (left[p].issued /\ ~left[p].completed)
    BY <1>15, <1>18 DEF SameFields
  <2>3. EventLinks(st3, F2, rest)
    BY <1>7, <1>9, <1>16, <1>18, <2>1, <2>2, EventsKept
  <2>4. \A p \in F2 : (st2[p].issued /\ ~st2[p].completed) <=> (st3[p].issued /\ ~st3[p].completed)
    BY <1>17, <1>18 DEF SameRun
  <2> QED BY <1>9, <1>16, <1>17, <1>18, <2>3, <2>4, EventsKept
<1>20. ReadyLinks(st2, F2, w.ready_queue, nd)
  <2>1. \A p \in F2 : st2[p].queued = st3[p].queued
    BY <1>17, <1>18 DEF SameRun
  <2> DEFINE wrq == w.ready_queue
  <2>2. wrq \in Seq(LinkSet) /\ ReadyLinks(st3, F2, wrq, nd)
    BY <1>15, <1>16
  <2> HIDE DEF wrq
  <2>3. ReadyLinks(st2, F2, wrq, nd)
    BY <1>16, <1>17, <1>18, <2>1, <2>2, ReadyKept
  <2> QED BY <2>3 DEF wrq
<1>21. Progress(st2, F2, {})
  <2>1. \A p \in F2 : /\ st2[p].queued = st3[p].queued /\ st2[p].issued = st3[p].issued
                      /\ st2[p].completed = st3[p].completed /\ st2[p].op = st3[p].op
                      /\ st2[p].idep_ready = st3[p].idep_ready
    BY <1>17, <1>18 DEF SameRun
  <2> QED BY <1>15, <1>18, <2>1, ProgressKept
<1>22. ChainLinks(st2, F2, Ids)
  <2> DEFINE all == Ids
  <2>1. ChainsFrom(st3, st2, F2, ids, all) /\ all \in SUBSET Ids
    <3>1. ASSUME NEW p \in all, NEW j \in 1..2
          PROVE  \/ st2[p].odep_list[j] = <<>>
                 \/ p \in ids /\ st2[p].odep_list[j] = st3[p].odep_list[j]
      BY <1>17 DEF ids
    <3>2. \A p \in F2 : st2[p].idep_ready = st3[p].idep_ready
      BY <1>17, <1>18 DEF SameRun
    <3> QED BY <3>1, <3>2 DEF ChainsFrom
  <2> HIDE DEF all
  <2>2. ChainLinks(st2, F2, all)
    BY <1>11, <1>15, <1>16, <1>17, <1>18, <2>1, ChainsKept
  <2> QED BY <2>2 DEF all
<1>23. SameShape(st, st2)
  BY <1>4, <1>7, <1>15, <1>17 DEF SameShape, SameFields
<1>24. Completed(st, st2, id)
  <2>1. \A p \in Ids : st1[p].completed <=> st[p].completed \/ p = id
    BY <1>4
  <2>2. \A p \in Ids : left[p].completed = st1[p].completed
    BY <1>7 DEF SameRun
  <2>3. \A p \in Ids : st3[p].completed = left[p].completed
    BY <1>15 DEF SameFields
  <2>4. \A p \in Ids : st2[p].completed = st3[p].completed
    BY <1>17 DEF SameRun
  <2> QED BY <2>1, <2>2, <2>3, <2>4 DEF Completed
<1> QED BY <1>15, <1>17, <1>19, <1>20, <1>21, <1>22, <1>23, <1>24 DEF LinksOf

\* The next event is the first one that is not stale.
LEMMA NextEventFirst ==
  ASSUME IInv, Occurred # {}
  PROVE  /\ NextEvent \in DOMAIN event_queue /\ RSLINK_VALID(station, event_queue[NextEvent])
         /\ NoneBefore(station, event_queue, NextEvent)
<1> DEFINE eq == event_queue
           S == Occurred
           d == Cardinality(Due)
           e == NextEvent
<1>1. /\ d \in 0..Len(eq) /\ \A i \in DOMAIN eq : eq[i].x <= 0 <=> i <= d
  BY DueIsPrefix
<1>2. eq \in Seq(LinkSet) /\ Len(eq) \in Nat /\ DOMAIN eq = 1..Len(eq)
  BY DEF IInv, CoreTypes
<1>3. \A i : i \in S <=> i \in DOMAIN eq /\ i <= d /\ RSLINK_VALID(station, eq[i])
  BY <1>1 DEF Occurred, Due
<1> HIDE DEF S, eq, d
<1>4. S \in SUBSET Nat
  BY <1>2, <1>3
<1>5. \E x \in S : \A y \in S : x <= y
  BY <1>4, LeastElement DEF S
<1>6. e = CHOOSE x \in S : \A y \in S : x <= y
  BY DEF NextEvent, S
<1> HIDE DEF e
<1>7. e \in S /\ \A y \in S : e <= y
  BY <1>5, <1>6
<1>8. ASSUME NEW i \in 1..e - 1 PROVE ~RSLINK_VALID(station, eq[i])
  <2>1. e \in 1..Len(eq) /\ e <= d /\ RSLINK_VALID(station, eq[e])
    BY <1>2, <1>3, <1>7
  <2>2. i \in DOMAIN eq /\ i <= d /\ ~(e <= i)
    BY <1>1, <1>2, <2>1
  <2> QED BY <1>3, <1>7, <2>2
<1> QED BY <1>3, <1>7, <1>8 DEF NoneBefore, e, eq

\* The branch that recovers takes the speculative stations with it.
LEMMA BranchRecovers ==
  ASSUME NEW st \in [Ids -> StationSet], NEW st2, NEW n \in Nat, NEW m \in Nat, NEW ruu, NEW lsq,
         Places(ruu, n, RUU), Places(lsq, m, LSQ), NEW top, NEW spec \in BOOLEAN,
         NEW pc \in PCs, pc \in Nat, NEW front, StructureOf(st, ruu, n, lsq, m, top, spec, pc, front),
         NEW b \in 1..n, NEW id, id = ruu[b], Recovering(st, id),
         SameShape(st, st2), Completed(st, st2, id),
         NEW t, t = OldAccesses(st, ruu, n, m, b),
         NEW ruu2, SameFirst(ruu, ruu2, b), NEW lsq2, SameFirst(lsq, lsq2, t)
  PROVE  t \in 0..m /\ StructureOf(st2, ruu2, b, lsq2, t, top, FALSE, pc, pc)
<1>1. /\ Kinds(st, lsq, m) /\ Order(st, ruu, n, lsq, m, top) /\ Pairs(st, ruu, n, lsq, m)
      /\ Contained(st, ruu, n, lsq, m, spec, pc) /\ Flow(st, ruu, n, spec, front)
  BY DEF StructureOf
<1>2. id \in RUU /\ \A k \in 1..n : ruu[k] = id => k = b
  BY DEF Places
<1>3. spec = TRUE
  BY <1>1 DEF Contained
<1>4. st[ruu[b]].next_PC = pc /\ After(st, ruu, n, lsq, m, b)
  BY <1>1, <1>3 DEF Contained, After
<1>5. ~st[ruu[b]].ea_comp
  BY <1>1, <1>2 DEF Kinds, Recovering
<1>6. /\ t \in 0..m
      /\ Kinds(st, lsq2, t) /\ Order(st, ruu2, b, lsq2, t, top)
      /\ Pairs(st, ruu2, b, lsq2, t) /\ Flow(st, ruu2, b, FALSE, pc)
      /\ NothingSpeculative(st, ruu2, b, lsq2, t)
      /\ \A k \in 1..b : Recovering(st, ruu2[k]) <=> k = b
  <2>1. st[id].next_PC = pc /\ ~st[id].ea_comp
    BY <1>4, <1>5
  <2>2. t \in 0..m /\ Remains(st, ruu2, b, lsq2, t, top, pc)
    BY <1>1, <1>4, <2>1, YoungestLeave
  <2> QED BY <2>2 DEF Remains
<1>7. /\ Places(ruu2, b, RUU) /\ Places(lsq2, t, LSQ) /\ b \in Nat /\ t \in Nat
      /\ ruu2[b] = id
  BY <1>6 DEF Places, SameFirst
<1>8. /\ Kinds(st2, lsq2, t) /\ Order(st2, ruu2, b, lsq2, t, top)
      /\ Pairs(st2, ruu2, b, lsq2, t) /\ Flow(st2, ruu2, b, FALSE, pc)
  BY <1>6, <1>7, StructureKept
<1>9. Contained(st2, ruu2, b, lsq2, t, FALSE, pc)
  <2>1. ASSUME NEW k \in 1..b PROVE ~Recovering(st2, ruu2[k]) /\ ~st2[ruu2[k]].spec_mode
    <3>1. ruu2[k] \in Ids
      BY <1>7 DEF Places, Ids
    <3>2. /\ st2[ruu2[k]].recover_inst = st[ruu2[k]].recover_inst
          /\ st2[ruu2[k]].spec_mode = st[ruu2[k]].spec_mode
          /\ st2[ruu2[k]].completed <=> st[ruu2[k]].completed \/ ruu2[k] = id
      BY <3>1 DEF SameShape, Completed
    <3>3. ~st[ruu2[k]].spec_mode
      BY <1>6 DEF NothingSpeculative
    <3>4. Recovering(st, ruu2[k]) => ruu2[k] = id
      BY <1>6, <1>7
    <3> QED BY <3>2, <3>3, <3>4 DEF Recovering
  <2>2. ASSUME NEW k \in 1..t PROVE ~st2[lsq2[k]].spec_mode
    <3>1. lsq2[k] \in Ids
      BY <1>7 DEF Places, Ids
    <3> QED BY <1>6, <3>1 DEF NothingSpeculative, SameShape
  <2> QED BY <2>1, <2>2 DEF Contained
<1> QED BY <1>6, <1>8, <1>9 DEF StructureOf

(* The stations of the places after b and t.                               *)
YoungStations(ruu, n, b, lsq, m, t) ==
    {ruu[k] : k \in b + 1 .. n} \cup {lsq[k] : k \in t + 1 .. m}

\* The stations in flight, without the youngest ones.
LEMMA FlightRecovers ==
  ASSUME NEW n \in Nat, NEW m \in Nat, NEW ruu, NEW lsq,
         Places(ruu, n, RUU), Places(lsq, m, LSQ), NEW b \in 0..n, NEW t \in 0..m,
         NEW ruu2, SameFirst(ruu, ruu2, b), NEW lsq2, SameFirst(lsq, lsq2, t),
         NEW gone, gone = YoungStations(ruu, n, b, lsq, m, t),
         NEW F, F = Flight(ruu, n, lsq, m), NEW F2, F2 = Flight(ruu2, b, lsq2, t)
  PROVE  SetWithout(F, gone, F2) /\ gone \in SUBSET Ids
<1>1. \A i \in 1..n, k \in 1..m : ruu[i] # lsq[k]
  BY DEF Places, RUU, LSQ
<1>2. ASSUME NEW id \in F2 PROVE id \in F /\ id \notin gone
  <2>1. CASE \E k \in 1..b : id = ruu2[k]
    <3>1. PICK k \in 1..b : id = ruu2[k]
      BY <2>1
    <3>2. id = ruu[k] /\ k \in 1..n
      BY <3>1 DEF SameFirst
    <3>3. \A i \in b + 1..n : ruu[i] # id
      BY <3>2 DEF Places
    <3> QED BY <1>1, <3>2, <3>3 DEF Flight, YoungStations
  <2>2. CASE \E k \in 1..t : id = lsq2[k]
    <3>1. PICK k \in 1..t : id = lsq2[k]
      BY <2>2
    <3>2. id = lsq[k] /\ k \in 1..m
      BY <3>1 DEF SameFirst
    <3>3. \A i \in t + 1..m : lsq[i] # id
      BY <3>2 DEF Places
    <3> QED BY <1>1, <3>2, <3>3 DEF Flight, YoungStations
  <2> QED BY <2>1, <2>2 DEF Flight
<1>3. ASSUME NEW id \in F, id \notin gone PROVE id \in F2
  <2>1. CASE \E k \in 1..n : id = ruu[k]
    <3>1. PICK k \in 1..n : id = ruu[k]
      BY <2>1
    <3>2. k \in 1..b
      BY <1>3, <3>1 DEF YoungStations
    <3> QED BY <3>1, <3>2 DEF SameFirst, Flight
  <2>2. CASE \E k \in 1..m : id = lsq[k]
    <3>1. PICK k \in 1..m : id = lsq[k]
      BY <2>2
    <3>2. k \in 1..t
      BY <1>3, <3>1 DEF YoungStations
    <3> QED BY <3>1, <3>2 DEF SameFirst, Flight
  <2> QED BY <2>1, <2>2 DEF Flight
<1>4. gone \in SUBSET Ids
  BY DEF YoungStations, Places, Ids
<1> QED BY <1>2, <1>3, <1>4 DEF SetWithout

\* What a recovery squashes: the stations after the branch and their accesses.
LEMMA SquashedStations ==
  ASSUME IInv, NEW b \in 1..RUU_num, NEW id, id = RUUIds[b],
         NEW t, t = OldAccesses(station, RUUIds, RUU_num, LSQ_num, b), t \in 0..LSQ_num,
         NEW gone, gone = Squashed(id)
  PROVE  /\ Len(gone.RUU) = RUU_num - b /\ Len(gone.LSQ) = LSQ_num - t
         /\ ToSet(gone.RUU) \cup ToSet(gone.LSQ)
              = YoungStations(RUUIds, RUU_num, b, LSQIds, LSQ_num, t)
<1> DEFINE ruu == RUUIds
           n == RUU_num
           lsq == LSQIds
           m == LSQ_num
           young == SubSeq(ruu, b + 1, n)
           accesses == Cardinality({k \in DOMAIN young : station[young[k]].ea_comp})
           left == SubSeq(lsq, t + 1, m)
           y == Cardinality(YoungAgens(station, ruu, n, b))
<1>1. /\ Places(ruu, n, RUU) /\ Places(lsq, m, LSQ) /\ n \in Nat /\ m \in Nat
      /\ DOMAIN ruu = 1..n /\ DOMAIN lsq = 1..m
  BY RingsPlaced DEF IInv
<1>2. ruu \in [1..n -> RUU] /\ lsq \in [1..m -> LSQ]
  <2>1. ruu = [k \in DOMAIN ruu |-> ruu[k]] /\ lsq = [k \in DOMAIN lsq |-> lsq[k]]
    BY DEF RUUIds, LSQIds, RingIds
  <2> HIDE DEF ruu, lsq, n, m
  <2> QED BY <1>1, <2>1 DEF Places
<1>3. (CHOOSE k \in DOMAIN ruu : ruu[k] = id) = b
  <2> HIDE DEF ruu, n
  <2>1. \A k \in DOMAIN ruu : ruu[k] = id <=> k = b
    BY Zenon, <1>1 DEF Places, ruu, n
  <2> QED BY <1>1, <2>1 DEF n
<1>4. gone = [RUU |-> young, LSQ |-> SubSeq(lsq, m - accesses + 1, m)]
  BY <1>3 DEF Squashed
<1>5. EndOf(young, ruu, b, n)
  <2> DEFINE S == RUU
  <2>1. b \in 0..n /\ ruu \in [1..n -> S] /\ young = SubSeq(ruu, b + 1, n)
    BY <1>2
  <2> HIDE DEF ruu, n, S, young
  <2> QED BY <1>1, <2>1, PartOfRing
<1>6. accesses = y
  <2>1. {k \in DOMAIN young : station[young[k]].ea_comp} = YoungAgens(station, ruu, n, b)
    <3> HIDE DEF young, ruu, n
    <3> QED BY <1>5 DEF YoungAgens, EndOf
  <2> QED BY <2>1
<1>7. t = m - y /\ y \in Nat
  <2>1. IsFiniteSet(1..n - b) /\ YoungAgens(station, ruu, n, b) \subseteq 1..n - b
    <3>1. n - b \in Int
      BY <1>1
    <3> QED BY <3>1, IntervalFinite DEF YoungAgens
  <2> QED BY <2>1, FS_Subset, FS_CardinalityType DEF OldAccesses
<1>8. EndOf(left, lsq, t, m)
  <2> DEFINE S == LSQ
  <2>1. t \in 0..m /\ lsq \in [1..m -> S] /\ left = SubSeq(lsq, t + 1, m)
    BY <1>2
  <2> HIDE DEF lsq, m, S, left
  <2> QED BY <1>1, <2>1, PartOfRing
<1>9. gone.RUU = young /\ gone.LSQ = left
  <2> HIDE DEF accesses, y
  <2>1. m - accesses + 1 = t + 1
    BY <1>1, <1>6, <1>7
  <2> HIDE DEF young, ruu, n, lsq, m
  <2>2. gone = [RUU |-> young, LSQ |-> left]
    BY <1>4, <2>1
  <2> HIDE DEF left
  <2> QED BY <2>2
<1> HIDE DEF young, left
<1> QED BY <1>5, <1>8, <1>9 DEF YoungStations, EndOf

\* Of the creators only those of a station are cleared.
LEMMA ClearedType ==
  ASSUME NEW cv \in [Regs \cup {DTMP} -> CVSet], NEW id
  PROVE  Cleared(cv, id) \in [Regs \cup {DTMP} -> CVSet]
BY DEF Cleared, CVSet

\* The events after the next one are in order.
LEMMA EventsLeft ==
  ASSUME IInv, NEW k \in DOMAIN event_queue, NEW rest, RestAfter(event_queue, k, rest)
  PROVE  rest \in Seq(LinkSet) /\ Sorted(rest)
<1> DEFINE eq == event_queue
<1>1. eq \in Seq(LinkSet) /\ k \in 0..Len(eq) /\ Sorted(eq)
  BY DEF IInv, CoreTypes, EventsInOrder, Sorted
<1> HIDE DEF eq
<1>2. SubSeq(eq, k + 1, Len(eq)) \in Seq(LinkSet) /\ Sorted(SubSeq(eq, k + 1, Len(eq)))
  BY <1>1, SortedSuffix
<1> QED BY <1>2 DEF RestAfter, eq

\* After a recovery fetch starts anew.
LEMMA FetchRestarts ==
  ASSUME FetchInv, text' = text, fetch_data' = fetch_data, recover_PC' \in PCs,
         fetch_num' = 0, fetch_tail' = 0, fetch_head' = 0, NEW pc \in PCs,
         fetch_pred_PC' = pc, fetch_regs_PC' = pc
  PROVE  FetchInv' /\ FrontPC' = pc
<1>1. 0 \in 0..ruu_ifq_size - 1 /\ 0 \in 0..ruu_ifq_size /\ 0 = (0 + 0) % ruu_ifq_size
  <2>1. ruu_ifq_size \in Nat \ {0} /\ 0 \in 0..ruu_ifq_size - 1
    BY WidthsAssumption
  <2>2. 0 % ruu_ifq_size = 0
    BY <2>1, SmallRemainder
  <2> QED BY <2>1, <2>2
<1>2. FetchOf(0, 0, 0, fetch_data, pc, pc, recover_PC')
  BY <1>1 DEF FetchInv, FetchOf, FetchedPath
<1> QED BY <1>2, FetchPrimed DEF FrontPC

(* The rings end with the station id and t accesses; gone have left.       *)
RecoveredTo(id, b, t, gone) ==
    /\ RUUIds[b] = id /\ t = OldAccesses(station, RUUIds, RUU_num, LSQ_num, b)
    /\ RUU_num' = b /\ LSQ_num' = t
    /\ SameFirst(RUUIds, RUUIds', b) /\ SameFirst(LSQIds, LSQIds', t)
    /\ SetWithout(Flight(RUUIds, RUU_num, LSQIds, LSQ_num), gone,
                  Flight(RUUIds', RUU_num', LSQIds', LSQ_num'))
    /\ gone \in SUBSET Ids /\ id \notin gone

\* A recovery leaves the branch as the youngest station.
LEMMA RecoveryShrinks ==
  ASSUME IInv, NEW id \in Flight(RUUIds, RUU_num, LSQIds, LSQ_num), station[id].recover_inst,
         Recovered(id), UNCHANGED <<RUU_head, LSQ_head>>,
         NEW gone, gone = ToSet(Squashed(id).RUU) \cup ToSet(Squashed(id).LSQ)
  PROVE  RingTypes' /\ \E b \in 1..RUU_num, t \in 0..LSQ_num : RecoveredTo(id, b, t, gone)
<1> DEFINE st == station
           ruu == RUUIds
           ruu2 == RUUIds'
           lsq == LSQIds
           lsq2 == LSQIds'
           n == RUU_num
           m == LSQ_num
           F == Flight(ruu, n, lsq, m)
           F2 == Flight(ruu2, RUU_num', lsq2, LSQ_num')
           top == inst_seq
<1>1. st \in [Ids -> StationSet]
  BY DEF IInv, CoreTypes
<1>2. /\ Places(ruu, n, RUU) /\ Places(lsq, m, LSQ) /\ n \in Nat /\ m \in Nat
      /\ F \in SUBSET Ids
  BY RingsPlaced DEF IInv
<1>3. PICK b \in 1..n : ruu[b] = id
  <2>1. id \notin LSQ
    BY DEF IInv, Structure, StructureOf, Kinds
  <2> QED BY <1>2, <2>1 DEF Flight, Places
<1> DEFINE t == OldAccesses(st, ruu, n, m, b)
           sq == Squashed(id)
<1>4. t \in 0..m
  <2>1. /\ Order(st, ruu, n, lsq, m, top) /\ Pairs(st, ruu, n, lsq, m) /\ ~st[ruu[b]].ea_comp
    BY <1>2, <1>3 DEF IInv, Structure, StructureOf, Kinds, Places
  <2> HIDE DEF st, ruu, n, lsq, m, top
  <2> QED BY <1>1, <1>2, <2>1, AccessesCounted
<1>5. /\ Len(sq.RUU) = n - b /\ Len(sq.LSQ) = m - t
      /\ gone = YoungStations(ruu, n, b, lsq, m, t)
  BY <1>3, <1>4, SquashedStations
<1>6. /\ RUU_num' = b /\ RUU_head' = RUU_head /\ RUU_tail' = (RUU_head + b) % RUU_size
      /\ LSQ_num' = t /\ LSQ_head' = LSQ_head /\ LSQ_tail' = (LSQ_head + t) % LSQ_size
  <2>1. n - (n - b) = b /\ m - (m - t) = t
    BY <1>2, <1>4
  <2>2. /\ RUU_num' = n - Len(sq.RUU) /\ RUU_tail' = (RUU_head + RUU_num') % RUU_size
        /\ LSQ_num' = m - Len(sq.LSQ) /\ LSQ_tail' = (LSQ_head + LSQ_num') % LSQ_size
        /\ RUU_head' = RUU_head /\ LSQ_head' = LSQ_head
    BY DEF Recovered
  <2> HIDE DEF t, sq, n, m
  <2>3. RUU_num' = b /\ LSQ_num' = t
    BY <1>5, <2>1, <2>2
  <2> QED BY Zenon, <2>2, <2>3
<1>7. /\ RUU_head \in 0..RUU_size - 1 /\ n \in 0..RUU_size
      /\ LSQ_head \in 0..LSQ_size - 1 /\ m \in 0..LSQ_size
  BY DEF IInv, RingTypes
<1>8. RingTypes'
  <2> HIDE DEF t
  <2>1. b \in 0..RUU_size /\ t \in 0..LSQ_size
    BY <1>4, <1>7, SizesAssumption
  <2> QED BY <1>6, <1>7, <2>1 DEF RingTypes
<1>9. SameFirst(ruu, ruu2, b) /\ SameFirst(lsq, lsq2, t)
  <2>1. /\ ruu2 = RingIds("RUU", RUU_head, b, RUU_size)
        /\ lsq2 = RingIds("LSQ", LSQ_head, t, LSQ_size)
    BY <1>6 DEF RUUIds, LSQIds
  <2> HIDE DEF t, ruu2, lsq2
  <2>2. \A k \in 1..b : ruu2[k] = ruu[k]
    BY <1>2, <2>1, RingPrefix DEF RUUIds
  <2>3. \A k \in 1..t : lsq2[k] = lsq[k]
    BY <1>2, <1>4, <2>1, RingPrefix DEF LSQIds
  <2> QED BY <2>2, <2>3 DEF SameFirst
<1>10. F2 = Flight(ruu2, b, lsq2, t)
  BY <1>6
<1>11. SetWithout(F, gone, F2) /\ gone \in SUBSET Ids
  <2>1. b \in 0..n
    BY <1>2
  <2> HIDE DEF ruu, n, lsq, m, ruu2, lsq2, F2, t
  <2> DEFINE F3 == F
             young == gone
  <2>2. F3 = Flight(ruu, n, lsq, m) /\ young = YoungStations(ruu, n, b, lsq, m, t)
    BY <1>5
  <2> HIDE DEF F3, young
  <2>3. SetWithout(F3, young, F2) /\ young \in SUBSET Ids
    BY <1>2, <1>4, <1>9, <1>10, <2>1, <2>2, FlightRecovers
  <2> QED BY <2>3 DEF F3, young
<1>12. id \notin gone
  <2>1. id \in F2
    BY <1>3, <1>9, <1>10 DEF SameFirst, Flight
  <2> HIDE DEF F, F2
  <2> QED BY <1>11, <2>1 DEF SetWithout
<1>13. RecoveredTo(id, b, t, gone)
  BY <1>3, <1>6, <1>9, <1>11, <1>12 DEF RecoveredTo
<1> QED BY <1>4, <1>8, <1>13

\* An event occurs: its station completes, and a branch may recover.
LEMMA WritebackKeeps ==
  ASSUME IInv, ruu_writeback
  PROVE  IInv' /\ OldestPC' = OldestPC
<1> DEFINE st == station
           st2 == station'
           rq == ready_queue
           eq == event_queue
           free == rslink_free
           e == NextEvent
           link == eq[e]
           id == link.rs
           ruu == RUUIds
           ruu2 == RUUIds'
           lsq == LSQIds
           lsq2 == LSQIds'
           n == RUU_num
           m == LSQ_num
           rec == st[id].recover_inst
           gone == IF rec THEN ToSet(Squashed(id).RUU) \cup ToSet(Squashed(id).LSQ) ELSE {}
           links == st[id].odep_list[1] \o st[id].odep_list[2]
           F == Flight(ruu, n, lsq, m)
           F2 == Flight(ruu2, RUU_num', lsq2, LSQ_num')
           rest == event_queue'
<1>1. PICK w : /\ w = Woken(Lists(Squash([st EXCEPT ![id].completed = TRUE], gone)), links)
               /\ IF rec THEN Recovered(id)
                  ELSE UNCHANGED <<RUU_num, RUU_tail, LSQ_num, LSQ_tail, use_spec_cv,
                                   spec_mode, fetch_num, fetch_tail, fetch_head,
                                   fetch_pred_PC, fetch_regs_PC, ruu_fetch_issue_delay>>
               /\ \/ /\ spec_create_vector' = Cleared(spec_create_vector, id)
                     /\ UNCHANGED create_vector
                  \/ /\ create_vector' = Cleared(create_vector, id)
                     /\ UNCHANGED spec_create_vector
               /\ st2 = [w.station EXCEPT ![id].odep_list = << <<>>, <<>> >>]
               /\ ready_queue' = w.ready_queue
               /\ rslink_free' = w.free + e + Len(links) + Chains(st, gone)
  BY Zenon DEF ruu_writeback
<1>2. /\ stage = "writeback" /\ Occurred # {} /\ RestAfter(eq, e, rest)
      /\ UNCHANGED <<programVars, stage, RUU_head, LSQ_head, issueVars, inst_seq,
                   last_op, recover_PC, fetch_data, uncached, count, branch_cnt, busy>>
  BY DEF ruu_writeback, RestAfter
<1>3. /\ st \in [Ids -> StationSet] /\ rq \in Seq(LinkSet) /\ node \in Seq(LinkSet)
      /\ eq \in Seq(LinkSet) /\ free \in Int /\ spec_mode \in BOOLEAN
  BY DEF IInv, CoreTypes
<1>4. e \in DOMAIN eq /\ RSLINK_VALID(st, link) /\ NoneBefore(st, eq, e)
  BY <1>2, NextEventFirst
<1>5. rest \in Seq(LinkSet) /\ Sorted(rest)
  BY <1>2, <1>4, EventsLeft
<1>6. /\ Places(ruu, n, RUU) /\ Places(lsq, m, LSQ) /\ n \in Nat /\ m \in Nat
      /\ F \in SUBSET Ids
  BY RingsPlaced DEF IInv
<1>7. LinksOf(st, F, rq, node, eq) /\ node = <<>>
  BY <1>2 DEF IInv, LinksInv
<1>8. id \in F /\ id \in Ids /\ st[id].issued /\ ~st[id].completed
  <2> HIDE DEF st, F, eq, e
  <2>1. id \in F
    BY <1>4, <1>7 DEF LinksOf, EventLinks, Sound
  <2>2. Listed(st, eq, id)
    BY <1>4 DEF Listed
  <2> QED BY <1>6, <1>7, <2>1, <2>2 DEF LinksOf, EventLinks
<1>9. AccessKinds(st)
  BY DEF IInv, Structure, StructureOf, Kinds, AccessKinds
<1>10. EventsInOrder'
  BY <1>2, <1>5 DEF EventsInOrder, Sorted
<1>11. ASSUME SetWithout(F, gone, F2), gone \in SUBSET Ids, id \notin gone
       PROVE  /\ w \in ListStates /\ st2 \in [Ids -> StationSet] /\ SameShape(st, st2)
              /\ Completed(st, st2, id) /\ LinksInv'
  <2>1. WritesBack(st, rq, free, id, gone, w, st2)
    BY <1>1 DEF WritesBack, Lists
  <2> DEFINE nd == node
             rq2 == w.ready_queue
  <2>2. nd \in Seq(LinkSet) /\ LinksOf(st, F, rq, nd, eq)
    BY <1>3, <1>7
  <2>3. /\ w \in ListStates /\ st2 \in [Ids -> StationSet] /\ SameShape(st, st2)
        /\ Completed(st, st2, id) /\ LinksOf(st2, F2, rq2, nd, rest)
    <3> DEFINE link2 == link
               id2 == id
    <3>1. link2 = eq[e] /\ id2 = link2.rs /\ WritesBack(st, rq, free, id2, gone, w, st2)
          /\ id2 \notin gone /\ RSLINK_VALID(st, link2)
      BY <1>4, <1>11, <2>1
    <3> HIDE DEF st, st2, rq, eq, free, e, link2, id2, gone, F, F2, rest, nd
    <3>2. /\ w \in ListStates /\ st2 \in [Ids -> StationSet] /\ SameShape(st, st2)
          /\ Completed(st, st2, id2) /\ LinksOf(st2, F2, w.ready_queue, nd, rest)
      BY <1>2, <1>3, <1>4, <1>6, <1>9, <1>11, <2>2, <3>1, WrittenBack
    <3> QED BY <3>2 DEF id2, link2
  <2>4. ready_queue' = rq2 /\ node' = nd /\ nd = <<>>
    BY <1>1, <1>2, <1>7 DEF issueVars
  <2> HIDE DEF rq2, nd, F2, rest
  <2>5. LinksInv'
    BY <2>3, <2>4 DEF LinksInv, F2, rest
  <2> QED BY Zenon, <2>3, <2>5
<1>12. ASSUME w \in ListStates, st2 \in [Ids -> StationSet], gone \in SUBSET Ids,
              use_spec_cv' \in SUBSET (Regs \cup {DTMP}), spec_mode' \in BOOLEAN
       PROVE  CoreTypes'
  <2>1. Program'
    BY <1>2, ProgramFixed DEF IInv, CoreTypes
  <2>2. ready_queue' \in Seq(LinkSet) /\ w.free \in Int
    BY Zenon, <1>1, <1>12 DEF ListStates
  <2>3. rslink_free' \in Int
    <3>1. links \in Seq(OperandSet) /\ Len(links) \in Nat
      <4>1. ChainLinks(st, F, Ids)
        BY <1>7 DEF LinksOf
      <4> DEFINE ids == Ids \ {id}
      <4> HIDE DEF st, F, id, links, ids
      <4>2. links \in Seq(OperandSet)
        BY <1>3, <1>6, <1>8, <4>1, ChainTaken DEF links, ids
      <4> QED BY <4>2
    <3>2. Chains(st, gone) \in Nat
      <4> HIDE DEF st, gone
      <4> QED BY <1>3, <1>12, ChainsCounted
    <3>3. e \in Int
      BY <1>3, <1>4
    <3> HIDE DEF st, gone, links, e
    <3> QED BY SMTT(30), <1>1, <2>2, <3>1, <3>2, <3>3
  <2>4. /\ create_vector' \in [Regs \cup {DTMP} -> CVSet]
        /\ spec_create_vector' \in [Regs \cup {DTMP} -> CVSet]
    BY Zenon, <1>1, ClearedType DEF IInv, CoreTypes
  <2> HIDE DEF st2, rest
  <2> QED BY <1>2, <1>3, <1>5, <1>12, <2>1, <2>2, <2>3, <2>4
       DEF IInv, CoreTypes, issueVars, st2, rest
<1>13. CASE ~rec
  <2>1. /\ UNCHANGED <<ruuVars, lsqVars, specVars, ifqVars, fetchVars, use_spec_cv>>
        /\ gone = {}
    BY <1>1, <1>2, <1>13 DEF ruuVars, lsqVars, specVars, ifqVars, fetchVars
  <2>2. F2 = F
    BY <2>1 DEF RUUIds, LSQIds, ruuVars, lsqVars
  <2>3. SetWithout(F, gone, F2) /\ gone \in SUBSET Ids /\ id \notin gone
    BY <2>1, <2>2 DEF SetWithout
  <2>4. /\ w \in ListStates /\ st2 \in [Ids -> StationSet] /\ SameShape(st, st2)
        /\ Completed(st, st2, id) /\ LinksInv'
    BY <1>11, <2>3
  <2>5. CoreTypes'
    BY <1>12, <2>1, <2>3, <2>4 DEF IInv, CoreTypes, specVars
  <2>6. FetchInv' /\ FrontPC' = FrontPC
    BY <1>2, <2>1, FetchStays DEF IInv, programVars, fetchVars, specVars
  <2>7. RingTypes' /\ Structure' /\ OldestPC' = OldestPC
    <3>1. ASSUME NEW k \in 1..n
          PROVE  Recovering(st2, ruu[k]) <=> Recovering(st, ruu[k])
      <4> HIDE DEF st, st2, ruu, n
      <4>1. ruu[k] \in Ids
        BY <1>6 DEF Places, Ids
      <4> QED BY <1>13, <2>4, <4>1 DEF Recovering, SameShape, Completed
    <3> QED BY <1>2, <2>1, <2>4, <2>6, <3>1, StructureStays DEF programVars
  <2> QED BY <1>10, <2>4, <2>5, <2>6, <2>7 DEF IInv
<1>14. CASE rec
  <2> DEFINE top == inst_seq
             spec == spec_mode
             pc == recover_PC
             front == FrontPC
  <2>1. RingTypes' /\ \E b \in 1..n, t \in 0..m : RecoveredTo(id, b, t, gone)
    <3>1. Recovered(id) /\ UNCHANGED <<RUU_head, LSQ_head>>
          /\ gone = ToSet(Squashed(id).RUU) \cup ToSet(Squashed(id).LSQ)
      BY <1>1, <1>2, <1>14
    <3> QED BY <1>8, <1>14, <3>1, RecoveryShrinks
  <2>2. PICK b \in 1..n, t \in 0..m : RecoveredTo(id, b, t, gone)
    BY <2>1
  <2>3. /\ ruu[b] = id /\ t = OldAccesses(st, ruu, n, m, b)
        /\ RUU_num' = b /\ LSQ_num' = t
        /\ use_spec_cv' = {} /\ spec_mode' = FALSE
        /\ fetch_num' = 0 /\ fetch_tail' = 0 /\ fetch_head' = 0
        /\ fetch_pred_PC' = pc /\ fetch_regs_PC' = pc
    BY <1>1, <1>14, <2>2 DEF Recovered, RecoveredTo
  <2>4. RingTypes'
    BY <2>1
  <2>5. SameFirst(ruu, ruu2, b) /\ SameFirst(lsq, lsq2, t)
    BY <2>2 DEF RecoveredTo
  <2>6. SetWithout(F, gone, F2) /\ gone \in SUBSET Ids /\ id \notin gone
    BY <2>2 DEF RecoveredTo
  <2>7. /\ w \in ListStates /\ st2 \in [Ids -> StationSet] /\ SameShape(st, st2)
         /\ Completed(st, st2, id) /\ LinksInv'
    BY <1>11, <2>6
  <2>8. CoreTypes'
    BY <1>12, <2>3, <2>6, <2>7
  <2>9. pc \in PCs /\ pc \in Nat
    <3>1. PCs \subseteq Nat
      BY TextFacts DEF IInv, CoreTypes
    <3> QED BY <3>1 DEF IInv, FetchInv, FetchOf
  <2>10. FetchInv' /\ FrontPC' = pc
    BY <1>2, <2>3, <2>9, FetchRestarts DEF IInv, programVars
  <2>11. StructureOf(st2, ruu2, b, lsq2, t, top, FALSE, pc, pc)
    <3>1. StructureOf(st, ruu, n, lsq, m, top, spec, pc, front)
      BY DEF IInv, Structure
    <3>2. spec \in BOOLEAN /\ Recovering(st, id)
      BY <1>3, <1>8, <1>14 DEF Recovering
    <3> DEFINE id2 == id
    <3>3. id2 = ruu[b] /\ Recovering(st, id2) /\ Completed(st, st2, id2)
          /\ t = OldAccesses(st, ruu, n, m, b)
      BY <2>3, <2>7, <3>2
    <3> HIDE DEF st, st2, ruu, ruu2, n, lsq, lsq2, m, top, spec, pc, front, id2
    <3> QED
      BY ZenonT(60), <1>3, <1>6, <2>5, <2>7, <2>9, <3>1, <3>2, <3>3, BranchRecovers
  <2>12. Structure'
    <3>1. inst_seq' = top /\ recover_PC' = pc
      BY <1>2
    <3> HIDE DEF top, pc
    <3>2. StructureOf(station', RUUIds', RUU_num', LSQIds', LSQ_num', inst_seq', spec_mode',
                      recover_PC', FrontPC')
      BY <2>3, <2>10, <2>11, <3>1
    <3> QED BY <1>2, <3>2, StructurePrimed DEF programVars
  <2>13. OldestPC' = OldestPC
    <3>1. n > 0 /\ RUU_num' > 0 /\ RUU_head' = RUU_head /\ SameShape(station, station')
      BY <1>2, <1>6, <2>3, <2>7
    <3> QED BY <3>1, OldestKept DEF IInv
  <2> QED BY <1>10, <2>4, <2>7, <2>8, <2>10, <2>12, <2>13 DEF IInv
<1> QED BY Zenon, <1>13, <1>14

-----------------------------------------------------------------------------
(* Dispatch.                                                               *)

(* What fetch predicted after the entry f, and what is fetched after it.   *)
Predicted(f, after) ==
    /\ f.pred_PC = Following(f.regs_PC) \/ Inst(f.regs_PC).op \in F_CTRL
    /\ f.pred_PC = after

\* An instruction leaves the fetch queue at its head.
LEMMA FetchedPathShrinks ==
  ASSUME NEW size, size = ruu_ifq_size, NEW head \in 0..size - 1, NEW num \in 1..size,
         NEW tail, tail = Place(head, num, size), NEW data, NEW next,
         FetchedPath(data, IFQ(head, num), num, next),
         NEW head2, head2 = Place(head, 1, size), NEW num2, num2 = num - 1,
         NEW f, f = data[head]
  PROVE  /\ FetchedPath(data, IFQ(head2, num2), num2, next)
         /\ head2 \in 0..size - 1 /\ num2 \in 0..size /\ tail = Place(head2, num2, size)
         /\ Predicted(f, IF num2 > 0 THEN data[head2].regs_PC ELSE next)
<1> DEFINE old == IFQ(head, num)
           new == IFQ(head2, num2)
<1>1. size \in Nat \ {0} /\ num \in Nat /\ num2 \in Nat
  BY WidthsAssumption
<1>2. /\ head2 \in 0..size - 1 /\ num2 \in 0..size /\ tail = Place(head2, num2, size)
      /\ \A k \in 1..num2 : new[k] = old[k + 1]
  <2> DEFINE ring == "IFQ"
             e == <<ring, head>>
  <2>1. old = RingIds(ring, head, num, size) /\ new = RingIds(ring, head2, num2, size)
        /\ e = <<ring, head>>
    BY DEF IFQ
  <2> HIDE DEF ring, e, old, new
  <2>2. /\ head2 \in 0..size - 1 /\ num2 \in 0..size /\ tail = Place(head2, num2, size)
        /\ Shorter(old, new, num, e)
    BY <1>1, <2>1, RingWithoutOldest
  <2> QED BY <2>2 DEF Shorter
<1>3. old[1] = <<"IFQ", head>> /\ (num2 > 0 => old[2] = <<"IFQ", head2>>)
  <2>1. (head + 1 - 1) % size = head
    <3>1. head + 1 - 1 = head
      OBVIOUS
    <3>2. head % size = head
      BY <1>1, SmallRemainder
    <3> QED BY <3>1, <3>2
  <2>2. (head + 2 - 1) % size = head2
    <3>1. head + 2 - 1 = head + 1
      OBVIOUS
    <3> QED BY <3>1 DEF Place
  <2>3. 1 \in 1..num /\ (num2 > 0 => 2 \in 1..num)
    OBVIOUS
  <2> QED BY <2>1, <2>2, <2>3 DEF IFQ, RingIds
<1> HIDE DEF old, new
<1>4. ASSUME NEW k \in 1..num
      PROVE  LET g == data[old[k][2]]
             IN /\ g.pred_PC = Following(g.regs_PC) \/ Inst(g.regs_PC).op \in F_CTRL
                /\ g.pred_PC = IF k = num THEN next ELSE data[old[k + 1][2]].regs_PC
  BY DEF FetchedPath, old
<1>5. FetchedPath(data, new, num2, next)
  <2>1. ASSUME NEW k \in 1..num2
        PROVE  LET g == data[new[k][2]]
               IN /\ g.pred_PC = Following(g.regs_PC) \/ Inst(g.regs_PC).op \in F_CTRL
                  /\ g.pred_PC = IF k = num2 THEN next ELSE data[new[k + 1][2]].regs_PC
    <3> DEFINE g == data[old[k + 1][2]]
    <3>1. k + 1 \in 1..num /\ (k + 1 = num <=> k = num2)
      BY <1>1
    <3>2. /\ g.pred_PC = Following(g.regs_PC) \/ Inst(g.regs_PC).op \in F_CTRL
          /\ g.pred_PC = IF k + 1 = num THEN next ELSE data[old[k + 1 + 1][2]].regs_PC
      BY <1>4, <3>1
    <3>3. new[k] = old[k + 1] /\ (k # num2 => new[k + 1] = old[k + 1 + 1])
      <4>1. k # num2 => k + 1 \in 1..num2
        BY <1>1
      <4> QED BY <1>2, <4>1
    <3> QED BY <3>1, <3>2, <3>3
  <2> QED BY <2>1 DEF FetchedPath
<1>6. Predicted(f, IF num2 > 0 THEN data[head2].regs_PC ELSE next)
  <2>1. 1 \in 1..num /\ (1 = num <=> ~(num2 > 0))
    BY <1>1
  <2>2. LET g == data[old[1][2]]
        IN /\ g.pred_PC = Following(g.regs_PC) \/ Inst(g.regs_PC).op \in F_CTRL
           /\ g.pred_PC = IF 1 = num THEN next ELSE data[old[2][2]].regs_PC
    <3>1. 1 + 1 = 2
      OBVIOUS
    <3> QED BY <1>4, <2>1, <3>1
  <2>3. old[1][2] = head /\ (num2 > 0 => old[2][2] = head2)
    BY <1>3
  <2> QED BY <2>1, <2>2, <2>3 DEF Predicted
<1> QED BY <1>2, <1>5, <1>6 DEF new

\* What is dispatched leaves the fetch queue, unless fetch is redirected.
LEMMA Consumed ==
  ASSUME IInv, CanDispatch, NEW i, i = Inst(FrontPC), NEW npc \in NextPCs(FrontPC),
         Consume(i, npc), text' = text, fetch_data' = fetch_data, recover_PC' \in PCs
  PROVE  /\ FetchInv' /\ FrontPC = Fetched.regs_PC /\ FrontPC \in PCs /\ npc \in PCs
         /\ FrontPC' = IF Redirects(i, npc) THEN npc ELSE Fetched.pred_PC
         /\ i.op \notin F_CTRL => Fetched.pred_PC = npc /\ ~Redirects(i, npc)
<1> DEFINE head == fetch_head
           num == fetch_num
           num2 == num - 1
           tail == fetch_tail
           data == fetch_data
           next == fetch_pred_PC
           size == ruu_ifq_size
           head2 == Place(head, 1, size)
           f == data[head]
           after == IF num2 > 0 THEN data[head2].regs_PC ELSE next
           front == FrontPC
<1>1. /\ head \in 0..size - 1 /\ num \in 0..size /\ tail = Place(head, num, size)
      /\ data \in [0..size - 1 -> [regs_PC : PCs, pred_PC : PCs]]
      /\ next \in PCs /\ fetch_regs_PC \in PCs
      /\ FetchedPath(data, IFQ(head, num), num, next)
  BY DEF IInv, FetchInv, FetchOf, Place
<1>2. size \in Nat \ {0} /\ num \in 1..size
  BY <1>1, WidthsAssumption DEF CanDispatch
<1>3. front = f.regs_PC /\ Fetched = f /\ front \in PCs /\ f.pred_PC \in PCs
  <2>1. front = f.regs_PC /\ Fetched = f
    BY <1>2 DEF FrontPC, Fetched
  <2>2. f \in [regs_PC : PCs, pred_PC : PCs]
    BY <1>1
  <2> HIDE DEF f, front
  <2> QED BY <2>1, <2>2
<1>4. /\ FetchedPath(data, IFQ(head2, num2), num2, next)
      /\ head2 \in 0..size - 1 /\ num2 \in 0..size /\ tail = Place(head2, num2, size)
      /\ Predicted(f, after)
  <2>1. size = ruu_ifq_size /\ f = data[head] /\ head2 = Place(head, 1, size) /\ num2 = num - 1
    OBVIOUS
  <2> HIDE DEF head, num, tail, data, next, size, head2, num2, f
  <2> QED BY <1>1, <1>2, <2>1, FetchedPathShrinks
<1>5. npc \in PCs /\ \A p \in PCs : NextPCs(p) \subseteq PCs
  BY <1>3, TextFacts DEF IInv, CoreTypes
<1>6. ASSUME i.op \notin F_CTRL PROVE f.pred_PC = npc /\ ~Redirects(i, npc)
  <2>1. NextPCs(front) = {Following(front)}
    <3> HIDE DEF front
    <3> QED BY <1>6 DEF NextPCs, F_CTRL, front
  <2>2. f.pred_PC = npc
    <3> HIDE DEF f, front, after
    <3> QED BY <1>3, <1>4, <1>6, <2>1 DEF Predicted, front
  <2>3. i.op \notin F_DIRJMP
    BY <1>6 DEF F_CTRL, F_DIRJMP
  <2> HIDE DEF f
  <2> QED BY <1>3, <2>2, <2>3 DEF Redirects
<1>7. CASE Redirects(i, npc)
  <2>1. /\ fetch_pred_PC' = npc /\ fetch_regs_PC' = npc
        /\ fetch_head' = 0 /\ fetch_num' = 0 /\ fetch_tail' = 0
    BY <1>7 DEF Consume
  <2>2. FetchInv' /\ FrontPC' = npc
    BY <1>5, <2>1, FetchRestarts DEF IInv
  <2> HIDE DEF f, front
  <2> QED BY <1>3, <1>5, <1>6, <1>7, <2>2 DEF front
<1>8. CASE ~Redirects(i, npc)
  <2>1. /\ fetch_head' = head2 /\ fetch_num' = num2 /\ fetch_tail' = tail
        /\ fetch_pred_PC' = next /\ fetch_regs_PC' = fetch_regs_PC /\ fetch_data' = data
    BY <1>8 DEF Consume, NextSlot, Place
  <2>2. FetchOf(head2, tail, num2, data, next, fetch_regs_PC, recover_PC')
    <3> HIDE DEF head2, tail, num2, data, next, head, num
    <3> QED BY <1>1, <1>4 DEF FetchOf, Place
  <2>3. FetchInv'
    <3> HIDE DEF head2, tail, num2, data, next
    <3>1. FetchOf(fetch_head', fetch_tail', fetch_num', fetch_data', fetch_pred_PC',
                  fetch_regs_PC', recover_PC')
      BY <2>1, <2>2
    <3> QED BY <3>1, FetchPrimed
  <2>4. FrontPC' = after
    BY <2>1 DEF FrontPC, Fetched
  <2>5. FrontPC' = f.pred_PC
    <3> HIDE DEF f, after
    <3> QED BY <1>4, <2>4 DEF Predicted
  <2> HIDE DEF f, front
  <2> QED BY <1>3, <1>5, <1>6, <1>8, <2>3, <2>5 DEF front
<1> QED BY <1>7, <1>8

\* A path through a NOP goes on after it.
LEMMA PathPastNop ==
  ASSUME NEW a \in Nat, NEW p \in PCs, PCs \subseteq Nat, Path(a, p), Inst(p).op = "nop",
         Len(text) \in Nat, DOMAIN text = 1..Len(text)
  PROVE  Path(a, Following(p))
<1>1. p \in Nat /\ p >= a /\ \A q \in a..p - 1 : Inst(q).op = "nop"
  BY DEF Path
<1>2. Following(p) = p + 1 \/ Following(p) = p
  <2>1. CASE p \in DOMAIN text
    BY <2>1 DEF Following
  <2>2. CASE p \notin DOMAIN text
    <3>1. Following(p) = Bogus /\ p \in 1..Bogus
      BY <2>2 DEF Following, PCs
    <3>2. p = Bogus
      BY <2>2, <3>1 DEF Bogus
    <3> QED BY <3>1, <3>2
  <2> QED BY <2>1, <2>2
<1>3. CASE Following(p) = p + 1
  <2>1. \A q \in a..p : Inst(q).op = "nop"
    BY <1>1
  <2> QED BY <1>1, <1>3, <2>1 DEF Path
<1>4. CASE Following(p) = p
  BY <1>4
<1> QED BY <1>2, <1>3, <1>4

\* A NOP is dispatched: it only moves the path on.
LEMMA NopKeeps ==
  ASSUME IInv, CanDispatch, NEW i, i = Inst(Fetched.regs_PC),
         NEW npc \in NextPCs(Fetched.regs_PC), DispatchNop(i, npc),
         UNCHANGED <<programVars, stage, RUU_head, LSQ_head, event_queue, issueVars,
                     fetch_data, uncached, branch_cnt, busy>>
  PROVE  IInv' /\ (OldestPC' = OldestPC \/ Retires)
<1>1. /\ i.op = "nop" /\ Consume(i, npc)
      /\ UNCHANGED <<station, ruuVars, lsqVars, rslink_free, ready_queue, cvVars,
                     inst_seq, specVars>>
  BY DEF DispatchNop, ruuVars, lsqVars
<1>2. FrontPC = Fetched.regs_PC
  BY DEF CanDispatch, IInv, FetchInv, FetchOf, FrontPC
<1>3. recover_PC' = recover_PC /\ recover_PC \in PCs /\ text' = text
  BY <1>1 DEF IInv, FetchInv, FetchOf, specVars, programVars
<1>4. /\ FetchInv' /\ FrontPC \in PCs /\ npc \in PCs
      /\ FrontPC' = npc
  BY <1>1, <1>2, <1>3, Consumed DEF F_CTRL
<1>5. npc = Following(FrontPC) /\ Inst(FrontPC).op = "nop"
  BY <1>1, <1>2 DEF NextPCs
<1> DEFINE st == station
           ruu == RUUIds
           n == RUU_num
           lsq == LSQIds
           m == LSQ_num
           front == FrontPC
           spec == spec_mode
<1>6. /\ Places(ruu, n, RUU) /\ n \in Nat /\ st \in [Ids -> StationSet] /\ PCs \subseteq Nat
      /\ Len(text) \in Nat /\ DOMAIN text = 1..Len(text)
  BY RingsPlaced, TextFacts DEF IInv, CoreTypes
<1>7. Flow(st, ruu, n, spec, npc)
  <2>1. Flow(st, ruu, n, spec, front)
    BY DEF IInv, Structure, StructureOf
  <2>2. n > 0 /\ ~spec => Path(st[ruu[n]].next_PC, npc)
    <3>1. SUFFICES ASSUME n > 0, ~spec PROVE Path(st[ruu[n]].next_PC, npc)
      OBVIOUS
    <3>2. st[ruu[n]].next_PC \in Nat
      <4> HIDE DEF st, ruu, n
      <4>1. ruu[n] \in Ids
        BY <1>6, <3>1 DEF Places, Ids
      <4> QED BY <1>6, <4>1 DEF StationSet
    <3>3. Path(st[ruu[n]].next_PC, front)
      BY <2>1, <3>1 DEF Flow
    <3> HIDE DEF st, ruu, n, front
    <3> QED BY <1>4, <1>5, <1>6, <3>2, <3>3, PathPastNop DEF front
  <2> HIDE DEF st, ruu, n, spec
  <2> QED BY <1>4, <2>1, <2>2 DEF Flow
<1>8. StructureOf(st, ruu, n, lsq, m, inst_seq, spec, recover_PC, npc)
  BY <1>7 DEF IInv, Structure, StructureOf
<1>9. Structure'
  <2>1. StructureOf(station', RUUIds', RUU_num', LSQIds', LSQ_num', inst_seq', spec_mode',
                    recover_PC', FrontPC')
    BY <1>1, <1>4, <1>8 DEF ruuVars, lsqVars, specVars, RUUIds, LSQIds
  <2> QED BY <1>3, <2>1, StructurePrimed
<1>10. RingTypes'
  BY <1>1 DEF IInv, RingTypes, ruuVars, lsqVars
<1>11. LinksInv'
  <2>1. stage # "issue"
    BY DEF CanDispatch
  <2> QED BY <1>1, <2>1, LinksStay DEF IInv, LinksInv, LinksOf, issueVars
<1>12. CoreTypes'
  <2>1. Program'
    BY ProgramFixed DEF IInv, CoreTypes
  <2> QED BY <1>1, <2>1 DEF IInv, CoreTypes, cvVars, specVars, issueVars
<1>13. EventsInOrder'
  BY DEF IInv, EventsInOrder
<1>14. OldestPC' = OldestPC \/ Retires
  <2>1. CASE RUU_num > 0
    <3>1. RUU_num' > 0 /\ RUU_head' = RUU_head /\ SameShape(station, station')
      BY <1>1, <2>1 DEF ruuVars, SameShape
    <3> QED BY <2>1, <3>1, OldestKept DEF IInv
  <2>2. CASE ~(RUU_num > 0)
    <3>1. OldestPC = FrontPC /\ OldestPC' = FrontPC'
      BY <1>1, <2>2 DEF OldestPC, FrontPC, ruuVars
    <3>2. npc \in NextPCs(FrontPC) /\ npc \in Nat
      BY <1>2, <1>4, <1>6
    <3>3. Path(npc, npc)
      BY <3>2 DEF Path
    <3> QED BY <1>4, <3>1, <3>2, <3>3 DEF Retires
  <2> QED BY <2>1, <2>2
<1> QED BY <1>4, <1>9, <1>10, <1>11, <1>12, <1>13, <1>14 DEF IInv

(* A new operation, and the access of a new computation of an address.     *)
NewStation(i, npc) ==
    [Filled(station[RUUNew], i, npc, IF i.op \in F_MEM THEN "agen" ELSE i.op, inst_seq + 1)
       EXCEPT !.ea_comp = i.op \in F_MEM]

\* The station of an access that is dispatched.
NewAccessStation(i, npc) ==
    [Filled(station[LSQNew], i, npc, i.op, inst_seq + 2) EXCEPT !.in_LSQ = TRUE, !.addr = i.addr]

(* The fields of r that are filled in; those of links are as they were.    *)
FilledIn(r, old, i, npc, op, seq) ==
    /\ r \in StationSet
    /\ r.op = op /\ r.PC = Fetched.regs_PC /\ r.next_PC = npc
    /\ r.seq = seq /\ (r.spec_mode <=> spec_mode)
    /\ ~r.recover_inst /\ ~r.queued /\ ~r.issued /\ ~r.completed
    /\ r.tag = old.tag /\ r.odep_list = old.odep_list /\ r.idep_ready = old.idep_ready

\* A station is filled in.
LEMMA FilledFields ==
  ASSUME NEW old \in StationSet, NEW i, NEW npc \in Nat, NEW op \in DOMAIN FUClass,
         NEW seq \in Nat, Fetched.regs_PC \in Nat, spec_mode \in BOOLEAN
  PROVE  LET r == Filled(old, i, npc, op, seq)
         IN /\ FilledIn(r, old, i, npc, op, seq)
            /\ ~r.in_LSQ /\ ~r.ea_comp
<1> DEFINE r == Filled(old, i, npc, op, seq)
<1>1. /\ r \in StationSet
      /\ r.op = op /\ r.PC = Fetched.regs_PC /\ r.next_PC = npc
      /\ r.seq = seq /\ r.spec_mode = spec_mode
      /\ r.recover_inst = FALSE /\ r.queued = FALSE /\ r.issued = FALSE /\ r.completed = FALSE
      /\ r.in_LSQ = FALSE /\ r.ea_comp = FALSE
      /\ r.tag = old.tag /\ r.odep_list = old.odep_list /\ r.idep_ready = old.idep_ready
  <2> DEFINE pc == Fetched.regs_PC
             sp == spec_mode
             r1 == [old EXCEPT !.op = op, !.PC = pc, !.next_PC = npc, !.in_LSQ = FALSE]
             r2 == [r1 EXCEPT !.ea_comp = FALSE, !.recover_inst = FALSE, !.spec_mode = sp]
             r3 == [r2 EXCEPT !.addr = 0, !.seq = seq, !.queued = FALSE]
  <2>1. r = [r3 EXCEPT !.issued = FALSE, !.completed = FALSE]
    BY DEF Filled
  <2>2. pc \in Nat /\ sp \in BOOLEAN
    OBVIOUS
  <2> HIDE DEF pc, sp
  <2>3. /\ r1 \in StationSet /\ r1.op = op /\ r1.PC = pc /\ r1.next_PC = npc
        /\ r1.in_LSQ = FALSE
        /\ r1.tag = old.tag /\ r1.odep_list = old.odep_list /\ r1.idep_ready = old.idep_ready
    BY <2>2 DEF StationSet
  <2> HIDE DEF r1
  <2>4. /\ r2 \in StationSet /\ r2.op = op /\ r2.PC = pc /\ r2.next_PC = npc
        /\ r2.in_LSQ = FALSE /\ r2.ea_comp = FALSE /\ r2.recover_inst = FALSE
        /\ r2.spec_mode = sp
        /\ r2.tag = old.tag /\ r2.odep_list = old.odep_list /\ r2.idep_ready = old.idep_ready
    BY <2>2, <2>3 DEF StationSet
  <2> HIDE DEF r2
  <2>5. /\ r3 \in StationSet /\ r3.op = op /\ r3.PC = pc /\ r3.next_PC = npc
        /\ r3.in_LSQ = FALSE /\ r3.ea_comp = FALSE /\ r3.recover_inst = FALSE
        /\ r3.spec_mode = sp /\ r3.seq = seq /\ r3.queued = FALSE
        /\ r3.tag = old.tag /\ r3.odep_list = old.odep_list /\ r3.idep_ready = old.idep_ready
    BY <2>2, <2>4 DEF StationSet
  <2> HIDE DEF r3, r
  <2>6. /\ r \in StationSet /\ r.op = op /\ r.PC = pc /\ r.next_PC = npc
        /\ r.in_LSQ = FALSE /\ r.ea_comp = FALSE /\ r.recover_inst = FALSE
        /\ r.spec_mode = sp /\ r.seq = seq /\ r.queued = FALSE
        /\ r.issued = FALSE /\ r.completed = FALSE
        /\ r.tag = old.tag /\ r.odep_list = old.odep_list /\ r.idep_ready = old.idep_ready
    BY <2>1, <2>2, <2>5 DEF StationSet
  <2> QED BY <2>6 DEF pc, sp
<1> HIDE DEF r
<1>2. FilledIn(r, old, i, npc, op, seq) /\ ~r.in_LSQ /\ ~r.ea_comp
  BY <1>1 DEF FilledIn
<1> QED BY <1>2 DEF r

\* The new stations of an instruction.
LEMMA NewlyFilled ==
  ASSUME station \in [Ids -> StationSet], RUUNew \in Ids, NEW i \in Instructions, NEW npc \in Nat,
         inst_seq \in Nat, Fetched.regs_PC \in Nat, spec_mode \in BOOLEAN
  PROVE  /\ FilledIn(NewStation(i, npc), station[RUUNew], i, npc,
                     IF i.op \in F_MEM THEN "agen" ELSE i.op, inst_seq + 1)
         /\ ~NewStation(i, npc).in_LSQ /\ (NewStation(i, npc).ea_comp <=> i.op \in F_MEM)
         /\ LSQNew \in Ids =>
              /\ FilledIn(NewAccessStation(i, npc), station[LSQNew], i, npc, i.op, inst_seq + 2)
              /\ NewAccessStation(i, npc).in_LSQ /\ ~NewAccessStation(i, npc).ea_comp
<1>1. /\ i.op \in DOMAIN FUClass /\ "agen" \in DOMAIN FUClass /\ i.addr \in Nat
      /\ inst_seq + 1 \in Nat /\ inst_seq + 2 \in Nat
  BY DEF Instructions, FUClass
<1> DEFINE op == IF i.op \in F_MEM THEN "agen" ELSE i.op
           r == Filled(station[RUUNew], i, npc, op, inst_seq + 1)
           r2 == NewStation(i, npc)
           a == Filled(station[LSQNew], i, npc, i.op, inst_seq + 2)
           a2 == NewAccessStation(i, npc)
           mem == i.op \in F_MEM
<1>2. FilledIn(r, station[RUUNew], i, npc, op, inst_seq + 1) /\ ~r.in_LSQ /\ ~r.ea_comp
  <2>1. op \in DOMAIN FUClass /\ station[RUUNew] \in StationSet
    BY <1>1
  <2> HIDE DEF op
  <2> QED BY <1>1, <2>1, FilledFields
<1>3. r2 = [r EXCEPT !.ea_comp = mem] /\ mem \in BOOLEAN
  BY DEF NewStation, F_MEM
<1>4. FilledIn(r2, station[RUUNew], i, npc, op, inst_seq + 1) /\ ~r2.in_LSQ /\ (r2.ea_comp <=> mem)
  <2> HIDE DEF r, r2, mem, op
  <2>1. r \in StationSet
    BY <1>2 DEF FilledIn
  <2>2. /\ r2 \in StationSet /\ r2.ea_comp = mem
        /\ r2.op = r.op /\ r2.PC = r.PC /\ r2.next_PC = r.next_PC
        /\ r2.seq = r.seq /\ r2.spec_mode = r.spec_mode /\ r2.in_LSQ = r.in_LSQ
        /\ r2.recover_inst = r.recover_inst /\ r2.queued = r.queued /\ r2.issued = r.issued
        /\ r2.completed = r.completed
        /\ r2.tag = r.tag /\ r2.odep_list = r.odep_list /\ r2.idep_ready = r.idep_ready
    BY <1>3, <2>1 DEF StationSet
  <2> QED BY <1>2, <2>2 DEF FilledIn
<1>5. ASSUME LSQNew \in Ids
      PROVE  /\ FilledIn(a2, station[LSQNew], i, npc, i.op, inst_seq + 2)
             /\ a2.in_LSQ /\ ~a2.ea_comp
  <2>1. FilledIn(a, station[LSQNew], i, npc, i.op, inst_seq + 2) /\ ~a.in_LSQ /\ ~a.ea_comp
    <3>1. station[LSQNew] \in StationSet
      BY <1>5
    <3> QED BY <1>1, <3>1, FilledFields
  <2>2. a2 = [a EXCEPT !.in_LSQ = TRUE, !.addr = i.addr]
    BY DEF NewAccessStation
  <2> HIDE DEF a, a2
  <2>3. a \in StationSet
    BY <2>1 DEF FilledIn
  <2>4. /\ a2 \in StationSet /\ a2.in_LSQ = TRUE /\ a2.ea_comp = a.ea_comp
        /\ a2.op = a.op /\ a2.PC = a.PC /\ a2.next_PC = a.next_PC
        /\ a2.seq = a.seq /\ a2.spec_mode = a.spec_mode
        /\ a2.recover_inst = a.recover_inst /\ a2.queued = a.queued /\ a2.issued = a.issued
        /\ a2.completed = a.completed
        /\ a2.tag = a.tag /\ a2.odep_list = a.odep_list /\ a2.idep_ready = a.idep_ready
    BY <1>1, <2>2, <2>3 DEF StationSet
  <2> QED BY <2>1, <2>4 DEF FilledIn
<1> QED BY <1>4, <1>5

(* The stations new are filled in, and have no links yet.                  *)
FillsIn(st, st2, new) ==
    /\ \A id \in Ids : /\ st2[id].tag = st[id].tag /\ st2[id].odep_list = st[id].odep_list
                       /\ st2[id].idep_ready = st[id].idep_ready
                       /\ id \notin new => st2[id] = st[id]
    /\ \A id \in new : ~st2[id].queued /\ ~st2[id].issued /\ ~st2[id].completed

(* The stations new are being filled: they wait for renaming.              *)
Filling(c, F, new, eq) ==
    /\ c \in RenameStates
    /\ ReadyLinks(c.station, F, c.ready_queue, <<>>) /\ EventLinks(c.station, F, eq)
    /\ ChainLinks(c.station, F, Ids) /\ Progress(c.station, F, new)
    /\ \A id \in new : /\ ~c.station[id].queued /\ ~c.station[id].issued
                       /\ ~c.station[id].completed

\* Stations that are filled in are in flight without any link.
LEMMA FillingStarts ==
  ASSUME NEW st \in [Ids -> StationSet], NEW c \in RenameStates, NEW new \in SUBSET Ids,
         FillsIn(st, c.station, new), NEW F \in SUBSET Ids, new \cap F = {},
         NEW rq, rq = c.ready_queue, NEW eq \in Seq(LinkSet), LinksOf(st, F, rq, <<>>, eq)
  PROVE  /\ Filling(c, F \cup new, new, eq)
         /\ \A id \in new : Unchained(c.station, id, 1)
<1> DEFINE st2 == c.station
           nd == <<>>
<1>1. /\ ReadyLinks(st, F, rq, nd) /\ EventLinks(st, F, eq)
      /\ ChainLinks(st, F, Ids) /\ Progress(st, F, {})
  BY DEF LinksOf
<1>2. st2 \in [Ids -> StationSet] /\ rq \in Seq(LinkSet) /\ nd \in Seq(LinkSet)
  BY DEF RenameStates
<1> HIDE DEF st2, nd
<1>3. /\ SameTags(st, st2)
      /\ \A p \in Ids : st2[p].odep_list = st[p].odep_list /\ st2[p].idep_ready = st[p].idep_ready
      /\ \A id \in new : ~st2[id].queued /\ ~st2[id].issued /\ ~st2[id].completed
      /\ \A id \in F : st2[id] = st[id]
  BY DEF FillsIn, SameTags, st2
<1>4. \A id \in F : /\ st2[id].queued = st[id].queued /\ st2[id].issued = st[id].issued
                    /\ st2[id].completed = st[id].completed
  BY <1>3
<1>5. ReadyLinks(st2, F \cup new, rq, nd) /\ EventLinks(st2, F \cup new, eq)
  BY <1>1, <1>2, <1>3, <1>4, NewStations
<1>6. ChainLinks(st2, F \cup new, Ids) /\ \A id \in new : Unchained(st2, id, 1)
  BY <1>1, <1>2, <1>3, FilledChains
<1>7. Progress(st2, F \cup new, new)
  <2>1. ASSUME NEW id \in F
        PROVE  /\ st2[id].queued \/ st2[id].issued => OPERANDS_READY(st2[id])
               /\ ~(st2[id].queued /\ st2[id].issued)
               /\ st2[id].completed => st2[id].issued
               /\ OPERANDS_READY(st2[id])
                    => st2[id].queued \/ st2[id].issued \/ IsLoad(st2[id])
    <3>1. st2[id] = st[id]
      BY <1>3
    <3> QED BY <1>1, <3>1 DEF Progress
  <2>2. ASSUME NEW id \in new
        PROVE  ~st2[id].queued /\ ~st2[id].issued /\ ~st2[id].completed
    BY <1>3
  <2> QED BY <2>1, <2>2 DEF Progress
<1> QED BY <1>3, <1>5, <1>6, <1>7 DEF Filling, st2, nd

(* The fields of the stations that tell the structure of the rings.        *)
SameStations(st, st2) == \A id \in Ids : SameStation(st, st2, id)

\* What two steps leave alone both do.
LEMMA SameStationsTransitive ==
  ASSUME NEW a, NEW b, NEW c, SameStations(a, b), SameStations(b, c)
  PROVE  SameStations(a, c)
BY DEF SameStations, SameStation

\* Renaming a new station chains it to those that make its operands.
LEMMA FillingRenamed ==
  ASSUME NEW c, NEW F \in SUBSET Ids, NEW new \in SUBSET F, NEW eq \in Seq(LinkSet),
         Filling(c, F, new, eq), NEW id \in new, Unchained(c.station, id, 1),
         NEW ins, \A k \in 1..3 : ins[k] \in Registers,
         NEW outs, \A k \in 1..2 : outs[k] \in Registers,
         NEW d, d = Renamed(c, id, ins, outs)
  PROVE  /\ Filling(d, F, new, eq) /\ SameStations(c.station, d.station)
         /\ OthersUnchained(c.station, d.station, id)
<1>1. Renaming(c, d, F, id)
  BY RenamedEffect DEF Filling
<1> DEFINE st == c.station
           st2 == d.station
           rq == c.ready_queue
           nd == <<>>
<1>2. /\ Renames(st, st2, id) /\ d \in RenameStates /\ d.ready_queue = rq
      /\ ChainLinks(st2, F, Ids) /\ OthersUnchained(st, st2, id)
  BY <1>1 DEF Renaming
<1>3. /\ st \in [Ids -> StationSet] /\ st2 \in [Ids -> StationSet]
      /\ rq \in Seq(LinkSet) /\ nd \in Seq(LinkSet)
      /\ ReadyLinks(st, F, rq, nd) /\ EventLinks(st, F, eq) /\ Progress(st, F, new)
      /\ \A k \in new : ~st[k].queued /\ ~st[k].issued /\ ~st[k].completed
  BY <1>2 DEF Filling, RenameStates
<1> HIDE DEF st, st2, rq, nd
<1>4. /\ \A k \in Ids : /\ st2[k].tag = st[k].tag /\ st2[k].queued = st[k].queued
                        /\ st2[k].issued = st[k].issued /\ st2[k].completed = st[k].completed
                        /\ st2[k].op = st[k].op
                        /\ k # id => st2[k].idep_ready = st[k].idep_ready
      /\ SameStations(st, st2)
  BY <1>2 DEF Renames, SameStations, SameStation
<1>5. F \in SUBSET F /\ TagsGrow(st, st2, F, F)
  BY <1>3, <1>4, StationFields DEF TagsGrow
<1>6. ReadyLinks(st2, F, rq, nd)
  BY SMTT(30), <1>3, <1>4, <1>5, ReadyKept
<1>7. EventLinks(st2, F, eq)
  BY <1>3, <1>4, <1>5, EventsKept
<1>8. Progress(st2, F, new)
  <2>1. ASSUME NEW k \in F, k # id
        PROVE  /\ st2[k].queued \/ st2[k].issued => OPERANDS_READY(st2[k])
               /\ ~(st2[k].queued /\ st2[k].issued)
               /\ st2[k].completed => st2[k].issued
               /\ OPERANDS_READY(st2[k]) /\ k \notin new
                    => st2[k].queued \/ st2[k].issued \/ IsLoad(st2[k])
    BY <1>3, <1>4, <2>1 DEF Progress, OPERANDS_READY, IsLoad
  <2>2. ~st2[id].queued /\ ~st2[id].issued /\ ~st2[id].completed
    BY <1>3, <1>4
  <2> QED BY <2>1, <2>2 DEF Progress
<1>9. \A k \in new : ~st2[k].queued /\ ~st2[k].issued /\ ~st2[k].completed
  BY <1>3, <1>4
<1> QED BY <1>2, <1>4, <1>6, <1>7, <1>8, <1>9 DEF Filling, st, st2, rq, nd

\* A new station whose operands are ready is enqueued.
LEMMA FillingEnqueued ==
  ASSUME NEW c, NEW F \in SUBSET Ids, NEW new \in SUBSET F, NEW eq \in Seq(LinkSet),
         Filling(c, F, new, eq), NEW id \in new
  PROVE  /\ Filling(Enqueued(c, id), F, new \ {id}, eq)
         /\ SameStations(c.station, Enqueued(c, id).station)
<1> DEFINE st == c.station
           d == readyq_enqueue(c, id)
           st2 == d.station
           rest == new \ {id}
           nd == <<>>
<1>1. /\ c \in RenameStates /\ st \in [Ids -> StationSet] /\ nd \in Seq(LinkSet)
      /\ ReadyLinks(st, F, c.ready_queue, nd) /\ EventLinks(st, F, eq)
      /\ ChainLinks(st, F, Ids) /\ Progress(st, F, new)
      /\ \A k \in new : ~st[k].queued /\ ~st[k].issued /\ ~st[k].completed
  BY DEF Filling, RenameStates
<1>2. CASE OPERANDS_READY(st[id])
  <2>1. Enqueued(c, id) = d /\ id \in F
    BY <1>2 DEF Enqueued
  <2>2. /\ ReadyLinks(st2, F, d.ready_queue, nd) /\ Progress(st2, F, new \ {id})
        /\ SameFields(st, st2)
        /\ \A k \in Ids : /\ st2[k].idep_ready = st[k].idep_ready
                          /\ k # id => st2[k].queued = st[k].queued
    <3>1. /\ c \in ListStates \/ c \in RenameStates
          /\ ReadyLinks(c.station, F, c.ready_queue, nd) /\ Progress(c.station, F, new)
          /\ ~c.station[id].queued /\ ~c.station[id].issued /\ OPERANDS_READY(c.station[id])
      BY <1>1, <1>2
    <3> HIDE DEF nd
    <3> QED BY <1>1, <2>1, <3>1, EnqueueLinks
  <2>3. d \in RenameStates
    <3>1. /\ c \in ListStates \/ c \in RenameStates
          /\ id \in Ids
      BY <1>1, <2>1
    <3> QED BY <1>1, <2>1, <3>1, EnqueueEffect
  <2>4. st2 \in [Ids -> StationSet]
    BY <2>3 DEF RenameStates
  <2> HIDE DEF st, st2, nd, d
  <2>5. EventLinks(st2, F, eq) /\ ChainLinks(st2, F, Ids)
    BY <1>1, <2>2, <2>4, FlagsOnly
  <2>6. \A k \in rest : ~st2[k].queued /\ ~st2[k].issued /\ ~st2[k].completed
    BY <1>1, <2>2 DEF SameFields
  <2>7. SameStations(st, st2)
    BY <2>2 DEF SameFields, SameStations, SameStation
  <2> QED BY <2>1, <2>2, <2>3, <2>5, <2>6, <2>7 DEF Filling, st, st2, nd
<1>3. CASE ~OPERANDS_READY(st[id])
  <2>1. Enqueued(c, id) = c
    BY <1>3 DEF Enqueued
  <2>2. Progress(st, F, rest)
    <3> HIDE DEF st
    <3> QED BY <1>1, <1>3 DEF Progress
  <2> QED BY <1>1, <2>1, <2>2 DEF Filling, SameStations, SameStation
<1> QED BY <1>2, <1>3

(* The lists and the creation vectors before an instruction is allocated.  *)
Unallocated ==
    [station |-> station, ready_queue |-> ready_queue, free |-> rslink_free,
     cv |-> create_vector, spec_cv |-> spec_create_vector, use |-> use_spec_cv]

\* Stations are filled in while the core dispatches.
LEMMA DispatchFills ==
  ASSUME IInv, stage = "dispatch", NEW F \in SUBSET Ids,
         F = Flight(RUUIds, RUU_num, LSQIds, LSQ_num),
         NEW new \in SUBSET Ids, new \cap F = {},
         NEW c \in RenameStates, c.ready_queue = ready_queue, FillsIn(station, c.station, new)
  PROVE  /\ Filling(c, F \cup new, new, event_queue)
         /\ \A id \in new : Unchained(c.station, id, 1)
<1>1. LinksOf(station, F, ready_queue, <<>>, event_queue)
  BY DEF IInv, LinksInv
<1>2. station \in [Ids -> StationSet] /\ event_queue \in Seq(LinkSet)
  BY DEF IInv, CoreTypes
<1> DEFINE st == station
           rq == ready_queue
           eq == event_queue
<1>3. /\ LinksOf(st, F, rq, <<>>, eq) /\ st \in [Ids -> StationSet] /\ eq \in Seq(LinkSet)
      /\ rq = c.ready_queue /\ FillsIn(st, c.station, new)
  BY <1>1, <1>2
<1> HIDE DEF st, rq, eq
<1>4. /\ Filling(c, F \cup new, new, eq)
      /\ \A id \in new : Unchained(c.station, id, 1)
  BY <1>3, FillingStarts
<1> QED BY <1>4 DEF eq

\* An operation that does not access memory.
LEMMA OperationAllocated ==
  ASSUME IInv, stage = "dispatch", NEW F \in SUBSET Ids,
         F = Flight(RUUIds, RUU_num, LSQIds, LSQ_num),
         NEW id \in Ids, id = RUUNew, id \notin F, NEW i \in Instructions, i.op \notin F_MEM,
         NEW npc, NEW r \in StationSet, r = NewStation(i, npc), FilledIn(r, station[id], i, npc, i.op, inst_seq + 1)
  PROVE  /\ Filling(Allocated(i, npc), F \cup {id}, {}, event_queue)
         /\ SameStations([station EXCEPT ![id] = r], Allocated(i, npc).station)
<1> DEFINE c == [Unallocated EXCEPT !.station[id] = r]
           outs == <<i.out, NA>>
           ins == i.in
           d == Renamed(c, id, ins, outs)
           new == {id}
           F2 == F \cup new
           eq == event_queue
<1>1. Allocated(i, npc) = Enqueued(d, id)
  BY DEF Allocated, NewStation, Unallocated
<1>2. /\ c \in RenameStates /\ c.ready_queue = ready_queue
      /\ c.station = [station EXCEPT ![id] = r] /\ eq \in Seq(LinkSet)
  BY DEF IInv, CoreTypes, RenameStates, Unallocated
<1>3. FillsIn(station, c.station, new)
  <2>1. station \in [Ids -> StationSet]
    BY DEF IInv, CoreTypes
  <2>2. /\ r.tag = station[id].tag /\ r.odep_list = station[id].odep_list
        /\ r.idep_ready = station[id].idep_ready /\ ~r.queued /\ ~r.issued /\ ~r.completed
    BY DEF FilledIn
  <2> HIDE DEF c
  <2> QED BY <1>2, <2>1, <2>2 DEF FillsIn
<1>4. Filling(c, F2, new, eq) /\ Unchained(c.station, id, 1)
  <2>1. new \in SUBSET Ids /\ new \cap F = {} /\ id \in new
    OBVIOUS
  <2> HIDE DEF c, new
  <2> QED BY <1>2, <1>3, <2>1, DispatchFills
<1>5. /\ \A k \in 1..3 : ins[k] \in Registers
      /\ \A k \in 1..2 : outs[k] \in Registers
  BY DEF Instructions, Registers
<1>6. F2 \in SUBSET Ids /\ new \in SUBSET F2 /\ id \in new
  OBVIOUS
<1>7. Filling(d, F2, new, eq) /\ SameStations(c.station, d.station)
  <2> HIDE DEF c, ins, outs, new, F2, eq
  <2> QED BY <1>2, <1>4, <1>5, <1>6, FillingRenamed
<1>8. /\ Filling(Enqueued(d, id), F2, new \ {id}, eq)
      /\ SameStations(d.station, Enqueued(d, id).station)
  <2> HIDE DEF c, ins, outs, new, F2, eq, d
  <2> QED BY <1>2, <1>6, <1>7, FillingEnqueued
<1>9. SameStations(c.station, Enqueued(d, id).station)
  <2> HIDE DEF c, d
  <2> QED BY <1>7, <1>8, SameStationsTransitive
<1>10. new \ {id} = {}
  OBVIOUS
<1> HIDE DEF c, d
<1> QED BY <1>1, <1>2, <1>8, <1>9, <1>10

\* A load that waits for its addresses to be compared may stay unqueued.
LEMMA FilledLoadWaits ==
  ASSUME NEW c, NEW F \in SUBSET Ids, NEW id, NEW eq, Filling(c, F, {id}, eq),
         IsLoad(c.station[id])
  PROVE  Filling(c, F, {}, eq)
BY DEF Filling, Progress

\* An access to memory takes a station of each ring.
LEMMA AccessAllocated ==
  ASSUME IInv, stage = "dispatch", NEW F \in SUBSET Ids,
         F = Flight(RUUIds, RUU_num, LSQIds, LSQ_num),
         NEW id \in Ids, id = RUUNew, id \notin F,
         NEW id2 \in Ids, id2 = LSQNew, id2 \notin F, id2 # id,
         NEW i \in Instructions, i.op \in F_MEM, NEW npc,
         NEW r \in StationSet, r = NewStation(i, npc),
         FilledIn(r, station[id], i, npc, "agen", inst_seq + 1),
         NEW a \in StationSet, a = NewAccessStation(i, npc),
         FilledIn(a, station[id2], i, npc, i.op, inst_seq + 2)
  PROVE  /\ Filling(Allocated(i, npc), F \cup {id, id2}, {}, event_queue)
         /\ SameStations([station EXCEPT ![id] = r, ![id2] = a], Allocated(i, npc).station)
<1> DEFINE c == [Unallocated EXCEPT !.station[id] = r, !.station[id2] = a]
           ins == <<NA, i.in[2], i.in[3]>>
           outs == <<DTMP, NA>>
           agen == Renamed(c, id, ins, outs)
           ins2 == <<i.in[1], DTMP, NA>>
           outs2 == <<i.out, NA>>
           d == Renamed(agen, id2, ins2, outs2)
           both == Enqueued(d, id)
           new == {id, id2}
           F2 == F \cup new
           eq == event_queue
<1>1. Allocated(i, npc) = IF i.op = "store" THEN Enqueued(both, id2) ELSE both
  BY DEF Allocated, NewStation, NewAccessStation, Unallocated
<1>2. /\ c \in RenameStates /\ c.ready_queue = ready_queue
      /\ c.station = [station EXCEPT ![id] = r, ![id2] = a] /\ eq \in Seq(LinkSet)
  BY DEF IInv, CoreTypes, RenameStates, Unallocated
<1>3. FillsIn(station, c.station, new) /\ c.station[id2].op = i.op
  <2>1. station \in [Ids -> StationSet]
    BY DEF IInv, CoreTypes
  <2>2. /\ r.tag = station[id].tag /\ r.odep_list = station[id].odep_list
        /\ r.idep_ready = station[id].idep_ready /\ ~r.queued /\ ~r.issued /\ ~r.completed
        /\ a.tag = station[id2].tag /\ a.odep_list = station[id2].odep_list
        /\ a.idep_ready = station[id2].idep_ready /\ ~a.queued /\ ~a.issued /\ ~a.completed
        /\ a.op = i.op
    BY DEF FilledIn
  <2>3. c.station[id2] = a /\ c.station[id] = r
    BY <1>2, <2>1
  <2>4. \A k \in Ids : k \notin new => c.station[k] = station[k]
    BY <1>2, <2>1
  <2> HIDE DEF c
  <2> QED BY <2>2, <2>3, <2>4 DEF FillsIn
<1>4. Filling(c, F2, new, eq) /\ Unchained(c.station, id, 1) /\ Unchained(c.station, id2, 1)
  <2>1. new \in SUBSET Ids /\ new \cap F = {} /\ id \in new /\ id2 \in new
    OBVIOUS
  <2> HIDE DEF c, new
  <2> QED BY <1>2, <1>3, <2>1, DispatchFills
<1>5. /\ \A k \in 1..3 : ins[k] \in Registers /\ ins2[k] \in Registers
      /\ \A k \in 1..2 : outs[k] \in Registers /\ outs2[k] \in Registers
  BY DEF Instructions, Registers
<1>6. F2 \in SUBSET Ids /\ new \in SUBSET F2 /\ id \in new /\ id2 \in new
  OBVIOUS
<1>7. /\ Filling(agen, F2, new, eq) /\ SameStations(c.station, agen.station)
      /\ OthersUnchained(c.station, agen.station, id)
  <2> HIDE DEF c, ins, outs, new, F2, eq
  <2> QED BY <1>2, <1>4, <1>5, <1>6, FillingRenamed
<1>8. Unchained(agen.station, id2, 1)
  <2> HIDE DEF c, agen
  <2> QED BY <1>4, <1>7 DEF OthersUnchained
<1>9. Filling(d, F2, new, eq) /\ SameStations(agen.station, d.station)
  <2> HIDE DEF agen, ins2, outs2, new, F2, eq
  <2> QED BY <1>2, <1>5, <1>6, <1>7, <1>8, FillingRenamed
<1>10. Filling(both, F2, new \ {id}, eq) /\ SameStations(d.station, both.station)
  <2> HIDE DEF new, F2, eq, d
  <2> QED BY <1>2, <1>6, <1>9, FillingEnqueued
<1>11. SameStations(c.station, both.station)
  <2> HIDE DEF c, agen, d, both
  <2>1. SameStations(c.station, d.station)
    BY <1>7, <1>9, SameStationsTransitive
  <2> QED BY <1>10, <2>1, SameStationsTransitive
<1>12. new \ {id} = {id2}
  OBVIOUS
<1>13. CASE i.op = "store"
  <2> DEFINE some == {id2}
  <2>1. some \in SUBSET F2 /\ id2 \in some /\ Filling(both, F2, some, eq) /\ F2 \in SUBSET Ids
    BY <1>6, <1>10, <1>12
  <2>2. /\ Filling(Enqueued(both, id2), F2, some \ {id2}, eq)
        /\ SameStations(both.station, Enqueued(both, id2).station)
    <3> HIDE DEF some, F2, eq, both
    <3> QED BY <1>2, <2>1, FillingEnqueued
  <2>3. SameStations(c.station, Enqueued(both, id2).station)
    <3> HIDE DEF c, both
    <3> QED BY <1>11, <2>2, SameStationsTransitive
  <2>4. some \ {id2} = {}
    OBVIOUS
  <2> HIDE DEF c, both
  <2> QED BY <1>1, <1>2, <1>13, <2>2, <2>3, <2>4
<1>14. CASE i.op # "store"
  <2>1. both.station[id2].op = "load"
    <3>1. i.op = "load"
      BY <1>14 DEF F_MEM
    <3> HIDE DEF c, both
    <3> QED BY <1>3, <1>11, <3>1 DEF SameStations, SameStation
  <2>2. Filling(both, F2, {}, eq)
    <3> HIDE DEF both, F2, eq
    <3> QED BY <1>6, <1>10, <1>12, <2>1, FilledLoadWaits DEF IsLoad
  <2> HIDE DEF c, both
  <2> QED BY <1>1, <1>2, <1>11, <1>14, <2>2
<1> QED BY <1>13, <1>14

(* No station is being filled.                                             *)
AllFilled(c, F, eq) == Filling(c, F, {}, eq)

(* The stations, of which id recovers when b.                              *)
Marked(st, id, b) == [st EXCEPT ![id].recover_inst = b]

(* All fields that tell the structure, but for recover_inst, which is b.   *)
RecoverSet(st, st2, id, b) ==
    /\ st2[id].op = st[id].op /\ st2[id].in_LSQ = st[id].in_LSQ
    /\ st2[id].PC = st[id].PC /\ st2[id].next_PC = st[id].next_PC
    /\ st2[id].seq = st[id].seq /\ st2[id].ea_comp = st[id].ea_comp
    /\ st2[id].spec_mode = st[id].spec_mode /\ st2[id].completed = st[id].completed
    /\ st2[id].recover_inst = b

(* The stations st2 are those of c, in order; id recovers when b.          *)
MarkedInOrder(c, F, eq, st, st2, id, b) ==
    /\ st2 \in [Ids -> StationSet] /\ c.ready_queue \in Seq(LinkSet)
    /\ LinksOf(st2, F, c.ready_queue, <<>>, eq)
    /\ \A k \in Ids : k # id => SameStation(st, st2, k)
    /\ RecoverSet(st, st2, id, b)

\* A station that will recover has the links that it had.
LEMMA RecoveryMarked ==
  ASSUME NEW c, NEW F \in SUBSET Ids, NEW eq \in Seq(LinkSet), AllFilled(c, F, eq),
         NEW id \in Ids, NEW b \in BOOLEAN, NEW st, SameStations(st, c.station)
  PROVE  MarkedInOrder(c, F, eq, st, Marked(c.station, id, b), id, b)
<1> DEFINE st1 == c.station
           st2 == Marked(c.station, id, b)
           rq == c.ready_queue
           nd == <<>>
<1>1. /\ st1 \in [Ids -> StationSet] /\ rq \in Seq(LinkSet) /\ nd \in Seq(LinkSet)
      /\ LinksOf(st1, F, rq, nd, eq)
  BY DEF AllFilled, Filling, RenameStates, LinksOf
<1>2. st2 = [st1 EXCEPT ![id].recover_inst = b] /\ SameStations(st, st1)
  BY DEF Marked
<1> HIDE DEF st1, st2, nd, rq
<1>3. st2 \in [Ids -> StationSet]
  <2>1. [st1 EXCEPT ![id].recover_inst = b] \in [Ids -> StationSet]
    BY <1>1, FlagUpdates
  <2> QED BY <1>2, <2>1
<1>4. /\ \A k \in Ids : k # id => st2[k] = st1[k]
      /\ st2[id] = [st1[id] EXCEPT !.recover_inst = b] /\ st1[id] \in StationSet
  BY <1>1, <1>2
<1>5. /\ RecoverSet(st1, st2, id, b)
      /\ st2[id].tag = st1[id].tag /\ st2[id].odep_list = st1[id].odep_list
      /\ st2[id].idep_ready = st1[id].idep_ready /\ st2[id].queued = st1[id].queued
      /\ st2[id].issued = st1[id].issued /\ st2[id].completed = st1[id].completed
      /\ st2[id].op = st1[id].op
  <2> DEFINE r == st1[id]
             r2 == st2[id]
  <2>1. r2 = [r EXCEPT !.recover_inst = b] /\ r \in StationSet
    BY <1>4
  <2> HIDE DEF r, r2
  <2>2. /\ r2.op = r.op /\ r2.in_LSQ = r.in_LSQ /\ r2.PC = r.PC /\ r2.next_PC = r.next_PC
        /\ r2.seq = r.seq /\ r2.ea_comp = r.ea_comp /\ r2.spec_mode = r.spec_mode
        /\ r2.completed = r.completed /\ r2.recover_inst = b
        /\ r2.tag = r.tag /\ r2.odep_list = r.odep_list /\ r2.idep_ready = r.idep_ready
        /\ r2.queued = r.queued /\ r2.issued = r.issued
    BY <2>1 DEF StationSet
  <2> QED BY <2>2 DEF RecoverSet, r, r2
<1>6. /\ \A k \in Ids : st2[k].tag = st1[k].tag /\ st2[k].odep_list = st1[k].odep_list
      /\ SameRun(st1, st2)
  BY <1>4, <1>5 DEF SameRun
<1>7. ChainsShrink(st1, st2)
  BY <1>6 DEF ChainsShrink
<1>8. F \in SUBSET F /\ TagsGrow(st1, st2, F, F)
  <2>1. \A k \in Ids : st1[k].tag \in Nat
    BY <1>1, StationFields
  <2> QED BY <1>6, <2>1 DEF TagsGrow
<1>9. LinksOf(st2, F, rq, nd, eq)
  BY <1>1, <1>3, <1>6, <1>7, <1>8, LinksLeft
<1>10. \A k \in Ids : k # id => SameStation(st, st2, k)
  BY <1>2, <1>4 DEF SameStations, SameStation
<1>11. RecoverSet(st, st2, id, b)
  BY <1>2, <1>5 DEF SameStations, SameStation, RecoverSet
<1> QED BY <1>1, <1>3, <1>9, <1>10, <1>11 DEF MarkedInOrder, nd, rq, st2

\* The rings grow by the stations of an instruction.
LEMMA RingsGrow ==
  ASSUME RingTypes, RUU_num < RUU_size, LSQ_num < LSQ_size, NEW mem \in BOOLEAN,
         UNCHANGED <<RUU_head, LSQ_head>>,
         RUU_tail' = Place(RUU_tail, 1, RUU_size), RUU_num' = RUU_num + 1,
         LSQ_tail' = IF mem THEN Place(LSQ_tail, 1, LSQ_size) ELSE LSQ_tail,
         LSQ_num' = IF mem THEN LSQ_num + 1 ELSE LSQ_num
  PROVE  /\ RingTypes'
         /\ RUUNew \in RUU /\ Longer(RUUIds, RUUIds', RUU_num, RUUNew)
         /\ LSQNew \in LSQ
         /\ IF mem THEN Longer(LSQIds, LSQIds', LSQ_num, LSQNew) ELSE LSQIds' = LSQIds
         /\ \A k \in 1..LSQ_num : LSQIds[k] # LSQNew
<1> DEFINE head == RUU_head
           num == RUU_num
           tail == RUU_tail
           head2 == LSQ_head
           tail2 == LSQ_tail
           num2 == LSQ_num
           a == RingIds("RUU", head, num, RUU_size)
           b == RingIds("RUU", head, num + 1, RUU_size)
           a2 == RingIds("LSQ", head2, num2, LSQ_size)
           b2 == RingIds("LSQ", head2, num2 + 1, LSQ_size)
           e == <<"RUU", tail>>
           e2 == <<"LSQ", tail2>>
<1>1. /\ head \in 0..RUU_size - 1 /\ num \in 0..RUU_size - 1 /\ tail = Place(head, num, RUU_size)
      /\ head2 \in 0..LSQ_size - 1 /\ num2 \in 0..LSQ_size - 1
      /\ tail2 = Place(head2, num2, LSQ_size)
      /\ RUU_size \in Nat \ {0} /\ LSQ_size \in Nat \ {0}
  BY SizesAssumption DEF RingTypes, Place
<1>2. /\ tail \in 0..RUU_size - 1 /\ Place(tail, 1, RUU_size) = Place(head, num + 1, RUU_size)
      /\ num + 1 \in 0..RUU_size /\ Longer(a, b, num, e)
  <2> DEFINE more == num + 1
             place == Place(tail, 1, RUU_size)
  <2> HIDE DEF head, num, tail, a, b, e, more, place
  <2> QED BY <1>1, RingWithNewest DEF a, b, e, more, place
<1>3. /\ tail2 \in 0..LSQ_size - 1 /\ Place(tail2, 1, LSQ_size) = Place(head2, num2 + 1, LSQ_size)
      /\ num2 + 1 \in 0..LSQ_size /\ Longer(a2, b2, num2, e2)
  <2> DEFINE more == num2 + 1
             place == Place(tail2, 1, LSQ_size)
  <2> HIDE DEF head2, num2, tail2, a2, b2, e2, more, place
  <2> QED BY <1>1, RingWithNewest DEF a2, b2, e2, more, place
<1>4. e = RUUNew /\ e2 = LSQNew /\ a = RUUIds /\ a2 = LSQIds
  BY DEF RUUNew, LSQNew, RUUIds, LSQIds
<1>5. b = RUUIds' /\ (mem => b2 = LSQIds') /\ (~mem => LSQIds' = LSQIds)
  BY DEF RUUIds, LSQIds
<1>6. RUUNew \in RUU /\ LSQNew \in LSQ
  BY <1>2, <1>3 DEF RUUNew, LSQNew, RUU, LSQ
<1> HIDE DEF a, a2, b, b2, e, e2
<1>7. RingTypes'
  BY <1>1, <1>2, <1>3 DEF RingTypes, Place
<1>8. \A k \in 1..LSQ_num : LSQIds[k] # LSQNew
  BY <1>3, <1>4 DEF Longer
<1> QED BY <1>2, <1>3, <1>4, <1>5, <1>6, <1>7, <1>8

(* The stations st2 are st, and id recovers when b.                         *)
MarkedTo(st, st2, id, b) == st2 = Marked(st, id, b)

(* c is the state of the lists when i is allocated.                         *)
AllocatedTo(c, i, npc) == c = Allocated(i, npc)

(* The stations st2 hold the instruction i, which goes to npc.             *)
Arrived(st2, i, npc, mis) ==
    /\ \A k \in Ids : k # RUUNew /\ (i.op \in F_MEM => k # LSQNew) => SameStation(station, st2, k)
    /\ NewOperation(st2, RUUNew, inst_seq, spec_mode, Fetched.regs_PC, npc, i.op \in F_MEM, mis)
    /\ st2[RUUNew].op \notin F_MEM /\ ~st2[RUUNew].in_LSQ
    /\ i.op \in F_MEM =>
         /\ NewAccess(st2, LSQNew, inst_seq, spec_mode)
         /\ st2[LSQNew].op \in F_MEM /\ ~st2[LSQNew].recover_inst /\ ~st2[LSQNew].ea_comp

(* The stations in flight before the instruction is dispatched.            *)
FlightNow == Flight(RUUIds, RUU_num, LSQIds, LSQ_num)

(* The instruction has arrived, and the links are in order.                *)
ArrivedInOrder(st2, c, i, npc, mis) ==
    /\ Arrived(st2, i, npc, mis)
    /\ st2 \in [Ids -> StationSet] /\ c.ready_queue \in Seq(LinkSet) /\ c \in RenameStates
    /\ LinksOf(st2, FlightNow \cup (IF i.op \in F_MEM THEN {RUUNew, LSQNew} ELSE {RUUNew}),
               c.ready_queue, <<>>, event_queue)

\* An operation that does not access memory arrives.
LEMMA OperationArrives ==
  ASSUME IInv, stage = "dispatch", FlightNow \in SUBSET Ids,
         RUUNew \in RUU, RUUNew \notin FlightNow, LSQNew \in LSQ, Fetched.regs_PC \in Nat,
         NEW i \in Instructions, i.op \notin F_MEM, NEW npc \in Nat, NEW c, AllocatedTo(c, i, npc),
         NEW mis \in BOOLEAN, NEW st2, MarkedTo(c.station, st2, RUUNew, mis)
  PROVE  ArrivedInOrder(st2, c, i, npc, mis)
<1> DEFINE id == RUUNew
           F == FlightNow
           r == NewStation(i, npc)
           st1 == [station EXCEPT ![id] = r]
           F2 == F \cup {id}
           eq == event_queue
           rq == c.ready_queue
<1>1. /\ station \in [Ids -> StationSet] /\ inst_seq \in Nat /\ spec_mode \in BOOLEAN
      /\ id \in Ids /\ eq \in Seq(LinkSet)
  BY DEF IInv, CoreTypes, Ids
<1>2. FilledIn(r, station[id], i, npc, i.op, inst_seq + 1) /\ ~r.in_LSQ /\ ~r.ea_comp
  <2>1. /\ FilledIn(r, station[id], i, npc,
                    IF i.op \in F_MEM THEN "agen" ELSE i.op, inst_seq + 1)
        /\ ~r.in_LSQ /\ (r.ea_comp <=> i.op \in F_MEM)
    <3> HIDE DEF r
    <3> QED BY <1>1, NewlyFilled DEF r
  <2> HIDE DEF r
  <2> QED BY <2>1
<1>3. r \in StationSet
  <2> HIDE DEF r
  <2> QED BY <1>2 DEF FilledIn
<1>4. Filling(c, F2, {}, eq) /\ SameStations(st1, c.station)
  <2>1. c = Allocated(i, npc) /\ id = RUUNew /\ r = NewStation(i, npc)
        /\ F = Flight(RUUIds, RUU_num, LSQIds, LSQ_num) /\ F \in SUBSET Ids /\ id \notin F
    BY DEF AllocatedTo, FlightNow
  <2> HIDE DEF id, r, F
  <2> QED BY <1>1, <1>2, <1>3, <2>1, OperationAllocated
<1>5. /\ st2 \in [Ids -> StationSet] /\ rq \in Seq(LinkSet)
      /\ LinksOf(st2, F2, rq, <<>>, eq)
      /\ \A k \in Ids : k # id => SameStation(st1, st2, k)
      /\ RecoverSet(st1, st2, id, mis)
  <2>1. F2 \in SUBSET Ids /\ AllFilled(c, F2, eq)
    BY <1>1, <1>4 DEF AllFilled
  <2>2. MarkedInOrder(c, F2, eq, st1, Marked(c.station, id, mis), id, mis)
    <3>1. SameStations(st1, c.station) /\ id \in Ids /\ eq \in Seq(LinkSet) /\ mis \in BOOLEAN
      BY <1>1, <1>4
    <3> HIDE DEF id, st1, F2, eq
    <3> QED BY <2>1, <3>1, RecoveryMarked
  <2> HIDE DEF st1
  <2> QED BY <2>2 DEF MarkedTo, MarkedInOrder
<1>6. st1[id] = r /\ \A k \in Ids : k # id => st1[k] = station[k]
  BY <1>1, <1>3
<1>7. Arrived(st2, i, npc, mis)
  <2> HIDE DEF r, st1, id
  <2>1. \A k \in Ids : k # id => SameStation(station, st2, k)
    BY <1>5, <1>6 DEF SameStation
  <2>2. /\ st2[id].op = i.op /\ ~st2[id].in_LSQ /\ st2[id].PC = Fetched.regs_PC
        /\ st2[id].next_PC = npc /\ st2[id].seq = inst_seq + 1 /\ ~st2[id].ea_comp
        /\ (st2[id].spec_mode <=> spec_mode) /\ ~st2[id].completed
        /\ st2[id].recover_inst = mis
    BY <1>2, <1>5, <1>6 DEF RecoverSet, FilledIn
  <2> QED BY <2>1, <2>2 DEF Arrived, NewOperation, id
<1>8. c \in RenameStates
  BY <1>4 DEF Filling
<1>9. IF i.op \in F_MEM THEN FALSE ELSE TRUE
  OBVIOUS
<1> HIDE DEF r, st1
<1> QED BY <1>5, <1>7, <1>8, <1>9 DEF ArrivedInOrder

\* An access to memory arrives, with the computation of its address.
LEMMA AccessArrives ==
  ASSUME IInv, stage = "dispatch", FlightNow \in SUBSET Ids,
         RUUNew \in RUU, RUUNew \notin FlightNow, LSQNew \in LSQ, LSQNew \notin FlightNow, Fetched.regs_PC \in Nat,
         NEW i \in Instructions, i.op \in F_MEM, NEW npc \in Nat, NEW c, AllocatedTo(c, i, npc),
         NEW mis \in BOOLEAN, NEW st2, MarkedTo(c.station, st2, RUUNew, mis)
  PROVE  ArrivedInOrder(st2, c, i, npc, mis)
<1> DEFINE id == RUUNew
           F == FlightNow
           id2 == LSQNew
           r == NewStation(i, npc)
           a == NewAccessStation(i, npc)
           st1 == [station EXCEPT ![id] = r, ![id2] = a]
           F2 == F \cup {id, id2}
           eq == event_queue
           rq == c.ready_queue
<1>1. /\ station \in [Ids -> StationSet] /\ inst_seq \in Nat /\ spec_mode \in BOOLEAN
      /\ id \in Ids /\ id2 \in Ids /\ eq \in Seq(LinkSet)
  BY DEF IInv, CoreTypes, Ids
<1>2. /\ FilledIn(r, station[id], i, npc, "agen", inst_seq + 1) /\ ~r.in_LSQ /\ r.ea_comp
      /\ FilledIn(a, station[id2], i, npc, i.op, inst_seq + 2) /\ a.in_LSQ /\ ~a.ea_comp
  <2>1. /\ FilledIn(r, station[id], i, npc,
                    IF i.op \in F_MEM THEN "agen" ELSE i.op, inst_seq + 1)
        /\ ~r.in_LSQ /\ (r.ea_comp <=> i.op \in F_MEM)
        /\ FilledIn(a, station[id2], i, npc, i.op, inst_seq + 2) /\ a.in_LSQ /\ ~a.ea_comp
    <3> HIDE DEF r, a
    <3> QED BY <1>1, NewlyFilled DEF r, a
  <2> HIDE DEF r, a
  <2> QED BY <2>1
<1>3. r \in StationSet /\ a \in StationSet
  <2> HIDE DEF r, a
  <2> QED BY <1>2 DEF FilledIn
<1>4. id2 # id
  BY DEF RUU, LSQ
<1>5. Filling(c, F2, {}, eq) /\ SameStations(st1, c.station)
  <2>1. c = Allocated(i, npc) /\ id = RUUNew /\ r = NewStation(i, npc) /\ id2 = LSQNew /\ a = NewAccessStation(i, npc)
        /\ id \notin F /\ id2 \notin F /\ F \in SUBSET Ids
        /\ F = Flight(RUUIds, RUU_num, LSQIds, LSQ_num)
    BY DEF AllocatedTo, FlightNow
  <2> HIDE DEF id, r, id2, a, F
  <2> QED BY <1>1, <1>2, <1>3, <1>4, <2>1, AccessAllocated
<1>6. /\ st2 \in [Ids -> StationSet] /\ rq \in Seq(LinkSet)
      /\ LinksOf(st2, F2, rq, <<>>, eq)
      /\ \A k \in Ids : k # id => SameStation(st1, st2, k)
      /\ RecoverSet(st1, st2, id, mis)
  <2>1. F2 \in SUBSET Ids /\ AllFilled(c, F2, eq)
    BY <1>1, <1>5 DEF AllFilled
  <2>2. MarkedInOrder(c, F2, eq, st1, Marked(c.station, id, mis), id, mis)
    <3> HIDE DEF id, st1, F2, eq
    <3> QED BY <1>1, <1>5, <2>1, RecoveryMarked
  <2> HIDE DEF st1
  <2> QED BY <2>2 DEF MarkedTo, MarkedInOrder
<1>7. /\ st1[id] = r /\ st1[id2] = a
      /\ \A k \in Ids : k # id /\ k # id2 => st1[k] = station[k]
  <2> HIDE DEF r, a, id, id2
  <2> QED BY <1>1, <1>3, <1>4
<1>8. Arrived(st2, i, npc, mis)
  <2> HIDE DEF r, a, st1, id, id2
  <2>1. \A k \in Ids : k # id /\ k # id2 => SameStation(station, st2, k)
    BY <1>6, <1>7 DEF SameStation
  <2>2. /\ st2[id].op = "agen" /\ ~st2[id].in_LSQ /\ st2[id].PC = Fetched.regs_PC
        /\ st2[id].next_PC = npc /\ st2[id].seq = inst_seq + 1 /\ st2[id].ea_comp
        /\ (st2[id].spec_mode <=> spec_mode) /\ ~st2[id].completed
        /\ st2[id].recover_inst = mis
    BY <1>2, <1>6, <1>7 DEF RecoverSet, FilledIn
  <2>3. SameStation(st1, st2, id2)
    BY <1>1, <1>4, <1>6
  <2>4. /\ st2[id2].op = i.op /\ st2[id2].in_LSQ /\ st2[id2].seq = inst_seq + 2
        /\ ~st2[id2].ea_comp /\ ~st2[id2].recover_inst /\ (st2[id2].spec_mode <=> spec_mode)
    BY <1>2, <1>7, <2>3 DEF SameStation, FilledIn
  <2>5. "agen" \notin F_MEM
    BY DEF F_MEM
  <2> QED BY <2>1, <2>2, <2>4, <2>5 DEF Arrived, NewOperation, NewAccess, id, id2
<1>9. c \in RenameStates
  BY <1>5 DEF Filling
<1> HIDE DEF r, a, st1
<1> QED BY <1>6, <1>8, <1>9 DEF ArrivedInOrder

\* The stations in flight with those of an instruction.
LEMMA FlightGrows ==
  ASSUME NEW ruu, NEW ruu2, NEW n \in Nat, NEW n2, NEW e, n2 = n + 1, Longer(ruu, ruu2, n, e),
         NEW lsq, NEW lsq2, NEW m \in Nat, NEW m2, NEW e2, NEW mem \in BOOLEAN,
         RingGrows(lsq, lsq2, m, m2, e2, mem)
  PROVE  Flight(ruu2, n2, lsq2, m2) =
           Flight(ruu, n, lsq, m) \cup (IF mem THEN {e, e2} ELSE {e})
<1>1. {ruu2[k] : k \in 1..n2} = {ruu[k] : k \in 1..n} \cup {e}
  <2>1. n2 = n + 1 /\ ruu2[n + 1] = e /\ \A k \in 1..n : ruu2[k] = ruu[k]
    BY DEF Longer
  <2>2. \A k \in 1..n2 : k \in 1..n \/ k = n + 1
    BY <2>1
  <2>3. n + 1 \in 1..n2 /\ \A k \in 1..n : k \in 1..n2
    BY <2>1
  <2> QED BY <2>1, <2>2, <2>3
<1>2. CASE mem
  <2>1. m2 = m + 1 /\ lsq2[m + 1] = e2 /\ \A k \in 1..m : lsq2[k] = lsq[k]
    BY <1>2 DEF RingGrows, Longer
  <2>2. \A k \in 1..m2 : k \in 1..m \/ k = m + 1
    BY <2>1
  <2>3. m + 1 \in 1..m2 /\ \A k \in 1..m : k \in 1..m2
    BY <2>1
  <2>4. {lsq2[k] : k \in 1..m2} = {lsq[k] : k \in 1..m} \cup {e2}
    BY <2>1, <2>2, <2>3
  <2> QED BY <1>1, <1>2, <2>4 DEF Flight
<1>3. CASE ~mem
  <2>1. m2 = m /\ lsq2 = lsq
    BY <1>3 DEF RingGrows
  <2> QED BY <1>1, <1>3, <2>1 DEF Flight
<1> QED BY <1>2, <1>3

\* The new stations are of the kinds that their rings hold.
LEMMA KindsGrow ==
  ASSUME NEW lsq, NEW m, NEW lsq2, NEW m2, Kinds(station, lsq, m),
         NEW st2, NEW i, NEW npc, NEW mis, Arrived(st2, i, npc, mis),
         RUUNew \in RUU, LSQNew \in LSQ, mis => i.op \notin F_MEM,
         \A k \in 1..m2 : st2[lsq2[k]].in_LSQ
  PROVE  Kinds(st2, lsq2, m2)
<1>1. /\ \A id \in RUU : id \in Ids /\ id # LSQNew
      /\ \A id \in LSQ : id \in Ids /\ id # RUUNew
      /\ \A id \in Ids : id \in RUU \/ id \in LSQ
  BY DEF Ids, RUU, LSQ
<1>2. ASSUME NEW id \in RUU
      PROVE  /\ st2[id].in_LSQ => st2[id].op \in F_MEM
             /\ st2[id].op \notin F_MEM
             /\ st2[id].recover_inst => ~st2[id].ea_comp
  <2>1. CASE id = RUUNew
    BY <2>1 DEF Arrived, NewOperation
  <2>2. CASE id # RUUNew
    <3>1. SameStation(station, st2, id)
      BY <1>1, <2>2 DEF Arrived
    <3> QED BY <1>1, <3>1 DEF SameStation, Kinds
  <2> QED BY <2>1, <2>2
<1>3. ASSUME NEW id \in LSQ
      PROVE  /\ st2[id].in_LSQ => st2[id].op \in F_MEM
             /\ ~st2[id].recover_inst /\ ~st2[id].ea_comp
  <2>1. CASE id = LSQNew /\ i.op \in F_MEM
    BY <2>1 DEF Arrived
  <2>2. CASE ~(id = LSQNew /\ i.op \in F_MEM)
    <3>1. SameStation(station, st2, id)
      BY <1>1, <2>2 DEF Arrived
    <3> QED BY <1>1, <3>1 DEF SameStation, Kinds
  <2> QED BY <2>1, <2>2
<1> QED BY <1>1, <1>2, <1>3 DEF Kinds

(* i is the instruction at the head of the fetch queue.                    *)
IsFetched(i) == i = Inst(Fetched.regs_PC)

\* An instruction that is dispatched is the youngest station of its ring.
LEMMA InstructionArrives ==
  ASSUME IInv, CanDispatch, NEW i, IsFetched(i),
         NEW npc \in NextPCs(Fetched.regs_PC), DispatchOp(i, npc),
         UNCHANGED <<programVars, stage, RUU_head, LSQ_head, event_queue, issueVars,
                     fetch_data, uncached, branch_cnt, busy>>
  PROVE  /\ FetchInv' /\ RingTypes'
         /\ FrontPC = Fetched.regs_PC /\ FrontPC' \in PCs
         /\ Mispredicted(i, npc) => i.op \notin F_MEM /\ ~spec_mode
         /\ ~spec_mode /\ ~Mispredicted(i, npc) => FrontPC' = npc
         /\ Arrived(station', i, npc, Mispredicted(i, npc))
         /\ RUU_num' = RUU_num + 1 /\ Longer(RUUIds, RUUIds', RUU_num, RUUNew) /\ RUUNew \in RUU
         /\ RingGrows(LSQIds, LSQIds', LSQ_num, LSQ_num', LSQNew, i.op \in F_MEM)
         /\ LSQNew \in LSQ /\ LSQNew \notin Flight(RUUIds, RUU_num, LSQIds, LSQ_num)
         /\ LinksInv'
         /\ station' \in [Ids -> StationSet] /\ ready_queue' \in Seq(LinkSet)
         /\ rslink_free' \in Int
         /\ create_vector' \in [Regs \cup {DTMP} -> CVSet]
         /\ spec_create_vector' \in [Regs \cup {DTMP} -> CVSet]
         /\ use_spec_cv' \in SUBSET (Regs \cup {DTMP})
<1> DEFINE mis == Mispredicted(i, npc)
           mem == i.op \in F_MEM
           F == Flight(RUUIds, RUU_num, LSQIds, LSQ_num)
           pc == Fetched.regs_PC
<1>1. /\ fetch_num # 0 /\ stage = "dispatch" /\ RUU_num < RUU_size /\ LSQ_num < LSQ_size
  BY DEF CanDispatch
<1>2. FrontPC = pc /\ pc \in PCs /\ text' = text /\ i = Inst(pc)
  <2>1. fetch_num > 0
    BY <1>1, WidthsAssumption DEF IInv, FetchInv, FetchOf
  <2>2. FrontPC \in PCs
    BY DEF IInv, Structure, StructureOf, Flow
  <2> QED BY <2>1, <2>2 DEF FrontPC, programVars, IsFetched
<1>3. /\ npc \in PCs /\ PCs \subseteq Nat /\ i \in Instructions \cup {NOP}
  BY <1>2, TextFacts DEF IInv, CoreTypes
<1>4. i \in Instructions
  BY <1>3 DEF DispatchOp, NOP
<1>5. /\ Consume(i, npc) /\ recover_PC' = IF mis THEN npc ELSE recover_PC
      /\ RUU_tail' = (RUU_tail + 1) % RUU_size /\ RUU_num' = RUU_num + 1
      /\ LSQ_tail' = (LSQ_tail + (IF mem THEN 1 ELSE 0)) % LSQ_size
      /\ LSQ_num' = LSQ_num + (IF mem THEN 1 ELSE 0)
      /\ \E c : /\ c = Allocated(i, npc)
                /\ station' = [c.station EXCEPT ![RUUNew].recover_inst = mis]
                /\ ready_queue' = c.ready_queue /\ rslink_free' = c.free
                /\ create_vector' = c.cv /\ spec_create_vector' = c.spec_cv
                /\ use_spec_cv' = c.use
  BY DEF DispatchOp
<1>6. recover_PC' \in PCs
  BY <1>3, <1>5 DEF IInv, FetchInv, FetchOf
<1>7. /\ FetchInv' /\ FrontPC' = IF Redirects(i, npc) THEN npc ELSE Fetched.pred_PC
      /\ i.op \notin F_CTRL => Fetched.pred_PC = npc /\ ~Redirects(i, npc)
  <2>1. i = Inst(FrontPC) /\ npc \in NextPCs(FrontPC) /\ fetch_data' = fetch_data
    BY <1>2
  <2> QED BY <1>2, <1>5, <1>6, <2>1, Consumed
<1>8. FrontPC' \in PCs
  <2>1. fetch_num' > 0 \/ ~(fetch_num' > 0)
    OBVIOUS
  <2>2. CASE Redirects(i, npc)
    BY <1>3, <1>7, <2>2
  <2>3. CASE ~Redirects(i, npc)
    <3>1. fetch_data[fetch_head] \in [regs_PC : PCs, pred_PC : PCs]
      BY DEF IInv, FetchInv, FetchOf
    <3>2. Fetched.pred_PC \in PCs
      BY <3>1 DEF Fetched
    <3> QED BY <1>7, <2>3, <3>2
  <2> QED BY <2>2, <2>3
<1>9. /\ mis => ~mem /\ ~spec_mode
      /\ ~spec_mode /\ ~mis => FrontPC' = npc
  <2>1. mem => i.op \notin F_CTRL
    BY DEF F_MEM, F_CTRL
  <2> QED BY <1>7, <2>1 DEF Mispredicted
<1>10. /\ RingTypes'
       /\ RUUNew \in RUU /\ Longer(RUUIds, RUUIds', RUU_num, RUUNew)
       /\ LSQNew \in LSQ
       /\ IF mem THEN Longer(LSQIds, LSQIds', LSQ_num, LSQNew) ELSE LSQIds' = LSQIds
       /\ \A k \in 1..LSQ_num : LSQIds[k] # LSQNew
       /\ LSQ_num' = IF mem THEN LSQ_num + 1 ELSE LSQ_num
  <2>1. RingTypes /\ RUU_size \in Nat \ {0} /\ LSQ_size \in Nat \ {0}
    BY SizesAssumption DEF IInv
  <2>2. LSQ_tail \in 0..LSQ_size - 1 /\ LSQ_num \in Nat
    BY <2>1 DEF RingTypes
  <2>3. LSQ_num' = IF mem THEN LSQ_num + 1 ELSE LSQ_num
    BY <1>5, <2>2
  <2>4. LSQ_tail' = IF mem THEN Place(LSQ_tail, 1, LSQ_size) ELSE LSQ_tail
    <3>1. LSQ_tail % LSQ_size = LSQ_tail
      BY <2>1, <2>2, SmallRemainder
    <3>2. LSQ_tail + 0 = LSQ_tail
      BY <2>2
    <3>3. CASE mem
      BY <1>5, <3>3 DEF Place
    <3>4. CASE ~mem
      BY <1>5, <3>1, <3>2, <3>4
    <3> QED BY <3>3, <3>4
  <2>5. RUU_tail' = Place(RUU_tail, 1, RUU_size) /\ RUU_num' = RUU_num + 1
    BY <1>5 DEF Place
  <2>6. mem \in BOOLEAN
    OBVIOUS
  <2> HIDE DEF mem
  <2> QED BY <1>1, <2>1, <2>3, <2>4, <2>5, <2>6, RingsGrow
<1>11. F \in SUBSET Ids /\ RUUNew \notin F /\ LSQNew \notin F
  <2>1. /\ F \in SUBSET Ids /\ Places(RUUIds, RUU_num, RUU) /\ Places(LSQIds, LSQ_num, LSQ)
    BY RingsPlaced DEF IInv
  <2>2. \A id \in RUU : id \notin LSQ
    BY DEF RUU, LSQ
  <2> QED BY <1>10, <2>1, <2>2 DEF Flight, Places, Longer
<1>12. RingGrows(LSQIds, LSQIds', LSQ_num, LSQ_num', LSQNew, mem)
  BY <1>5, <1>10 DEF RingGrows
<1>13. PICK c : /\ AllocatedTo(c, i, npc) /\ MarkedTo(c.station, station', RUUNew, mis)
                /\ ready_queue' = c.ready_queue /\ rslink_free' = c.free
                /\ create_vector' = c.cv /\ spec_create_vector' = c.spec_cv
                /\ use_spec_cv' = c.use
  BY <1>5 DEF AllocatedTo, MarkedTo, Marked
<1> DEFINE new == IF mem THEN {RUUNew, LSQNew} ELSE {RUUNew}
           st2 == station'
<1>14. ArrivedInOrder(st2, c, i, npc, mis)
  <2>1. /\ mis \in BOOLEAN
        /\ npc \in Nat /\ pc \in Nat /\ MarkedTo(c.station, st2, RUUNew, mis)
    BY <1>2, <1>3, <1>13 DEF Mispredicted, IInv, CoreTypes
  <2> HIDE DEF mis, st2
  <2>2. /\ RUUNew \in RUU /\ LSQNew \in LSQ /\ AllocatedTo(c, i, npc)
        /\ FlightNow \in SUBSET Ids /\ RUUNew \notin FlightNow /\ LSQNew \notin FlightNow
    BY <1>10, <1>11, <1>13 DEF FlightNow
  <2>3. CASE i.op \in F_MEM
    BY <1>1, <1>4, <2>1, <2>2, <2>3, AccessArrives
  <2>4. CASE i.op \notin F_MEM
    BY <1>1, <1>4, <2>1, <2>2, <2>4, OperationArrives
  <2> QED BY <2>3, <2>4
<1>15. Flight(RUUIds', RUU_num', LSQIds', LSQ_num') = F \cup new
  <2> DEFINE ruu2 == RUUIds'
             n2 == RUU_num'
             lsq2 == LSQIds'
             m2 == LSQ_num'
             ruu == RUUIds
             lsq == LSQIds
             n == RUU_num
             m == LSQ_num
             e == RUUNew
             e2 == LSQNew
  <2>1. n2 = n + 1 /\ Longer(ruu, ruu2, n, e) /\ RingGrows(lsq, lsq2, m, m2, e2, mem)
    BY <1>5, <1>10, <1>12
  <2>2. n \in Nat /\ m \in Nat
    BY RingsPlaced DEF IInv
  <2>3. mem \in BOOLEAN
    OBVIOUS
  <2> HIDE DEF ruu2, n2, lsq2, m2, ruu, lsq, n, m, e, e2, mem
  <2>4. Flight(ruu2, n2, lsq2, m2) = Flight(ruu, n, lsq, m) \cup (IF mem THEN {e, e2} ELSE {e})
    BY <2>1, <2>2, <2>3, FlightGrows
  <2> QED BY <2>4 DEF ruu2, n2, lsq2, m2, ruu, lsq, n, m, e, e2
<1>16. LinksInv'
  <2>1. node' = <<>> /\ event_queue' = event_queue
    BY <1>1 DEF IInv, LinksInv, issueVars
  <2> HIDE DEF F, new
  <2> QED
    BY <1>13, <1>14, <1>15, <2>1 DEF LinksInv, ArrivedInOrder, FlightNow, F, new
<1>17. /\ c.free \in Int /\ c.cv \in [Regs \cup {DTMP} -> CVSet]
       /\ c.spec_cv \in [Regs \cup {DTMP} -> CVSet] /\ c.use \in SUBSET (Regs \cup {DTMP})
  BY <1>14 DEF RenameStates, ArrivedInOrder
<1>18. /\ Arrived(st2, i, npc, mis) /\ st2 \in [Ids -> StationSet]
       /\ ready_queue' \in Seq(LinkSet)
  BY <1>13, <1>14 DEF ArrivedInOrder
<1>19. /\ rslink_free' \in Int /\ create_vector' \in [Regs \cup {DTMP} -> CVSet]
       /\ spec_create_vector' \in [Regs \cup {DTMP} -> CVSet]
       /\ use_spec_cv' \in SUBSET (Regs \cup {DTMP})
  BY <1>13, <1>17
<1> QED BY <1>2, <1>5, <1>7, <1>8, <1>9, <1>10, <1>11, <1>12, <1>16, <1>18, <1>19

\* A dispatched operation keeps the invariant.
LEMMA OpKeeps ==
  ASSUME IInv, CanDispatch, NEW i, IsFetched(i),
         NEW npc \in NextPCs(Fetched.regs_PC), DispatchOp(i, npc),
         UNCHANGED <<programVars, stage, RUU_head, LSQ_head, event_queue, issueVars,
                     fetch_data, uncached, branch_cnt, busy>>
  PROVE  IInv' /\ OldestPC' = OldestPC
<1> DEFINE st == station
           st2 == station'
           n == RUU_num
           n2 == RUU_num'
           m == LSQ_num
           m2 == LSQ_num'
           ruu == RUUIds
           ruu2 == RUUIds'
           lsq == LSQIds
           lsq2 == LSQIds'
           mem == i.op \in F_MEM
           mis == Mispredicted(i, npc)
           top == inst_seq
           top2 == inst_seq'
           spec == spec_mode
           spec2 == spec_mode'
           pc == recover_PC
           pc2 == recover_PC'
           front == FrontPC
           front2 == FrontPC'
           e == RUUNew
           e2 == LSQNew
<1>1. /\ FetchInv' /\ RingTypes' /\ LinksInv'
      /\ front = Fetched.regs_PC /\ front2 \in PCs
      /\ mis => ~mem /\ ~spec
      /\ ~spec /\ ~mis => front2 = npc
  BY InstructionArrives
<1>2. /\ Arrived(st2, i, npc, mis)
      /\ n2 = n + 1 /\ Longer(ruu, ruu2, n, e) /\ e \in RUU
      /\ RingGrows(lsq, lsq2, m, m2, e2, mem)
      /\ e2 \in LSQ /\ e2 \notin Flight(ruu, n, lsq, m)
  BY InstructionArrives
<1>3. /\ station' \in [Ids -> StationSet] /\ ready_queue' \in Seq(LinkSet)
      /\ rslink_free' \in Int
      /\ create_vector' \in [Regs \cup {DTMP} -> CVSet]
      /\ spec_create_vector' \in [Regs \cup {DTMP} -> CVSet]
      /\ use_spec_cv' \in SUBSET (Regs \cup {DTMP})
  BY InstructionArrives
<1>4. /\ inst_seq' = inst_seq + 1 + (IF mem THEN 1 ELSE 0)
      /\ spec_mode' = (spec_mode \/ mis)
      /\ recover_PC' = IF mis THEN npc ELSE recover_PC
  BY DEF DispatchOp
<1>5. /\ st \in [Ids -> StationSet] /\ inst_seq \in Nat /\ spec_mode \in BOOLEAN
      /\ mis \in BOOLEAN /\ text' = text
  BY DEF IInv, CoreTypes, Mispredicted, programVars
<1>6. mem \in BOOLEAN
  OBVIOUS
<1>7. /\ Places(ruu, n, RUU) /\ Places(lsq, m, LSQ) /\ n \in Nat /\ m \in Nat
  BY RingsPlaced DEF IInv
<1>8. StructureOf(st, ruu, n, lsq, m, top, spec, pc, front)
  BY DEF IInv, Structure
<1>9. npc \in NextPCs(front) /\ npc \in Nat
  <2>1. Fetched.regs_PC \in PCs
    BY <1>1, <1>8 DEF StructureOf, Flow
  <2> QED BY <1>1, <2>1, TextFacts DEF IInv, CoreTypes
<1>10. Growth(st, st2, ruu, n, ruu2, n2, e, lsq, m, lsq2, m2, e2, mem)
  <2>1. \A k \in 1..n : ruu[k] # e2
    BY <1>2 DEF Flight
  <2>2. \A k \in 1..m : lsq[k] # e2
    BY <1>2 DEF Flight
  <2>3. \A k \in 1..m : lsq[k] # e
    <3>1. \A id \in RUU : id \notin LSQ
      BY DEF RUU, LSQ
    <3> QED BY <1>2, <1>7, <3>1 DEF Places
  <2>4. \A k \in Ids : k # e /\ k # e2 => SameStation(st, st2, k)
    BY <1>2 DEF Arrived
  <2> QED BY <1>2, <2>1, <2>2, <2>3, <2>4 DEF Growth
<1>11. Advance(top, top2, spec, spec2, pc, pc2, front, front2, npc, mem, mis)
  <2>1. top2 = IF mem THEN top + 2 ELSE top + 1
    BY <1>4, <1>5
  <2>2. ~spec /\ ~mis => Path(npc, front2)
    BY <1>1, <1>9 DEF Path
  <2> QED BY <1>1, <1>4, <1>9, <2>1, <2>2 DEF Advance
<1>12. NewOperation(st2, e, top, spec, front, npc, mem, mis)
  BY <1>1, <1>2 DEF Arrived
<1>13. AccessComes(st2, e2, top, spec, mem)
  BY <1>2 DEF Arrived, AccessComes
<1>14. spec2 \in BOOLEAN /\ top2 \in Nat
  BY <1>4, <1>5, <1>6
<1>15. RingsOf(st2, ruu2, n2, lsq2, m2, top2, spec2, pc2, front2)
  <2> HIDE DEF st, st2, n, n2, m, m2, ruu, ruu2, lsq, lsq2, mem, mis, top, top2, spec, spec2,
               pc, pc2, front, front2, e, e2
  <2>1. top \in Nat /\ spec \in BOOLEAN
    BY <1>5 DEF top, spec
  <2> QED
    BY <1>5, <1>6, <1>7, <1>8, <1>10, <1>11, <1>12, <1>13, <1>14, <2>1, NewestArrives
<1>16. Kinds(st2, lsq2, m2)
  <2>1. Kinds(station, lsq, m) /\ (\A k \in 1..m2 : st2[lsq2[k]].in_LSQ)
    BY <1>8, <1>15 DEF StructureOf, RingsOf, AllAccesses
  <2>2. mis => i.op \notin F_MEM
    BY <1>1
  <2> HIDE DEF st2, lsq, m, lsq2, m2, mis
  <2> QED BY <1>2, <2>1, <2>2, KindsGrow
<1>17. Structure'
  <2>1. StructureOf(st2, ruu2, n2, lsq2, m2, top2, spec2, pc2, front2)
    BY <1>15, <1>16 DEF StructureOf, RingsOf
  <2> QED BY <1>5, <2>1, StructurePrimed
<1>18. CoreTypes'
  <2>1. Program'
    BY ProgramFixed DEF IInv, CoreTypes
  <2>2. node' = node /\ stage' = stage /\ event_queue' = event_queue /\ busy' = busy
    BY DEF issueVars
  <2> QED BY <1>3, <1>14, <2>1, <2>2 DEF IInv, CoreTypes
<1>19. EventsInOrder'
  BY DEF IInv, EventsInOrder
<1>20. OldestPC' = OldestPC
  <2>1. Oldest \in Ids /\ Oldest' = Oldest /\ n2 > 0 /\ RUU_size \in Nat \ {0}
    BY <1>2, <1>7, SizesAssumption DEF IInv, RingTypes, Oldest, Ids, RUU
  <2>2. CASE n > 0
    <3>1. ruu[1] = Oldest /\ 1 \in 1..n
      BY <1>7, <2>2, OldestFirst DEF IInv
    <3>2. Oldest # e /\ Oldest # e2
      BY <1>2, <1>10, <3>1 DEF Growth, Longer
    <3>3. SameStation(st, st2, Oldest)
      BY <1>10, <2>1, <3>2 DEF Growth
    <3> QED BY <2>1, <2>2, <3>3 DEF SameStation, OldestPC
  <2>3. CASE ~(n > 0)
    <3>1. n = 0
      BY <1>7, <2>3
    <3> DEFINE h == RUU_head
    <3>2. RUU_tail = (h + 0) % RUU_size /\ h \in 0..RUU_size - 1
      BY <3>1 DEF IInv, RingTypes
    <3>3. RUU_tail = h
      <4> HIDE DEF h
      <4>1. h + 0 = h
        BY <2>1, <3>2
      <4> QED BY <2>1, <3>2, <4>1, SmallRemainder
    <3>4. Oldest = e
      BY <3>3 DEF Oldest, RUUNew
    <3>5. st2[e].PC = front
      BY <1>12 DEF NewOperation
    <3> QED BY <2>1, <2>3, <3>4, <3>5 DEF OldestPC, FrontPC
  <2> QED BY <2>2, <2>3
<1> QED BY <1>1, <1>17, <1>18, <1>19, <1>20 DEF IInv

\* Dispatch keeps the invariant.
LEMMA DispatchKeeps ==
  ASSUME IInv, ruu_dispatch
  PROVE  IInv' /\ (OldestPC' = OldestPC \/ Retires)
<1> DEFINE i == Inst(Fetched.regs_PC)
<1>1. /\ CanDispatch
      /\ UNCHANGED <<programVars, stage, RUU_head, LSQ_head, event_queue, issueVars,
                     fetch_data, uncached, branch_cnt, busy>>
      /\ \E npc \in NextPCs(Fetched.regs_PC) : DispatchNop(i, npc) \/ DispatchOp(i, npc)
  BY DEF ruu_dispatch
<1>2. PICK npc \in NextPCs(Fetched.regs_PC) : DispatchNop(i, npc) \/ DispatchOp(i, npc)
  BY <1>1
<1>3. CASE DispatchNop(i, npc)
  <2>1. i = Inst(Fetched.regs_PC)
    OBVIOUS
  <2> HIDE DEF i
  <2> QED BY <1>1, <1>3, <2>1, NopKeeps
<1>4. CASE DispatchOp(i, npc)
  <2>1. IsFetched(i)
    BY DEF IsFetched
  <2> HIDE DEF i
  <2> QED BY <1>1, <1>4, <2>1, OpKeeps
<1> QED BY <1>2, <1>3, <1>4

-----------------------------------------------------------------------------
(* The invariant holds, and what follows from it.                          *)

\* The core starts without stations in flight, to fetch the first instruction.
LEMMA StartsInOrder ==
  ASSUME Init
  PROVE  IInv
<1> USE DEF Init
<1>1. Program /\ RUU_size \in Nat \ {0} /\ LSQ_size \in Nat \ {0} /\ ruu_ifq_size \in Nat \ {0}
  BY SizesAssumption, WidthsAssumption DEF Program
<1>2. FreeStation \in StationSet
  <2>1. <<NA, NA>> \in [1..2 -> Registers]
    BY DEF Registers
  <2>2. << <<>>, <<>> >> \in [1..2 -> Seq(OperandSet)]
    BY NoChains
  <2>3. <<FALSE, FALSE, FALSE>> \in [1..3 -> BOOLEAN]
    <3> DEFINE no == FALSE
    <3>1. no \in BOOLEAN
      OBVIOUS
    <3> HIDE DEF no
    <3>2. <<no, no, no>> \in [1..3 -> BOOLEAN]
      BY <3>1
    <3> QED BY <3>2 DEF no
  <2>4. "add" \in DOMAIN FUClass
    BY DEF FUClass
  <2> QED BY <2>1, <2>2, <2>3, <2>4 DEF FreeStation, StationSet
<1>3. ASSUME NEW id \in Ids
      PROVE  /\ station[id].op = "add" /\ ~station[id].in_LSQ /\ ~station[id].ea_comp
             /\ ~station[id].recover_inst
             /\ \A j \in 1..2 : station[id].odep_list[j] = <<>>
  <2>1. \A j \in 1..2 : << <<>>, <<>> >>[j] = <<>>
    OBVIOUS
  <2> QED BY <2>1 DEF FreeStation
<1>4. CoreTypes
  <2>1. station \in [Ids -> StationSet]
    BY <1>2
  <2>2. /\ create_vector \in [Regs \cup {DTMP} -> CVSet]
        /\ spec_create_vector \in [Regs \cup {DTMP} -> CVSet]
        /\ use_spec_cv \in SUBSET (Regs \cup {DTMP})
    BY DEF CVSet
  <2>3. rslink_free \in Int
    BY LinksAssumption
  <2>4. busy \in [DOMAIN fu_pool -> Nat]
    OBVIOUS
  <2>5. /\ event_queue \in Seq(LinkSet) /\ ready_queue \in Seq(LinkSet)
        /\ node \in Seq(LinkSet)
    OBVIOUS
  <2>6. stage = "commit" /\ inst_seq \in Nat /\ spec_mode \in BOOLEAN
    OBVIOUS
  <2> HIDE DEF Init
  <2> QED BY <1>1, <2>1, <2>2, <2>3, <2>4, <2>5, <2>6 DEF CoreTypes
<1>5. \A size \in Nat \ {0} : 0 \in 0..size - 1 /\ (0 + 0) % size = 0
  OBVIOUS
<1>6. RingTypes
  BY <1>1, <1>5 DEF RingTypes
<1>7. 1 \in PCs
  BY <1>1, TextFacts DEF PCs, Bogus
<1>8. FetchInv
  <2>1. fetch_data \in [0..ruu_ifq_size - 1 -> [regs_PC : PCs, pred_PC : PCs]]
    BY <1>7
  <2> QED BY <1>1, <1>5, <1>7, <2>1 DEF FetchInv, FetchOf, FetchedPath
<1>9. Flight(RUUIds, RUU_num, LSQIds, LSQ_num) = {}
  BY DEF Flight
<1>10. LinksInv
  <2>1. /\ ReadyLinks(station, {}, <<>>, <<>>) /\ EventLinks(station, {}, <<>>)
        /\ Progress(station, {}, {})
    BY DEF ReadyLinks, EventLinks, Progress, Sound, Single
  <2>2. ChainLinks(station, {}, Ids)
    BY <1>3 DEF ChainLinks, Sound
  <2> QED BY <1>9, <2>1, <2>2 DEF LinksInv, LinksOf
<1>11. EventsInOrder
  BY DEF EventsInOrder
<1>12. Structure
  <2>1. Kinds(station, LSQIds, LSQ_num)
    BY <1>3 DEF Kinds, Ids, F_MEM
  <2>2. Order(station, RUUIds, RUU_num, LSQIds, LSQ_num, inst_seq)
    BY DEF Order, InOrder
  <2>3. Pairs(station, RUUIds, RUU_num, LSQIds, LSQ_num)
    BY DEF Pairs
  <2>4. Contained(station, RUUIds, RUU_num, LSQIds, LSQ_num, spec_mode, recover_PC)
    BY DEF Contained
  <2>5. Flow(station, RUUIds, RUU_num, spec_mode, FrontPC)
    BY <1>7 DEF Flow, FrontPC
  <2> QED BY <2>1, <2>2, <2>3, <2>4, <2>5 DEF Structure, StructureOf
<1> QED BY <1>4, <1>6, <1>8, <1>10, <1>11, <1>12 DEF IInv

\* A step that changes nothing keeps the invariant.
LEMMA NothingChanges ==
  ASSUME IInv, UNCHANGED vars
  PROVE  IInv' /\ OldestPC' = OldestPC
<1>1. /\ UNCHANGED <<programVars, stage, station, ruuVars, lsqVars, rslink_free,
                     event_queue, ready_queue, issueVars, cvVars, inst_seq, last_op,
                     specVars, ifqVars, fetchVars, count, branch_cnt, busy>>
  BY DEF vars
<1>2. CoreTypes'
  <2>1. Program'
    BY <1>1, ProgramFixed DEF IInv, CoreTypes, fetchVars
  <2> QED BY <1>1, <2>1 DEF IInv, CoreTypes, cvVars, specVars, issueVars
<1>3. FetchInv' /\ FrontPC' = FrontPC
  BY <1>1, FetchStays DEF IInv, programVars, fetchVars, specVars
<1>4. RingTypes' /\ Structure' /\ OldestPC' = OldestPC
  BY <1>1, <1>3, StationsStay DEF programVars
<1>5. LinksInv'
  <2>1. RUUIds' = RUUIds /\ RUU_num' = RUU_num /\ LSQIds' = LSQIds /\ LSQ_num' = LSQ_num
    BY <1>1 DEF RUUIds, LSQIds, ruuVars, lsqVars
  <2> QED BY <1>1, <2>1 DEF IInv, LinksInv, issueVars
<1>6. EventsInOrder'
  BY <1>1 DEF IInv, EventsInOrder
<1> QED BY <1>2, <1>3, <1>4, <1>5, <1>6 DEF IInv

\* Every step keeps the invariant, and retires no more than what is oldest.
LEMMA StepKeeps ==
  ASSUME IInv, Next
  PROVE  IInv' /\ (OldestPC' = OldestPC \/ (Retires /\ stage # "exited" /\ stage' # "exited"))
<1>1. CASE ruu_commit
  BY <1>1, CommitKeeps DEF ruu_commit, CanCommit
<1>2. CASE ruu_release_fu
  BY <1>2, ReleaseKeeps
<1>3. CASE ruu_writeback
  BY <1>3, WritebackKeeps
<1>4. CASE ruu_writeback_done
  BY <1>4, WritebackEndKeeps
<1>5. CASE lsq_refresh
  BY <1>5, RefreshKeeps
<1>6. CASE ruu_issue
  BY <1>6, IssueKeeps
<1>7. CASE ruu_issue_done
  BY <1>7, IssueEndKeeps
<1>8. CASE ruu_dispatch
  BY <1>8, DispatchKeeps DEF ruu_dispatch, CanDispatch
<1>9. CASE ruu_dispatch_exit \/ ruu_dispatch_done
  BY <1>9, DispatchEndKeeps
<1>10. CASE ruu_fetch
  BY <1>10, FetchKeeps
<1>11. CASE ruu_fetch_miss \/ ruu_fetch_done
  BY <1>11, CycleEndKeeps
<1>12. CASE Exited
  BY <1>12, NothingChanges DEF Exited
<1> QED
  BY <1>1, <1>2, <1>3, <1>4, <1>5, <1>6, <1>7, <1>8, <1>9, <1>10, <1>11, <1>12 DEF Next

\* The core keeps the invariant.
THEOREM Invariant == Spec => []IInv
<1>1. Init => IInv
  BY StartsInOrder
<1>2. IInv /\ [Next]_vars => IInv'
  BY StepKeeps, NothingChanges
<1> QED BY <1>1, <1>2, PTL DEF Spec

\* A remainder of a place and a count that do not exceed the size.
LEMMA PlaceBound ==
  ASSUME NEW size \in Nat \ {0}, NEW h \in 0..size - 1, NEW n \in 0..size
  PROVE  (h + n) % size \in 0..size - 1
<1>1. (h + n) % size = IF h + n < size THEN h + n ELSE h + n - size
  OBVIOUS
<1> QED BY <1>1

\* The core keeps its types: the rings, the queues of links, the modes.
THEOREM CoreTypesKept == Spec => []TypeOK
<1>1. IInv => TypeOK
  <2>1. SUFFICES ASSUME IInv PROVE TypeOK
    OBVIOUS
  <2>2. RUU_tail \in 0..RUU_size - 1 /\ LSQ_tail \in 0..LSQ_size - 1
    BY <2>1, PlaceBound, SizesAssumption DEF IInv, RingTypes
  <2>3. fetch_tail \in 0..ruu_ifq_size - 1
    BY <2>1, PlaceBound, WidthsAssumption DEF IInv, FetchInv, FetchOf
  <2>4. ASSUME NEW id \in Ids PROVE station[id].op \in Ops /\ station[id].tag \in Nat
    BY <2>1, StationFields DEF IInv, CoreTypes, Ops
  <2>5. \A u \in DOMAIN fu_pool : busy[u] \in Nat
    BY <2>1 DEF IInv, CoreTypes
  <2> QED BY <2>1, <2>2, <2>3, <2>4, <2>5
       DEF IInv, CoreTypes, Program, RingTypes, FetchInv, FetchOf, TypeOK
<1> QED BY <1>1, Invariant, PTL

\* The rings hold what their counts say, and the k-th computation of an
\* address belongs to the k-th access: commit and recovery take both rings
\* back in step.
THEOREM RingsKeptInStep == Spec => []RingsInStep
<1>1. IInv => RingsInStep
  <2>1. SUFFICES ASSUME IInv PROVE RingsInStep
    OBVIOUS
  <2> DEFINE st == station
             n == RUU_num
             m == LSQ_num
             ruu == RUUIds
             lsq == LSQIds
             top == inst_seq
  <2>2. /\ Places(ruu, n, RUU) /\ Places(lsq, m, LSQ) /\ n \in Nat /\ m \in Nat
        /\ DOMAIN ruu = 1..n
    BY <2>1, RingsPlaced DEF IInv
  <2>3. /\ st \in [Ids -> StationSet] /\ Kinds(st, lsq, m)
        /\ Order(st, ruu, n, lsq, m, top) /\ Pairs(st, ruu, n, lsq, m)
    BY <2>1 DEF IInv, CoreTypes, Structure, StructureOf
  <2>4. Agens = AgensUpTo(st, ruu, n, n)
    BY <2>2 DEF Agens, AgensUpTo
  <2>5. ASSUME NEW a \in 1..n
        PROVE  {b \in Agens : b <= a} = AgensUpTo(st, ruu, n, a)
    BY <2>2 DEF Agens, AgensUpTo
  <2>6. /\ Cardinality(AgensUpTo(st, ruu, n, n)) = m
        /\ \A k \in 1..m : \E a \in 1..n :
              /\ st[ruu[a]].ea_comp /\ Successor(st, ruu[a], lsq[k])
              /\ Cardinality(AgensUpTo(st, ruu, n, a)) = k
    <3> HIDE DEF st, n, m, ruu, lsq, top
    <3> QED BY <2>2, <2>3, AccessRanks
  <2>7. ASSUME NEW k \in 1..LSQ_num
        PROVE  /\ station[LSQIds[k]].in_LSQ
               /\ \E a \in Agens :
                    /\ Cardinality({b \in Agens : b <= a}) = k
                    /\ station[LSQIds[k]].seq = station[RUUIds[a]].seq + 1
    <3>1. PICK a \in 1..n : /\ st[ruu[a]].ea_comp /\ Successor(st, ruu[a], lsq[k])
                            /\ Cardinality(AgensUpTo(st, ruu, n, a)) = k
      BY <2>6
    <3>2. a \in Agens
      BY <2>2, <3>1 DEF Agens
    <3>3. Cardinality({b \in Agens : b <= a}) = k
      BY <2>5, <3>1
    <3>4. station[LSQIds[k]].seq = station[RUUIds[a]].seq + 1
      BY <3>1 DEF Successor
    <3> QED BY <2>3, <3>2, <3>3, <3>4 DEF Kinds
  <2> QED
    BY <2>1, <2>4, <2>6, <2>7 DEF IInv, RingTypes, FetchInv, FetchOf, RingsInStep
<1> QED BY <1>1, Invariant, PTL

-----------------------------------------------------------------------------
(* The core implements the machine that executes one instruction after the *)
(* other.                                                                  *)

\* A step either ends the program or goes from stage to stage; the text stays.
LEMMA StageSteps ==
  ASSUME Next
  PROVE  /\ text' = text
         /\ ruu_dispatch_exit \/ (stage' = "exited" <=> stage = "exited")
<1>1. CASE ruu_commit
  BY <1>1 DEF ruu_commit, programVars
<1>2. CASE ruu_release_fu
  BY Zenon, <1>2 DEF ruu_release_fu, programVars
<1>3. CASE ruu_writeback
  BY <1>3 DEF ruu_writeback, programVars
<1>4. CASE ruu_writeback_done
  BY <1>4 DEF ruu_writeback_done, programVars
<1>5. CASE lsq_refresh
  BY <1>5 DEF lsq_refresh, programVars
<1>6. CASE ruu_issue
  BY <1>6 DEF ruu_issue, programVars
<1>7. CASE ruu_issue_done
  BY <1>7 DEF ruu_issue_done, programVars
<1>8. CASE ruu_dispatch
  BY <1>8 DEF ruu_dispatch, programVars
<1>9. CASE ruu_dispatch_exit
  BY <1>9 DEF ruu_dispatch_exit, programVars
<1>10. CASE ruu_dispatch_done
  BY <1>10 DEF ruu_dispatch_done, programVars
<1>11. CASE ruu_fetch
  BY <1>11 DEF ruu_fetch, programVars
<1>12. CASE ruu_fetch_miss
  BY <1>12 DEF ruu_fetch_miss, CanFetch, EndCycle, programVars
<1>13. CASE ruu_fetch_done
  BY <1>13 DEF ruu_fetch_done, EndCycle, programVars
<1>14. CASE Exited
  BY <1>14 DEF Exited, vars, programVars
<1> QED
  BY <1>1, <1>2, <1>3, <1>4, <1>5, <1>6, <1>7, <1>8, <1>9, <1>10, <1>11, <1>12, <1>13,
     <1>14 DEF Next

\* The exit is dispatched alone: it is what is oldest.
LEMMA ExitIsOldest ==
  ASSUME IInv, ruu_dispatch_exit
  PROVE  Inst(OldestPC).op = "exit" /\ stage = "dispatch" /\ stage' = "exited"
<1>1. /\ Inst(Fetched.regs_PC).op = "exit" /\ stage' = "exited" /\ CanDispatch
  BY DEF ruu_dispatch_exit
<1>2. /\ RUU_num = 0 /\ fetch_num # 0 /\ stage = "dispatch"
  BY <1>1 DEF CanDispatch, F_TRAP
<1>3. fetch_num \in Nat
  BY DEF IInv, FetchInv, FetchOf
<1>4. OldestPC = Fetched.regs_PC
  BY <1>2, <1>3 DEF OldestPC
<1> QED BY <1>1, <1>2, <1>4

\* The core implements the sequential machine: each step of it retires the
\* next instruction of the path that the program takes, exits at the exit, or
\* is not seen.
THEOREM RetiresInProgramOrder == Spec => InProgramOrder
<1>1. Init => Sequential!Init
  BY DEF Init, Sequential!Init, OldestPC, ruuVars
<1>2. IInv /\ [Next]_vars => [Sequential!Next]_<<OldestPC, stage = "exited", text>>
  <2>1. SUFFICES ASSUME IInv, [Next]_vars
                 PROVE  [Sequential!Next]_<<OldestPC, stage = "exited", text>>
    OBVIOUS
  <2>2. CASE UNCHANGED vars
    <3>1. OldestPC' = OldestPC
      BY <2>1, <2>2, NothingChanges
    <3>2. stage' = stage /\ text' = text
      BY <2>2 DEF vars, programVars
    <3> QED BY <3>1, <3>2
  <2>3. CASE Next
    <3>1. /\ text' = text
          /\ ruu_dispatch_exit \/ (stage' = "exited" <=> stage = "exited")
      BY <2>3, StageSteps
    <3>2. OldestPC' = OldestPC \/ (Retires /\ stage # "exited" /\ stage' # "exited")
      BY <2>1, <2>3, StepKeeps
    <3>3. CASE ruu_dispatch_exit
      <4>1. /\ Inst(OldestPC).op = "exit" /\ stage = "dispatch" /\ stage' = "exited"
        BY <2>1, <3>3, ExitIsOldest
      <4>2. OldestPC' = OldestPC
        BY <2>1, <3>3, DispatchEndKeeps
      <4>3. Sequential!Exit
        BY <3>1, <4>1, <4>2 DEF Sequential!Exit, Sequential!Inst, Inst
      <4> QED BY <4>3 DEF Sequential!Next
    <3>4. CASE OldestPC' = OldestPC /\ ~ruu_dispatch_exit
      BY <3>1, <3>4
    <3>5. CASE Retires /\ stage # "exited" /\ stage' # "exited"
      <4>1. PICK next \in NextPCs(OldestPC) : Path(next, OldestPC')
        BY <3>5 DEF Retires
      <4>2. next \in Sequential!NextPCs(OldestPC)
        BY <4>1 DEF NextPCs, Following, Inst, Bogus, Sequential!NextPCs,
                    Sequential!Following, Sequential!Inst, Sequential!Bogus
      <4>3. /\ OldestPC' >= next
            /\ \A p \in next .. OldestPC' - 1 : Sequential!Inst(p).op = "nop"
        BY <4>1 DEF Path, Inst, Sequential!Inst
      <4>4. Sequential!Retire
        BY <3>1, <3>5, <4>2, <4>3 DEF Sequential!Retire
      <4> QED BY <4>4 DEF Sequential!Next
    <3> QED BY <3>2, <3>3, <3>4, <3>5
  <2> QED BY <2>1, <2>2, <2>3
<1> QED BY <1>1, <1>2, Invariant, PTL DEF Spec, InProgramOrder, Sequential!Spec
=============================================================================
