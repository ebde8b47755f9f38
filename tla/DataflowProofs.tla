--------------------------- MODULE DataflowProofs ---------------------------
(***************************************************************************)
(* Properties of the out-of-order core beyond its invariant: its links and *)
(* speculation are as they must be, an operand waits for the youngest older *)
(* instruction that writes its register, the creation vectors name the      *)
(* youngest writers, a load runs only when the older stores let it, and no  *)
(* link is lost.  PipelineProofs shows that the rings and the links are in  *)
(* order; here is what they stand for.                                      *)
(***************************************************************************)
EXTENDS PipelineProofs

-----------------------------------------------------------------------------
(* Properties that the invariant of PipelineProofs implies.                *)

\* How many good links to a station a list has that has no two.
LEMMA LinksCounted ==
  ASSUME NEW list, Single(station, list), NEW id
  PROVE  Cardinality(LinksTo(list, id)) = IF Listed(station, list, id) THEN 1 ELSE 0
<1>1. CASE Listed(station, list, id)
  <2>1. PICK i \in DOMAIN list : list[i].rs = id /\ RSLINK_VALID(station, list[i])
    BY <1>1 DEF Listed
  <2>2. LinksTo(list, id) = {i}
    BY <2>1 DEF LinksTo, Single
  <2>3. Cardinality({i}) = 1
    BY FS_Singleton
  <2> QED BY <1>1, <2>2, <2>3
<1>2. CASE ~Listed(station, list, id)
  <2>1. LinksTo(list, id) = {}
    BY <1>2 DEF Listed, LinksTo
  <2>2. Cardinality({}) = 0
    BY FS_EmptySet
  <2> QED BY <1>2, <2>1, <2>2
<1> QED BY <1>1, <1>2

\* An operation is queued once, executes once, and is not forgotten: no panic
\* of readyq_enqueue, ruu_issue, eventq_queue_event or ruu_writeback is reached.
THEOREM EachScheduledOnce == Spec => []ScheduledOnce
<1>1. IInv => ScheduledOnce
  <2>1. SUFFICES ASSUME IInv PROVE ScheduledOnce
    OBVIOUS
  <2> DEFINE F == Flight(RUUIds, RUU_num, LSQIds, LSQ_num)
  <2>2. InFlight = F /\ F \in SUBSET Ids
    BY <2>1, RingsPlaced DEF IInv
  <2>3. LinksOf(station, F, ready_queue, node, event_queue)
    BY <2>1 DEF IInv, LinksInv
  <2> HIDE DEF F
  <2>4. ASSUME NEW id \in F
        PROVE  LET rs == station[id]
                   ready == Cardinality(LinksTo(ready_queue, id)) + Cardinality(LinksTo(node, id))
               IN /\ ready = IF rs.queued THEN 1 ELSE 0
                  /\ Cardinality(LinksTo(event_queue, id)) =
                       IF rs.issued /\ ~rs.completed THEN 1 ELSE 0
                  /\ rs.queued \/ rs.issued => OPERANDS_READY(rs) /\ ~(rs.queued /\ rs.issued)
                  /\ rs.completed => rs.issued
                  /\ OPERANDS_READY(rs) => rs.queued \/ rs.issued \/ IsLoad(rs)
    <3>1. /\ Single(station, ready_queue) /\ Single(station, node)
          /\ station[id].queued <=> \/ Listed(station, ready_queue, id)
                                    \/ Listed(station, node, id)
          /\ ~(Listed(station, ready_queue, id) /\ Listed(station, node, id))
      BY <2>3 DEF LinksOf, ReadyLinks
    <3>2. /\ Single(station, event_queue)
          /\ Listed(station, event_queue, id) <=> station[id].issued /\ ~station[id].completed
      BY <2>3 DEF LinksOf, EventLinks
    <3>3. /\ Cardinality(LinksTo(ready_queue, id)) = IF Listed(station, ready_queue, id) THEN 1 ELSE 0
          /\ Cardinality(LinksTo(node, id)) = IF Listed(station, node, id) THEN 1 ELSE 0
          /\ Cardinality(LinksTo(event_queue, id)) = IF Listed(station, event_queue, id) THEN 1 ELSE 0
      BY <3>1, <3>2, LinksCounted
    <3>4. Progress(station, F, {})
      BY <2>3 DEF LinksOf
    <3> QED BY <3>1, <3>2, <3>3, <3>4 DEF Progress
  <2> QED BY <2>1, <2>2, <2>4 DEF ScheduledOnce, IInv
<1> QED BY <1>1, Invariant, PTL

\* While fetch follows a mispredicted branch, that branch is in flight and the
\* only one that recovers; exactly what is younger is speculative.
THEOREM SpeculationIsContained == Spec => []SpeculationContained
<1>1. IInv => SpeculationContained
  <2>1. SUFFICES ASSUME IInv PROVE SpeculationContained
    OBVIOUS
  <2> DEFINE st == station
             n == RUU_num
             m == LSQ_num
             ruu == RUUIds
             lsq == LSQIds
             F == Flight(ruu, n, lsq, m)
             rec == {id \in InFlight : st[id].recover_inst /\ ~st[id].completed}
  <2>2. /\ Places(ruu, n, RUU) /\ Places(lsq, m, LSQ) /\ n \in Nat /\ m \in Nat
        /\ DOMAIN ruu = 1..n /\ InFlight = F
    BY <2>1, RingsPlaced DEF IInv
  <2>3. /\ st \in [Ids -> StationSet] /\ Kinds(st, lsq, m)
        /\ Order(st, ruu, n, lsq, m, inst_seq)
        /\ Contained(st, ruu, n, lsq, m, spec_mode, recover_PC)
    BY <2>1 DEF IInv, CoreTypes, Structure, StructureOf
  <2>4. \A k \in 1..m : ~st[lsq[k]].recover_inst
    BY <2>2, <2>3 DEF Kinds, Places
  <2>5. CASE ~spec_mode
    <3>1. ASSUME NEW id \in F
          PROVE  ~(st[id].recover_inst /\ ~st[id].completed) /\ ~st[id].spec_mode
      <4>1. CASE \E k \in 1..n : id = ruu[k]
        BY <2>3, <2>5, <4>1 DEF Contained, Recovering
      <4>2. CASE \E k \in 1..m : id = lsq[k]
        BY <2>3, <2>4, <2>5, <4>2 DEF Contained
      <4> QED BY <4>1, <4>2 DEF Flight
    <3> HIDE DEF F
    <3> QED BY <2>2, <2>5, <3>1 DEF SpeculationContained
  <2>6. CASE spec_mode
    <3>1. PICK b \in 1..n : st[ruu[b]].next_PC = recover_PC /\ After(st, ruu, n, lsq, m, b)
      BY <2>3, <2>6 DEF Contained
    <3> DEFINE e == ruu[b]
    <3>2. e \in ToSet(RUUIds) /\ e \in F
      BY <2>2 DEF ToSet, Flight
    <3>3. ASSUME NEW id \in F
          PROVE  /\ st[id].recover_inst /\ ~st[id].completed <=> id = e
                 /\ st[id].spec_mode <=> Older(e, id)
      <4>1. ASSUME NEW k \in 1..n, id = ruu[k]
            PROVE  /\ st[id].recover_inst /\ ~st[id].completed <=> id = e
                   /\ st[id].spec_mode <=> Older(e, id)
        <5>1. st[ruu[k]].seq \in Nat /\ st[ruu[b]].seq \in Nat
          <6> HIDE DEF st, ruu, n, lsq, m
          <6> QED BY <2>2, <2>3, RingNumbers
        <5>2. /\ b < k => st[ruu[b]].seq < st[ruu[k]].seq
              /\ k < b => st[ruu[k]].seq < st[ruu[b]].seq
          BY <2>3 DEF Order, InOrder
        <5>3. b < k <=> st[ruu[b]].seq < st[ruu[k]].seq
          BY <5>1, <5>2
        <5>4. id = e <=> k = b
          BY <2>2, <4>1 DEF Places
        <5> QED BY <3>1, <4>1, <5>3, <5>4 DEF After, Recovering, Older
      <4>2. ASSUME NEW k \in 1..m, id = lsq[k]
            PROVE  /\ st[id].recover_inst /\ ~st[id].completed <=> id = e
                   /\ st[id].spec_mode <=> Older(e, id)
        <5>1. id # e
          <6>1. \A x \in RUU : x \notin LSQ
            BY DEF RUU, LSQ
          <6> QED BY <2>2, <4>2, <6>1 DEF Places
        <5> QED BY <2>4, <3>1, <4>2, <5>1 DEF After, Older
      <4> QED BY <4>1, <4>2 DEF Flight
    <3>4. rec = {e}
      <4> HIDE DEF F, e
      <4> QED BY <2>2, <3>2, <3>3
    <3> HIDE DEF F, e
    <3>5. st[e].next_PC = recover_PC
      BY <3>1 DEF e
    <3> QED BY <2>2, <2>6, <3>2, <3>3, <3>4, <3>5 DEF SpeculationContained
  <2> QED BY <2>5, <2>6
<1> QED BY <1>1, Invariant, PTL

-----------------------------------------------------------------------------
(* Who makes the value of a register, among the stations F of st.          *)

\* p writes register r.
Makes(st, p, r) == r # NA /\ st[p].onames[1] = r

\* p is the youngest of S that writes r.
LatestOf(st, S, r, p) ==
    /\ p \in S /\ Makes(st, p, r)
    /\ \A q \in S : Makes(st, q, r) => st[q].seq <= st[p].seq

\* The stations that are older than id.
OlderIn(st, F, id) == {p \in F : st[p].seq < st[id].seq}

\* p will make the value of r that id reads.
Provider(st, F, r, id, p) == LatestOf(st, OlderIn(st, F, id), r, p) /\ ~st[p].completed

\* The link is good, and to operand k of id.
GoodLink(st, link, id, k) == link.rs = id /\ link.x = k /\ RSLINK_VALID(st, link)

\* The first output chain of p has a good link to operand k of id.
Linked(st, p, id, k) ==
    \E n \in DOMAIN st[p].odep_list[1] : GoodLink(st, st[p].odep_list[1][n], id, k)

\* Operand k of id, which reads r, waits for what makes the value, if anything.
AwaitsAt(st, F, r, id, k) ==
    /\ st[id].idep_ready[k] <=> \A p \in F : ~Provider(st, F, r, id, p)
    /\ \A p \in F : Linked(st, p, id, k) <=> Provider(st, F, r, id, p)

\* R gives the registers that stations read.
Awaiting(st, F, R) == \A id \in F, k \in 1 .. 3 : AwaitsAt(st, F, R[id][k], id, k)

\* An entry of a creation vector names the writer of r that S waits for, if any.
Named(st, entry, S, r) ==
    /\ \A p \in S : entry.rs = p <=> LatestOf(st, S, r, p) /\ ~st[p].completed
    /\ entry.rs \in S \cup {NoRS} /\ entry.odep_num = 1

\* The stations that survive a recovery.
Lasting(st, F) == {p \in F : ~st[p].spec_mode}

\* Both creation vectors name the latest writers; an entry was copied for a
\* speculative one.
Creating(st, F, cv, spec_cv, use) ==
    \A r \in Regs \cup {DTMP} :
        /\ Named(st, cv[r], Lasting(st, F), r)
        /\ Named(st, IF r \in use THEN spec_cv[r] ELSE cv[r], F, r)
        /\ r \in use => \E p \in F : st[p].spec_mode /\ Makes(st, p, r)

\* An operation has one output, a store none; the chains of those that have no
\* value to give are empty.
Outputs(st, F) ==
    /\ \A p \in F : st[p].onames[2] = NA /\ (IsStore(st[p]) => st[p].onames[1] = NA)
    /\ \A p \in Ids : st[p].odep_list[2] = <<>>
    /\ \A p \in Ids : p \notin F \/ st[p].completed \/ st[p].onames[1] = NA
                        => st[p].odep_list[1] = <<>>

\* The registers that the stations read.
Inputs == [id \in Ids |-> [k \in 1 .. 3 |-> Input(id, k)]]

\* The flow of values through registers, and what a load waits for.
DataOf(st, F, R, cv, spec_cv, use) ==
    Outputs(st, F) /\ Awaiting(st, F, R) /\ Creating(st, F, cv, spec_cv, use)

RegistersInv ==
    DataOf(station, FlightNow, Inputs, create_vector, spec_create_vector, use_spec_cv)

-----------------------------------------------------------------------------
(* Steps in which stations leave, or only flags change.                    *)

\* What a station is for those that read its value.
SameMaker(st, st2, p) ==
    /\ st2[p].seq = st[p].seq /\ st2[p].onames = st[p].onames
    /\ st2[p].spec_mode = st[p].spec_mode
    /\ st2[p].completed = st[p].completed \/ st[p].onames[1] = NA

\* The stations F2 stay as they are, and the others have no chains.
Stay(st, st2, F, F2) ==
    /\ F2 \subseteq F
    /\ \A p \in F2 : /\ SameMaker(st, st2, p) /\ st2[p].op = st[p].op /\ st2[p].tag = st[p].tag
                     /\ st2[p].idep_ready = st[p].idep_ready
                     /\ st2[p].odep_list = st[p].odep_list
    /\ \A p \in Ids : p \notin F2 => st2[p].odep_list = << <<>>, <<>> >>

\* The stations that leave F are complete and the oldest.
OldLeave(st, F, F2) ==
    \A p \in F \ F2 : /\ st[p].completed /\ ~st[p].spec_mode
                      /\ \A q \in F2 : st[p].seq < st[q].seq

\* The stations that leave F are the youngest.
YoungLeave(st, F, F2) == \A p \in F \ F2, q \in F2 : st[q].seq < st[p].seq

\* Registers are read as before.
SameReads(R, R2, F) == \A id \in F, k \in 1 .. 3 : R2[id][k] = R[id][k]

\* The providers of a station that stays stay.
LEMMA ProviderStays ==
  ASSUME NEW st \in [Ids -> StationSet], NEW st2 \in [Ids -> StationSet],
         NEW F \in SUBSET Ids, NEW F2, Stay(st, st2, F, F2),
         OldLeave(st, F, F2) \/ YoungLeave(st, F, F2),
         NEW r, NEW id \in F2
  PROVE  /\ \A p \in F2 : Provider(st2, F2, r, id, p) <=> Provider(st, F, r, id, p)
         /\ \A p \in F \ F2 : ~Provider(st, F, r, id, p)
<1>1. /\ F2 \subseteq F /\ id \in F
      /\ \A p \in F2 : SameMaker(st, st2, p)
  BY DEF Stay
<1>2. \A p \in Ids : st[p].seq \in Nat /\ st2[p].seq \in Nat
  BY StationFields
<1>3. \A p \in F2 : /\ st2[p].seq = st[p].seq
                    /\ Makes(st2, p, r) <=> Makes(st, p, r)
                    /\ Makes(st, p, r) => st2[p].completed = st[p].completed
  BY <1>1 DEF SameMaker, Makes
<1>4. \A p \in F2 : p \in OlderIn(st2, F2, id) <=> p \in OlderIn(st, F, id)
  BY <1>1, <1>3 DEF OlderIn
<1>5. ASSUME NEW p \in F2, NEW q \in F, q \notin F2, q \in OlderIn(st, F, id)
      PROVE  st[q].seq <= st[p].seq
  <2>1. st[q].seq < st[id].seq
    BY <1>5 DEF OlderIn
  <2>2. /\ p \in Ids /\ q \in Ids /\ id \in Ids
    BY <1>1
  <2>3. CASE OldLeave(st, F, F2)
    BY <1>2, <1>5, <2>2, <2>3 DEF OldLeave
  <2>4. CASE YoungLeave(st, F, F2)
    BY <1>2, <1>5, <2>1, <2>2, <2>4 DEF YoungLeave
  <2> QED
    BY <2>3, <2>4
<1>6. ASSUME NEW p \in F2
      PROVE  Provider(st2, F2, r, id, p) <=> Provider(st, F, r, id, p)
  <2>1. ASSUME Provider(st2, F2, r, id, p) PROVE Provider(st, F, r, id, p)
    <3>1. /\ p \in OlderIn(st2, F2, id) /\ Makes(st2, p, r) /\ ~st2[p].completed
          /\ \A q \in OlderIn(st2, F2, id) : Makes(st2, q, r) => st2[q].seq <= st2[p].seq
      BY <2>1 DEF Provider, LatestOf
    <3>2. p \in OlderIn(st, F, id) /\ Makes(st, p, r) /\ ~st[p].completed
      BY <1>3, <1>4, <3>1
    <3>3. ASSUME NEW q \in OlderIn(st, F, id), Makes(st, q, r) PROVE st[q].seq <= st[p].seq
      <4>1. q \in F
        BY DEF OlderIn
      <4>2. CASE q \in F2
        BY <1>3, <1>4, <3>1, <3>3, <4>2
      <4>3. CASE q \notin F2
        BY <1>5, <4>1, <4>3
      <4> QED
        BY <4>2, <4>3
    <3> QED
      BY <3>2, <3>3 DEF Provider, LatestOf
  <2>2. ASSUME Provider(st, F, r, id, p) PROVE Provider(st2, F2, r, id, p)
    <3>1. /\ p \in OlderIn(st, F, id) /\ Makes(st, p, r) /\ ~st[p].completed
          /\ \A q \in OlderIn(st, F, id) : Makes(st, q, r) => st[q].seq <= st[p].seq
      BY <2>2 DEF Provider, LatestOf
    <3>2. p \in OlderIn(st2, F2, id) /\ Makes(st2, p, r) /\ ~st2[p].completed
      BY <1>3, <1>4, <3>1
    <3>3. ASSUME NEW q \in OlderIn(st2, F2, id), Makes(st2, q, r) PROVE st2[q].seq <= st2[p].seq
      <4>1. q \in F2
        BY DEF OlderIn
      <4> QED
        BY <1>3, <1>4, <3>1, <3>3, <4>1
    <3> QED
      BY <3>2, <3>3 DEF Provider, LatestOf
  <2> QED
    BY <2>1, <2>2
<1>7. ASSUME NEW p \in F \ F2, Provider(st, F, r, id, p) PROVE FALSE
  <2>1. st[p].seq < st[id].seq /\ ~st[p].completed /\ p \in Ids /\ id \in Ids
    BY <1>1, <1>7 DEF Provider, LatestOf, OlderIn
  <2>2. CASE OldLeave(st, F, F2)
    BY <1>7, <2>1, <2>2 DEF OldLeave
  <2>3. CASE YoungLeave(st, F, F2)
    <3>1. st[id].seq < st[p].seq
      BY <1>7, <2>3 DEF YoungLeave
    <3> QED
      BY <1>2, <2>1, <3>1
  <2> QED
    BY <2>2, <2>3
<1> QED
  BY <1>6, <1>7

\* Good links to the stations that stay remain good.
LEMMA LinkedStays ==
  ASSUME NEW st \in [Ids -> StationSet], NEW st2 \in [Ids -> StationSet],
         NEW F \in SUBSET Ids, NEW F2, Stay(st, st2, F, F2),
         NEW p \in F2, NEW id \in F2, NEW k
  PROVE  Linked(st2, p, id, k) <=> Linked(st, p, id, k)
<1> DEFINE chain == st[p].odep_list[1]
<1>1. st2[p].odep_list[1] = chain /\ st2[id].tag = st[id].tag
  BY DEF Stay
<1> HIDE DEF chain
<1>2. \A n \in DOMAIN chain : GoodLink(st2, chain[n], id, k) <=> GoodLink(st, chain[n], id, k)
  BY <1>1 DEF GoodLink, RSLINK_VALID
<1> QED
  BY <1>1, <1>2 DEF Linked, chain

\* The operands of the stations that stay wait for what they waited for.
LEMMA AwaitingStays ==
  ASSUME NEW st \in [Ids -> StationSet], NEW st2 \in [Ids -> StationSet],
         NEW F \in SUBSET Ids, NEW F2, Stay(st, st2, F, F2),
         OldLeave(st, F, F2) \/ YoungLeave(st, F, F2),
         NEW R, NEW R2, SameReads(R, R2, F2), Awaiting(st, F, R)
  PROVE  Awaiting(st2, F2, R2)
<1>1. F2 \subseteq F
  BY DEF Stay
<1>2. ASSUME NEW id \in F2, NEW k \in 1..3
      PROVE  AwaitsAt(st2, F2, R2[id][k], id, k)
  <2> DEFINE r == R[id][k]
  <2>1. id \in F /\ R2[id][k] = r /\ AwaitsAt(st, F, r, id, k)
    BY <1>1 DEF SameReads, Awaiting
  <2> HIDE DEF r
  <2>2. /\ \A p \in F2 : Provider(st2, F2, r, id, p) <=> Provider(st, F, r, id, p)
        /\ \A p \in F \ F2 : ~Provider(st, F, r, id, p)
    BY ProviderStays
  <2>3. \A p \in F2 : Linked(st2, p, id, k) <=> Linked(st, p, id, k)
    BY LinkedStays
  <2>4. st2[id].idep_ready[k] <=> st[id].idep_ready[k]
    BY DEF Stay
  <2>5. AwaitsAt(st2, F2, r, id, k)
    BY <1>1, <2>1, <2>2, <2>3, <2>4 DEF AwaitsAt
  <2> QED
    BY <2>1, <2>5
<1> QED
  BY <1>2 DEF Awaiting

\* So do the outputs.
LEMMA OutputsStay ==
  ASSUME NEW st \in [Ids -> StationSet], NEW st2 \in [Ids -> StationSet],
         NEW F \in SUBSET Ids, NEW F2, Stay(st, st2, F, F2), Outputs(st, F)
  PROVE  Outputs(st2, F2)
<1>1. ASSUME NEW p \in F2
      PROVE  st2[p].onames[2] = NA /\ (IsStore(st2[p]) => st2[p].onames[1] = NA)
  BY DEF Stay, SameMaker, Outputs, IsStore
<1>2. ASSUME NEW p \in Ids
      PROVE  /\ st2[p].odep_list[2] = <<>>
             /\ p \notin F2 \/ st2[p].completed \/ st2[p].onames[1] = NA
                  => st2[p].odep_list[1] = <<>>
  <2>1. CASE p \in F2
    <3>1. /\ st2[p].odep_list = st[p].odep_list /\ st2[p].onames = st[p].onames
          /\ st2[p].completed = st[p].completed \/ st[p].onames[1] = NA
      BY <2>1 DEF Stay, SameMaker
    <3>2. /\ st[p].odep_list[2] = <<>>
          /\ st[p].completed \/ st[p].onames[1] = NA => st[p].odep_list[1] = <<>>
      BY <1>2 DEF Outputs
    <3> QED
      BY <2>1, <3>1, <3>2
  <2>2. CASE p \notin F2
    BY <2>2 DEF Stay
  <2> QED
    BY <2>1, <2>2
<1> QED
  BY <1>1, <1>2 DEF Outputs

\* An entry names the same station after the oldest have left.
LEMMA NamedStays ==
  ASSUME NEW st \in [Ids -> StationSet], NEW st2 \in [Ids -> StationSet],
         NEW S \in SUBSET Ids, NEW S2 \in SUBSET S, \A p \in S2 : SameMaker(st, st2, p),
         \A p \in S \ S2 : st[p].completed /\ \A q \in S2 : st[p].seq < st[q].seq,
         NEW entry, NEW r, Named(st, entry, S, r)
  PROVE  Named(st2, entry, S2, r)
<1>1. \A p \in Ids : st[p].seq \in Nat /\ st2[p].seq \in Nat
  BY StationFields
<1>2. \A p \in S2 : /\ st2[p].seq = st[p].seq
                    /\ Makes(st2, p, r) <=> Makes(st, p, r)
                    /\ Makes(st, p, r) => st2[p].completed = st[p].completed
  BY DEF SameMaker, Makes
<1>3. ASSUME NEW p \in S2
      PROVE  LatestOf(st2, S2, r, p) /\ ~st2[p].completed <=> LatestOf(st, S, r, p) /\ ~st[p].completed
  <2>1. ASSUME NEW q \in S, q \notin S2 PROVE st[q].seq <= st[p].seq
    BY <1>1, <2>1
  <2> QED
    BY <1>2, <2>1 DEF LatestOf
<1>4. \A p \in S2 : entry.rs = p <=> LatestOf(st2, S2, r, p) /\ ~st2[p].completed
  BY <1>3 DEF Named
<1>5. entry.rs \in S2 \cup {NoRS} /\ entry.odep_num = 1
  BY DEF Named
<1> QED
  BY <1>4, <1>5 DEF Named

\* The creation vectors after the oldest stations have left.
LEMMA CreatingStays ==
  ASSUME NEW st \in [Ids -> StationSet], NEW st2 \in [Ids -> StationSet],
         NEW F \in SUBSET Ids, NEW F2, Stay(st, st2, F, F2), OldLeave(st, F, F2),
         NEW cv, NEW spec_cv, NEW use, Creating(st, F, cv, spec_cv, use)
  PROVE  Creating(st2, F2, cv, spec_cv, use)
<1>1. F2 \subseteq F /\ \A p \in F2 : SameMaker(st, st2, p)
  BY DEF Stay
<1> DEFINE S == Lasting(st, F)
           S2 == Lasting(st2, F2)
<1>2. /\ S \in SUBSET Ids /\ S2 \in SUBSET S /\ \A p \in S2 : SameMaker(st, st2, p)
      /\ \A p \in S \ S2 : st[p].completed /\ \A q \in S2 : st[p].seq < st[q].seq
  BY <1>1 DEF Lasting, SameMaker, OldLeave
<1>3. ASSUME NEW r \in Regs \cup {DTMP}
      PROVE  /\ Named(st2, cv[r], S2, r)
             /\ Named(st2, IF r \in use THEN spec_cv[r] ELSE cv[r], F2, r)
             /\ r \in use => \E p \in F2 : st2[p].spec_mode /\ Makes(st2, p, r)
  <2> DEFINE entry == cv[r]
             spec_entry == IF r \in use THEN spec_cv[r] ELSE cv[r]
  <2>1. Named(st, entry, S, r) /\ Named(st, spec_entry, F, r)
    BY DEF Creating
  <2> HIDE DEF entry, spec_entry, S, S2
  <2>2. Named(st2, entry, S2, r)
    BY <1>2, <2>1, NamedStays
  <2>3. Named(st2, spec_entry, F2, r)
    BY <1>1, <2>1, NamedStays DEF OldLeave
  <2>4. ASSUME r \in use PROVE \E p \in F2 : st2[p].spec_mode /\ Makes(st2, p, r)
    <3>1. PICK p \in F : st[p].spec_mode /\ Makes(st, p, r)
      BY <2>4 DEF Creating
    <3>2. p \in F2
      BY <3>1 DEF OldLeave
    <3> QED
      BY <1>1, <3>1, <3>2 DEF SameMaker, Makes
  <2> QED
    BY <2>2, <2>3, <2>4 DEF entry, spec_entry
<1> QED
  BY <1>3 DEF Creating

\* The creation vectors after all that is speculative has left.
LEMMA CreatingRecovers ==
  ASSUME NEW st \in [Ids -> StationSet], NEW st2 \in [Ids -> StationSet],
         NEW F \in SUBSET Ids, NEW F2, Stay(st, st2, F, F2), F2 = Lasting(st, F),
         NEW cv, NEW spec_cv, NEW use, Creating(st, F, cv, spec_cv, use)
  PROVE  Creating(st2, F2, cv, spec_cv, {})
<1>1. F2 \subseteq F /\ \A p \in F2 : SameMaker(st, st2, p)
  BY DEF Stay
<1>2. Lasting(st2, F2) = F2
  BY <1>1 DEF Lasting, SameMaker
<1>3. ASSUME NEW r \in Regs \cup {DTMP} PROVE Named(st2, cv[r], F2, r)
  <2> DEFINE entry == cv[r]
  <2>1. Named(st, entry, F2, r)
    BY DEF Creating
  <2> HIDE DEF entry
  <2>2. F2 \in SUBSET Ids /\ F2 \in SUBSET F2 /\ F2 \ F2 = {}
    BY <1>1
  <2>3. Named(st2, entry, F2, r)
    BY <1>1, <2>1, <2>2, NamedStays
  <2> QED
    BY <2>3 DEF entry
<1> QED
  BY <1>2, <1>3 DEF Creating

-----------------------------------------------------------------------------
(* The numbers of the stations in flight.                                  *)

\* No two stations have the same number.
Numbered(st, F) == \A p, q \in F : st[p].seq = st[q].seq => p = q

\* What is speculative is younger than what is not.
SpecYounger(st, F) ==
    \A p, q \in F : ~st[p].spec_mode /\ st[q].spec_mode => st[p].seq < st[q].seq

\* The numbers in flight are different.
LEMMA FlightNumbered ==
  ASSUME NEW st \in [Ids -> StationSet], NEW n \in Nat, NEW m \in Nat, NEW ruu, NEW lsq,
         Places(ruu, n, RUU), Places(lsq, m, LSQ), NEW top,
         Order(st, ruu, n, lsq, m, top), Pairs(st, ruu, n, lsq, m)
  PROVE  Numbered(st, Flight(ruu, n, lsq, m))
<1>1. /\ \A k \in 1..n : st[ruu[k]].seq \in Nat
      /\ \A k \in 1..m : st[lsq[k]].seq \in Nat
  BY RingNumbers
<1>2. InOrder(st, ruu, n) /\ InOrder(st, lsq, m)
  BY DEF Order
<1>3. ASSUME NEW j \in 1..n, NEW k \in 1..n, st[ruu[j]].seq = st[ruu[k]].seq
      PROVE  ruu[j] = ruu[k]
  <2>1. ~(j < k) /\ ~(k < j)
    BY <1>1, <1>2, <1>3 DEF InOrder
  <2>2. j = k
    BY <2>1
  <2> QED
    BY <2>2
<1>4. ASSUME NEW j \in 1..m, NEW k \in 1..m, st[lsq[j]].seq = st[lsq[k]].seq
      PROVE  lsq[j] = lsq[k]
  <2>1. ~(j < k) /\ ~(k < j)
    BY <1>1, <1>2, <1>4 DEF InOrder
  <2>2. j = k
    BY <2>1
  <2> QED
    BY <2>2
<1>5. ASSUME NEW j \in 1..n, NEW k \in 1..m
      PROVE  st[ruu[j]].seq # st[lsq[k]].seq
  <2>1. PICK a \in 1..n : st[ruu[a]].ea_comp /\ Successor(st, ruu[a], lsq[k])
    BY DEF Pairs
  <2>2. st[lsq[k]].seq = st[ruu[a]].seq + 1
    BY <2>1 DEF Successor
  <2>3. CASE a < j
    <3>1. st[ruu[a]].seq + 1 < st[ruu[j]].seq
      BY <2>1, <2>3 DEF Pairs, Apart
    <3> QED
      BY <1>1, <2>2, <3>1
  <2>4. CASE j < a
    <3>1. st[ruu[j]].seq < st[ruu[a]].seq
      BY <1>2, <2>4 DEF InOrder
    <3> QED
      BY <1>1, <2>2, <3>1
  <2>5. CASE j = a
    BY <1>1, <2>2, <2>5
  <2> QED
    BY <2>3, <2>4, <2>5
<1> QED
  BY <1>3, <1>4, <1>5 DEF Numbered, Flight

\* The recovering branch is between what is not and what is speculative.
LEMMA SpecIsYounger ==
  ASSUME NEW st \in [Ids -> StationSet], NEW n \in Nat, NEW m \in Nat, NEW ruu, NEW lsq,
         Places(ruu, n, RUU), Places(lsq, m, LSQ), NEW top,
         Order(st, ruu, n, lsq, m, top), NEW spec \in BOOLEAN, NEW pc,
         Contained(st, ruu, n, lsq, m, spec, pc)
  PROVE  /\ SpecYounger(st, Flight(ruu, n, lsq, m))
         /\ ~spec => \A p \in Flight(ruu, n, lsq, m) : ~st[p].spec_mode
<1> DEFINE F == Flight(ruu, n, lsq, m)
<1>1. /\ \A k \in 1..n : st[ruu[k]].seq \in Nat
      /\ \A k \in 1..m : st[lsq[k]].seq \in Nat
  BY RingNumbers
<1>2. CASE ~spec
  BY <1>2 DEF Contained, SpecYounger, Flight
<1>3. CASE spec
  <2>1. PICK b \in 1..n : After(st, ruu, n, lsq, m, b)
    BY <1>3 DEF Contained
  <2>2. ASSUME NEW k \in 1..n PROVE st[ruu[k]].spec_mode <=> st[ruu[b]].seq < st[ruu[k]].seq
    <3>1. st[ruu[k]].spec_mode <=> b < k
      BY <2>1 DEF After
    <3>2. CASE b < k
      BY <3>1, <3>2 DEF Order, InOrder
    <3>3. CASE k < b
      <4>1. st[ruu[k]].seq < st[ruu[b]].seq
        BY <3>3 DEF Order, InOrder
      <4> QED
        BY <1>1, <3>1, <3>3, <4>1
    <3>4. CASE k = b
      BY <1>1, <3>1, <3>4
    <3> QED
      BY <3>2, <3>3, <3>4
  <2>3. \A k \in 1..m : st[lsq[k]].spec_mode <=> st[ruu[b]].seq < st[lsq[k]].seq
    BY <2>1 DEF After
  <2>4. \A p \in F : /\ st[p].spec_mode <=> st[ruu[b]].seq < st[p].seq
                     /\ st[p].seq \in Nat
    BY <1>1, <2>2, <2>3 DEF Flight
  <2>5. st[ruu[b]].seq \in Nat
    BY <1>1
  <2> HIDE DEF F
  <2>6. SpecYounger(st, F)
    BY <2>4, <2>5 DEF SpecYounger
  <2> QED
    BY <1>3, <2>6 DEF F
<1> QED
  BY <1>2, <1>3

-----------------------------------------------------------------------------
(* A station completes: its chain is woken, and its name is cleared.       *)

\* What readers see of the stations, but for the station id, which completes.
Completing(st, st2, F, id) ==
    /\ \A p \in Ids : /\ st2[p].seq = st[p].seq /\ st2[p].onames = st[p].onames
                      /\ st2[p].spec_mode = st[p].spec_mode
                      /\ st2[p].op = st[p].op /\ st2[p].tag = st[p].tag
                      /\ st2[p].completed <=> st[p].completed \/ p = id
    /\ \A p \in Ids : st2[p].odep_list = IF p = id THEN << <<>>, <<>> >> ELSE st[p].odep_list
    /\ \A p \in F, k \in 1 .. 3 :
          st2[p].idep_ready[k] <=> st[p].idep_ready[k] \/ Linked(st, id, p, k)

\* A station that completes provides nothing any more.
LEMMA ProviderCompletes ==
  ASSUME NEW st, NEW st2, NEW F \in SUBSET Ids, NEW id \in F, Completing(st, st2, F, id),
         NEW r, NEW i \in F, NEW p \in F
  PROVE  Provider(st2, F, r, i, p) <=> Provider(st, F, r, i, p) /\ p # id
<1>1. \A q \in F : /\ st2[q].seq = st[q].seq /\ (Makes(st2, q, r) <=> Makes(st, q, r))
                   /\ st2[q].completed <=> st[q].completed \/ q = id
  BY DEF Completing, Makes
<1>2. OlderIn(st2, F, i) = OlderIn(st, F, i) /\ OlderIn(st, F, i) \subseteq F
  BY <1>1 DEF OlderIn
<1> DEFINE S == OlderIn(st, F, i)
<1>3. LatestOf(st2, S, r, p) <=> LatestOf(st, S, r, p)
  BY <1>1, <1>2 DEF LatestOf
<1> HIDE DEF S
<1> QED
  BY <1>1, <1>2, <1>3 DEF Provider, S

\* There is one provider at most.
LEMMA OneProvider ==
  ASSUME NEW st \in [Ids -> StationSet], NEW F \in SUBSET Ids, Numbered(st, F),
         NEW r, NEW i, NEW p \in F, NEW q \in F,
         Provider(st, F, r, i, p), Provider(st, F, r, i, q)
  PROVE  p = q
<1>1. st[p].seq <= st[q].seq /\ st[q].seq <= st[p].seq
  BY DEF Provider, LatestOf
<1>2. st[p].seq \in Nat /\ st[q].seq \in Nat
  BY StationFields
<1>3. st[p].seq = st[q].seq
  BY <1>1, <1>2
<1> QED
  BY <1>3 DEF Numbered

\* The links of the other chains are what they were.
LEMMA LinkedCompletes ==
  ASSUME NEW st, NEW st2, NEW F \in SUBSET Ids, NEW id \in F, Completing(st, st2, F, id),
         NEW p \in F, NEW i \in F, NEW k
  PROVE  Linked(st2, p, i, k) <=> Linked(st, p, i, k) /\ p # id
<1>1. st2[i].tag = st[i].tag
  BY DEF Completing
<1>2. CASE p # id
  <2> DEFINE chain == st[p].odep_list[1]
  <2>1. st2[p].odep_list[1] = chain
    BY <1>2 DEF Completing
  <2> HIDE DEF chain
  <2>2. \A n \in DOMAIN chain : GoodLink(st2, chain[n], i, k) <=> GoodLink(st, chain[n], i, k)
    BY <1>1 DEF GoodLink, RSLINK_VALID
  <2> QED
    BY <1>2, <2>1, <2>2 DEF Linked, chain
<1>3. CASE p = id
  <2>1. st2[p].odep_list[1] = <<>>
    BY <1>3 DEF Completing
  <2> QED
    BY <1>3, <2>1 DEF Linked
<1> QED
  BY <1>2, <1>3

\* What waited for the station that completes is ready.
LEMMA AwaitingCompletes ==
  ASSUME NEW st \in [Ids -> StationSet], NEW st2, NEW F \in SUBSET Ids, NEW id \in F,
         Completing(st, st2, F, id), Numbered(st, F), NEW R, Awaiting(st, F, R)
  PROVE  Awaiting(st2, F, R)
<1>1. ASSUME NEW i \in F, NEW k \in 1..3
      PROVE  AwaitsAt(st2, F, R[i][k], i, k)
  <2> DEFINE r == R[i][k]
  <2>1. AwaitsAt(st, F, r, i, k)
    BY DEF Awaiting
  <2> HIDE DEF r
  <2>2. \A p \in F : Provider(st2, F, r, i, p) <=> Provider(st, F, r, i, p) /\ p # id
    BY ProviderCompletes
  <2>3. \A p \in F : Linked(st2, p, i, k) <=> Linked(st, p, i, k) /\ p # id
    BY LinkedCompletes
  <2>4. st2[i].idep_ready[k] <=> st[i].idep_ready[k] \/ Linked(st, id, i, k)
    BY DEF Completing
  <2>5. Provider(st, F, r, i, id) => \A p \in F : Provider(st, F, r, i, p) => p = id
    BY OneProvider
  <2>6. AwaitsAt(st2, F, r, i, k)
    BY <2>1, <2>2, <2>3, <2>4, <2>5 DEF AwaitsAt
  <2> QED
    BY <2>6 DEF r
<1> QED
  BY <1>1 DEF Awaiting

\* The chains of the station that completes are empty.
LEMMA OutputsComplete ==
  ASSUME NEW st, NEW st2, NEW F \in SUBSET Ids, NEW id \in F,
         Completing(st, st2, F, id), Outputs(st, F)
  PROVE  Outputs(st2, F)
<1>1. ASSUME NEW p \in F
      PROVE  st2[p].onames[2] = NA /\ (IsStore(st2[p]) => st2[p].onames[1] = NA)
  BY DEF Completing, Outputs, IsStore
<1>2. ASSUME NEW p \in Ids
      PROVE  /\ st2[p].odep_list[2] = <<>>
             /\ p \notin F \/ st2[p].completed \/ st2[p].onames[1] = NA
                  => st2[p].odep_list[1] = <<>>
  <2>1. CASE p = id
    <3>1. st2[p].odep_list = << <<>>, <<>> >>
      BY <2>1 DEF Completing
    <3> QED
      BY <3>1
  <2>2. CASE p # id
    <3>1. /\ st2[p].odep_list = st[p].odep_list /\ st2[p].onames = st[p].onames
          /\ st2[p].completed <=> st[p].completed
      BY <2>2 DEF Completing
    <3>2. /\ st[p].odep_list[2] = <<>>
          /\ p \notin F \/ st[p].completed \/ st[p].onames[1] = NA => st[p].odep_list[1] = <<>>
      BY DEF Outputs
    <3> QED
      BY <3>1, <3>2
  <2> QED
    BY <2>1, <2>2
<1> QED
  BY <1>1, <1>2 DEF Outputs

(* The entry after the station id has completed.                           *)
ClearedEntry(entry, entry2, id) ==
    IF entry.rs = id THEN entry2 = CVLINK_NULL ELSE entry2 = entry

\* An entry that named the station that completes names none.
LEMMA NamedCompletes ==
  ASSUME NEW st, NEW st2, NEW F \in SUBSET Ids, NEW id \in F, Completing(st, st2, F, id),
         NEW S \in SUBSET Ids, NEW entry, NEW r, Named(st, entry, S, r),
         NEW entry2, ClearedEntry(entry, entry2, id)
  PROVE  Named(st2, entry2, S, r)
<1>1. \A q \in S : /\ st2[q].seq = st[q].seq /\ (Makes(st2, q, r) <=> Makes(st, q, r))
                   /\ st2[q].completed <=> st[q].completed \/ q = id
  BY DEF Completing, Makes
<1>2. \A p \in S : LatestOf(st2, S, r, p) <=> LatestOf(st, S, r, p)
  BY <1>1 DEF LatestOf
<1>3. \A p \in S : entry.rs = p <=> LatestOf(st, S, r, p) /\ ~st[p].completed
  BY DEF Named
<1>4. entry.rs \in S \cup {NoRS} /\ entry.odep_num = 1
  BY DEF Named
<1>5. CASE entry.rs = id
  <2>1. entry2.rs = NoRS /\ entry2.odep_num = 1
    BY <1>5 DEF ClearedEntry, CVLINK_NULL
  <2>2. NoRS \notin S
    BY DEF NoRS, Ids, RUU, LSQ
  <2>3. \A p \in S : ~(LatestOf(st2, S, r, p) /\ ~st2[p].completed)
    BY <1>1, <1>2, <1>3, <1>5
  <2>4. \A p \in S : entry2.rs = p <=> LatestOf(st2, S, r, p) /\ ~st2[p].completed
    BY <2>1, <2>2, <2>3
  <2> QED
    BY <2>1, <2>4 DEF Named
<1>6. CASE entry.rs # id
  <2>1. entry2 = entry
    BY <1>6 DEF ClearedEntry
  <2>2. \A p \in S : entry2.rs = p <=> LatestOf(st2, S, r, p) /\ ~st2[p].completed
    BY <1>1, <1>2, <1>3, <1>6, <2>1
  <2> QED
    BY <1>4, <2>1, <2>2 DEF Named
<1> QED
  BY <1>5, <1>6

(* An entry for r that names id does so for its first output.              *)
Clearable(st, entry, id, r) ==
    entry.odep_num = 1 /\ (entry.rs = id => Makes(st, id, r))

\* The entries of one of the vectors are cleared.
EntriesCleared(st, cv, cv2, id) ==
    \A r \in Regs \cup {DTMP} :
        Clearable(st, cv[r], id, r) => ClearedEntry(cv[r], cv2[r], id)

\* Those of the vector that the station id is in.
VectorsCleared(st, id, cv, cv2, spec_cv, spec_cv2) ==
    IF st[id].spec_mode THEN cv2 = cv /\ EntriesCleared(st, spec_cv, spec_cv2, id)
    ELSE EntriesCleared(st, cv, cv2, id) /\ spec_cv2 = spec_cv

\* What a named entry says of a station that completes.
LEMMA NamedClearable ==
  ASSUME NEW st, NEW S \in SUBSET Ids, NEW id \in Ids, NEW entry, NEW r, Named(st, entry, S, r)
  PROVE  Clearable(st, entry, id, r) /\ (id \notin S => entry.rs # id)
<1>1. NoRS \notin Ids
  BY DEF NoRS, Ids, RUU, LSQ
<1>2. entry.rs \in S \cup {NoRS} /\ entry.odep_num = 1
  BY DEF Named
<1>3. ASSUME entry.rs = id PROVE id \in S /\ Makes(st, id, r)
  <2>1. id \in S
    BY <1>1, <1>2, <1>3
  <2>2. LatestOf(st, S, r, id)
    BY <1>3, <2>1 DEF Named
  <2> QED
    BY <2>1, <2>2 DEF LatestOf
<1> QED
  BY <1>2, <1>3 DEF Clearable

\* Both vectors name the latest writers that have not completed.
LEMMA CreatingCompletes ==
  ASSUME NEW st \in [Ids -> StationSet], NEW st2, NEW F \in SUBSET Ids, NEW id \in F,
         Completing(st, st2, F, id), SpecYounger(st, F),
         NEW cv, NEW spec_cv, NEW use, Creating(st, F, cv, spec_cv, use),
         NEW cv2, NEW spec_cv2, VectorsCleared(st, id, cv, cv2, spec_cv, spec_cv2)
  PROVE  Creating(st2, F, cv2, spec_cv2, use)
<1> DEFINE S == Lasting(st, F)
<1>1. S \in SUBSET Ids /\ Lasting(st2, F) = S /\ F \in SUBSET Ids /\ id \in Ids
  BY DEF Lasting, Completing
<1>2. id \in S <=> ~st[id].spec_mode
  BY DEF Lasting
<1>3. ASSUME NEW r \in Regs \cup {DTMP}
      PROVE  /\ Named(st2, cv2[r], S, r)
             /\ Named(st2, IF r \in use THEN spec_cv2[r] ELSE cv2[r], F, r)
             /\ r \in use => \E p \in F : st2[p].spec_mode /\ Makes(st2, p, r)
  <2> DEFINE entry == cv[r]
             entry2 == cv2[r]
             spec_entry == spec_cv[r]
             spec_entry2 == spec_cv2[r]
  <2>1. /\ Named(st, entry, S, r)
        /\ r \in use => Named(st, spec_entry, F, r)
        /\ r \notin use => Named(st, entry, F, r)
        /\ r \in use => \E p \in F : st[p].spec_mode /\ Makes(st, p, r)
    BY DEF Creating
  <2>2. IF st[id].spec_mode
        THEN /\ entry2 = entry
             /\ Clearable(st, spec_entry, id, r) => ClearedEntry(spec_entry, spec_entry2, id)
        ELSE /\ Clearable(st, entry, id, r) => ClearedEntry(entry, entry2, id)
             /\ spec_entry2 = spec_entry
    BY DEF VectorsCleared, EntriesCleared
  <2> HIDE DEF S, entry, entry2, spec_entry, spec_entry2
  <2>3. ClearedEntry(entry, entry2, id)
    <3>1. Clearable(st, entry, id, r) /\ (id \notin S => entry.rs # id)
      BY <1>1, <2>1, NamedClearable
    <3> QED
      BY <1>2, <2>2, <3>1 DEF ClearedEntry
  <2>4. ASSUME r \in use PROVE ClearedEntry(spec_entry, spec_entry2, id)
    <3>1. Named(st, spec_entry, F, r)
      BY <2>1, <2>4
    <3>2. Clearable(st, spec_entry, id, r)
      BY <1>1, <3>1, NamedClearable
    <3>3. CASE st[id].spec_mode
      BY <2>2, <3>2, <3>3
    <3>4. CASE ~st[id].spec_mode
      <4>1. PICK p \in F : st[p].spec_mode /\ Makes(st, p, r)
        BY <2>1, <2>4
      <4>2. st[id].seq < st[p].seq
        BY <3>4, <4>1 DEF SpecYounger
      <4>3. st[id].seq \in Nat /\ st[p].seq \in Nat
        BY StationFields
      <4>4. ASSUME spec_entry.rs = id PROVE st[p].seq <= st[id].seq
        BY <3>1, <4>1, <4>4 DEF Named, LatestOf
      <4>5. spec_entry.rs # id
        BY <4>2, <4>3, <4>4
      <4> QED
        BY <2>2, <3>4, <4>5 DEF ClearedEntry
    <3> QED
      BY <3>3, <3>4
  <2>5. Named(st2, entry2, S, r)
    BY <1>1, <2>1, <2>3, NamedCompletes
  <2>6. r \in use => Named(st2, spec_entry2, F, r)
    BY <1>1, <2>1, <2>4, NamedCompletes
  <2>7. r \notin use => Named(st2, entry2, F, r)
    BY <1>1, <2>1, <2>3, NamedCompletes
  <2>8. r \in use => \E p \in F : st2[p].spec_mode /\ Makes(st2, p, r)
    BY <2>1 DEF Completing, Makes
  <2> QED
    BY <2>5, <2>6, <2>7, <2>8 DEF entry2, spec_entry2
<1> QED
  BY <1>1, <1>3 DEF Creating

\* ruu_writeback clears the entries that name the station.
LEMMA CreatorsCleared ==
  ASSUME NEW cv \in [Regs \cup {DTMP} -> CVSet], NEW id \in Ids,
         NEW st, st[id].onames = station[id].onames
  PROVE  EntriesCleared(st, cv, Cleared(cv, id), id)
<1>1. NoRS \notin Ids
  BY DEF NoRS, Ids, RUU, LSQ
<1>2. ASSUME NEW r \in Regs \cup {DTMP}, Clearable(st, cv[r], id, r)
      PROVE  ClearedEntry(cv[r], Cleared(cv, id)[r], id)
  <2> DEFINE entry == cv[r]
             entry2 == Cleared(cv, id)[r]
  <2>1. /\ entry2 = IF \E k \in 1..2 : station[id].onames[k] = r
                                       /\ entry = [rs |-> id, odep_num |-> k]
                    THEN CVLINK_NULL ELSE entry
    BY DEF Cleared
  <2>2. entry \in CVSet /\ entry.odep_num = 1
    BY <1>2 DEF Clearable
  <2>3. CASE entry.rs = id
    <3>1. station[id].onames[1] = r
      BY <1>2, <2>3 DEF Clearable, Makes
    <3>2. entry \in [rs : Ids, odep_num : 1..2]
      BY <1>1, <2>2, <2>3 DEF CVSet, CVLINK_NULL
    <3> HIDE DEF entry, entry2
    <3>3. entry = [rs |-> id, odep_num |-> 1]
      BY <2>2, <2>3, <3>2
    <3>4. entry2 = CVLINK_NULL
      <4>1. 1 \in 1..2
        OBVIOUS
      <4> QED
        BY <2>1, <3>1, <3>3, <4>1
    <3> QED
      BY <2>3, <3>4 DEF ClearedEntry, entry, entry2
  <2>4. CASE entry.rs # id
    <3>1. \A k : entry # [rs |-> id, odep_num |-> k]
      BY <2>4
    <3> HIDE DEF entry, entry2
    <3>2. entry2 = entry
      BY <2>1, <3>1
    <3> QED
      BY <2>4, <3>2 DEF ClearedEntry, entry, entry2
  <2> QED
    BY <2>3, <2>4
<1> QED
  BY <1>2 DEF EntriesCleared

(* Loads are not enqueued.                                                 *)
LoadsUnqueued(st, st2) ==
    \A id \in Ids : st[id].in_LSQ /\ IsLoad(st[id]) => st2[id].queued = st[id].queued

\* Only lsq_refresh enqueues loads.
LEMMA WakeLoads ==
  ASSUME NEW q \in ListStates, NEW link \in OperandSet
  PROVE  LoadsUnqueued(q.station, Wake(q, link).station)
<1> DEFINE st == q.station
           st2 == [st EXCEPT ![link.rs].idep_ready[link.x] = TRUE]
           woken == [q EXCEPT !.station[link.rs].idep_ready[link.x] = TRUE]
           rs == woken.station[link.rs]
<1>1. link.rs \in Ids /\ link.x \in 1..3
  BY DEF OperandSet
<1>2. st \in [Ids -> StationSet]
  BY DEF ListStates
<1>3. st2 \in [Ids -> StationSet]
  BY <1>1, <1>2, FlagUpdates
<1>4. woken = [q EXCEPT !.station = st2]
  BY DEF ListStates
<1>5. woken \in ListStates /\ woken.station = st2
  BY <1>3, <1>4 DEF ListStates
<1>6. \A id \in Ids : st2[id].queued = st[id].queued /\ st2[id].in_LSQ = st[id].in_LSQ
                      /\ st2[id].op = st[id].op
  <2>1. ASSUME NEW id \in Ids
        PROVE  st2[id].queued = st[id].queued /\ st2[id].in_LSQ = st[id].in_LSQ
               /\ st2[id].op = st[id].op
    <3>1. st[id] \in StationSet
      BY <1>2
    <3> QED
      BY <1>2, <3>1 DEF StationSet
  <2> QED
    BY <2>1
<1> HIDE DEF st2, woken
<1>7. CASE ~RSLINK_VALID(st, link)
  <2>1. Wake(q, link) = q
    BY <1>7 DEF Wake
  <2> QED
    BY <2>1 DEF LoadsUnqueued
<1>8. CASE RSLINK_VALID(st, link)
  <2>1. CASE ~(OPERANDS_READY(rs) /\ (rs.in_LSQ => IsStore(rs)))
    <3>1. Wake(q, link) = woken
      BY <1>8, <2>1 DEF Wake, woken
    <3> QED
      BY <1>5, <1>6, <3>1 DEF LoadsUnqueued
  <2>2. CASE OPERANDS_READY(rs) /\ (rs.in_LSQ => IsStore(rs))
    <3> DEFINE e == readyq_enqueue(woken, link.rs)
    <3>1. Wake(q, link) = e
      BY <1>8, <2>2 DEF Wake, woken
    <3>2. e.station = [st2 EXCEPT ![link.rs].queued = TRUE]
      BY <1>1, <1>5, EnqueueEffect
    <3> HIDE DEF e
    <3>3. ASSUME NEW id \in Ids, st[id].in_LSQ, IsLoad(st[id])
          PROVE  e.station[id].queued = st[id].queued
      <4>1. id # link.rs
        BY <1>5, <1>6, <2>2, <3>3 DEF IsLoad, IsStore
      <4> QED
        BY <1>3, <1>6, <3>2, <4>1
    <3> QED
      BY <3>1, <3>3 DEF LoadsUnqueued
  <2> QED
    BY <2>1, <2>2
<1> QED
  BY <1>7, <1>8

\* The links of a chain make ready exactly the operands that they are for.
LEMMA WokenExact ==
  ASSUME NEW q \in ListStates, NEW links \in Seq(OperandSet)
  PROVE  LET w == Woken(q, links)
         IN /\ w \in ListStates /\ SameFields(q.station, w.station)
            /\ LoadsUnqueued(q.station, w.station)
            /\ \A i \in Ids, k \in 1..3 : w.station[i].idep_ready[k] <=>
                 q.station[i].idep_ready[k]
                   \/ \E n \in DOMAIN links : GoodLink(q.station, links[n], i, k)
<1> DEFINE N == Len(links)
           st == q.station
<1>1. N \in Nat /\ DOMAIN links = 1..N
  OBVIOUS
<1>2. PICK f \in [0..N -> ListStates] :
         /\ f[0] = q
         /\ \A n \in 1..N : f[n] = Wake(f[n - 1], links[n])
         /\ Woken(q, links) = f[N]
  BY WokenStates
<1> DEFINE WokenBy(n, i, k) == \E j \in 1..n : GoodLink(st, links[j], i, k)
           Good(n) ==
             /\ SameFields(st, f[n].station) /\ LoadsUnqueued(st, f[n].station)
             /\ \A i \in Ids, k \in 1..3 : f[n].station[i].idep_ready[k] <=>
                  st[i].idep_ready[k] \/ WokenBy(n, i, k)
           P == {n \in 0..N : Good(n)}
<1>3. Good(0)
  <2>1. f[0] = q
    BY <1>2
  <2>2. SameFields(st, st) /\ LoadsUnqueued(st, st)
    BY DEF SameFields, LoadsUnqueued
  <2>3. \A i \in Ids, k \in 1..3 : ~WokenBy(0, i, k)
    OBVIOUS
  <2>4. \A i \in Ids, k \in 1..3 : st[i].idep_ready[k] \in BOOLEAN
    BY StationFields DEF ListStates
  <2> HIDE DEF WokenBy
  <2> QED
    BY <2>1, <2>2, <2>3, <2>4
<1>4. ASSUME NEW n \in 1..N, Good(n - 1) PROVE Good(n)
  <2> DEFINE u == f[n - 1]
             link == links[n]
             w == Wake(u, link)
  <2>1. n - 1 \in 0..N /\ n \in DOMAIN links /\ link \in OperandSet
    BY <1>1
  <2>2. u \in ListStates /\ f[n] = w
    BY <1>2, <2>1
  <2>3. /\ SameFields(st, u.station) /\ LoadsUnqueued(st, u.station)
        /\ \A i \in Ids, k \in 1..3 : u.station[i].idep_ready[k] <=>
             st[i].idep_ready[k] \/ WokenBy(n - 1, i, k)
    BY <1>4
  <2> HIDE DEF u, N, Good
  <2>4. /\ SameFields(u.station, w.station)
        /\ \A i \in Ids, k \in 1..3 : w.station[i].idep_ready[k] <=>
             (u.station[i].idep_ready[k]
                \/ (RSLINK_VALID(u.station, link) /\ i = link.rs /\ k = link.x))
    BY <2>1, <2>2, WakeEffect
  <2>5. LoadsUnqueued(u.station, w.station)
    BY <2>1, <2>2, WakeLoads
  <2> HIDE DEF w
  <2>6. SameFields(st, w.station)
    BY <2>3, <2>4, SameFieldsTransitive
  <2>7. LoadsUnqueued(st, w.station)
    BY <2>3, <2>5 DEF LoadsUnqueued, SameFields, IsLoad
  <2>8. RSLINK_VALID(u.station, link) <=> RSLINK_VALID(st, link)
    BY <2>1, <2>3 DEF SameFields, RSLINK_VALID, OperandSet
  <2>9. \A i \in Ids, k \in 1..3 : WokenBy(n, i, k) <=> WokenBy(n - 1, i, k) \/ GoodLink(st, link, i, k)
    <3>1. 1..n = (1..n - 1) \cup {n}
      BY <1>1
    <3> QED
      BY <3>1
  <2> HIDE DEF WokenBy
  <2>10. \A i \in Ids, k \in 1..3 : w.station[i].idep_ready[k] <=>
           st[i].idep_ready[k] \/ WokenBy(n, i, k)
    BY <2>3, <2>4, <2>8, <2>9 DEF GoodLink
  <2> QED
    BY <2>2, <2>6, <2>7, <2>10 DEF Good
<1>5. P = 0..N
  <2>1. 0 \in P /\ P \in SUBSET (0..N) /\ \A n \in 1..N : n - 1 \in P => n \in P
    <3> HIDE DEF Good, N
    <3> QED
      BY <1>1, <1>3, <1>4
  <2> HIDE DEF P, N
  <2> QED
    BY <1>1, <2>1, Iteration
<1>6. Good(N) /\ f[N] \in ListStates
  <2> HIDE DEF Good, N
  <2> QED
    BY <1>1, <1>2, <1>5
<1> QED
  BY <1>1, <1>2, <1>6

(* What lsq_refresh and LoadsAfterStores look at, for the accesses of F: an *)
(* operand that is ready remains so, and no load is scheduled.             *)
MemoryStays(st, st2, F) ==
    \A p \in F : st[p].in_LSQ =>
        /\ st2[p].op = st[p].op /\ st2[p].addr = st[p].addr
        /\ IsLoad(st[p]) /\ (st2[p].queued \/ st2[p].issued) => st[p].queued \/ st[p].issued
        /\ \A k \in 1 .. 3 : st[p].idep_ready[k] => st2[p].idep_ready[k]

\* Outputs and addresses are the same.
SameNames(st, st2) == \A p \in Ids : st2[p].onames = st[p].onames /\ st2[p].addr = st[p].addr

\* Names and addresses are not touched by what sets a flag or empties chains.
LEMMA NamesKept ==
  ASSUME NEW st \in [Ids -> StationSet], NEW id \in Ids
  PROVE  LET s == [st EXCEPT ![id].completed = TRUE]
             s2 == [st EXCEPT ![id].odep_list = << <<>>, <<>> >>]
         IN /\ SameNames(st, s) /\ SameNames(st, s2)
            /\ s2[id].odep_list = << <<>>, <<>> >>
<1> DEFINE none == << <<>>, <<>> >>
<1> HIDE DEF none
<1>1. ASSUME NEW p \in Ids
      PROVE  LET s == [st EXCEPT ![id].completed = TRUE]
                 s2 == [st EXCEPT ![id].odep_list = none]
             IN /\ s[p].onames = st[p].onames /\ s[p].addr = st[p].addr
                /\ s2[p].onames = st[p].onames /\ s2[p].addr = st[p].addr
                /\ p = id => s2[p].odep_list = none
  <2>1. st[p] \in StationSet
    OBVIOUS
  <2> QED
    BY <2>1 DEF StationSet
<1>2. /\ SameNames(st, [st EXCEPT ![id].completed = TRUE])
      /\ SameNames(st, [st EXCEPT ![id].odep_list = none])
      /\ [st EXCEPT ![id].odep_list = none][id].odep_list = none
  BY <1>1 DEF SameNames
<1> QED
  BY <1>2 DEF none

(* The station id of st completes, as s, and what waits for it is woken.   *)
WakesAll(st, id, rq, free, s, w, st2) ==
    /\ s = [st EXCEPT ![id].completed = TRUE]
    /\ w = Woken([station |-> s, ready_queue |-> rq, free |-> free],
                 st[id].odep_list[1] \o st[id].odep_list[2])
    /\ st2 = [w.station EXCEPT ![id].odep_list = << <<>>, <<>> >>]

\* What ruu_writeback makes of a station that completes, and of what waits.
LEMMA CompletesExactly ==
  ASSUME NEW st \in [Ids -> StationSet], NEW id \in Ids, NEW F \in SUBSET Ids, Outputs(st, F),
         NEW rq \in Seq(LinkSet), NEW free \in Int, NEW s, NEW w, NEW st2,
         WakesAll(st, id, rq, free, s, w, st2)
  PROVE  /\ st2 \in [Ids -> StationSet] /\ Completing(st, st2, F, id)
         /\ MemoryStays(st, st2, Ids) /\ SameShape(st, st2)
<1> DEFINE q == [station |-> s, ready_queue |-> rq, free |-> free]
           links == st[id].odep_list[1]
           st3 == w.station
           none == << <<>>, <<>> >>
<1>1. /\ s \in [Ids -> StationSet] /\ SameShape(st, s) /\ SameTags(st, s)
      /\ \A p \in Ids : /\ s[p].completed <=> st[p].completed \/ p = id
                        /\ s[p].queued = st[p].queued /\ s[p].issued = st[p].issued
                        /\ s[p].idep_ready = st[p].idep_ready
                        /\ s[p].odep_list = st[p].odep_list
  <2>1. CompletesTo(st, s, id)
    BY Completes DEF WakesAll
  <2> QED
    BY <2>1 DEF CompletesTo
<1>2. SameNames(st, s)
  BY NamesKept DEF WakesAll
<1>3. links \in Seq(OperandSet) /\ links = st[id].odep_list[1] \o st[id].odep_list[2]
  <2>1. st[id].odep_list \in [1..2 -> Seq(OperandSet)] /\ st[id].odep_list[2] = <<>>
    BY StationFields DEF Outputs
  <2>2. links \in Seq(OperandSet) /\ links \o <<>> = links
    BY <2>1
  <2> QED
    BY <2>1, <2>2
<1>4. q \in ListStates /\ q.station = s /\ w = Woken(q, links)
  <2>1. q \in ListStates /\ q.station = s
    BY <1>1 DEF ListStates
  <2> QED
    BY <1>3, <2>1 DEF WakesAll
<1> HIDE DEF q, links
<1>5. /\ w \in ListStates /\ SameFields(s, st3) /\ LoadsUnqueued(s, st3)
      /\ \A i \in Ids, k \in 1..3 : st3[i].idep_ready[k] <=>
           s[i].idep_ready[k] \/ \E n \in DOMAIN links : GoodLink(s, links[n], i, k)
  <2>1. LET v == Woken(q, links)
        IN /\ v \in ListStates /\ SameFields(q.station, v.station)
           /\ LoadsUnqueued(q.station, v.station)
           /\ \A i \in Ids, k \in 1..3 : v.station[i].idep_ready[k] <=>
                q.station[i].idep_ready[k]
                  \/ \E n \in DOMAIN links : GoodLink(q.station, links[n], i, k)
    BY <1>3, <1>4, WokenExact
  <2> QED
    BY <1>4, <2>1
<1>6. st3 \in [Ids -> StationSet]
  BY <1>5 DEF ListStates
<1> HIDE DEF st3
<1>7. /\ st2 \in [Ids -> StationSet] /\ SameShape(st3, st2) /\ SameRun(st3, st2)
      /\ SameTags(st3, st2) /\ \A p \in Ids : p # id => st2[p] = st3[p]
  <2>1. st2 = [st3 EXCEPT ![id].odep_list = << <<>>, <<>> >>]
    BY DEF st3, WakesAll
  <2>2. ClearedTo(st3, st2, id)
    BY <1>6, <2>1, ChainsCleared
  <2> QED
    BY <2>2 DEF ClearedTo
<1>8. SameNames(st3, st2) /\ st2[id].odep_list = none
  <2>1. st2 = [st3 EXCEPT ![id].odep_list = << <<>>, <<>> >>]
    BY DEF st3, WakesAll
  <2> QED
    BY <1>6, <2>1, NamesKept
<1> HIDE DEF none
<1>9. ASSUME NEW p \in Ids
      PROVE  /\ st2[p].seq = st[p].seq /\ st2[p].onames = st[p].onames
             /\ st2[p].spec_mode = st[p].spec_mode
             /\ st2[p].op = st[p].op /\ st2[p].tag = st[p].tag
             /\ st2[p].completed <=> st[p].completed \/ p = id
             /\ st2[p].addr = st[p].addr /\ st2[p].in_LSQ = st[p].in_LSQ
             /\ st2[p].issued = st[p].issued
             /\ p # id => st2[p].odep_list = st[p].odep_list
             /\ st2[p].queued = st3[p].queued /\ s[p].queued = st[p].queued
  BY <1>1, <1>2, <1>5, <1>7, <1>8 DEF SameShape, SameTags, SameRun, SameFields, SameNames
<1>10. ASSUME NEW p \in Ids, NEW k \in 1..3
       PROVE  st2[p].idep_ready[k] <=> st[p].idep_ready[k] \/ Linked(st, id, p, k)
  <2>1. st2[p].idep_ready[k] <=> st3[p].idep_ready[k]
    BY <1>7 DEF SameRun
  <2>2. s[p].idep_ready[k] <=> st[p].idep_ready[k]
    BY <1>1
  <2>3. \A n \in DOMAIN links : GoodLink(s, links[n], p, k) <=> GoodLink(st, links[n], p, k)
    BY <1>1 DEF GoodLink, RSLINK_VALID, SameTags
  <2> QED
    BY <1>5, <2>1, <2>2, <2>3 DEF Linked, links
<1>11. Completing(st, st2, F, id)
  BY <1>8, <1>9, <1>10 DEF Completing, none
<1>12. MemoryStays(st, st2, Ids)
  <2>1. ASSUME NEW p \in Ids, st[p].in_LSQ, IsLoad(st[p])
        PROVE  st2[p].queued = st[p].queued
    <3>1. s[p].in_LSQ /\ IsLoad(s[p])
      BY <1>1, <2>1 DEF SameShape, IsLoad
    <3>2. st3[p].queued = s[p].queued
      BY <1>5, <3>1 DEF LoadsUnqueued
    <3> QED
      BY <1>9, <3>2
  <2> QED
    BY <1>9, <1>10, <2>1 DEF MemoryStays
<1>13. SameShape(st, st2)
  BY <1>1, <1>5, <1>7 DEF SameShape, SameFields
<1> QED
  BY <1>7, <1>11, <1>12, <1>13

\* Two empty chains.
LEMMA EmptyChains ==
  ASSUME NEW f \in [1..2 -> Seq(OperandSet)], f[1] = <<>>, f[2] = <<>>
  PROVE  f = << <<>>, <<>> >>
<1> DEFINE none == << <<>>, <<>> >>
<1>1. none \in [1..2 -> Seq(OperandSet)] /\ \A j \in 1..2 : none[j] = <<>>
  BY NoChains
<1> HIDE DEF none
<1>2. \A j \in 1..2 : f[j] = none[j]
  BY <1>1
<1>3. f = none
  BY <1>1, <1>2
<1> QED
  BY <1>3 DEF none

\* What is not in flight has no chains.
LEMMA NoChainsOutside ==
  ASSUME NEW st \in [Ids -> StationSet], NEW F, Outputs(st, F),
         NEW p \in Ids, p \notin F \/ st[p].completed
  PROVE  st[p].odep_list = << <<>>, <<>> >>
<1>1. st[p].odep_list \in [1..2 -> Seq(OperandSet)]
  BY StationFields
<1>2. st[p].odep_list[1] = <<>> /\ st[p].odep_list[2] = <<>>
  BY DEF Outputs
<1> QED
  BY <1>1, <1>2, EmptyChains

\* Squashed stations leave nothing behind; the others stay as they are.
LEMMA SquashedStay ==
  ASSUME NEW st \in [Ids -> StationSet], NEW F \in SUBSET Ids, Outputs(st, F),
         NEW gone, NEW F2, SetWithout(F, gone, F2), NEW s, s = Squash(st, gone)
  PROVE  /\ s \in [Ids -> StationSet] /\ Stay(st, s, F, F2) /\ MemoryStays(st, s, F2)
<1>1. /\ s \in [Ids -> StationSet]
      /\ \A id \in Ids : id \notin gone => s[id] = st[id]
  <2>1. SquashedTo(st, s, gone)
    BY SquashEffect
  <2> QED
    BY <2>1 DEF SquashedTo
<1>2. F2 \subseteq F /\ \A p \in F2 : p \in Ids /\ s[p] = st[p]
  BY <1>1 DEF SetWithout
<1>3. ASSUME NEW p \in Ids, p \notin F2 PROVE s[p].odep_list = << <<>>, <<>> >>
  <2> DEFINE none == << <<>>, <<>> >>
             r == st[p]
  <2>1. r \in StationSet
    OBVIOUS
  <2>2. CASE p \in gone
    <3>1. s[p] = [r EXCEPT !.tag = @ + 1, !.odep_list = none]
      BY <2>2 DEF Squash
    <3> HIDE DEF r, none
    <3>2. s[p].odep_list = none
      BY <2>1, <3>1 DEF StationSet
    <3> QED
      BY <3>2 DEF none
  <2>3. CASE p \notin gone
    <3>1. s[p] = st[p] /\ p \notin F
      BY <1>1, <1>3, <2>3 DEF SetWithout
    <3> QED
      BY <3>1, NoChainsOutside
  <2> QED
    BY <2>2, <2>3
<1>4. Stay(st, s, F, F2)
  BY <1>2, <1>3 DEF Stay, SameMaker
<1>5. MemoryStays(st, s, F2)
  BY <1>2 DEF MemoryStays
<1> QED
  BY <1>1, <1>4, <1>5

(* s is st with gone squashed, whether id has completed before or after.   *)
Commutes(st, id, gone, s) ==
    /\ Squash([st EXCEPT ![id].completed = TRUE], gone) = [s EXCEPT ![id].completed = TRUE]
    /\ s[id].odep_list = st[id].odep_list

\* The order in which a station completes and others are squashed is the same.
LEMMA SquashCommutes ==
  ASSUME NEW st \in [Ids -> StationSet], NEW id \in Ids, NEW gone, id \notin gone,
         NEW s, s = Squash(st, gone)
  PROVE  Commutes(st, id, gone, s)
<1> DEFINE none == << <<>>, <<>> >>
           a == Squash([st EXCEPT ![id].completed = TRUE], gone)
           b == [s EXCEPT ![id].completed = TRUE]
<1>1. s = [p \in Ids |-> IF p \in gone THEN [st[p] EXCEPT !.tag = @ + 1, !.odep_list = none]
                         ELSE st[p]]
  BY DEF Squash
<1>2. a = [p \in Ids |-> IF p \in gone
                         THEN [[st EXCEPT ![id].completed = TRUE][p] EXCEPT
                                 !.tag = @ + 1, !.odep_list = none]
                         ELSE [st EXCEPT ![id].completed = TRUE][p]]
  BY DEF Squash
<1> HIDE DEF none
<1>3. ASSUME NEW p \in Ids PROVE a[p] = b[p]
  <2>1. CASE p = id
    <3>1. a[p] = [st EXCEPT ![id].completed = TRUE][p] /\ s[id] = st[id]
      BY <1>1, <1>2, <2>1
    <3>2. b[p] = [s[id] EXCEPT !.completed = TRUE]
      BY <1>1, <2>1
    <3> QED
      BY <2>1, <3>1, <3>2
  <2>2. CASE p # id
    <3>1. [st EXCEPT ![id].completed = TRUE][p] = st[p] /\ b[p] = s[p]
      BY <1>1, <2>2
    <3>2. a[p] = s[p]
      BY <1>1, <1>2, <3>1
    <3> QED
      BY <3>1, <3>2
  <2> QED
    BY <2>1, <2>2
<1>4. a = [p \in Ids |-> a[p]] /\ b = [p \in Ids |-> b[p]]
  BY <1>1, <1>2
<1>5. a = b /\ s[id] = st[id]
  <2> HIDE DEF a, b
  <2>1. a = b
    BY <1>3, <1>4
  <2> QED
    BY <1>1, <2>1
<1> QED
  BY <1>5 DEF Commutes

\* The vectors of the stations that complete or leave.
LEMMA VectorsSame ==
  ASSUME NEW st, NEW s, NEW id, s[id] = st[id],
         NEW cv, NEW cv2, NEW spec_cv, NEW spec_cv2, VectorsCleared(st, id, cv, cv2, spec_cv, spec_cv2)
  PROVE  VectorsCleared(s, id, cv, cv2, spec_cv, spec_cv2)
<1>1. \A entry, r : Clearable(s, entry, id, r) <=> Clearable(st, entry, id, r)
  BY DEF Clearable, Makes
<1> QED
  BY Zenon, <1>1 DEF VectorsCleared, EntriesCleared

(* All stations remain, or those that are not speculative.                 *)
Survives(st, F, gone, F2, use, use2) ==
    \/ gone = {} /\ use2 = use
    \/ F2 = Lasting(st, F) /\ use2 = {}

\* The flow of values after a station has completed and others were squashed.
LEMMA DataWrittenBack ==
  ASSUME NEW st \in [Ids -> StationSet], NEW F \in SUBSET Ids,
         NEW R, NEW cv, NEW spec_cv, NEW use, DataOf(st, F, R, cv, spec_cv, use),
         Numbered(st, F), SpecYounger(st, F), NEW id \in F,
         NEW gone, id \notin gone, NEW F2, SetWithout(F, gone, F2),
         NEW use2, Survives(st, F, gone, F2, use, use2),
         NEW rq \in Seq(LinkSet), NEW free \in Int, NEW w, NEW st2,
         WritesBack(st, rq, free, id, gone, w, st2),
         NEW cv2, NEW spec_cv2, VectorsCleared(st, id, cv, cv2, spec_cv, spec_cv2)
  PROVE  /\ DataOf(st2, F2, R, cv2, spec_cv2, use2) /\ MemoryStays(st, st2, F2)
         /\ SameShape(st, st2)
<1> DEFINE s == Squash(st, gone)
           s1 == [s EXCEPT ![id].completed = TRUE]
<1>1. Outputs(st, F) /\ Awaiting(st, F, R) /\ Creating(st, F, cv, spec_cv, use)
  BY DEF DataOf
<1>2. /\ s \in [Ids -> StationSet] /\ Stay(st, s, F, F2) /\ MemoryStays(st, s, F2)
  BY <1>1, SquashedStay
<1>3. SameShape(st, s) /\ \A p \in Ids : p \notin gone => s[p] = st[p]
  <2>1. SquashedTo(st, s, gone)
    BY SquashEffect
  <2> QED
    BY <2>1 DEF SquashedTo
<1>4. F2 \in SUBSET F /\ F2 \in SUBSET Ids /\ id \in F2 /\ id \in Ids /\ s[id] = st[id]
      /\ \A p \in F2 : s[p] = st[p]
  BY <1>3 DEF SetWithout
<1>5. WakesAll(s, id, rq, free, s1, w, st2)
  <2> DEFINE a == Squash([st EXCEPT ![id].completed = TRUE], gone)
  <2>1. a = s1 /\ s[id].odep_list = st[id].odep_list
    <3>1. s = Squash(st, gone)
      OBVIOUS
    <3> HIDE DEF s
    <3>2. Commutes(st, id, gone, s)
      BY <1>4, <3>1, SquashCommutes
    <3> QED
      BY <3>2 DEF Commutes
  <2>2. /\ w = Woken([station |-> a, ready_queue |-> rq, free |-> free],
                     st[id].odep_list[1] \o st[id].odep_list[2])
        /\ st2 = [w.station EXCEPT ![id].odep_list = << <<>>, <<>> >>]
    BY DEF WritesBack
  <2> HIDE DEF a, s
  <2> QED
    BY <2>1, <2>2 DEF WakesAll
<1> HIDE DEF s
<1>6. Outputs(s, F2)
  BY <1>1, <1>2, OutputsStay
<1>8. Awaiting(s, F2, R) /\ Creating(s, F2, cv, spec_cv, use2)
  <2>1. SameReads(R, R, F2)
    BY DEF SameReads
  <2>2. CASE gone = {} /\ use2 = use
    <3>1. OldLeave(st, F, F2)
      BY <2>2 DEF SetWithout, OldLeave
    <3> QED
      BY <1>1, <1>2, <2>1, <2>2, <3>1, AwaitingStays, CreatingStays
  <2>3. CASE F2 = Lasting(st, F) /\ use2 = {}
    <3>1. YoungLeave(st, F, F2)
      BY <2>3 DEF Lasting, YoungLeave, SpecYounger
    <3>2. Awaiting(s, F2, R)
      BY <1>1, <1>2, <2>1, <3>1, AwaitingStays
    <3>3. Creating(s, F2, cv, spec_cv, {})
      BY <1>1, <1>2, <2>3, CreatingRecovers
    <3> QED
      BY <2>3, <3>2, <3>3
  <2> QED
    BY <2>2, <2>3 DEF Survives
<1>9. Numbered(s, F2) /\ SpecYounger(s, F2)
  BY <1>4 DEF Numbered, SpecYounger
<1>10. /\ st2 \in [Ids -> StationSet] /\ Completing(s, st2, F2, id) /\ MemoryStays(s, st2, Ids)
       /\ SameShape(s, st2)
  <2> HIDE DEF s1
  <2> QED
    BY <1>2, <1>4, <1>5, <1>6, CompletesExactly
<1>11. Outputs(st2, F2)
  BY <1>4, <1>6, <1>10, OutputsComplete
<1>12. Awaiting(st2, F2, R)
  BY <1>2, <1>4, <1>8, <1>9, <1>10, AwaitingCompletes
<1>13. VectorsCleared(s, id, cv, cv2, spec_cv, spec_cv2)
  BY <1>4, VectorsSame
<1>14. Creating(st2, F2, cv2, spec_cv2, use2)
  BY <1>2, <1>4, <1>8, <1>9, <1>10, <1>13, CreatingCompletes
<1>15. MemoryStays(st, st2, F2)
  <2>1. \A p \in F2 : p \in Ids /\ s[p] = st[p]
    BY <1>4
  <2> QED
    BY <1>10, <2>1 DEF MemoryStays
<1>16. SameShape(st, st2)
  BY <1>3, <1>10 DEF SameShape
<1> QED
  BY <1>11, <1>12, <1>14, <1>15, <1>16 DEF DataOf

\* After a recovery those that are not speculative remain.
LEMMA LastingRemain ==
  ASSUME NEW st \in [Ids -> StationSet], NEW n \in Nat, NEW m \in Nat, NEW ruu, NEW lsq,
         Places(ruu, n, RUU), Places(lsq, m, LSQ), NEW top,
         Order(st, ruu, n, lsq, m, top), Pairs(st, ruu, n, lsq, m),
         NEW b \in 1..n, After(st, ruu, n, lsq, m, b), ~st[ruu[b]].ea_comp,
         NEW t, t = OldAccesses(st, ruu, n, m, b),
         NEW ruu2, SameFirst(ruu, ruu2, b), NEW lsq2, SameFirst(lsq, lsq2, t)
  PROVE  Flight(ruu2, b, lsq2, t) = Lasting(st, Flight(ruu, n, lsq, m))
<1>1. t \in 0..m /\ \A k \in 1..m : st[ruu[b]].seq < st[lsq[k]].seq <=> k > t
  BY AccessesCounted
<1>2. /\ \A k \in 1..n : st[ruu[k]].spec_mode <=> b < k
      /\ \A k \in 1..m : st[lsq[k]].spec_mode <=> k > t
  BY <1>1 DEF After
<1>3. ASSUME NEW p \in Flight(ruu2, b, lsq2, t)
      PROVE  p \in Flight(ruu, n, lsq, m) /\ ~st[p].spec_mode
  <2>1. CASE \E k \in 1..b : p = ruu2[k]
    <3>1. PICK k \in 1..b : p = ruu2[k]
      BY <2>1
    <3>2. p = ruu[k] /\ k \in 1..n /\ ~(b < k)
      BY <3>1 DEF SameFirst
    <3> QED
      BY <1>2, <3>2 DEF Flight
  <2>2. CASE \E k \in 1..t : p = lsq2[k]
    <3>1. PICK k \in 1..t : p = lsq2[k]
      BY <2>2
    <3>2. p = lsq[k] /\ k \in 1..m /\ ~(k > t)
      BY <1>1, <3>1 DEF SameFirst
    <3> QED
      BY <1>2, <3>2 DEF Flight
  <2> QED
    BY <2>1, <2>2 DEF Flight
<1>4. ASSUME NEW p \in Flight(ruu, n, lsq, m), ~st[p].spec_mode
      PROVE  p \in Flight(ruu2, b, lsq2, t)
  <2>1. CASE \E k \in 1..n : p = ruu[k]
    <3>1. PICK k \in 1..n : p = ruu[k]
      BY <2>1
    <3>2. k \in 1..b /\ p = ruu2[k]
      BY <1>2, <1>4, <3>1 DEF SameFirst
    <3> QED
      BY <3>2 DEF Flight
  <2>2. CASE \E k \in 1..m : p = lsq[k]
    <3>1. PICK k \in 1..m : p = lsq[k]
      BY <2>2
    <3>2. k \in 1..t /\ p = lsq2[k]
      BY <1>1, <1>2, <1>4, <3>1 DEF SameFirst
    <3> QED
      BY <3>2 DEF Flight
  <2> QED
    BY <2>1, <2>2 DEF Flight
<1> QED
  BY <1>3, <1>4 DEF Lasting

-----------------------------------------------------------------------------
(* The steps of the core.                                                  *)

\* What the stations read is in their fields.
LEMMA InputsKept ==
  ASSUME text' = text, NEW F \in SUBSET Ids,
         \A id \in F : /\ station'[id].PC = station[id].PC
                       /\ station'[id].ea_comp = station[id].ea_comp
                       /\ station'[id].in_LSQ = station[id].in_LSQ
  PROVE  SameReads(Inputs, Inputs', F)
<1>1. ASSUME NEW id \in F, NEW k \in 1..3 PROVE Inputs'[id][k] = Inputs[id][k]
  <2>1. Inst(station[id].PC)' = Inst(station[id].PC)
    BY DEF Inst
  <2>2. Input(id, k)' = Input(id, k)
    BY <2>1 DEF Input
  <2> QED
    BY <2>2 DEF Inputs
<1> QED
  BY <1>1 DEF SameReads

\* The flow depends on what the stations in flight read.
LEMMA ReadsOnly ==
  ASSUME NEW st, NEW F, NEW R, NEW R2, SameReads(R, R2, F),
         NEW cv, NEW spec_cv, NEW use, DataOf(st, F, R, cv, spec_cv, use)
  PROVE  DataOf(st, F, R2, cv, spec_cv, use)
BY DEF DataOf, Awaiting, SameReads

\* What the numbers of the stations in flight say.
LEMMA NumbersNow ==
  ASSUME IInv
  PROVE  /\ FlightNow \in SUBSET Ids /\ Numbered(station, FlightNow) /\ SpecYounger(station, FlightNow)
         /\ ~spec_mode => \A p \in FlightNow : ~station[p].spec_mode
<1> DEFINE st == station
           n == RUU_num
           m == LSQ_num
           ruu == RUUIds
           lsq == LSQIds
           top == inst_seq
           spec == spec_mode
           pc == recover_PC
<1>1. /\ st \in [Ids -> StationSet] /\ spec \in BOOLEAN
  BY DEF IInv, CoreTypes
<1>2. /\ Places(ruu, n, RUU) /\ Places(lsq, m, LSQ) /\ n \in Nat /\ m \in Nat
      /\ FlightNow \in SUBSET Ids
  BY RingsPlaced DEF IInv, FlightNow
<1>3. /\ Order(st, ruu, n, lsq, m, top) /\ Pairs(st, ruu, n, lsq, m)
      /\ Contained(st, ruu, n, lsq, m, spec, pc)
  BY DEF IInv, Structure, StructureOf
<1>4. FlightNow = Flight(ruu, n, lsq, m)
  BY DEF FlightNow
<1> HIDE DEF st, n, m, ruu, lsq, top, spec, pc
<1>5. Numbered(st, Flight(ruu, n, lsq, m))
  BY <1>1, <1>2, <1>3, FlightNumbered
<1>6. /\ SpecYounger(st, Flight(ruu, n, lsq, m))
      /\ ~spec => \A p \in Flight(ruu, n, lsq, m) : ~st[p].spec_mode
  BY <1>1, <1>2, <1>3, SpecIsYounger
<1> QED
  BY <1>2, <1>4, <1>5, <1>6 DEF st, spec

\* A station completes, and what is speculative leaves when it recovers.
LEMMA WritebackFlows ==
  ASSUME IInv, RegistersInv, ruu_writeback
  PROVE  RegistersInv' /\ MemoryStays(station, station', FlightNow')
<1> DEFINE st == station
           st2 == station'
           rq == ready_queue
           free == rslink_free
           id == event_queue[NextEvent].rs
           rec == st[id].recover_inst
           gone == IF rec THEN ToSet(Squashed(id).RUU) \cup ToSet(Squashed(id).LSQ) ELSE {}
           links == st[id].odep_list[1] \o st[id].odep_list[2]
           F == FlightNow
           F2 == FlightNow'
           cv == create_vector
           cv2 == create_vector'
           spec_cv == spec_create_vector
           spec_cv2 == spec_create_vector'
           use == use_spec_cv
           use2 == use_spec_cv'
           R == Inputs
<1>1. PICK w : /\ w = Woken(Lists(Squash([st EXCEPT ![id].completed = TRUE], gone)), links)
               /\ IF rec THEN Recovered(id)
                  ELSE UNCHANGED <<RUU_num, RUU_tail, LSQ_num, LSQ_tail, use_spec_cv,
                                   spec_mode, fetch_num, fetch_tail, fetch_head,
                                   fetch_pred_PC, fetch_regs_PC, ruu_fetch_issue_delay>>
               /\ IF st[id].spec_mode
                  THEN spec_cv2 = Cleared(spec_cv, id) /\ cv2 = cv
                  ELSE cv2 = Cleared(cv, id) /\ spec_cv2 = spec_cv
               /\ st2 = [w.station EXCEPT ![id].odep_list = << <<>>, <<>> >>]
  BY Zenon DEF ruu_writeback
<1>2. stage = "writeback" /\ Occurred # {} /\ UNCHANGED <<programVars, RUU_head, LSQ_head>>
  BY DEF ruu_writeback
<1>3. /\ st \in [Ids -> StationSet] /\ rq \in Seq(LinkSet) /\ free \in Int
      /\ cv \in [Regs \cup {DTMP} -> CVSet] /\ spec_cv \in [Regs \cup {DTMP} -> CVSet]
  BY DEF IInv, CoreTypes
<1>4. /\ F \in SUBSET Ids /\ Numbered(st, F) /\ SpecYounger(st, F)
  BY NumbersNow
<1>5. id \in F /\ id \in Ids /\ ~st[id].completed
  <2> DEFINE eq == event_queue
             e == NextEvent
  <2>1. e \in DOMAIN eq /\ RSLINK_VALID(st, eq[e])
    BY <1>2, NextEventFirst
  <2>2. EventLinks(st, F, eq)
    BY DEF IInv, LinksInv, LinksOf, FlightNow
  <2> HIDE DEF st, F, eq, e
  <2>3. id \in F
    BY <2>1, <2>2 DEF EventLinks, Sound, eq, e
  <2>4. Listed(st, eq, id)
    BY <2>1 DEF Listed, eq, e
  <2> QED
    BY <1>4, <2>2, <2>3, <2>4 DEF EventLinks
<1>6. DataOf(st, F, R, cv, spec_cv, use)
  BY DEF RegistersInv
<1>7. VectorsCleared(st, id, cv, cv2, spec_cv, spec_cv2)
  <2>1. /\ EntriesCleared(st, cv, Cleared(cv, id), id)
        /\ EntriesCleared(st, spec_cv, Cleared(spec_cv, id), id)
    <3>1. st[id].onames = station[id].onames
      OBVIOUS
    <3> HIDE DEF st, id, cv, spec_cv
    <3> QED
      BY <1>3, <1>5, <3>1, CreatorsCleared
  <2> HIDE DEF st, id, cv, spec_cv
  <2> QED
    BY <1>1, <2>1 DEF VectorsCleared
<1>8. WritesBack(st, rq, free, id, gone, w, st2)
  BY <1>1 DEF WritesBack, Lists
<1>9. SetWithout(F, gone, F2) /\ id \notin gone /\ Survives(st, F, gone, F2, use, use2)
  <2>1. CASE ~rec
    <3>1. UNCHANGED <<ruuVars, lsqVars, use_spec_cv>> /\ gone = {}
      BY <1>1, <1>2, <2>1 DEF ruuVars, lsqVars
    <3>2. F2 = F
      BY <3>1 DEF FlightNow, RUUIds, LSQIds, ruuVars, lsqVars
    <3> QED
      BY <3>1, <3>2 DEF SetWithout, Survives
  <2>2. CASE rec
    <3> DEFINE ruu == RUUIds
               ruu2 == RUUIds'
               lsq == LSQIds
               lsq2 == LSQIds'
               n == RUU_num
               m == LSQ_num
               top == inst_seq
    <3>1. Recovered(id) /\ gone = ToSet(Squashed(id).RUU) \cup ToSet(Squashed(id).LSQ)
          /\ id \in Flight(RUUIds, RUU_num, LSQIds, LSQ_num)
      BY <1>1, <1>5, <2>2 DEF FlightNow
    <3>2. PICK b \in 1..n, t \in 0..m : RecoveredTo(id, b, t, gone)
      BY <1>2, <2>2, <3>1, RecoveryShrinks
    <3>3. SetWithout(F, gone, F2) /\ id \notin gone /\ use2 = {}
      BY <3>1, <3>2 DEF RecoveredTo, Recovered, FlightNow
    <3>4. /\ Places(ruu, n, RUU) /\ Places(lsq, m, LSQ) /\ n \in Nat /\ m \in Nat
      BY RingsPlaced DEF IInv
    <3>5. /\ ruu[b] = id /\ t = OldAccesses(st, ruu, n, m, b)
          /\ SameFirst(ruu, ruu2, b) /\ SameFirst(lsq, lsq2, t)
          /\ F2 = Flight(ruu2, b, lsq2, t)
      BY <3>2 DEF RecoveredTo, FlightNow
    <3>6. /\ Order(st, ruu, n, lsq, m, top) /\ Pairs(st, ruu, n, lsq, m)
          /\ ~st[ruu[b]].ea_comp /\ After(st, ruu, n, lsq, m, b)
      <4>1. /\ Kinds(st, lsq, m) /\ Order(st, ruu, n, lsq, m, top) /\ Pairs(st, ruu, n, lsq, m)
            /\ Contained(st, ruu, n, lsq, m, spec_mode, recover_PC)
        BY DEF IInv, Structure, StructureOf
      <4>2. Recovering(st, ruu[b]) /\ ruu[b] \in RUU
        BY <1>5, <2>2, <3>4, <3>5 DEF Recovering, Places
      <4>3. PICK a \in 1..n : After(st, ruu, n, lsq, m, a)
        BY <4>1, <4>2 DEF Contained
      <4>4. b = a
        BY <4>2, <4>3 DEF After
      <4> QED
        BY <4>1, <4>2, <4>3, <4>4 DEF Kinds, Recovering
    <3> HIDE DEF st, ruu, ruu2, lsq, lsq2, n, m, top
    <3>7. Flight(ruu2, b, lsq2, t) = Lasting(st, Flight(ruu, n, lsq, m))
      BY <1>3, <3>4, <3>5, <3>6, LastingRemain
    <3>8. F2 = Lasting(st, F)
      BY <3>5, <3>7 DEF FlightNow, ruu, n, lsq, m
    <3> QED
      BY <3>3, <3>8 DEF Survives
  <2> QED
    BY <2>1, <2>2
<1>10. /\ DataOf(st2, F2, R, cv2, spec_cv2, use2) /\ MemoryStays(st, st2, F2)
       /\ SameShape(st, st2)
  <2> HIDE DEF st, st2, rq, free, id, gone, F, F2, cv, cv2, spec_cv, spec_cv2, use, use2, R
  <2> QED
    BY <1>3, <1>4, <1>5, <1>6, <1>7, <1>8, <1>9, DataWrittenBack
<1>11. SameReads(Inputs, Inputs', F2)
  <2>1. F2 \in SUBSET Ids
    BY <1>4, <1>9 DEF SetWithout
  <2>2. \A p \in F2 : /\ station'[p].PC = station[p].PC
                      /\ station'[p].ea_comp = station[p].ea_comp
                      /\ station'[p].in_LSQ = station[p].in_LSQ
    BY <1>10, <2>1 DEF SameShape
  <2> HIDE DEF F2
  <2> QED
    BY <1>2, <2>1, <2>2, InputsKept DEF programVars
<1>12. DataOf(st2, F2, Inputs', cv2, spec_cv2, use2)
  <2> HIDE DEF st2, F2, cv2, spec_cv2, use2
  <2> QED
    BY <1>10, <1>11, ReadsOnly
<1> QED
  BY <1>10, <1>12 DEF RegistersInv

-----------------------------------------------------------------------------
(* Steps in which no station comes or goes, and only flags change.         *)

\* Only who is queued, issued or completed differs, the last for what has no
\* output.
FlagsDiffer(st, st2) ==
    /\ SameShape(st, st2)
    /\ \A p \in Ids : /\ SameMaker(st, st2, p) /\ st2[p].tag = st[p].tag
                      /\ st2[p].idep_ready = st[p].idep_ready
                      /\ st2[p].odep_list = st[p].odep_list

\* What only changes the ready queue is of this kind.
LEMMA FieldsDiffer ==
  ASSUME NEW st, NEW st2, SameFields(st, st2),
         \A p \in Ids : st2[p].idep_ready = st[p].idep_ready
  PROVE  FlagsDiffer(st, st2)
BY FieldsShape DEF FlagsDiffer, SameFields, SameMaker

\* So is the start of an operation, a store being complete at once.
LEMMA StartDiffers ==
  ASSUME NEW st, NEW st2, NEW v \in Ids, Starts(st, st2, v),
         st2[v].completed = st[v].completed \/ st[v].onames[1] = NA
  PROVE  FlagsDiffer(st, st2)
<1>1. ASSUME NEW p \in Ids PROVE SameMaker(st, st2, p)
  <2>1. st2[p].completed = st[p].completed \/ st[p].onames[1] = NA
    BY DEF Starts
  <2>2. /\ st2[p].seq = st[p].seq /\ st2[p].onames = st[p].onames
        /\ st2[p].spec_mode = st[p].spec_mode
    BY DEF Starts, SameShape
  <2> QED
    BY <2>1, <2>2 DEF SameMaker
<1>2. SameShape(st, st2)
  BY DEF Starts
<1>3. \A p \in Ids : /\ st2[p].tag = st[p].tag /\ st2[p].idep_ready = st[p].idep_ready
                     /\ st2[p].odep_list = st[p].odep_list
  BY DEF Starts, SameTags
<1> QED
  BY <1>1, <1>2, <1>3 DEF FlagsDiffer

\* The flow is the same then.
LEMMA FlagsFlow ==
  ASSUME NEW st \in [Ids -> StationSet], NEW st2 \in [Ids -> StationSet],
         FlagsDiffer(st, st2), NEW F \in SUBSET Ids,
         NEW R, NEW cv, NEW spec_cv, NEW use, DataOf(st, F, R, cv, spec_cv, use)
  PROVE  DataOf(st2, F, R, cv, spec_cv, use)
<1>1. Outputs(st, F) /\ Awaiting(st, F, R) /\ Creating(st, F, cv, spec_cv, use)
  BY DEF DataOf
<1>2. Stay(st, st2, F, F)
  <2>1. ASSUME NEW p \in Ids, p \notin F PROVE st2[p].odep_list = << <<>>, <<>> >>
    <3>1. st[p].odep_list = << <<>>, <<>> >>
      BY <1>1, <2>1, NoChainsOutside
    <3> QED
      BY <3>1 DEF FlagsDiffer
  <2>2. \A p \in F : /\ SameMaker(st, st2, p) /\ st2[p].op = st[p].op /\ st2[p].tag = st[p].tag
                     /\ st2[p].idep_ready = st[p].idep_ready
                     /\ st2[p].odep_list = st[p].odep_list
    BY DEF FlagsDiffer, SameShape
  <2> QED
    BY <2>1, <2>2 DEF Stay
<1>3. OldLeave(st, F, F) /\ SameReads(R, R, F)
  BY DEF OldLeave, SameReads
<1>4. Outputs(st2, F)
  BY <1>1, <1>2, OutputsStay
<1>5. Awaiting(st2, F, R)
  BY <1>1, <1>2, <1>3, AwaitingStays
<1>6. Creating(st2, F, cv, spec_cv, use)
  BY <1>1, <1>2, <1>3, CreatingStays
<1> QED
  BY <1>4, <1>5, <1>6 DEF DataOf

\* A step of this kind.
LEMMA FlagsStep ==
  ASSUME IInv, RegistersInv, text' = text, UNCHANGED <<ruuVars, lsqVars, cvVars>>,
         station' \in [Ids -> StationSet], FlagsDiffer(station, station')
  PROVE  RegistersInv' /\ FlightNow' = FlightNow
<1> DEFINE st == station
           st2 == station'
           F == FlightNow
           F2 == FlightNow'
           cv == create_vector
           spec_cv == spec_create_vector
           use == use_spec_cv
           R == Inputs
           R2 == Inputs'
<1>1. /\ F2 = F /\ create_vector' = cv /\ spec_create_vector' = spec_cv /\ use_spec_cv' = use
  BY DEF FlightNow, RUUIds, LSQIds, ruuVars, lsqVars, cvVars
<1>2. st \in [Ids -> StationSet] /\ F \in SUBSET Ids
  BY NumbersNow DEF IInv, CoreTypes
<1>3. SameReads(R, R2, F)
  <2>1. \A id \in F : /\ station'[id].PC = station[id].PC
                      /\ station'[id].ea_comp = station[id].ea_comp
                      /\ station'[id].in_LSQ = station[id].in_LSQ
    BY <1>2 DEF FlagsDiffer, SameShape
  <2> HIDE DEF F
  <2> QED
    BY <1>2, <2>1, InputsKept
<1>4. DataOf(st, F, R, cv, spec_cv, use)
  BY DEF RegistersInv
<1>5. FlagsDiffer(st, st2) /\ st2 \in [Ids -> StationSet]
  OBVIOUS
<1> HIDE DEF st, st2, F, R, R2, cv, spec_cv, use
<1>6. DataOf(st2, F, R, cv, spec_cv, use)
  BY <1>2, <1>4, <1>5, FlagsFlow
<1>7. DataOf(st2, F, R2, cv, spec_cv, use)
  BY <1>3, <1>6, ReadsOnly
<1> QED
  BY <1>1, <1>7 DEF RegistersInv, st2, F, R2, cv, spec_cv, use

\* What the accesses look at is as it was when no load is scheduled anew.
LEMMA FieldsMemory ==
  ASSUME NEW st, NEW st2, NEW F \in SUBSET Ids, SameFields(st, st2),
         \A p \in Ids : st2[p].idep_ready = st[p].idep_ready,
         \A p \in F : st2[p].queued <=> st[p].queued
  PROVE  MemoryStays(st, st2, F)
BY DEF MemoryStays, SameFields

\* An operation that starts was queued.
LEMMA StartMemory ==
  ASSUME NEW st, NEW st2, NEW F \in SUBSET Ids, NEW v \in F, Starts(st, st2, v), st[v].queued
  PROVE  MemoryStays(st, st2, F)
<1>1. ASSUME NEW p \in F
      PROVE  /\ st2[p].op = st[p].op /\ st2[p].addr = st[p].addr
             /\ st2[p].idep_ready = st[p].idep_ready
             /\ st2[p].queued \/ st2[p].issued => st[p].queued \/ st[p].issued
  <2>1. /\ st2[p].op = st[p].op /\ st2[p].addr = st[p].addr
        /\ st2[p].idep_ready = st[p].idep_ready
    BY DEF Starts, SameShape
  <2>2. CASE p = v
    BY <2>1, <2>2
  <2>3. CASE p # v
    BY <2>1, <2>3 DEF Starts
  <2> QED
    BY <2>2, <2>3
<1> QED
  BY <1>1 DEF MemoryStays

\* An operation starts, or is put back.
LEMMA IssueDiffers ==
  ASSUME IInv, RegistersInv, ruu_issue
  PROVE  /\ station' \in [Ids -> StationSet] /\ FlagsDiffer(station, station')
         /\ MemoryStays(station, station', FlightNow)
<1> DEFINE st == station
           F == FlightNow
           nd == node
           v == Visited
<1>1. Visit /\ node # <<>> /\ (IssueStale \/ IssueStore \/ IssueFree \/ IssueToUnit \/ IssueLater)
  BY DEF ruu_issue, Visit
<1>2. /\ st \in [Ids -> StationSet] /\ nd \in Seq(LinkSet) /\ nd # <<>> /\ Head(nd) = nd[1]
      /\ nd[1] \in LinkSet /\ 1 \in DOMAIN nd
  BY <1>1 DEF IInv, CoreTypes
<1>3. v \in Ids /\ v = nd[1].rs
  BY <1>2 DEF Visited, LinkSet
<1>4. LinksOf(st, F, ready_queue, nd, event_queue) /\ F \in SUBSET Ids
  BY RingsPlaced DEF IInv, LinksInv, FlightNow
<1>5. ASSUME RSLINK_VALID(station, Head(node)) PROVE v \in F /\ st[v].queued
  <2>1. RSLINK_VALID(st, nd[1])
    BY <1>2, <1>5
  <2>2. v \in F
    BY <1>2, <1>3, <1>4, <2>1 DEF LinksOf, ReadyLinks, Sound
  <2>3. Listed(st, nd, v)
    BY <1>2, <1>3, <2>1 DEF Listed
  <2> QED
    BY <1>4, <2>2, <2>3 DEF LinksOf, ReadyLinks
<1> DEFINE started == Started(v)
           done == [started EXCEPT ![v].completed = TRUE]
<1>6. /\ started \in [Ids -> StationSet] /\ Starts(st, started, v)
      /\ started[v].completed = st[v].completed
      /\ done \in [Ids -> StationSet] /\ Starts(st, done, v) /\ done[v].completed
  <2> HIDE DEF v, F, nd
  <2> QED
    BY Zenon, <1>2, <1>3, OperationStarts
<1>7. CASE IssueStale
  <2>1. station' = station
    BY <1>7 DEF IssueStale
  <2>2. SameFields(station, station')
    BY <2>1 DEF SameFields
  <2> QED
    BY <1>2, <1>4, <2>1, <2>2, FieldsDiffer, FieldsMemory
<1>8. CASE IssueStore
  <2>1. v \in F /\ st[v].queued /\ IsStore(st[v]) /\ station' = done
    BY <1>5, <1>8 DEF IssueStore
  <2>2. st[v].onames[1] = NA
    BY <2>1 DEF RegistersInv, DataOf, Outputs
  <2> HIDE DEF done, st, v, F
  <2>3. FlagsDiffer(st, done)
    BY <1>3, <1>6, <2>2, StartDiffers
  <2>4. MemoryStays(st, done, F)
    BY <1>4, <1>6, <2>1, StartMemory
  <2> QED
    BY <1>6, <2>1, <2>3, <2>4 DEF st, F
<1>9. CASE IssueFree \/ IssueToUnit
  <2>1. v \in F /\ st[v].queued /\ station' = started
    BY <1>5, <1>9 DEF IssueFree, IssueToUnit
  <2> HIDE DEF started, st, v, F
  <2>2. FlagsDiffer(st, started)
    BY <1>3, <1>6, StartDiffers
  <2>3. MemoryStays(st, started, F)
    BY <1>4, <1>6, <2>1, StartMemory
  <2> QED
    BY <1>6, <2>1, <2>2, <2>3 DEF st, F
<1>10. CASE IssueLater
  <2> DEFINE q == Lists(station)
             link == Head(node)
             back == PutBack(q, link)
  <2>1. station' = back.station
    BY <1>10 DEF IssueLater
  <2>2. q \in ListStates /\ link = nd[1] /\ q.station = st /\ q.ready_queue = ready_queue
    BY <1>2 DEF Lists, ListStates, IInv, CoreTypes
  <2>3. ReadyLinks(q.station, F, q.ready_queue, nd) /\ Progress(q.station, F, {})
    BY <1>4, <2>2 DEF LinksOf
  <2> HIDE DEF q, link
  <2>4. Resettled(q, PutBack(q, link), F, Tail(nd))
    <3> HIDE DEF F, nd
    <3> QED
      BY <1>2, <1>4, <2>2, <2>3, PutBackEffect
  <2> HIDE DEF back
  <2>5. /\ back.station \in [Ids -> StationSet] /\ SameFields(st, back.station)
        /\ \A k \in Ids : back.station[k].idep_ready = st[k].idep_ready
        /\ \A k \in F : back.station[k].queued <=> st[k].queued
    BY <2>2, <2>4 DEF Resettled, back, ListStates
  <2> HIDE DEF st, F
  <2>6. FlagsDiffer(st, back.station)
    BY <2>5, FieldsDiffer
  <2>7. MemoryStays(st, back.station, F)
    BY <1>4, <2>5, FieldsMemory
  <2> QED
    BY <2>1, <2>5, <2>6, <2>7 DEF st, F
<1> QED
  BY <1>1, <1>7, <1>8, <1>9, <1>10

\* What the issue width left over is put back.
LEMMA IssueEndDiffers ==
  ASSUME IInv, ruu_issue_done
  PROVE  /\ station' \in [Ids -> StationSet] /\ FlagsDiffer(station, station')
         /\ MemoryStays(station, station', FlightNow)
<1> DEFINE q == Lists(station)
           F == FlightNow
           nd == node
           q2 == AllPutBack(q, nd)
           st == station
<1>1. station' = q2.station
  BY DEF ruu_issue_done
<1>2. F \in SUBSET Ids
  BY NumbersNow
<1>3. /\ q \in ListStates /\ nd \in Seq(LinkSet) /\ q.station = st /\ q.ready_queue = ready_queue
  BY DEF Lists, ListStates, IInv, CoreTypes
<1>4. ReadyLinks(st, F, ready_queue, nd) /\ Progress(st, F, {})
  BY DEF IInv, LinksInv, LinksOf, FlightNow
<1>5. ReadyLinks(q.station, F, q.ready_queue, nd) /\ Progress(q.station, F, {})
  BY <1>3, <1>4
<1> HIDE DEF q, nd, F
<1>6. Resettled(q, AllPutBack(q, nd), F, <<>>)
  BY <1>2, <1>3, <1>5, AllPutBackEffect
<1> HIDE DEF q2
<1>7. /\ q2.station \in [Ids -> StationSet] /\ SameFields(st, q2.station)
      /\ \A k \in Ids : q2.station[k].idep_ready = st[k].idep_ready
      /\ \A k \in F : q2.station[k].queued <=> st[k].queued
  BY <1>3, <1>6 DEF Resettled, q2, ListStates
<1> HIDE DEF st
<1>8. FlagsDiffer(st, q2.station)
  BY <1>7, FieldsDiffer
<1>9. MemoryStays(st, q2.station, F)
  BY <1>2, <1>7, FieldsMemory
<1> QED
  BY <1>1, <1>7, <1>8, <1>9 DEF st, F

\* Nothing in flight is older than the oldest station, or between it and its
\* access.
LEMMA OldestNumber ==
  ASSUME NEW st \in [Ids -> StationSet], NEW n \in Nat \ {0}, NEW m \in Nat, NEW ruu, NEW lsq,
         Places(ruu, n, RUU), Places(lsq, m, LSQ), NEW top,
         Order(st, ruu, n, lsq, m, top), Pairs(st, ruu, n, lsq, m),
         NEW e, e = ruu[1], NEW a, a = lsq[1]
  PROVE  /\ \A p \in Flight(ruu, n, lsq, m) : p # e => st[e].seq < st[p].seq
         /\ st[e].ea_comp => \A p \in Flight(ruu, n, lsq, m) : p # e /\ p # a => st[a].seq < st[p].seq
<1>1. /\ \A p \in Ids : st[p].seq \in Nat
      /\ 1 \in 1..n /\ e \in Ids /\ e \in RUU
      /\ \A k \in 1..n : ruu[k] \in Ids /\ (k # 1 => st[e].seq < st[ruu[k]].seq)
      /\ \A k \in 1..m : lsq[k] \in Ids /\ 1 \in 1..m /\ (k # 1 => st[a].seq < st[lsq[k]].seq)
  <2>1. \A p \in Ids : st[p].seq \in Nat
    BY StationFields
  <2>2. 1 \in 1..n /\ (\A k \in 1..n : ruu[k] \in Ids) /\ e \in Ids /\ e \in RUU
    BY DEF Places, Ids
  <2>3. ASSUME NEW k \in 1..n, k # 1 PROVE st[e].seq < st[ruu[k]].seq
    <3>1. 1 < k
      BY <2>3
    <3> QED
      BY <2>2, <3>1 DEF Order, InOrder
  <2>4. ASSUME NEW k \in 1..m
        PROVE  lsq[k] \in Ids /\ 1 \in 1..m /\ (k # 1 => st[a].seq < st[lsq[k]].seq)
    <3>1. lsq[k] \in Ids /\ 1 \in 1..m /\ (k # 1 => 1 < k)
      BY DEF Places, Ids
    <3> QED
      BY <3>1 DEF Order, InOrder
  <2> QED
    BY <2>1, <2>2, <2>3, <2>4
<1>2. ASSUME NEW k \in 1..m PROVE st[e].seq < st[lsq[k]].seq
  <2>1. PICK j \in 1..n : Successor(st, ruu[j], lsq[k])
    BY DEF Pairs
  <2>2. st[e].seq <= st[ruu[j]].seq
    <3>1. CASE j = 1
      BY <1>1, <3>1
    <3>2. CASE j # 1
      BY <1>1, <3>2
    <3> QED
      BY <3>1, <3>2
  <2>3. st[lsq[k]].seq = st[ruu[j]].seq + 1
    BY <2>1 DEF Successor
  <2> QED
    BY <1>1, <2>2, <2>3
<1>3. ASSUME NEW p \in Flight(ruu, n, lsq, m), p # e PROVE st[e].seq < st[p].seq
  BY <1>1, <1>2, <1>3 DEF Flight
<1>4. ASSUME st[e].ea_comp, NEW p \in Flight(ruu, n, lsq, m), p # e, p # a
      PROVE  st[a].seq < st[p].seq
  <2>1. m > 0 /\ st[a].seq = st[e].seq + 1
    BY <1>4, OldestAccessFirst DEF Successor
  <2>2. CASE \E k \in 1..m : p = lsq[k]
    BY <1>1, <1>4, <2>2
  <2>3. CASE \E k \in 1..n : p = ruu[k]
    <3>1. PICK k \in 1..n : p = ruu[k]
      BY <2>3
    <3>2. k # 1 /\ 1 < k
      BY <1>4, <3>1
    <3>3. Apart(st, ruu[1], ruu[k])
      BY <1>1, <1>4, <3>2 DEF Pairs
    <3> QED
      BY <1>1, <2>1, <3>1, <3>3 DEF Apart
  <2> QED
    BY <2>2, <2>3 DEF Flight
<1> QED
  BY <1>3, <1>4

\* The oldest station leaves, and its access.
LEMMA CommitFlows ==
  ASSUME IInv, RegistersInv, ruu_commit
  PROVE  /\ RegistersInv' /\ MemoryStays(station, station', FlightNow')
<1> DEFINE st == station
           st2 == station'
           e == Oldest
           a == OldestAccess
           mem == st[e].ea_comp
           ruu == RUUIds
           lsq == LSQIds
           n == RUU_num
           m == LSQ_num
           top == inst_seq
           F == FlightNow
           F2 == FlightNow'
           cv == create_vector
           spec_cv == spec_create_vector
           use == use_spec_cv
           R == Inputs
           R2 == Inputs'
<1>1. /\ n > 0 /\ st[e].completed /\ (mem => st[a].completed)
      /\ UNCHANGED <<programVars, cvVars>>
  BY DEF ruu_commit, CanCommit
<1>2. LeftByCommit(mem)
  <2> HIDE DEF mem
  <2> QED
    BY CommitLeaves DEF mem
<1>3. /\ st \in [Ids -> StationSet] /\ F \in SUBSET Ids /\ F = Flight(ruu, n, lsq, m)
      /\ Places(ruu, n, RUU) /\ Places(lsq, m, LSQ) /\ n \in Nat \ {0} /\ m \in Nat
  BY <1>1, RingsPlaced DEF IInv, CoreTypes, FlightNow
<1>4. /\ Order(st, ruu, n, lsq, m, top) /\ Pairs(st, ruu, n, lsq, m) /\ Kinds(st, lsq, m)
      /\ Contained(st, ruu, n, lsq, m, spec_mode, recover_PC)
  BY DEF IInv, Structure, StructureOf
<1>5. /\ st2 \in [Ids -> StationSet] /\ SameShape(st, st2) /\ SameRun(st, st2)
      /\ \A id \in Ids :
            /\ st2[id].tag = IF id = e \/ (mem /\ id = a) THEN st[id].tag + 1 ELSE st[id].tag
            /\ st2[id].odep_list = st[id].odep_list
            /\ st2[id].onames = st[id].onames /\ st2[id].addr = st[id].addr
      /\ ruu[1] = e /\ (mem => m > 0 /\ lsq[1] = a)
      /\ FlightWithout(F, F2, e, mem, a)
  BY <1>2 DEF LeftByCommit, FlightNow
<1>6. F2 \in SUBSET F /\ \A p \in Ids : p \in F2 <=> p \in F /\ ~(p = e \/ (mem /\ p = a))
  <2> HIDE DEF F, F2, mem
  <2> QED
    BY <1>5 DEF FlightWithout
<1>7. /\ \A p \in F : p # e => st[e].seq < st[p].seq
      /\ mem => \A p \in F : p # e /\ p # a => st[a].seq < st[p].seq
  <2> DEFINE b == lsq[1]
  <2>1. /\ \A p \in Flight(ruu, n, lsq, m) : p # e => st[e].seq < st[p].seq
        /\ st[e].ea_comp => \A p \in Flight(ruu, n, lsq, m) : p # e /\ p # b => st[b].seq < st[p].seq
    <3>1. e = ruu[1]
      BY <1>5
    <3> HIDE DEF st, ruu, lsq, n, m, top, e, b
    <3> QED
      BY <1>3, <1>4, <3>1, OldestNumber DEF b
  <2> HIDE DEF ruu, lsq, n, m, F, e, a
  <2> QED
    BY <1>3, <1>5, <2>1
<1>8. ~st[e].spec_mode /\ (mem => ~st[a].spec_mode)
  <2>1. 1 \in 1..n /\ (mem => 1 \in 1..m)
    BY <1>3, <1>5
  <2>2. CASE ~spec_mode
    <3> HIDE DEF st, ruu, lsq, n, m, e, a
    <3> QED
      BY <1>4, <1>5, <2>1, <2>2 DEF Contained
  <2>3. CASE spec_mode
    <3> HIDE DEF st, ruu, lsq, n, m, e, a
    <3>1. PICK b \in 1..n : After(st, ruu, n, lsq, m, b)
      BY <1>4, <2>3 DEF Contained
    <3>2. ~st[e].spec_mode
      BY <1>3, <1>5, <2>1, <3>1 DEF After
    <3>3. ASSUME mem PROVE ~st[a].spec_mode
      <4>1. b # 1
        BY <1>1, <1>5, <3>1 DEF After, Recovering
      <4>2. st[lsq[1]].seq = st[ruu[1]].seq + 1
        BY <1>3, <1>4, <1>5, <3>3, OldestAccessFirst DEF Successor
      <4>3. st[ruu[1]].seq + 1 < st[ruu[b]].seq
        BY <1>3, <1>4, <1>5, <2>1, <3>3, <4>1 DEF Pairs, Apart
      <4>4. st[ruu[1]].seq \in Nat /\ st[ruu[b]].seq \in Nat
        <5>1. ruu[1] \in Ids /\ ruu[b] \in Ids
          BY <1>3, <2>1 DEF Places, Ids
        <5> QED
          BY <1>3, <5>1, StationFields
      <4>5. ~(st[ruu[b]].seq < st[lsq[1]].seq)
        BY <4>2, <4>3, <4>4
      <4> QED
        BY <1>5, <2>1, <3>1, <3>3, <4>5 DEF After
    <3> QED
      BY <3>2, <3>3
  <2> QED
    BY <2>2, <2>3
<1>9. DataOf(st, F, R, cv, spec_cv, use)
  BY DEF RegistersInv
<1>10. OldLeave(st, F, F2)
  <2>1. ASSUME NEW p \in F, p \notin F2
        PROVE  st[p].completed /\ ~st[p].spec_mode /\ \A q \in F2 : st[p].seq < st[q].seq
    <3>1. p = e \/ (mem /\ p = a)
      BY <1>3, <1>6, <2>1
    <3>2. \A q \in F2 : q \in F /\ q # e /\ (mem => q # a)
      BY <1>3, <1>6
    <3> HIDE DEF F, F2, e, a, st
    <3> QED
      BY <1>1, <1>7, <1>8, <3>1, <3>2
  <2> QED
    BY <2>1 DEF OldLeave
<1>11. Stay(st, st2, F, F2)
  <2>1. ASSUME NEW p \in F2
        PROVE  /\ SameMaker(st, st2, p) /\ st2[p].op = st[p].op /\ st2[p].tag = st[p].tag
               /\ st2[p].idep_ready = st[p].idep_ready /\ st2[p].odep_list = st[p].odep_list
    <3>1. p \in Ids /\ ~(p = e \/ (mem /\ p = a))
      BY <1>3, <1>6
    <3> HIDE DEF e, a, mem, st, st2, F2
    <3> QED
      BY <1>5, <3>1 DEF SameMaker, SameShape, SameRun
  <2>2. ASSUME NEW p \in Ids, p \notin F2 PROVE st2[p].odep_list = << <<>>, <<>> >>
    <3>1. p \notin F \/ st[p].completed
      BY <1>10, <2>2 DEF OldLeave
    <3>2. Outputs(st, F)
      BY <1>9 DEF DataOf
    <3> HIDE DEF st, st2, F
    <3>3. st[p].odep_list = << <<>>, <<>> >>
      BY <1>3, <3>1, <3>2, NoChainsOutside
    <3> QED
      BY <1>5, <3>3
  <2> HIDE DEF st, st2, F, F2
  <2> QED
    BY <1>6, <2>1, <2>2 DEF Stay
<1>12. create_vector' = cv /\ spec_create_vector' = spec_cv /\ use_spec_cv' = use
  BY <1>1 DEF cvVars
<1>13. SameReads(R, R2, F2)
  <2>1. F2 \in SUBSET Ids
    BY <1>3, <1>6
  <2>2. \A p \in F2 : /\ station'[p].PC = station[p].PC
                      /\ station'[p].ea_comp = station[p].ea_comp
                      /\ station'[p].in_LSQ = station[p].in_LSQ
    BY <1>5, <2>1 DEF SameShape
  <2> HIDE DEF F2
  <2> QED
    BY <1>1, <2>1, <2>2, InputsKept DEF programVars
<1>14. MemoryStays(st, st2, F2)
  <2>1. F2 \in SUBSET Ids
    BY <1>3, <1>6
  <2> HIDE DEF st, st2, F2, e, a, mem
  <2> QED
    BY <1>5, <2>1 DEF MemoryStays, SameRun
<1>15. DataOf(st2, F2, R2, cv, spec_cv, use)
  <2> HIDE DEF st, st2, F, F2, R, R2, cv, spec_cv, use, e, a, mem
  <2>1. Outputs(st, F) /\ Awaiting(st, F, R) /\ Creating(st, F, cv, spec_cv, use)
    BY <1>9 DEF DataOf
  <2>2. Outputs(st2, F2)
    BY <1>3, <1>5, <1>11, <2>1, OutputsStay
  <2>3. Awaiting(st2, F2, R2)
    BY <1>3, <1>5, <1>10, <1>11, <1>13, <2>1, AwaitingStays
  <2>4. Creating(st2, F2, cv, spec_cv, use)
    BY <1>3, <1>5, <1>10, <1>11, <2>1, CreatingStays
  <2> QED
    BY <2>2, <2>3, <2>4 DEF DataOf
<1> QED
  BY <1>12, <1>14, <1>15 DEF RegistersInv

\* Loads become ready.
LEMMA RefreshDiffers ==
  ASSUME IInv, lsq_refresh
  PROVE  /\ station' \in [Ids -> StationSet] /\ FlagsDiffer(station, station')
         /\ SameFields(station, station')
         /\ \A p \in Ids : station'[p].idep_ready = station[p].idep_ready
<1> DEFINE scan == [q |-> Lists(station), stop |-> FALSE, std_unknowns |-> <<>>]
           lsq == LSQIds
           N == LSQ_num
           F == Flight(RUUIds, RUU_num, LSQIds, LSQ_num)
           q2 == Refreshed(scan, lsq).q
           nd == <<>>
           st == station
<1>1. stage = "refresh" /\ station' = q2.station
  BY DEF lsq_refresh
<1>2. /\ F \in SUBSET Ids /\ N \in Nat /\ DOMAIN lsq = 1..N /\ Len(lsq) = N
      /\ \A n \in 1..N : lsq[n] \in F
      /\ scan \in ScanStates /\ scan.q.station = st /\ scan.q.ready_queue = ready_queue
      /\ ReadyLinks(st, F, ready_queue, nd) /\ Progress(st, F, {})
  <2> HIDE DEF scan
  <2> QED
    BY <1>1, ScanStarts DEF scan
<1>3. nd \in Seq(LinkSet)
  OBVIOUS
<1>4. /\ q2.station \in [Ids -> StationSet] /\ SameFields(st, q2.station)
      /\ \A p \in Ids : q2.station[p].idep_ready = st[p].idep_ready
  <2>1. ReadyLinks(scan.q.station, F, scan.q.ready_queue, nd) /\ Progress(scan.q.station, F, {})
    BY <1>2
  <2> HIDE DEF scan, lsq, N, F, nd, st
  <2>2. /\ q2 \in ListStates /\ SameFields(scan.q.station, q2.station)
        /\ \A p \in Ids : q2.station[p].idep_ready = scan.q.station[p].idep_ready
    BY <1>2, <1>3, <2>1, RefreshedEffect
  <2> HIDE DEF q2
  <2> QED
    BY <1>2, <2>2 DEF ListStates
<1> HIDE DEF q2, st
<1>5. FlagsDiffer(st, q2.station)
  BY <1>4, FieldsDiffer
<1> QED
  BY <1>1, <1>4, <1>5 DEF st

-----------------------------------------------------------------------------
(* What the lists of links hold: the pool, the ready queue and the chains.  *)

\* The links in the chains, as a set of places.
LEMMA ChainsAre ==
  ASSUME NEW st, NEW ids
  PROVE  Chains(st, ids) = Cardinality(ChainPlaces(st, ids))
BY DEF Chains, ChainPlaces

\* Stations with the same chains have as many links in them.
LEMMA SameChainsCounted ==
  ASSUME NEW st, NEW st2, NEW ids,
         \A p \in ids, j \in 1..2 : st2[p].odep_list[j] = st[p].odep_list[j]
  PROVE  Chains(st2, ids) = Chains(st, ids)
<1>1. ChainPlaces(st2, ids) = ChainPlaces(st, ids)
  BY DEF ChainPlaces
<1> QED BY <1>1, ChainsAre

\* Such a place.
LEMMA PlaceInChains ==
  ASSUME NEW st, NEW ids, NEW x
  PROVE  x \in ChainPlaces(st, ids) <=>
         \E id \in ids, j \in 1..2 : \E n \in DOMAIN st[id].odep_list[j] : x = <<id, j, n>>
<1> DEFINE D(id, j) == DOMAIN st[id].odep_list[j]
           U(id, j) == {<<id, j, n>> : n \in D(id, j)}
<1>1. ChainPlaces(st, ids) = UNION {U(id, j) : id \in ids, j \in 1..2}
  BY DEF ChainPlaces
<1>2. \A id, j : x \in U(id, j) <=> \E n \in D(id, j) : x = <<id, j, n>>
  OBVIOUS
<1>3. x \in UNION {U(id, j) : id \in ids, j \in 1..2}
         <=> \E id \in ids, j \in 1..2 : x \in U(id, j)
  <2> HIDE DEF U
  <2> QED OBVIOUS
<1> HIDE DEF U, D
<1>4. x \in ChainPlaces(st, ids)
         <=> \E id \in ids, j \in 1..2 : \E n \in D(id, j) : x = <<id, j, n>>
  BY <1>1, <1>2, <1>3
<1> QED BY <1>4 DEF D

\* The links of two sets of stations are those of the one and the other.
LEMMA ChainsSplit ==
  ASSUME NEW st \in [Ids -> StationSet], NEW A \in SUBSET Ids, NEW B \in SUBSET Ids,
         A \cap B = {}
  PROVE  Chains(st, A \cup B) = Chains(st, A) + Chains(st, B)
<1> DEFINE P(ids) == ChainPlaces(st, ids)
<1>1. ASSUME NEW ids, NEW x
      PROVE  x \in P(ids) <=>
         \E id \in ids, j \in 1..2 : \E n \in DOMAIN st[id].odep_list[j] : x = <<id, j, n>>
  BY PlaceInChains
<1>2. P(A \cup B) = P(A) \cup P(B)
  <2> HIDE DEF P
  <2>1. \A x : x \in P(A \cup B) <=> x \in P(A) \/ x \in P(B)
    BY <1>1
  <2> QED BY <2>1
<1>3. P(A) \cap P(B) = {}
  <2> HIDE DEF P
  <2>1. ASSUME NEW x \in P(A), x \in P(B) PROVE FALSE
    <3>1. PICK a \in A, i \in 1..2 : \E m \in DOMAIN st[a].odep_list[i] : x = <<a, i, m>>
      BY <1>1
    <3>2. PICK b \in B, j \in 1..2 : \E n \in DOMAIN st[b].odep_list[j] : x = <<b, j, n>>
      BY <1>1, <2>1
    <3>3. a = b
      BY <3>1, <3>2
    <3> QED BY <3>3
  <2> QED BY <2>1
<1>4. IsFiniteSet(P(A)) /\ IsFiniteSet(P(B))
  BY ChainsCounted
<1>5. Cardinality(P(A)) \in Nat /\ Cardinality(P(B)) \in Nat
  <2> HIDE DEF P
  <2> QED BY <1>4, FS_CardinalityType
<1>6. Cardinality(P(A) \cup P(B)) = Cardinality(P(A)) + Cardinality(P(B)) - Cardinality(P(A) \cap P(B))
  <2> HIDE DEF P
  <2> QED BY <1>4, FS_Union
<1>7. Cardinality({}) = 0
  BY FS_EmptySet
<1>8. Cardinality(P(A \cup B)) = Cardinality(P(A)) + Cardinality(P(B))
  <2> HIDE DEF P
  <2>1. Cardinality(P(A \cup B)) = Cardinality(P(A) \cup P(B))
    BY <1>2, Zenon
  <2>2. Cardinality(P(A) \cap P(B)) = 0
    BY <1>3, <1>7, Zenon
  <2> QED BY <1>5, <1>6, <2>1, <2>2
<1> QED BY <1>8, ChainsAre

\* The links of one station are those of its two chains.
LEMMA ChainsOfOne ==
  ASSUME NEW st \in [Ids -> StationSet], NEW id \in Ids
  PROVE  Chains(st, {id}) = Len(st[id].odep_list[1]) + Len(st[id].odep_list[2])
<1> DEFINE L(j) == Len(st[id].odep_list[j])
           T(j) == {<<id, j, n>> : n \in 1..L(j)}
<1>1. \A j \in 1..2 : L(j) \in Nat /\ DOMAIN st[id].odep_list[j] = 1..L(j)
  BY StationFields
<1>2. ASSUME NEW j \in 1..2 PROVE IsFiniteSet(T(j)) /\ Cardinality(T(j)) = L(j)
  <2> DEFINE m == L(j)
             I == 1..m
             U == T(j)
             g == [n \in I |-> <<id, j, n>>]
             one == 1
  <2>1. m \in Nat
    BY <1>1
  <2>2. IsFiniteSet(I) /\ Cardinality(I) = m
    <3>1. one \in Int /\ m \in Int
      BY <2>1
    <3> HIDE DEF one, m
    <3>2. IsFiniteSet(one..m) /\ Cardinality(one..m) = IF one > m THEN 0 ELSE m - one + 1
      BY <3>1, FS_Interval
    <3>3. (IF one > m THEN 0 ELSE m - one + 1) = m
      BY <2>1 DEF one
    <3> QED BY <3>2, <3>3 DEF one
  <2>3. g \in [I -> U] /\ (\A t \in U : \E n \in I : g[n] = t)
        /\ \A a, b \in I : g[a] = g[b] => a = b
    <3> HIDE DEF m
    <3>1. U = {<<id, j, n>> : n \in I}
      BY DEF m
    <3> QED BY <3>1
  <2> HIDE DEF g, I, U
  <2>4. ExistsBijection(I, U)
    <3>1. g \in Injection(I, U)
      BY <2>3 DEF Injection, IsInjective
    <3>2. g \in Surjection(I, U)
      BY <2>3 DEF Surjection
    <3> QED BY <3>1, <3>2 DEF ExistsBijection, Bijection
  <2>5. IsFiniteSet(U) /\ Cardinality(U) = m
    BY <2>2, <2>4, FS_Bijection
  <2> QED BY <2>5 DEF U
<1>3. ChainPlaces(st, {id}) = T(1) \cup T(2)
  <2>1. 1 \in 1..2 /\ 2 \in 1..2 /\ \A j \in 1..2 : j = 1 \/ j = 2
    OBVIOUS
  <2>2. ASSUME NEW x PROVE x \in ChainPlaces(st, {id}) <=> \E j \in 1..2 : x \in T(j)
    <3>1. x \in ChainPlaces(st, {id}) <=>
            \E j \in 1..2 : \E n \in DOMAIN st[id].odep_list[j] : x = <<id, j, n>>
      BY PlaceInChains
    <3> QED BY <1>1, <3>1
  <2> HIDE DEF T
  <2> QED BY <2>1, <2>2
<1>4. T(1) \cap T(2) = {}
  OBVIOUS
<1>5. 1 \in 1..2 /\ 2 \in 1..2
  OBVIOUS
<1> HIDE DEF T
<1>6. Cardinality(T(1) \cup T(2)) = Cardinality(T(1)) + Cardinality(T(2)) - Cardinality(T(1) \cap T(2))
  BY <1>2, <1>5, FS_Union
<1>7. Cardinality({}) = 0
  BY FS_EmptySet
<1>8. Cardinality(T(1) \cup T(2)) = L(1) + L(2)
  <2>1. L(1) \in Nat /\ L(2) \in Nat
    BY <1>1, <1>5
  <2>2. Cardinality(T(1)) = L(1) /\ Cardinality(T(2)) = L(2)
    BY <1>2, <1>5
  <2> HIDE DEF L
  <2> QED BY <1>4, <1>6, <1>7, <2>1, <2>2
<1> QED BY <1>3, <1>8, ChainsAre

\* A link that is pushed is one more.
LEMMA PushedCounted ==
  ASSUME NEW st \in [Ids -> StationSet], NEW st2 \in [Ids -> StationSet],
         NEW h \in Ids, NEW i \in 1..2, NEW link \in OperandSet, Pushed(st, st2, h, i, link)
  PROVE  Chains(st2, Ids) = Chains(st, Ids) + 1
<1> DEFINE rest == Ids \ {h}
<1>1. rest \in SUBSET Ids /\ {h} \in SUBSET Ids /\ rest \cap {h} = {} /\ rest \cup {h} = Ids
  OBVIOUS
<1>2. \A p \in rest, j \in 1..2 : st2[p].odep_list[j] = st[p].odep_list[j]
  BY DEF Pushed
<1>3. \A j \in 1..2 : j # i => st2[h].odep_list[j] = st[h].odep_list[j]
  BY DEF Pushed
<1>4. \A j \in 1..2 : st[h].odep_list[j] \in Seq(OperandSet)
  BY StationFields
<1>5. Len(st2[h].odep_list[i]) = Len(st[h].odep_list[i]) + 1
  <2> DEFINE list == st[h].odep_list[i]
  <2>1. st2[h].odep_list[i] = <<link>> \o list
    BY DEF Pushed
  <2>2. list \in Seq(OperandSet)
    BY <1>4
  <2> HIDE DEF list
  <2>3. Len(<<link>> \o list) = Len(list) + 1
    BY <2>2, PutInFront
  <2> QED BY <2>1, <2>3 DEF list
<1> HIDE DEF rest
<1>6. Chains(st2, rest) = Chains(st, rest)
  BY <1>2, SameChainsCounted
<1>7. /\ Chains(st, Ids) = Chains(st, rest) + Chains(st, {h})
      /\ Chains(st2, Ids) = Chains(st2, rest) + Chains(st2, {h})
  BY <1>1, ChainsSplit
<1>8. Chains(st2, {h}) = Chains(st, {h}) + 1
  <2> DEFINE a(j) == Len(st[h].odep_list[j])
             b(j) == Len(st2[h].odep_list[j])
  <2>1. Chains(st, {h}) = a(1) + a(2) /\ Chains(st2, {h}) = b(1) + b(2)
    BY ChainsOfOne
  <2>2. 1 \in 1..2 /\ 2 \in 1..2 /\ (i = 1 \/ i = 2)
    OBVIOUS
  <2>3. a(1) \in Nat /\ a(2) \in Nat
    BY <1>4, <2>2
  <2>4. b(i) = a(i) + 1 /\ \A j \in 1..2 : j # i => b(j) = a(j)
    BY <1>3, <1>5
  <2> HIDE DEF a, b
  <2> QED BY <2>1, <2>2, <2>3, <2>4
<1>9. Chains(st, rest) \in Nat /\ Chains(st, {h}) \in Nat
  BY <1>1, ChainsCounted
<1> QED BY <1>6, <1>7, <1>8, <1>9

\* When the chains of some stations are emptied, their links are gone.
LEMMA EmptiedCounted ==
  ASSUME NEW st \in [Ids -> StationSet], NEW st2 \in [Ids -> StationSet], NEW ids \in SUBSET Ids,
         \A p \in Ids, j \in 1..2 :
            st2[p].odep_list[j] = IF p \in ids THEN <<>> ELSE st[p].odep_list[j]
  PROVE  Chains(st2, Ids) + Chains(st, ids) = Chains(st, Ids)
<1> DEFINE rest == Ids \ ids
<1>1. rest \in SUBSET Ids /\ rest \cap ids = {} /\ rest \cup ids = Ids
  OBVIOUS
<1>2. \A p \in rest, j \in 1..2 : st2[p].odep_list[j] = st[p].odep_list[j]
  OBVIOUS
<1> HIDE DEF rest
<1>3. Chains(st2, rest) = Chains(st, rest)
  BY <1>2, SameChainsCounted
<1>4. /\ Chains(st, Ids) = Chains(st, rest) + Chains(st, ids)
      /\ Chains(st2, Ids) = Chains(st2, rest) + Chains(st2, ids)
  BY <1>1, ChainsSplit
<1>5. Chains(st2, ids) = 0
  <2>1. \A p \in ids, j \in 1..2 : DOMAIN st2[p].odep_list[j] = {}
    OBVIOUS
  <2>2. ChainPlaces(st2, ids) = {}
    BY <2>1 DEF ChainPlaces
  <2> QED BY <2>2, ChainsAre, FS_EmptySet
<1>6. Chains(st, rest) \in Nat /\ Chains(st, ids) \in Nat
  BY <1>1, ChainsCounted
<1> QED BY <1>3, <1>4, <1>5, <1>6

\* The links that are free, in the ready queue or in an output chain.
Held(q) == q.free + Len(q.ready_queue) + Chains(q.station, Ids)

\* Lists that are as long and chains that are the same hold as many links.
LEMMA HeldAlike ==
  ASSUME NEW q, NEW q2, q2.free = q.free, Len(q2.ready_queue) = Len(q.ready_queue),
         SameChains(q.station, q2.station)
  PROVE  Held(q2) = Held(q)
<1>1. Chains(q2.station, Ids) = Chains(q.station, Ids)
  BY SameChainsCounted DEF SameChains
<1> QED BY <1>1 DEF Held

\* Stations that differ in what is ready or queued have the same chains.
LEMMA FieldsChains ==
  ASSUME NEW st, NEW st2, SameFields(st, st2)
  PROVE  SameChains(st, st2)
BY DEF SameFields, SameChains

\* Enqueueing a station moves a link from the pool to the ready queue.
LEMMA EnqueueHolds ==
  ASSUME NEW q, q \in ListStates \/ q \in RenameStates, NEW id \in Ids
  PROVE  Held(readyq_enqueue(q, id)) = Held(q)
<1> DEFINE e == readyq_enqueue(q, id)
           st == q.station
<1>1. st \in [Ids -> StationSet] /\ q.ready_queue \in Seq(LinkSet) /\ q.free \in Int
  BY DEF ListStates, RenameStates
<1>2. e.free = q.free - 1
  BY DEF readyq_enqueue, ListStates, RenameStates
<1>3. /\ e.station = [st EXCEPT ![id].queued = TRUE]
      /\ Inserted(q.ready_queue, e.ready_queue, Link(st, id, st[id].seq))
  BY EnqueueEffect
<1> HIDE DEF e, st
<1>4. Len(e.ready_queue) = Len(q.ready_queue) + 1
  BY <1>3 DEF Inserted
<1>5. SameFields(st, e.station)
  <2>1. SameFields(st, [st EXCEPT ![id].queued = TRUE])
    BY <1>1, FlagsSameFields
  <2> QED BY <1>3, <2>1
<1>6. Chains(e.station, Ids) = Chains(st, Ids)
  BY <1>5, FieldsChains, SameChainsCounted DEF SameChains
<1>7. Chains(st, Ids) \in Nat /\ Len(q.ready_queue) \in Nat
  BY <1>1, ChainsCounted
<1> QED BY <1>1, <1>2, <1>4, <1>6, <1>7 DEF Held, e, st

\* So does waking a station.
LEMMA WakeHolds ==
  ASSUME NEW q \in ListStates, NEW link \in OperandSet
  PROVE  Held(Wake(q, link)) = Held(q)
<1> DEFINE st == q.station
           st2 == [st EXCEPT ![link.rs].idep_ready[link.x] = TRUE]
           woken == [q EXCEPT !.station[link.rs].idep_ready[link.x] = TRUE]
<1>1. link.rs \in Ids /\ link.x \in 1..3 /\ st \in [Ids -> StationSet]
  BY DEF OperandSet, ListStates
<1>2. st2 \in [Ids -> StationSet] /\ SameFields(st, st2)
  BY <1>1, FlagUpdates, FlagsSameFields
<1>3. woken = [q EXCEPT !.station = st2]
  BY DEF ListStates
<1>4. /\ woken \in ListStates /\ woken.station = st2
      /\ woken.free = q.free /\ woken.ready_queue = q.ready_queue
  BY <1>2, <1>3 DEF ListStates
<1>5. Wake(q, link) = q \/ Wake(q, link) = woken \/ Wake(q, link) = readyq_enqueue(woken, link.rs)
  BY DEF Wake
<1> HIDE DEF woken, st2, st
<1>6. Held(woken) = Held(q)
  BY <1>2, <1>4, FieldsChains, HeldAlike DEF st
<1>7. Held(readyq_enqueue(woken, link.rs)) = Held(woken)
  BY <1>1, <1>4, EnqueueHolds
<1> QED BY <1>5, <1>6, <1>7

\* What every step of an iteration keeps the iteration keeps.
LEMMA HeldThroughout ==
  ASSUME NEW N \in Nat, NEW f, \A n \in 1..N : Held(f[n]) = Held(f[n - 1])
  PROVE  Held(f[N]) = Held(f[0])
<1> DEFINE P == {n \in 0..N : Held(f[n]) = Held(f[0])}
<1>1. 0 \in P /\ P \in SUBSET (0..N) /\ \A n \in 1..N : n - 1 \in P => n \in P
  OBVIOUS
<1> HIDE DEF P
<1>2. P = 0..N
  BY <1>1, Iteration
<1>3. N \in P
  BY <1>2
<1> QED BY <1>3 DEF P

\* So does a whole chain.
LEMMA WokenHolds ==
  ASSUME NEW q \in ListStates, NEW links \in Seq(OperandSet)
  PROVE  Woken(q, links) \in ListStates /\ Held(Woken(q, links)) = Held(q)
<1> DEFINE N == Len(links)
<1>1. N \in Nat /\ DOMAIN links = 1..N /\ \A n \in 1..N : n - 1 \in 0..N /\ links[n] \in OperandSet
  OBVIOUS
<1>2. PICK f \in [0..N -> ListStates] :
         /\ f[0] = q
         /\ \A n \in 1..N : f[n] = Wake(f[n - 1], links[n])
         /\ Woken(q, links) = f[N]
  BY WokenStates
<1> HIDE DEF N
<1>3. \A n \in 1..N : Held(f[n]) = Held(f[n - 1])
  BY <1>1, <1>2, WakeHolds
<1>4. N \in Nat /\ N \in 0..N
  BY <1>1
<1>5. Held(f[N]) = Held(f[0])
  BY <1>3, <1>4, HeldThroughout
<1> QED BY <1>2, <1>4, <1>5

\* So does lsq_refresh.
LEMMA RefreshedHolds ==
  ASSUME NEW scan \in ScanStates, NEW lsq, NEW N \in Nat, Len(lsq) = N,
         \A n \in 1..N : lsq[n] \in Ids
  PROVE  Refreshed(scan, lsq).q \in ListStates /\ Held(Refreshed(scan, lsq).q) = Held(scan.q)
<1>1. PICK f \in [0..N -> ScanStates] : Scans(f, scan, lsq, N)
  BY RefreshedStates
<1> DEFINE g == [n \in 0..N |-> f[n].q]
<1>2. \A n \in 0..N : f[n].q \in ListStates
  BY DEF ScanStates
<1>3. ASSUME NEW n \in 1..N PROVE Held(f[n].q) = Held(f[n - 1].q)
  <2> DEFINE u == f[n - 1]
             d == Refresh(u, lsq[n])
  <2>1. n - 1 \in 0..N /\ n \in 0..N
    OBVIOUS
  <2>2. u \in ScanStates /\ u.q \in ListStates /\ f[n] = d
    BY <1>1, <1>2, <2>1 DEF Scans
  <2> HIDE DEF u
  <2>3. d.q = u.q \/ d.q = readyq_enqueue(u.q, lsq[n])
    BY <2>2, RefreshEffect
  <2>4. Held(readyq_enqueue(u.q, lsq[n])) = Held(u.q)
    BY <2>2, EnqueueHolds
  <2> HIDE DEF d
  <2> QED BY <2>2, <2>3, <2>4 DEF u
<1>4. \A n \in 1..N : Held(g[n]) = Held(g[n - 1])
  <2>1. \A n \in 1..N : n \in 0..N /\ n - 1 \in 0..N
    OBVIOUS
  <2> QED BY <1>3, <2>1
<1> HIDE DEF g
<1>5. Held(g[N]) = Held(g[0])
  BY <1>4, HeldThroughout
<1>6. g[N] = f[N].q /\ g[0] = f[0].q /\ N \in 0..N
  BY DEF g
<1> QED BY <1>1, <1>2, <1>5, <1>6 DEF Scans

\* So does a link that is enqueued again.
LEMMA PutBackHolds ==
  ASSUME NEW q \in ListStates, NEW link \in LinkSet
  PROVE  Held(PutBack(q, link)) = Held(q)
<1> DEFINE st == q.station
           st2 == [st EXCEPT ![link.rs].queued = FALSE]
           taken == [q EXCEPT !.station[link.rs].queued = FALSE]
<1>1. link.rs \in Ids /\ st \in [Ids -> StationSet]
  BY DEF LinkSet, ListStates
<1>2. st2 \in [Ids -> StationSet] /\ SameFields(st, st2)
  BY <1>1, FlagUpdates, FlagsSameFields
<1>3. taken = [q EXCEPT !.station = st2]
  BY DEF ListStates
<1>4. /\ taken \in ListStates /\ taken.station = st2
      /\ taken.free = q.free /\ taken.ready_queue = q.ready_queue
  BY <1>2, <1>3 DEF ListStates
<1>5. PutBack(q, link) = q \/ PutBack(q, link) = readyq_enqueue(taken, link.rs)
  BY DEF PutBack
<1> HIDE DEF taken, st2, st
<1>6. Held(taken) = Held(q)
  BY <1>2, <1>4, FieldsChains, HeldAlike DEF st
<1>7. Held(readyq_enqueue(taken, link.rs)) = Held(taken)
  BY <1>1, <1>4, EnqueueHolds
<1> QED BY <1>5, <1>6, <1>7

\* So do all that the issue width left over.
LEMMA AllPutBackHolds ==
  ASSUME NEW q \in ListStates, NEW links \in Seq(LinkSet)
  PROVE  AllPutBack(q, links) \in ListStates /\ Held(AllPutBack(q, links)) = Held(q)
<1> DEFINE N == Len(links)
<1>1. N \in Nat /\ DOMAIN links = 1..N /\ \A n \in 1..N : n - 1 \in 0..N /\ links[n] \in LinkSet
  OBVIOUS
<1>2. PICK f \in [0..N -> ListStates] : PutsBack(f, q, links)
  BY PutBackStates
<1> HIDE DEF N
<1>3. \A n \in 1..N : Held(f[n]) = Held(f[n - 1])
  BY <1>1, <1>2, PutBackHolds DEF PutsBack, N
<1>4. N \in Nat /\ N \in 0..N
  BY <1>1
<1>5. Held(f[N]) = Held(f[0])
  BY <1>3, <1>4, HeldThroughout
<1> QED BY <1>2, <1>4, <1>5 DEF PutsBack, N

\* Linking an operand moves a link from the pool to an output chain.
LEMMA LinkIdepHolds ==
  ASSUME NEW c \in RenameStates, NEW id \in Ids, NEW k \in 1..3, NEW r \in Registers
  PROVE  Held(ruu_link_idep(c, id, k, r)) = Held(c)
<1> DEFINE d == ruu_link_idep(c, id, k, r)
           head == Creator(c, r)
           st == c.station
           link == Link(st, id, k)
<1>1. d \in RenameStates /\ d.ready_queue = c.ready_queue /\ LinkedTo(c, d, id, k, r)
  BY LinkIdepExact
<1>2. d.free = IF head.rs = NoRS THEN c.free ELSE c.free - 1
  BY DEF ruu_link_idep, RenameStates, Creator
<1>3. /\ st \in [Ids -> StationSet] /\ d.station \in [Ids -> StationSet]
      /\ c.free \in Int /\ c.ready_queue \in Seq(LinkSet)
  BY <1>1 DEF RenameStates
<1>4. NoRS \notin Ids
  BY DEF NoRS, Ids, RUU, LSQ
<1>5. link \in OperandSet
  BY <1>3, StationFields DEF Link, OperandSet
<1> HIDE DEF d, link, head
<1>6. CASE head.rs = NoRS /\ SameChains(st, d.station)
  BY <1>1, <1>2, <1>6, HeldAlike DEF d
<1>7. CASE head.rs \in Ids /\ head.odep_num \in 1..2
           /\ Pushed(st, d.station, head.rs, head.odep_num, link)
  <2>1. Chains(d.station, Ids) = Chains(st, Ids) + 1
    BY <1>3, <1>5, <1>7, PushedCounted
  <2>2. Chains(st, Ids) \in Nat /\ Len(c.ready_queue) \in Nat
    BY <1>3, ChainsCounted
  <2>3. d.free = c.free - 1
    BY <1>2, <1>4, <1>7
  <2> QED BY <1>1, <1>3, <2>1, <2>2, <2>3 DEF Held, d
<1> QED BY <1>1, <1>6, <1>7 DEF LinkedTo, head, link

\* Naming an output whose chain is empty moves none.
LEMMA InstallHolds ==
  ASSUME NEW c \in RenameStates, NEW id \in Ids, NEW k \in 1..2, NEW r \in Registers,
         r # NA => c.station[id].odep_list[k] = <<>>
  PROVE  Held(ruu_install_odep(c, id, k, r)) = Held(c)
<1> DEFINE d == ruu_install_odep(c, id, k, r)
<1>1. d \in RenameStates /\ d.ready_queue = c.ready_queue /\ Installed(c, d, id, k, r)
  BY InstallExact
<1>2. d.free = c.free
  BY DEF ruu_install_odep, RenameStates
<1> HIDE DEF d
<1>3. SameChains(c.station, d.station)
  BY <1>1 DEF Installed, SameChains
<1> QED BY <1>1, <1>2, <1>3, HeldAlike DEF d

-----------------------------------------------------------------------------
(* Renaming.                                                               *)

\* The list new is list with link in front of it.
LedBy(new, link, list) == new = <<link>> \o list

\* The elements of new are those of list, and link.
HasElements(new, link, list) ==
    /\ \E m \in DOMAIN new : new[m] = link
    /\ \A n \in DOMAIN list : \E m \in DOMAIN new : new[m] = list[n]
    /\ \A m \in DOMAIN new : new[m] = link \/ \E n \in DOMAIN list : new[m] = list[n]

\* The elements of a list with one more in front.
LEMMA PrefixedElements ==
  ASSUME NEW list \in Seq(OperandSet), NEW link \in OperandSet, NEW new,
         LedBy(new, link, list)
  PROVE  HasElements(new, link, list)
<1> DEFINE one == <<link>>
<1>1. one \in Seq(OperandSet) /\ Len(one) = 1 /\ one[1] = link
  OBVIOUS
<1> HIDE DEF one
<1>2. /\ new \in Seq(OperandSet) /\ Len(new) = 1 + Len(list)
      /\ \A m \in 1..Len(new) : new[m] = IF m <= 1 THEN one[m] ELSE list[m - 1]
  <2>1. /\ one \o list \in Seq(OperandSet) /\ Len(one \o list) = Len(one) + Len(list)
        /\ \A m \in 1..Len(one) + Len(list) :
              (one \o list)[m] = IF m <= Len(one) THEN one[m] ELSE list[m - Len(one)]
    BY <1>1, ConcatProperties
  <2>2. new = one \o list
    BY DEF one, LedBy
  <2> QED
    BY <1>1, <2>1, <2>2
<1>3. DOMAIN new = 1..1 + Len(list) /\ DOMAIN list = 1..Len(list) /\ Len(list) \in Nat
  BY <1>2
<1>4. 1 \in DOMAIN new /\ new[1] = link
  BY <1>1, <1>2, <1>3
<1>5. ASSUME NEW n \in DOMAIN list PROVE n + 1 \in DOMAIN new /\ new[n + 1] = list[n]
  <2>1. n \in 1..Len(list) /\ n + 1 \in 1..1 + Len(list) /\ ~(n + 1 <= 1) /\ (n + 1) - 1 = n
    BY <1>3
  <2>2. n + 1 \in 1..Len(new)
    BY <1>2, <2>1
  <2> QED
    BY <1>2, <1>3, <2>1, <2>2
<1>6. ASSUME NEW m \in DOMAIN new PROVE new[m] = link \/ \E n \in DOMAIN list : new[m] = list[n]
  <2>1. CASE m = 1
    BY <1>4, <2>1
  <2>2. CASE m # 1
    <3>1. m - 1 \in DOMAIN list /\ m \in 1..Len(new) /\ ~(m <= 1)
      BY <1>2, <1>3, <2>2
    <3> QED
      BY <1>2, <3>1
  <2> QED
    BY <2>1, <2>2
<1> QED
  BY <1>4, <1>5, <1>6 DEF HasElements

\* The links to all operands but operand k of id are as they were.
OtherLinks(st, st2, id, k) ==
    \A p \in Ids, q \in Ids, m \in 1 .. 3 :
        q # id \/ m # k => (Linked(st2, p, q, m) <=> Linked(st, p, q, m))

\* Operand k of id waits in the first chain of h, if that is a station.
LinkedOne(st, st2, id, k, h) ==
    /\ \A p \in Ids : Linked(st2, p, id, k) <=> Linked(st, p, id, k) \/ p = h
    /\ OtherLinks(st, st2, id, k)
    /\ \A p \in Ids : /\ st2[p].odep_list[2] = st[p].odep_list[2]
                      /\ p # h => st2[p].odep_list[1] = st[p].odep_list[1]

\* A chain that is as it was links as it did.
LEMMA SameLinked ==
  ASSUME NEW st, NEW st2, SameTags(st, st2), NEW p, NEW q \in Ids, NEW m,
         st2[p].odep_list[1] = st[p].odep_list[1]
  PROVE  Linked(st2, p, q, m) <=> Linked(st, p, q, m)
<1> DEFINE chain == st[p].odep_list[1]
<1>1. st2[p].odep_list[1] = chain /\ st2[q].tag = st[q].tag
  BY DEF SameTags
<1> HIDE DEF chain
<1>2. \A n \in DOMAIN chain : GoodLink(st2, chain[n], q, m) <=> GoodLink(st, chain[n], q, m)
  BY <1>1 DEF GoodLink, RSLINK_VALID
<1> QED
  BY <1>1, <1>2 DEF Linked, chain

\* A link at the front of a chain adds one operand to it.
LEMMA PushedLinks ==
  ASSUME NEW st \in [Ids -> StationSet], NEW st2 \in [Ids -> StationSet],
         SameTags(st, st2), NEW id \in Ids, NEW k \in 1..3, NEW h \in Ids,
         Pushed(st, st2, h, 1, Link(st, id, k))
  PROVE  LinkedOne(st, st2, id, k, h)
<1> DEFINE link == Link(st, id, k)
           old == st[h].odep_list[1]
           new == st2[h].odep_list[1]
<1>1. link \in OperandSet /\ link.rs = id /\ link.x = k /\ link.tag = st[id].tag
  BY StationFields DEF Link, OperandSet
<1>2. old \in Seq(OperandSet)
  BY StationFields
<1>3. Pushed(st, st2, h, 1, link)
  OBVIOUS
<1> HIDE DEF link
<1>4. LedBy(new, link, old)
  <2>1. 1 \in 1..2
    OBVIOUS
  <2> QED
    BY Zenon, <1>3, <2>1 DEF Pushed, LedBy
<1>5. \A p \in Ids : /\ st2[p].odep_list[2] = st[p].odep_list[2]
                     /\ p # h => st2[p].odep_list[1] = st[p].odep_list[1]
  BY <1>3 DEF Pushed
<1> HIDE DEF old, new
<1>6. ASSUME NEW q \in Ids, NEW m \in 1..3
      PROVE  /\ \A n \in DOMAIN old : GoodLink(st2, old[n], q, m) <=> GoodLink(st, old[n], q, m)
             /\ GoodLink(st2, link, q, m) <=> q = id /\ m = k
  <2>1. st2[q].tag = st[q].tag
    BY DEF SameTags
  <2> QED
    BY <1>1, <2>1 DEF GoodLink, RSLINK_VALID
<1>7. ASSUME NEW q \in Ids, NEW m \in 1..3
      PROVE  Linked(st2, h, q, m) <=> Linked(st, h, q, m) \/ (q = id /\ m = k)
  <2>1. HasElements(new, link, old)
    BY <1>1, <1>2, <1>4, PrefixedElements
  <2>2. /\ Linked(st2, h, q, m) <=> \E n \in DOMAIN new : GoodLink(st2, new[n], q, m)
        /\ Linked(st, h, q, m) <=> \E n \in DOMAIN old : GoodLink(st, old[n], q, m)
    BY DEF Linked, old, new
  <2> QED
    BY <1>6, <2>1, <2>2 DEF HasElements
<1>8. ASSUME NEW p \in Ids, p # h, NEW q \in Ids, NEW m \in 1..3
      PROVE  Linked(st2, p, q, m) <=> Linked(st, p, q, m)
  BY <1>5, <1>8, SameLinked
<1> QED
  BY <1>5, <1>7, <1>8 DEF LinkedOne, OtherLinks

\* Neither does a rename step change anything but the new links.
IdepStep(c, d, id, k, r) ==
    /\ d \in RenameStates /\ SameVectors(c, d) /\ Renames(c.station, d.station, id)
    /\ d.station[id].onames = c.station[id].onames
    /\ \A m \in 1..3 : m # k => (d.station[id].idep_ready[m] <=> c.station[id].idep_ready[m])
    /\ d.station[id].idep_ready[k] <=> Creator(c, r).rs = NoRS
    /\ LinkedOne(c.station, d.station, id, k, Creator(c, r).rs)
    /\ Held(d) = Held(c)

\* An operand is ready, or it waits for its creator.
LEMMA IdepLinked ==
  ASSUME NEW c \in RenameStates, NEW id \in Ids, NEW k \in 1..3, NEW r \in Registers,
         Creator(c, r).odep_num = 1
  PROVE  IdepStep(c, ruu_link_idep(c, id, k, r), id, k, r)
<1> DEFINE d == ruu_link_idep(c, id, k, r)
           h == Creator(c, r).rs
           st == c.station
           st2 == d.station
<1>1. /\ d \in RenameStates /\ SameVectors(c, d) /\ Renames(st, st2, id)
      /\ d.station[id].onames = c.station[id].onames
      /\ \A m \in 1..3 : m # k => (d.station[id].idep_ready[m] <=> c.station[id].idep_ready[m])
      /\ LinkedTo(c, d, id, k, r) /\ Held(d) = Held(c)
  BY LinkIdepExact, LinkIdepHolds
<1> HIDE DEF d
<1>2. st \in [Ids -> StationSet] /\ st2 \in [Ids -> StationSet]
  BY <1>1 DEF RenameStates
<1>3. SameTags(st, st2)
  BY <1>1 DEF Renames, SameTags
<1>4. NoRS \notin Ids
  BY DEF NoRS, Ids, RUU, LSQ
<1> SUFFICES IdepStep(c, d, id, k, r)
  BY DEF d
<1>5. CASE h = NoRS /\ d.station[id].idep_ready[k] /\ SameChains(st, st2)
  <2>1. \A p \in Ids : st2[p].odep_list[1] = st[p].odep_list[1] /\ st2[p].odep_list[2] = st[p].odep_list[2]
    BY <1>5 DEF SameChains
  <2>2. \A p \in Ids, q \in Ids, m \in 1..3 : Linked(st2, p, q, m) <=> Linked(st, p, q, m)
    BY <1>3, <2>1, SameLinked
  <2>3. LinkedOne(st, st2, id, k, h)
    BY <1>4, <1>5, <2>1, <2>2 DEF LinkedOne, OtherLinks
  <2> QED
    BY <1>1, <1>5, <2>3 DEF IdepStep
<1>6. CASE /\ h \in Ids /\ ~d.station[id].idep_ready[k]
           /\ Pushed(st, st2, h, Creator(c, r).odep_num, Link(st, id, k))
  <2>1. Pushed(st, st2, h, 1, Link(st, id, k)) /\ h \in Ids
    BY <1>6
  <2>2. LinkedOne(st, st2, id, k, h)
    <3> HIDE DEF st, st2, h
    <3> QED
      BY <1>2, <1>3, <2>1, PushedLinks
  <2> QED
    BY <1>1, <1>4, <1>6, <2>2 DEF IdepStep
<1> QED
  BY <1>1, <1>5, <1>6 DEF LinkedTo

\* The operands ins of id wait for their creators, and for them only.
NewLinks(c, st2, id, ins) ==
    /\ \A k \in 1 .. 3 :
          /\ st2[id].idep_ready[k] <=> Creator(c, ins[k]).rs = NoRS
          /\ \A p \in Ids : Linked(st2, p, id, k) <=> p = Creator(c, ins[k]).rs
    /\ \A p \in Ids, q \in Ids, m \in 1 .. 3 :
          q # id => (Linked(st2, p, q, m) <=> Linked(c.station, p, q, m))
    /\ \A p \in Ids :
          /\ st2[p].odep_list[2] = c.station[p].odep_list[2]
          /\ (\A k \in 1 .. 3 : p # Creator(c, ins[k]).rs)
               => st2[p].odep_list[1] = c.station[p].odep_list[1]

\* The operands of id have been linked.
OperandsTo(c, d, id, ins) ==
    /\ d \in RenameStates /\ SameVectors(c, d) /\ Renames(c.station, d.station, id)
    /\ d.station[id].onames = c.station[id].onames
    /\ NewLinks(c, d.station, id, ins)
    /\ Held(d) = Held(c)

\* A creator depends on the vectors only.
LEMMA SameCreator ==
  ASSUME NEW c, NEW d, SameVectors(c, d), NEW r
  PROVE  Creator(d, r) = Creator(c, r)
BY DEF SameVectors, Creator, CREATE_VECTOR

\* Three steps link the operands of a station that had no links to it.
LEMMA OperandsLinked ==
  ASSUME NEW c \in RenameStates, NEW id \in Ids, NEW ins, \A k \in 1..3 : ins[k] \in Registers,
         \A k \in 1..3 : Creator(c, ins[k]).odep_num = 1, Unchained(c.station, id, 1),
         NEW c1, IdepStep(c, c1, id, 1, ins[1]), NEW c2, IdepStep(c1, c2, id, 2, ins[2]),
         NEW c3, IdepStep(c2, c3, id, 3, ins[3])
  PROVE  OperandsTo(c, c3, id, ins)
<1> DEFINE st == c.station
           h1 == Creator(c, ins[1]).rs
           h2 == Creator(c, ins[2]).rs
           h3 == Creator(c, ins[3]).rs
<1>1. SameVectors(c, c1) /\ SameVectors(c1, c2) /\ SameVectors(c2, c3)
  BY DEF IdepStep
<1>2. SameVectors(c, c2) /\ SameVectors(c, c3)
  BY <1>1 DEF SameVectors
<1>3. Creator(c1, ins[2]).rs = h2 /\ Creator(c2, ins[3]).rs = h3
  BY <1>1, <1>2, SameCreator
<1>4. /\ LinkedOne(st, c1.station, id, 1, h1) /\ LinkedOne(c1.station, c2.station, id, 2, h2)
      /\ LinkedOne(c2.station, c3.station, id, 3, h3)
  BY <1>3 DEF IdepStep
<1>5. Renames(st, c3.station, id)
  <2>1. /\ Renames(st, c1.station, id) /\ Renames(c1.station, c2.station, id)
        /\ Renames(c2.station, c3.station, id)
    BY DEF IdepStep
  <2>2. Renames(st, c2.station, id)
    BY <2>1, RenamesTransitive
  <2> QED
    BY <2>1, <2>2, RenamesTransitive
<1>6. ASSUME NEW p \in Ids, NEW k \in 1..3 PROVE ~Linked(st, p, id, k)
  <2>1. SUFFICES ASSUME Linked(st, p, id, k) PROVE FALSE
    OBVIOUS
  <2> DEFINE chain == st[p].odep_list[1]
  <2>2. PICK n \in DOMAIN chain : GoodLink(st, chain[n], id, k)
    BY <2>1 DEF Linked
  <2>3. chain[n].rs = id /\ chain[n].x = k /\ RSLINK_VALID(st, chain[n])
    BY <2>2 DEF GoodLink
  <2>4. chain[n].x < 1
    <3>1. 1 \in 1..2
      OBVIOUS
    <3> QED
      BY <2>3, <3>1 DEF Unchained
  <2> HIDE DEF chain
  <2> QED
    BY <2>3, <2>4
<1>7. /\ c3.station[id].idep_ready[1] <=> h1 = NoRS
      /\ c3.station[id].idep_ready[2] <=> h2 = NoRS
      /\ c3.station[id].idep_ready[3] <=> h3 = NoRS
  BY <1>3 DEF IdepStep
<1> HIDE DEF st, h1, h2, h3
<1>8. ASSUME NEW p \in Ids
      PROVE  /\ Linked(c3.station, p, id, 1) <=> p = h1
             /\ Linked(c3.station, p, id, 2) <=> p = h2
             /\ Linked(c3.station, p, id, 3) <=> p = h3
  BY <1>4, <1>6 DEF LinkedOne, OtherLinks
<1>9. ASSUME NEW p \in Ids, NEW q \in Ids, NEW m \in 1..3, q # id
      PROVE  Linked(c3.station, p, q, m) <=> Linked(st, p, q, m)
  BY <1>4, <1>9 DEF LinkedOne, OtherLinks
<1>10. ASSUME NEW p \in Ids
       PROVE  /\ c3.station[p].odep_list[2] = st[p].odep_list[2]
              /\ p # h1 /\ p # h2 /\ p # h3
                   => c3.station[p].odep_list[1] = st[p].odep_list[1]
  BY <1>4 DEF LinkedOne
<1>11. NewLinks(c, c3.station, id, ins)
  <2>1. \A k \in 1..3 : k = 1 \/ k = 2 \/ k = 3
    OBVIOUS
  <2>2. 1 \in 1..3 /\ 2 \in 1..3 /\ 3 \in 1..3
    OBVIOUS
  <2> QED
    BY <1>7, <1>8, <1>9, <1>10, <2>1, <2>2 DEF NewLinks, st, h1, h2, h3
<1>12. c3 \in RenameStates /\ c3.station[id].onames = st[id].onames /\ Held(c3) = Held(c)
  BY DEF IdepStep, st
<1> QED
  BY <1>2, <1>5, <1>11, <1>12 DEF OperandsTo, st

\* The station id is renamed: it reads ins and makes r.
RenamedTo(c, d, id, ins, r) ==
    /\ d \in RenameStates /\ Renames(c.station, d.station, id)
    /\ d.station[id].onames[1] = r /\ d.station[id].onames[2] = NA
    /\ NewLinks(c, d.station, id, ins)
    /\ VectorsAfter(c, d, id, 1, r) /\ Held(d) = Held(c)

\* Renaming links the operands, and names the output.
LEMMA RenamedExact ==
  ASSUME NEW c \in RenameStates, NEW id \in Ids, NEW ins, \A k \in 1..3 : ins[k] \in Registers,
         \A k \in 1..3 : Creator(c, ins[k]).odep_num = 1 /\ Creator(c, ins[k]).rs # id,
         Unchained(c.station, id, 1), c.station[id].odep_list[1] = <<>>, NEW r \in Registers
  PROVE  RenamedTo(c, Renamed(c, id, ins, <<r, NA>>), id, ins, r)
<1> DEFINE c1 == ruu_link_idep(c, id, 1, ins[1])
           c2 == ruu_link_idep(c1, id, 2, ins[2])
           c3 == ruu_link_idep(c2, id, 3, ins[3])
           d1 == ruu_install_odep(c3, id, 1, r)
           d == ruu_install_odep(d1, id, 2, NA)
<1>1. Renamed(c, id, ins, <<r, NA>>) = d
  BY DEF Renamed
<1>2. NA \in Registers /\ 1 \in 1..3 /\ 2 \in 1..3 /\ 3 \in 1..3 /\ 1 \in 1..2 /\ 2 \in 1..2
  BY DEF Registers
<1>3. IdepStep(c, c1, id, 1, ins[1])
  BY <1>2, IdepLinked
<1> HIDE DEF c1
<1>4. IdepStep(c1, c2, id, 2, ins[2])
  <2>1. c1 \in RenameStates /\ SameVectors(c, c1)
    BY <1>3 DEF IdepStep
  <2>2. Creator(c1, ins[2]).odep_num = 1
    BY <1>2, <2>1, SameCreator
  <2> QED
    BY <1>2, <2>1, <2>2, IdepLinked
<1> HIDE DEF c2
<1>5. IdepStep(c2, c3, id, 3, ins[3])
  <2>1. c2 \in RenameStates /\ SameVectors(c, c2)
    BY <1>3, <1>4 DEF IdepStep, SameVectors
  <2>2. Creator(c2, ins[3]).odep_num = 1
    BY <1>2, <2>1, SameCreator
  <2> QED
    BY <1>2, <2>1, <2>2, IdepLinked
<1> HIDE DEF c3
<1>6. OperandsTo(c, c3, id, ins)
  BY <1>3, <1>4, <1>5, OperandsLinked
<1>7. c3 \in RenameStates
  BY <1>6 DEF OperandsTo
<1>8. /\ d1 \in RenameStates /\ Renames(c3.station, d1.station, id)
      /\ d1.station[id].idep_ready = c3.station[id].idep_ready
      /\ Installed(c3, d1, id, 1, r) /\ Held(d1) = Held(c3)
  <2>1. c3.station[id].odep_list[1] = <<>>
    BY <1>6 DEF OperandsTo, NewLinks
  <2> QED
    BY <1>2, <1>7, <2>1, InstallExact, InstallHolds
<1> HIDE DEF d1
<1>9. /\ d \in RenameStates /\ Renames(d1.station, d.station, id)
      /\ d.station[id].idep_ready = d1.station[id].idep_ready
      /\ Installed(d1, d, id, 2, NA) /\ Held(d) = Held(d1)
  BY <1>2, <1>8, InstallExact, InstallHolds
<1> HIDE DEF d
<1>10. Renames(c.station, d.station, id)
  <2>1. Renames(c.station, c3.station, id)
    BY <1>6 DEF OperandsTo
  <2>2. Renames(c.station, d1.station, id)
    BY <1>8, <2>1, RenamesTransitive
  <2> QED
    BY <1>9, <2>2, RenamesTransitive
<1>11. d.station[id].onames[1] = r /\ d.station[id].onames[2] = NA
  <2> DEFINE o == c3.station[id].onames
  <2>1. o \in [1..2 -> Registers]
    <3>1. c3.station \in [Ids -> StationSet]
      BY <1>7 DEF RenameStates
    <3> QED
      BY <3>1 DEF StationSet
  <2>2. d.station[id].onames = [[o EXCEPT ![1] = r] EXCEPT ![2] = NA]
    BY <1>8, <1>9 DEF Installed
  <2> HIDE DEF o
  <2> QED
    BY <2>1, <2>2
<1>12. VectorsAfter(c, d, id, 1, r)
  <2>1. SameVectors(c, c3) /\ (c3.station[id].spec_mode <=> c.station[id].spec_mode)
    BY <1>6 DEF OperandsTo, Renames
  <2>2. SameVectors(d1, d)
    BY <1>9 DEF Installed, VectorsAfter
  <2>3. VectorsAfter(c3, d1, id, 1, r)
    BY <1>8 DEF Installed
  <2> QED
    BY <2>1, <2>2, <2>3 DEF VectorsAfter, SameVectors
<1>13. \A p \in Ids : /\ d.station[p].odep_list[2] = c3.station[p].odep_list[2]
                      /\ d.station[p].odep_list[1] = c3.station[p].odep_list[1]
  <2>1. ASSUME NEW p \in Ids, NEW j \in 1..2
        PROVE  d.station[p].odep_list[j] = c3.station[p].odep_list[j]
    <3>1. d.station[p].odep_list[j] = d1.station[p].odep_list[j]
      BY <1>9 DEF Installed
    <3>2. d1.station[p].odep_list[j] =
             IF r # NA /\ p = id /\ j = 1 THEN <<>> ELSE c3.station[p].odep_list[j]
      BY <1>8 DEF Installed
    <3>3. c3.station[id].odep_list[1] = <<>>
      BY <1>6 DEF OperandsTo, NewLinks
    <3> QED
      BY <3>1, <3>2, <3>3
  <2> QED
    BY <1>2, <2>1
<1>14. NewLinks(c, d.station, id, ins)
  <2>1. NewLinks(c, c3.station, id, ins)
    BY <1>6 DEF OperandsTo
  <2>2. SameTags(c3.station, d.station)
    BY <1>8, <1>9 DEF Renames, SameTags
  <2>3. \A p \in Ids, q \in Ids, m \in 1..3 :
           Linked(d.station, p, q, m) <=> Linked(c3.station, p, q, m)
    BY <1>13, <2>2, SameLinked
  <2>4. d.station[id].idep_ready = c3.station[id].idep_ready
    BY <1>8, <1>9
  <2> QED
    BY <1>13, <2>1, <2>3, <2>4 DEF NewLinks
<1>15. Held(d) = Held(c)
  BY <1>6, <1>8, <1>9 DEF OperandsTo
<1> QED
  BY <1>1, <1>9, <1>10, <1>11, <1>12, <1>14, <1>15 DEF RenamedTo

\* All of F is older than id.
NewestIs(st, F, id) == \A p \in F : st[p].seq < st[id].seq

\* What the vectors of c name for a register.
CreatorKnown(c, F, r) ==
    /\ Creator(c, r).odep_num = 1 /\ Creator(c, r).rs \in F \cup {NoRS}
    /\ \A p \in F : Creator(c, r).rs = p <=> LatestOf(c.station, F, r, p) /\ ~c.station[p].completed

\* The creator of a register is the latest of those that write it.
LEMMA CreatorsKnown ==
  ASSUME NEW c, NEW F \in SUBSET Ids, Creating(c.station, F, c.cv, c.spec_cv, c.use),
         NEW r \in Registers
  PROVE  CreatorKnown(c, F, r)
<1>1. NoRS \notin Ids
  BY DEF NoRS, Ids, RUU, LSQ
<1>2. CASE r = NA
  <2>1. Creator(c, r).odep_num = 1 /\ Creator(c, r).rs = NoRS
    BY <1>2 DEF Creator, CVLINK_NULL
  <2> QED
    BY <1>1, <1>2, <2>1 DEF CreatorKnown, LatestOf, Makes
<1>3. CASE r # NA
  <2> DEFINE entry == IF r \in c.use THEN c.spec_cv[r] ELSE c.cv[r]
  <2>1. r \in Regs \cup {DTMP}
    BY <1>3 DEF Registers
  <2>2. Named(c.station, entry, F, r)
    BY <2>1 DEF Creating
  <2>3. Creator(c, r) = entry
    BY <1>3 DEF Creator, CREATE_VECTOR
  <2> HIDE DEF entry
  <2> QED
    BY <2>2, <2>3 DEF Named, CreatorKnown
<1> QED
  BY <1>2, <1>3

\* What a station is to others stays when another one is renamed.
LEMMA RenamesOthers ==
  ASSUME NEW st, NEW st2, NEW id, Renames(st, st2, id), NEW p \in Ids
  PROVE  /\ st2[p].seq = st[p].seq /\ (st2[p].completed <=> st[p].completed)
         /\ (st2[p].spec_mode <=> st[p].spec_mode) /\ st2[p].op = st[p].op
         /\ st2[p].tag = st[p].tag
         /\ p # id => /\ SameMaker(st, st2, p) /\ st2[p].idep_ready = st[p].idep_ready
                      /\ \A r : Makes(st2, p, r) <=> Makes(st, p, r)
BY DEF Renames, SameMaker, Makes

\* An entry after a younger station has been renamed.
LEMMA NamedGrows ==
  ASSUME NEW st \in [Ids -> StationSet], NEW st2 \in [Ids -> StationSet],
         NEW S \in SUBSET Ids, NEW id \in Ids, id \notin S, NewestIs(st, S, id),
         Renames(st, st2, id), ~st[id].completed,
         NEW entry, NEW r, Named(st, entry, S, r),
         NEW entry2, entry2 = IF Makes(st2, id, r) THEN [rs |-> id, odep_num |-> 1] ELSE entry,
         NEW S2, S2 = S \cup {id}
  PROVE  Named(st2, entry2, S2, r)
<1>1. \A p \in Ids : st[p].seq \in Nat
  BY StationFields
<1>2. \A p \in Ids : st2[p].seq = st[p].seq /\ (st2[p].completed <=> st[p].completed)
  BY RenamesOthers
<1>3. \A p \in S : Makes(st2, p, r) <=> Makes(st, p, r)
  BY RenamesOthers
<1>4. \A p \in S : st[p].seq < st[id].seq
  BY DEF NewestIs
<1>5. NoRS \notin Ids
  BY DEF NoRS, Ids, RUU, LSQ
<1>6. /\ \A p \in S : entry.rs = p <=> LatestOf(st, S, r, p) /\ ~st[p].completed
      /\ entry.rs \in S \cup {NoRS} /\ entry.odep_num = 1
  BY DEF Named
<1>7. CASE Makes(st2, id, r)
  <2>1. entry2.rs = id /\ entry2.odep_num = 1
    BY <1>7
  <2>2. LatestOf(st2, S2, r, id)
    BY <1>1, <1>2, <1>4, <1>7 DEF LatestOf
  <2>3. ASSUME NEW p \in S PROVE ~LatestOf(st2, S2, r, p)
    <3>1. st[p].seq < st[id].seq /\ st[p].seq \in Nat /\ st[id].seq \in Nat
      BY <1>1, <1>4
    <3> QED
      BY <1>2, <1>7, <3>1 DEF LatestOf
  <2> QED
    BY <1>2, <2>1, <2>2, <2>3 DEF Named
<1>8. CASE ~Makes(st2, id, r)
  <2>1. entry2 = entry
    BY <1>8
  <2>2. \A p \in S : LatestOf(st2, S2, r, p) <=> LatestOf(st, S, r, p)
    BY <1>2, <1>3, <1>8 DEF LatestOf
  <2>3. ~LatestOf(st2, S2, r, id) /\ entry.rs # id
    BY <1>5, <1>6, <1>8 DEF LatestOf
  <2> QED
    BY <1>2, <1>6, <2>1, <2>2, <2>3 DEF Named
<1> QED
  BY <1>7, <1>8

\* The station id is about to be renamed, and the youngest.
Joins(c, F, id) ==
    /\ NewestIs(c.station, F, id) /\ ~c.station[id].completed
    /\ ~c.station[id].spec_mode => \A p \in F : ~c.station[p].spec_mode

\* The operands of a renamed station wait for their providers, and the others
\* for those that they waited for.
LEMMA AwaitingGrows ==
  ASSUME NEW c \in RenameStates, NEW F \in SUBSET Ids, NEW id \in Ids, id \notin F,
         NEW R, DataOf(c.station, F, R, c.cv, c.spec_cv, c.use), Joins(c, F, id),
         NEW ins, \A k \in 1..3 : ins[k] \in Registers /\ R[id][k] = ins[k],
         NEW r, NEW d, RenamedTo(c, d, id, ins, r), NEW F2, F2 = F \cup {id}
  PROVE  Awaiting(d.station, F2, R)
<1> DEFINE st == c.station
           st2 == d.station
<1>1. /\ Outputs(st, F) /\ Awaiting(st, F, R) /\ Renames(st, st2, id)
      /\ NewLinks(c, st2, id, ins) /\ NewestIs(st, F, id)
  BY DEF DataOf, RenamedTo, Joins
<1>2. \A k \in 1..3 : CreatorKnown(c, F, ins[k])
  BY CreatorsKnown DEF DataOf
<1>3. st \in [Ids -> StationSet] /\ st2 \in [Ids -> StationSet]
  BY DEF RenameStates, RenamedTo
<1>4. \A p \in Ids : st[p].seq \in Nat
  BY <1>3, StationFields
<1>5. \A p \in Ids : st2[p].seq = st[p].seq /\ (st2[p].completed <=> st[p].completed)
  BY <1>1, RenamesOthers
<1>6. \A p \in F : /\ st2[p].idep_ready = st[p].idep_ready
                   /\ \A x : Makes(st2, p, x) <=> Makes(st, p, x)
  BY <1>1, RenamesOthers
<1>7. \A p \in F : st[p].seq < st[id].seq
  BY <1>1 DEF NewestIs
<1>8. NoRS \notin Ids
  BY DEF NoRS, Ids, RUU, LSQ
<1>9. st[id].odep_list[1] = <<>>
  BY <1>1 DEF Outputs
<1> HIDE DEF st, st2
<1>10. ASSUME NEW q \in F, NEW k \in 1..3
       PROVE  AwaitsAt(st2, F2, R[q][k], q, k)
  <2> DEFINE x == R[q][k]
  <2>1. AwaitsAt(st, F, x, q, k) /\ q # id /\ q \in Ids
    BY <1>1 DEF Awaiting
  <2> HIDE DEF x
  <2>2. \A p \in F : p \in OlderIn(st2, F2, q) <=> p \in OlderIn(st, F, q)
    BY <1>5 DEF OlderIn
  <2>3. id \notin OlderIn(st2, F2, q)
    <3>1. st[q].seq < st[id].seq /\ st[q].seq \in Nat /\ st[id].seq \in Nat
      BY <1>4, <1>7
    <3> QED
      BY <1>5, <2>1, <3>1 DEF OlderIn
  <2>4. /\ \A p \in OlderIn(st2, F2, q) : p \in F
        /\ \A p \in OlderIn(st, F, q) : p \in F
    BY <2>3 DEF OlderIn
  <2>5. \A p \in F : Provider(st2, F2, x, q, p) <=> Provider(st, F, x, q, p)
    BY <1>5, <1>6, <2>2, <2>4 DEF Provider, LatestOf
  <2>6. ~Provider(st2, F2, x, q, id)
    BY <2>3 DEF Provider, LatestOf
  <2>7. ~Linked(st, id, q, k)
    BY <1>9 DEF Linked
  <2>8. \A p \in F2 : Linked(st2, p, q, k) <=> Linked(st, p, q, k)
    BY <1>1, <2>1 DEF NewLinks, st
  <2>9. st2[q].idep_ready[k] <=> st[q].idep_ready[k]
    BY <1>6
  <2>10. AwaitsAt(st2, F2, x, q, k)
    BY <2>1, <2>5, <2>6, <2>7, <2>8, <2>9 DEF AwaitsAt
  <2> QED
    BY <2>10 DEF x
<1>11. ASSUME NEW k \in 1..3
       PROVE  AwaitsAt(st2, F2, R[id][k], id, k)
  <2> DEFINE x == ins[k]
             h == Creator(c, x).rs
  <2>1. R[id][k] = x /\ CreatorKnown(c, F, x)
    BY <1>2
  <2>2. \A p \in F2 : p \in OlderIn(st2, F2, id) <=> p \in F
    <3>1. ~(st[id].seq < st[id].seq)
      BY <1>4
    <3> QED
      BY <1>5, <1>7, <3>1 DEF OlderIn
  <2>3. (st2[id].idep_ready[k] <=> h = NoRS) /\ \A p \in Ids : Linked(st2, p, id, k) <=> p = h
    BY <1>1 DEF NewLinks
  <2>4. h \in F \cup {NoRS} /\ \A p \in F : h = p <=> LatestOf(st, F, x, p) /\ ~st[p].completed
    BY <2>1 DEF CreatorKnown, st
  <2> HIDE DEF x, h
  <2>5. \A p \in OlderIn(st2, F2, id) : p \in F2
    BY DEF OlderIn
  <2>6. \A p \in F : Provider(st2, F2, x, id, p) <=> h = p
    BY <1>5, <1>6, <2>2, <2>4, <2>5 DEF Provider, LatestOf
  <2>7. ~Provider(st2, F2, x, id, id) /\ h # id
    BY <1>8, <2>2, <2>4 DEF Provider, LatestOf
  <2>8. \A p \in F2 : Provider(st2, F2, x, id, p) <=> h = p
    BY <2>6, <2>7
  <2>9. AwaitsAt(st2, F2, x, id, k)
    BY <1>8, <2>3, <2>4, <2>8 DEF AwaitsAt
  <2> QED
    BY <2>1, <2>9
<1> QED
  BY <1>10, <1>11 DEF Awaiting, st2

\* The outputs after a station has been renamed.
LEMMA OutputsGrow ==
  ASSUME NEW c \in RenameStates, NEW F \in SUBSET Ids, NEW id \in Ids, id \notin F,
         NEW R, DataOf(c.station, F, R, c.cv, c.spec_cv, c.use),
         NEW ins, \A k \in 1..3 : ins[k] \in Registers,
         NEW r, IsStore(c.station[id]) => r = NA,
         NEW d, RenamedTo(c, d, id, ins, r), NEW F2, F2 = F \cup {id}
  PROVE  Outputs(d.station, F2)
<1> DEFINE st == c.station
           st2 == d.station
<1>1. Outputs(st, F) /\ Renames(st, st2, id) /\ NewLinks(c, st2, id, ins)
  BY DEF DataOf, RenamedTo
<1>2. \A k \in 1..3 : CreatorKnown(c, F, ins[k])
  BY CreatorsKnown DEF DataOf
<1>3. \A p \in Ids : st2[p].op = st[p].op /\ (st2[p].completed <=> st[p].completed)
  BY <1>1, RenamesOthers
<1>4. \A p \in F : st2[p].onames = st[p].onames
  BY <1>1 DEF Renames
<1>5. st2[id].onames[2] = NA /\ st2[id].onames[1] = r
  BY DEF RenamedTo
<1>6. NoRS \notin Ids
  BY DEF NoRS, Ids, RUU, LSQ
<1>7. ASSUME NEW p \in F2
      PROVE  st2[p].onames[2] = NA /\ (IsStore(st2[p]) => st2[p].onames[1] = NA)
  BY <1>1, <1>3, <1>4, <1>5 DEF Outputs, IsStore
<1>8. ASSUME NEW p \in Ids, p \notin F2 \/ st2[p].completed \/ st2[p].onames[1] = NA
      PROVE  st2[p].odep_list[1] = <<>>
  <2>1. st[p].odep_list[1] = <<>> /\ (p \notin F \/ st[p].completed \/ st[p].onames[1] = NA)
    <3>1. CASE p \in F
      BY <1>1, <1>3, <1>4, <1>8, <3>1 DEF Outputs
    <3>2. CASE p \notin F
      BY <1>1, <3>2 DEF Outputs
    <3> QED
      BY <3>1, <3>2
  <2>2. \A k \in 1..3 : p # Creator(c, ins[k]).rs
    <3>1. ASSUME NEW k \in 1..3, p = Creator(c, ins[k]).rs PROVE FALSE
      <4>1. CreatorKnown(c, F, ins[k])
        BY <1>2
      <4>2. p \in F
        BY <1>6, <3>1, <4>1 DEF CreatorKnown
      <4>3. Makes(st, p, ins[k]) /\ ~st[p].completed
        BY <3>1, <4>1, <4>2 DEF CreatorKnown, LatestOf
      <4> QED
        BY <2>1, <4>2, <4>3 DEF Makes
    <3> QED
      BY <3>1
  <2> QED
    BY <1>1, <2>1, <2>2 DEF NewLinks
<1>9. ASSUME NEW p \in Ids PROVE st2[p].odep_list[2] = <<>>
  BY <1>1 DEF NewLinks, Outputs
<1> QED
  BY <1>7, <1>8, <1>9 DEF Outputs

\* The creation vectors after a station has been renamed.
LEMMA CreatingGrows ==
  ASSUME NEW c \in RenameStates, NEW F \in SUBSET Ids, NEW id \in Ids, id \notin F,
         NEW R, DataOf(c.station, F, R, c.cv, c.spec_cv, c.use), Joins(c, F, id),
         NEW ins, NEW r \in Registers, NEW d, RenamedTo(c, d, id, ins, r), NEW F2, F2 = F \cup {id}
  PROVE  Creating(d.station, F2, d.cv, d.spec_cv, d.use)
<1> DEFINE st == c.station
           st2 == d.station
           made == [rs |-> id, odep_num |-> 1]
           S == Lasting(st, F)
           S2 == Lasting(st2, F2)
<1>1. /\ Creating(st, F, c.cv, c.spec_cv, c.use) /\ Renames(st, st2, id)
      /\ NewestIs(st, F, id) /\ ~st[id].completed
      /\ ~st[id].spec_mode => \A p \in F : ~st[p].spec_mode
      /\ VectorsAfter(c, d, id, 1, r)
  BY DEF DataOf, RenamedTo, Joins
<1>2. st \in [Ids -> StationSet] /\ st2 \in [Ids -> StationSet]
  BY DEF RenameStates, RenamedTo
<1>3. /\ c.cv \in [Regs \cup {DTMP} -> CVSet] /\ c.spec_cv \in [Regs \cup {DTMP} -> CVSet]
  BY DEF RenameStates
<1>4. \A p \in Ids : st2[p].spec_mode <=> st[p].spec_mode
  BY <1>1, RenamesOthers
<1>5. \A p \in F : SameMaker(st, st2, p) /\ \A x : Makes(st2, p, x) <=> Makes(st, p, x)
  BY <1>1, RenamesOthers
<1>6. \A x : Makes(st2, id, x) <=> x # NA /\ r = x
  BY DEF Makes, RenamedTo
<1>7. F \in SUBSET Ids /\ F2 = F \cup {id} /\ id \in Ids /\ id \notin F
  OBVIOUS
<1> HIDE DEF st, st2, made
<1>8. ASSUME NEW x \in Regs \cup {DTMP}
      PROVE  /\ Named(st2, d.cv[x], S2, x)
             /\ Named(st2, IF x \in d.use THEN d.spec_cv[x] ELSE d.cv[x], F2, x)
             /\ x \in d.use => \E p \in F2 : st2[p].spec_mode /\ Makes(st2, p, x)
  <2> DEFINE old == c.cv[x]
             spec == IF x \in c.use THEN c.spec_cv[x] ELSE c.cv[x]
             new == d.cv[x]
             spec2 == IF x \in d.use THEN d.spec_cv[x] ELSE d.cv[x]
  <2>1. /\ Named(st, old, S, x) /\ Named(st, spec, F, x)
        /\ x \in c.use => \E p \in F : st[p].spec_mode /\ Makes(st, p, x)
    BY <1>1 DEF Creating
  <2>2. CASE ~st[id].spec_mode
    <3>1. new = IF Makes(st2, id, x) THEN made ELSE old
      <4>1. CASE r = NA
        BY <1>1, <1>6, <4>1 DEF VectorsAfter, SameVectors
      <4>2. CASE r # NA
        BY <1>1, <1>3, <1>6, <2>2, <4>2 DEF VectorsAfter, st, made
      <4> QED
        BY <4>1, <4>2
    <3>2. d.spec_cv = c.spec_cv /\ d.use = c.use
      BY <1>1, <2>2 DEF VectorsAfter, SameVectors, st
    <3>3. x \notin c.use
      BY <1>1, <2>1, <2>2
    <3>4. S = F /\ S2 = F2 /\ spec = old /\ spec2 = new
      <4>1. S = F
        BY <1>1, <2>2 DEF Lasting
      <4>2. S2 = F2
        BY <1>1, <1>4, <1>7, <2>2 DEF Lasting
      <4> QED
        BY <3>2, <3>3, <4>1, <4>2
    <3>5. Named(st, old, F, x)
      BY <2>1, <3>4
    <3> HIDE DEF old, new, spec, spec2, S, S2
    <3>6. Named(st2, new, F2, x)
      BY <1>1, <1>2, <1>7, <3>1, <3>5, NamedGrows DEF made
    <3> QED
      BY <3>2, <3>3, <3>4, <3>6 DEF new, spec2
  <2>3. CASE st[id].spec_mode
    <3>1. d.cv = c.cv /\ spec2 = IF Makes(st2, id, x) THEN made ELSE spec
      <4>1. CASE r = NA
        BY <1>1, <1>6, <4>1 DEF VectorsAfter, SameVectors
      <4>2. CASE r # NA
        BY <1>1, <1>3, <1>6, <2>3, <4>2 DEF VectorsAfter, st, made
      <4> QED
        BY <4>1, <4>2
    <3>2. S2 = S /\ S \in SUBSET Ids /\ S2 \in SUBSET S /\ \A p \in S2 : SameMaker(st, st2, p)
      BY <1>4, <1>5, <1>7, <2>3 DEF Lasting
    <3>3. x \in d.use => x \in c.use \/ Makes(st2, id, x)
      <4>1. CASE r = NA
        BY <1>1, <4>1 DEF VectorsAfter, SameVectors
      <4>2. CASE r # NA
        BY <1>1, <1>6, <2>3, <4>2 DEF VectorsAfter, st
      <4> QED
        BY <4>1, <4>2
    <3>4. ASSUME x \in d.use PROVE \E p \in F2 : st2[p].spec_mode /\ Makes(st2, p, x)
      <4>1. CASE x \in c.use
        <5>1. PICK p \in F : st[p].spec_mode /\ Makes(st, p, x)
          BY <2>1, <4>1
        <5>2. p \in F2 /\ st2[p].spec_mode /\ Makes(st2, p, x)
          BY <1>4, <1>5, <1>7, <5>1
        <5> QED
          BY <5>2
      <4>2. CASE Makes(st2, id, x)
        BY <1>4, <1>7, <2>3, <4>2
      <4> QED
        BY <3>3, <3>4, <4>1, <4>2
    <3> HIDE DEF old, spec, spec2, S, S2
    <3>5. Named(st2, spec2, F2, x)
      BY <1>1, <1>2, <1>7, <2>1, <3>1, NamedGrows DEF made
    <3>6. Named(st2, old, S2, x)
      <4>1. \A p \in S \ S2 : st[p].completed /\ \A q \in S2 : st[p].seq < st[q].seq
        BY <3>2
      <4> QED
        BY <1>2, <2>1, <3>2, <4>1, NamedStays
    <3>7. new = old
      BY <3>1 DEF old
    <3> QED
      BY <3>4, <3>5, <3>6, <3>7 DEF spec2
  <2> QED
    BY <2>2, <2>3
<1> QED
  BY <1>8 DEF Creating, st2

\* The stations of F are for the accesses what they were.
Unaffected(st, st2, F) ==
    \A p \in F : /\ st2[p].op = st[p].op /\ st2[p].addr = st[p].addr
                 /\ (st2[p].in_LSQ <=> st[p].in_LSQ) /\ (st2[p].queued <=> st[p].queued)
                 /\ (st2[p].issued <=> st[p].issued) /\ st2[p].idep_ready = st[p].idep_ready

\* What two steps do not affect neither does.
LEMMA UnaffectedTransitive ==
  ASSUME NEW a, NEW b, NEW c, NEW F, NEW F2, F \subseteq F2, Unaffected(a, b, F), Unaffected(b, c, F2)
  PROVE  Unaffected(a, c, F)
BY DEF Unaffected

\* Renaming only affects the station that is renamed.
LEMMA RenamesUnaffected ==
  ASSUME NEW st, NEW st2, NEW id, Renames(st, st2, id), NEW F \in SUBSET Ids, id \notin F
  PROVE  Unaffected(st, st2, F)
BY DEF Renames, Unaffected

\* The links that are free, in the ready queue or in an output chain now.
HeldNow == rslink_free + Len(ready_queue) + Chains(station, Ids)

\* Values flow in the rename state c between the stations F, and no link is lost.
FlowsIn(c, F, R) ==
    /\ c \in RenameStates /\ DataOf(c.station, F, R, c.cv, c.spec_cv, c.use)
    /\ Held(c) = HeldNow

\* R gives ins as what the station id reads.
ReadsOf(R, id, ins) == \A k \in 1 .. 3 : R[id][k] = ins[k]

\* id reads ins and makes r, a store nothing.
Operation(c, id, ins, r) ==
    /\ r \in Registers /\ \A k \in 1 .. 3 : ins[k] \in Registers
    /\ IsStore(c.station[id]) => r = NA

\* d is c with the station id renamed.
RenamedAs(c, d, id, ins, r) == d = Renamed(c, id, ins, <<r, NA>>)

\* F2 is F with id.
JoinedBy(F, id, F2) == F2 = F \cup {id}

\* Registers flow as before once the youngest station has been renamed.
LEMMA RenamedFlows ==
  ASSUME NEW c, NEW F \in SUBSET Ids, NEW id \in Ids, id \notin F,
         NEW R, FlowsIn(c, F, R), Joins(c, F, id), Unchained(c.station, id, 1),
         NEW ins, NEW r, Operation(c, id, ins, r), ReadsOf(R, id, ins),
         NEW d, RenamedAs(c, d, id, ins, r), NEW F2, JoinedBy(F, id, F2)
  PROVE  FlowsIn(d, F2, R) /\ RenamedTo(c, d, id, ins, r) /\ Unaffected(c.station, d.station, F)
<1>1. /\ c \in RenameStates /\ DataOf(c.station, F, R, c.cv, c.spec_cv, c.use)
      /\ r \in Registers /\ \A k \in 1..3 : ins[k] \in Registers /\ R[id][k] = ins[k]
      /\ IsStore(c.station[id]) => r = NA
      /\ d = Renamed(c, id, ins, <<r, NA>>) /\ F2 = F \cup {id}
  BY DEF FlowsIn, Operation, ReadsOf, RenamedAs, JoinedBy
<1>2. \A k \in 1..3 : CreatorKnown(c, F, ins[k])
  BY <1>1, CreatorsKnown DEF DataOf
<1>3. \A k \in 1..3 : Creator(c, ins[k]).odep_num = 1 /\ Creator(c, ins[k]).rs # id
  <2>1. NoRS \notin Ids
    BY DEF NoRS, Ids, RUU, LSQ
  <2> QED
    BY <1>2, <2>1 DEF CreatorKnown
<1>4. c.station[id].odep_list[1] = <<>>
  BY <1>1 DEF DataOf, Outputs
<1>5. RenamedTo(c, d, id, ins, r)
  BY <1>1, <1>3, <1>4, RenamedExact
<1>6. Outputs(d.station, F2)
  BY <1>1, <1>5, OutputsGrow
<1>7. Awaiting(d.station, F2, R)
  BY <1>1, <1>5, AwaitingGrows
<1>8. Creating(d.station, F2, d.cv, d.spec_cv, d.use)
  BY <1>1, <1>5, CreatingGrows
<1>9. d \in RenameStates /\ Unaffected(c.station, d.station, F) /\ Held(d) = HeldNow
  BY <1>5, RenamesUnaffected DEF RenamedTo, FlowsIn
<1> QED
  BY <1>5, <1>6, <1>7, <1>8, <1>9 DEF DataOf, FlowsIn

\* They flow as before when the stations in flight stay as they are.
LEMMA StayFlows ==
  ASSUME NEW st \in [Ids -> StationSet], NEW st2 \in [Ids -> StationSet],
         NEW F \in SUBSET Ids, Stay(st, st2, F, F), NEW R, NEW R2, SameReads(R, R2, F),
         NEW cv, NEW spec_cv, NEW use, DataOf(st, F, R, cv, spec_cv, use)
  PROVE  DataOf(st2, F, R2, cv, spec_cv, use)
<1>1. Outputs(st, F) /\ Awaiting(st, F, R) /\ Creating(st, F, cv, spec_cv, use)
  BY DEF DataOf
<1>2. OldLeave(st, F, F)
  BY DEF OldLeave
<1>3. Outputs(st2, F)
  BY <1>1, OutputsStay
<1>4. Awaiting(st2, F, R2)
  BY <1>1, <1>2, AwaitingStays
<1>5. Creating(st2, F, cv, spec_cv, use)
  BY <1>1, <1>2, CreatingStays
<1> QED
  BY <1>3, <1>4, <1>5 DEF DataOf

\* Filling stations in leaves their chains.
LEMMA FilledHolds ==
  ASSUME NEW c, NEW new, FillsIn(station, c.station, new),
         c.free = rslink_free, c.ready_queue = ready_queue
  PROVE  Held(c) = HeldNow
<1>1. \A p \in Ids, j \in 1..2 : c.station[p].odep_list[j] = station[p].odep_list[j]
  BY DEF FillsIn
<1>2. Chains(c.station, Ids) = Chains(station, Ids)
  BY <1>1, SameChainsCounted
<1> QED
  BY <1>2 DEF Held, HeldNow

\* The stations that are filled in have no part in the flow yet.
LEMMA FilledFlows ==
  ASSUME NEW st \in [Ids -> StationSet], NEW c \in RenameStates, NEW new \in SUBSET Ids,
         NEW F \in SUBSET Ids, new \cap F = {}, FillsIn(st, c.station, new),
         NEW R, NEW R2, SameReads(R, R2, F), DataOf(st, F, R, c.cv, c.spec_cv, c.use),
         Held(c) = HeldNow
  PROVE  FlowsIn(c, F, R2) /\ Unaffected(st, c.station, F)
<1> DEFINE st2 == c.station
           cv == c.cv
           spec_cv == c.spec_cv
           use == c.use
<1>1. st2 \in [Ids -> StationSet]
  BY DEF RenameStates
<1>2. \A p \in F : st2[p] = st[p]
  BY DEF FillsIn
<1>3. Outputs(st, F)
  BY DEF DataOf
<1>4. Stay(st, st2, F, F)
  <2>1. ASSUME NEW p \in Ids, p \notin F PROVE st2[p].odep_list = << <<>>, <<>> >>
    <3>1. st[p].odep_list = << <<>>, <<>> >>
      BY <1>3, <2>1, NoChainsOutside
    <3> QED
      BY <3>1 DEF FillsIn
  <2>2. \A p \in F : SameMaker(st, st2, p)
    BY <1>2 DEF SameMaker
  <2> QED
    BY <1>2, <2>1, <2>2 DEF Stay
<1>5. DataOf(st, F, R, cv, spec_cv, use)
  OBVIOUS
<1>6. Unaffected(st, st2, F)
  BY <1>2 DEF Unaffected
<1> HIDE DEF st2, cv, spec_cv, use
<1>7. DataOf(st2, F, R2, cv, spec_cv, use)
  BY <1>1, <1>4, <1>5, StayFlows
<1> QED
  BY <1>6, <1>7 DEF FlowsIn, st2, cv, spec_cv, use

\* e is c with the station id enqueued, if it is ready.
EnqueuedAs(c, e, id) == e = Enqueued(c, id)

\* Only the station id differs.
OnlyDiffers(st, st2, id) == \A p \in Ids : p # id => st2[p] = st[p]

\* Enqueueing a station does not change the flow.
LEMMA EnqueuedFlows ==
  ASSUME NEW c, NEW F \in SUBSET Ids, NEW R, FlowsIn(c, F, R), NEW id \in Ids,
         NEW e, EnqueuedAs(c, e, id)
  PROVE  /\ FlowsIn(e, F, R) /\ OnlyDiffers(c.station, e.station, id)
         /\ FlagsDiffer(c.station, e.station)
<1>1. c \in RenameStates /\ DataOf(c.station, F, R, c.cv, c.spec_cv, c.use)
  BY DEF FlowsIn
<1> DEFINE st == c.station
           st2 == e.station
           cv == c.cv
           spec_cv == c.spec_cv
           use == c.use
<1>2. st \in [Ids -> StationSet]
  BY <1>1 DEF RenameStates
<1>3. /\ e \in RenameStates /\ e.cv = c.cv /\ e.spec_cv = c.spec_cv /\ e.use = c.use
      /\ st2 = st \/ st2 = [st EXCEPT ![id].queued = TRUE]
      /\ Held(e) = Held(c)
  <2>1. CASE OPERANDS_READY(c.station[id])
    <3> DEFINE d == readyq_enqueue(c, id)
    <3>1. e = d
      BY <2>1 DEF Enqueued, EnqueuedAs
    <3>2. /\ d.station = [st EXCEPT ![id].queued = TRUE]
          /\ d \in RenameStates /\ d.cv = c.cv /\ d.spec_cv = c.spec_cv /\ d.use = c.use
          /\ Held(d) = Held(c)
      BY <1>1, EnqueueEffect, EnqueueHolds
    <3> HIDE DEF d
    <3> QED
      BY <3>1, <3>2
  <2>2. CASE ~OPERANDS_READY(c.station[id])
    <3>1. e = c
      BY <2>2 DEF Enqueued, EnqueuedAs
    <3> QED
      BY <1>1, <3>1
  <2> QED
    BY <2>1, <2>2
<1>4. st2 \in [Ids -> StationSet]
  BY <1>3 DEF RenameStates
<1> HIDE DEF st, st2
<1>5. \A p \in Ids : p # id => st2[p] = st[p]
  BY <1>2, <1>3
<1>6. FlagsDiffer(st, st2)
  <2>1. ASSUME NEW p \in Ids
        PROVE  LET r == st[p]
                   r2 == st2[p]
               IN /\ r2.op = r.op /\ r2.in_LSQ = r.in_LSQ /\ r2.PC = r.PC /\ r2.next_PC = r.next_PC
                  /\ r2.seq = r.seq /\ r2.ea_comp = r.ea_comp /\ r2.spec_mode = r.spec_mode
                  /\ r2.recover_inst = r.recover_inst /\ r2.completed = r.completed
                  /\ r2.tag = r.tag /\ r2.odep_list = r.odep_list
                  /\ r2.idep_ready = r.idep_ready /\ r2.onames = r.onames
    <3> DEFINE r == st[p]
               r2 == st2[p]
    <3>1. r \in StationSet /\ (r2 = r \/ r2 = [r EXCEPT !.queued = TRUE])
      BY <1>2, <1>3
    <3> HIDE DEF r, r2
    <3>2. /\ r2.op = r.op /\ r2.in_LSQ = r.in_LSQ /\ r2.PC = r.PC /\ r2.next_PC = r.next_PC
          /\ r2.seq = r.seq /\ r2.ea_comp = r.ea_comp /\ r2.spec_mode = r.spec_mode
          /\ r2.recover_inst = r.recover_inst /\ r2.completed = r.completed
          /\ r2.tag = r.tag /\ r2.odep_list = r.odep_list
          /\ r2.idep_ready = r.idep_ready /\ r2.onames = r.onames
      BY <3>1 DEF StationSet
    <3> QED
      BY <3>2 DEF r, r2
  <2>2. SameShape(st, st2)
    BY <2>1 DEF SameShape
  <2>3. \A p \in Ids : SameMaker(st, st2, p)
    BY <2>1 DEF SameMaker
  <2> QED
    BY <2>1, <2>2, <2>3 DEF FlagsDiffer
<1>7. DataOf(st, F, R, cv, spec_cv, use)
  BY <1>1 DEF st
<1> HIDE DEF cv, spec_cv, use
<1>8. DataOf(st2, F, R, cv, spec_cv, use)
  BY <1>2, <1>4, <1>6, <1>7, FlagsFlow
<1> QED
  BY <1>3, <1>5, <1>6, <1>8 DEF FlowsIn, OnlyDiffers, st, st2, cv, spec_cv, use

\* Neither does the mark of a branch that recovers.
LEMMA MarkedFlows ==
  ASSUME NEW st \in [Ids -> StationSet], NEW F \in SUBSET Ids, NEW R,
         NEW cv, NEW spec_cv, NEW use, DataOf(st, F, R, cv, spec_cv, use),
         NEW id \in Ids, NEW b \in BOOLEAN, NEW st2, MarkedTo(st, st2, id, b)
  PROVE  DataOf(st2, F, R, cv, spec_cv, use)
<1>1. st2 = [st EXCEPT ![id].recover_inst = b]
  BY DEF Marked, MarkedTo
<1>2. st2 \in [Ids -> StationSet]
  <2>1. [st EXCEPT ![id].recover_inst = b] \in [Ids -> StationSet]
    BY FlagUpdates
  <2> QED
    BY <1>1, <2>1
<1>3. ASSUME NEW p \in Ids
      PROVE  LET r == st[p]
                 r2 == st2[p]
             IN /\ r2.op = r.op /\ r2.in_LSQ = r.in_LSQ /\ r2.PC = r.PC /\ r2.seq = r.seq
                /\ r2.ea_comp = r.ea_comp /\ r2.spec_mode = r.spec_mode
                /\ r2.completed = r.completed /\ r2.tag = r.tag /\ r2.odep_list = r.odep_list
                /\ r2.idep_ready = r.idep_ready /\ r2.onames = r.onames
                /\ p # id => r2 = r
  <2> DEFINE r == st[p]
             r2 == st2[p]
  <2>1. r \in StationSet /\ r2 = IF p = id THEN [r EXCEPT !.recover_inst = b] ELSE r
    BY <1>1
  <2> HIDE DEF r, r2
  <2>2. /\ r2.op = r.op /\ r2.in_LSQ = r.in_LSQ /\ r2.PC = r.PC /\ r2.seq = r.seq
        /\ r2.ea_comp = r.ea_comp /\ r2.spec_mode = r.spec_mode
        /\ r2.completed = r.completed /\ r2.tag = r.tag /\ r2.odep_list = r.odep_list
        /\ r2.idep_ready = r.idep_ready /\ r2.onames = r.onames
        /\ p # id => r2 = r
    BY <2>1 DEF StationSet
  <2> QED
    BY <2>2 DEF r, r2
<1>4. Stay(st, st2, F, F)
  <2>1. Outputs(st, F)
    BY DEF DataOf
  <2>2. ASSUME NEW p \in Ids, p \notin F PROVE st2[p].odep_list = << <<>>, <<>> >>
    <3>1. st[p].odep_list = << <<>>, <<>> >>
      BY <2>1, <2>2, NoChainsOutside
    <3> QED
      BY <1>3, <3>1
  <2>3. \A p \in F : SameMaker(st, st2, p)
    BY <1>3 DEF SameMaker
  <2> QED
    BY <1>3, <2>2, <2>3 DEF Stay
<1>5. SameReads(R, R, F)
  BY DEF SameReads
<1>6. DataOf(st2, F, R, cv, spec_cv, use)
  BY <1>2, <1>4, <1>5, StayFlows
<1> QED
  BY <1>6

\* It has the same chains.
LEMMA MarkedChains ==
  ASSUME NEW st \in [Ids -> StationSet], NEW id \in Ids, NEW b, NEW st2, st2 = Marked(st, id, b)
  PROVE  \A p \in Ids, j \in 1..2 : st2[p].odep_list[j] = st[p].odep_list[j]
<1>1. ASSUME NEW p \in Ids PROVE st2[p].odep_list = st[p].odep_list
  <2>1. st[p] \in StationSet /\ st2[p] = IF p = id THEN [st[p] EXCEPT !.recover_inst = b] ELSE st[p]
    BY DEF Marked
  <2> QED
    BY <2>1 DEF StationSet
<1> QED
  BY <1>1

\* New numbers are greater than those in flight.
LEMMA NumbersBelow ==
  ASSUME IInv
  PROVE  inst_seq \in Nat /\ \A p \in FlightNow : station[p].seq <= inst_seq
<1>1. Order(station, RUUIds, RUU_num, LSQIds, LSQ_num, inst_seq)
  BY DEF IInv, Structure, StructureOf
<1>2. inst_seq \in Nat
  BY DEF IInv, CoreTypes
<1> QED
  BY <1>1, <1>2 DEF Order, FlightNow, Flight

\* A station that is dispatched is the youngest.
LEMMA DispatchedJoins ==
  ASSUME IInv, NEW c, Unaffected(station, c.station, FlightNow),
         \A p \in FlightNow : /\ c.station[p].seq = station[p].seq
                              /\ (c.station[p].spec_mode <=> station[p].spec_mode),
         NEW id, c.station[id].seq = inst_seq + 1 \/ c.station[id].seq = inst_seq + 2,
         ~c.station[id].completed, c.station[id].spec_mode <=> spec_mode
  PROVE  Joins(c, FlightNow, id)
<1>1. /\ inst_seq \in Nat /\ \A p \in FlightNow : station[p].seq <= inst_seq
      /\ ~spec_mode => \A p \in FlightNow : ~station[p].spec_mode
      /\ FlightNow \in SUBSET Ids /\ station \in [Ids -> StationSet]
  BY NumbersBelow, NumbersNow DEF IInv, CoreTypes
<1>2. \A p \in FlightNow : station[p].seq \in Nat
  BY <1>1, StationFields
<1>3. ASSUME NEW p \in FlightNow PROVE c.station[p].seq < c.station[id].seq
  <2>1. station[p].seq <= inst_seq /\ station[p].seq \in Nat /\ c.station[p].seq = station[p].seq
    BY <1>1, <1>2
  <2> QED
    BY <1>1, <2>1
<1> QED
  BY <1>1, <1>3 DEF Joins, NewestIs

\* An operation joins the flow.
LEMMA OperationFlows ==
  ASSUME IInv, RegistersInv, stage = "dispatch", NEW F, F = FlightNow,
         NEW id \in Ids, id = RUUNew, id \notin F, NEW i \in Instructions, i.op \notin F_MEM,
         NEW npc, NEW r \in StationSet, r = NewStation(i, npc),
         FilledIn(r, station[id], i, npc, i.op, inst_seq + 1),
         NEW R2, SameReads(Inputs, R2, F), ReadsOf(R2, id, i.in),
         NEW e, AllocatedTo(e, i, npc)
  PROVE  FlowsIn(e, F \cup {id}, R2) /\ Unaffected(station, e.station, F)
<1> DEFINE c == [Unallocated EXCEPT !.station[id] = r]
           out == i.out
           ins == i.in
           d == Renamed(c, id, ins, <<out, NA>>)
           new == {id}
           F2 == F \cup new
           st == station
           R == Inputs
<1>1. EnqueuedAs(d, e, id)
  BY DEF Allocated, NewStation, Unallocated, AllocatedTo, EnqueuedAs
<1>2. /\ c \in RenameStates /\ c.ready_queue = ready_queue
      /\ c.station = [station EXCEPT ![id] = r]
      /\ c.cv = create_vector /\ c.spec_cv = spec_create_vector /\ c.use = use_spec_cv
      /\ c.free = rslink_free
  BY DEF IInv, CoreTypes, RenameStates, Unallocated
<1>3. st \in [Ids -> StationSet] /\ F \in SUBSET Ids /\ new \in SUBSET Ids /\ new \cap F = {}
  BY NumbersNow DEF IInv, CoreTypes
<1>4. FillsIn(st, c.station, new)
  <2>1. /\ r.tag = station[id].tag /\ r.odep_list = station[id].odep_list
        /\ r.idep_ready = station[id].idep_ready /\ ~r.queued /\ ~r.issued /\ ~r.completed
    BY DEF FilledIn
  <2> HIDE DEF c
  <2> QED
    BY <1>2, <1>3, <2>1 DEF FillsIn
<1>5. Unchained(c.station, id, 1)
  <2>1. id \in new /\ F = Flight(RUUIds, RUU_num, LSQIds, LSQ_num)
    BY DEF FlightNow
  <2> HIDE DEF c, new
  <2> QED
    BY <1>2, <1>3, <1>4, <2>1, DispatchFills
<1>6. FlowsIn(c, F, R2) /\ Unaffected(st, c.station, F)
  <2>1. DataOf(st, F, R, c.cv, c.spec_cv, c.use)
    BY <1>2 DEF RegistersInv
  <2>2. SameReads(R, R2, F)
    OBVIOUS
  <2> HIDE DEF c, new, st, R
  <2>3. Held(c) = HeldNow
    BY <1>2, <1>4, FilledHolds DEF st
  <2> QED
    BY <1>2, <1>3, <1>4, <2>1, <2>2, <2>3, FilledFlows
<1>7. /\ c.station[id].op = i.op /\ Joins(c, F, id)
  <2>1. c.station[id] = r /\ \A p \in F : c.station[p] = station[p]
    BY <1>2, <1>3
  <2> HIDE DEF c
  <2>2. /\ c.station[id].seq = inst_seq + 1 /\ ~c.station[id].completed
        /\ (c.station[id].spec_mode <=> spec_mode) /\ c.station[id].op = i.op
    BY <2>1 DEF FilledIn
  <2> QED
    BY <1>6, <2>1, <2>2, DispatchedJoins
<1>8. Operation(c, id, ins, out) /\ ReadsOf(R2, id, ins) /\ RenamedAs(c, d, id, ins, out)
      /\ JoinedBy(F, id, F2) /\ id \in Ids /\ id \notin F
  <2>1. ~IsStore(c.station[id])
    BY <1>7 DEF IsStore, F_MEM
  <2>2. out \in Registers /\ \A k \in 1..3 : ins[k] \in Registers
    BY DEF Instructions, Registers
  <2> QED
    BY <2>1, <2>2 DEF Operation, RenamedAs, JoinedBy
<1> HIDE DEF c, ins, out, st, R, d, F2, new
<1>9. FlowsIn(d, F2, R2) /\ Unaffected(c.station, d.station, F)
  BY <1>3, <1>5, <1>6, <1>7, <1>8, RenamedFlows
<1>10. FlowsIn(e, F2, R2) /\ OnlyDiffers(d.station, e.station, id)
  <2>1. F2 \in SUBSET Ids
    BY <1>3, <1>8 DEF JoinedBy
  <2> QED
    BY <1>1, <1>8, <1>9, <2>1, EnqueuedFlows
<1>11. Unaffected(st, e.station, F)
  <2>1. Unaffected(d.station, e.station, F)
    BY <1>3, <1>10 DEF Unaffected, OnlyDiffers
  <2>2. Unaffected(st, d.station, F)
    BY <1>6, <1>9, UnaffectedTransitive
  <2> QED
    BY <2>1, <2>2, UnaffectedTransitive
<1> QED
  BY <1>10, <1>11 DEF st, F2, new

\* A station that has not been scheduled.
Unscheduled(st, id) == ~st[id].queued /\ ~st[id].issued

\* Renaming schedules nothing, and keeps the number.
LEMMA RenamedFields ==
  ASSUME NEW c, NEW d, NEW id, NEW ins, NEW r, RenamedTo(c, d, id, ins, r), NEW p \in Ids
  PROVE  /\ d.station[p].seq = c.station[p].seq /\ d.station[p].op = c.station[p].op
         /\ (d.station[p].spec_mode <=> c.station[p].spec_mode)
         /\ (d.station[p].completed <=> c.station[p].completed)
         /\ Unscheduled(c.station, p) => Unscheduled(d.station, p)
BY DEF RenamedTo, Renames, Unscheduled

\* An access to memory joins the flow, after the computation of its address.
LEMMA AccessFlows ==
  ASSUME IInv, RegistersInv, stage = "dispatch", NEW F, F = FlightNow,
         NEW id \in Ids, id = RUUNew, id \notin F,
         NEW id2 \in Ids, id2 = LSQNew, id2 \notin F, id2 # id,
         NEW i \in Instructions, i.op \in F_MEM, i.op = "store" => i.out = NA, NEW npc,
         NEW r \in StationSet, r = NewStation(i, npc),
         FilledIn(r, station[id], i, npc, "agen", inst_seq + 1),
         NEW a \in StationSet, a = NewAccessStation(i, npc),
         FilledIn(a, station[id2], i, npc, i.op, inst_seq + 2),
         NEW R2, SameReads(Inputs, R2, F), ReadsOf(R2, id, <<NA, i.in[2], i.in[3]>>),
         ReadsOf(R2, id2, <<i.in[1], DTMP, NA>>), NEW e, AllocatedTo(e, i, npc)
  PROVE  /\ FlowsIn(e, F \cup {id, id2}, R2) /\ Unaffected(station, e.station, F)
         /\ i.op # "store" => Unscheduled(e.station, id2)
<1> DEFINE c == [Unallocated EXCEPT !.station[id] = r, !.station[id2] = a]
           out == i.out
           ins == <<NA, i.in[2], i.in[3]>>
           agen == Renamed(c, id, ins, <<DTMP, NA>>)
           ins2 == <<i.in[1], DTMP, NA>>
           d == Renamed(agen, id2, ins2, <<out, NA>>)
           both == Enqueued(d, id)
           new == {id, id2}
           F1 == F \cup {id}
           F2 == F1 \cup {id2}
           st == station
           R == Inputs
           eq == event_queue
<1>1. e = IF i.op = "store" THEN Enqueued(both, id2) ELSE both
  BY DEF Allocated, NewStation, NewAccessStation, Unallocated, AllocatedTo
<1>2. /\ c \in RenameStates /\ c.ready_queue = ready_queue
      /\ c.station = [station EXCEPT ![id] = r, ![id2] = a]
      /\ c.cv = create_vector /\ c.spec_cv = spec_create_vector /\ c.use = use_spec_cv
      /\ eq \in Seq(LinkSet) /\ c.free = rslink_free
  BY DEF IInv, CoreTypes, RenameStates, Unallocated
<1>3. st \in [Ids -> StationSet] /\ F \in SUBSET Ids /\ new \in SUBSET Ids /\ new \cap F = {}
  BY NumbersNow DEF IInv, CoreTypes
<1>4. /\ c.station[id] = r /\ c.station[id2] = a
      /\ \A p \in Ids : p \notin new => c.station[p] = station[p]
  BY <1>2, <1>3
<1>5. FillsIn(st, c.station, new)
  <2>1. /\ r.tag = station[id].tag /\ r.odep_list = station[id].odep_list
        /\ r.idep_ready = station[id].idep_ready /\ ~r.queued /\ ~r.issued /\ ~r.completed
        /\ a.tag = station[id2].tag /\ a.odep_list = station[id2].odep_list
        /\ a.idep_ready = station[id2].idep_ready /\ ~a.queued /\ ~a.issued /\ ~a.completed
    BY DEF FilledIn
  <2> HIDE DEF c
  <2> QED
    BY <1>4, <2>1 DEF FillsIn
<1>6. /\ Unchained(c.station, id, 1) /\ Unchained(c.station, id2, 1)
      /\ Filling(c, F \cup new, new, eq)
  <2>1. id \in new /\ id2 \in new /\ F = Flight(RUUIds, RUU_num, LSQIds, LSQ_num)
    BY DEF FlightNow
  <2> HIDE DEF c, new
  <2> QED
    BY <1>2, <1>3, <1>5, <2>1, DispatchFills DEF eq
<1>7. FlowsIn(c, F, R2) /\ Unaffected(st, c.station, F)
  <2>1. DataOf(st, F, R, c.cv, c.spec_cv, c.use)
    BY <1>2 DEF RegistersInv
  <2>2. SameReads(R, R2, F)
    OBVIOUS
  <2> HIDE DEF c, new, st, R
  <2>3. Held(c) = HeldNow
    BY <1>2, <1>5, FilledHolds DEF st
  <2> QED
    BY <1>2, <1>3, <1>5, <2>1, <2>2, <2>3, FilledFlows
<1>8. /\ c.station[id].seq = inst_seq + 1 /\ ~c.station[id].completed
      /\ (c.station[id].spec_mode <=> spec_mode) /\ c.station[id].op = "agen"
      /\ c.station[id2].seq = inst_seq + 2 /\ ~c.station[id2].completed
      /\ (c.station[id2].spec_mode <=> spec_mode) /\ c.station[id2].op = i.op
      /\ Unscheduled(c.station, id2)
  <2> HIDE DEF c
  <2> QED
    BY <1>4 DEF FilledIn, Unscheduled
<1>9. Joins(c, F, id) /\ Joins(c, F, id2)
  <2>1. \A p \in F : c.station[p] = station[p]
    BY <1>3, <1>4
  <2> HIDE DEF c
  <2> QED
    BY <1>7, <1>8, <2>1, DispatchedJoins DEF st
<1>10. /\ Operation(c, id, ins, DTMP) /\ ReadsOf(R2, id, ins) /\ RenamedAs(c, agen, id, ins, DTMP)
       /\ JoinedBy(F, id, F1) /\ id \in Ids /\ id \notin F
       /\ ReadsOf(R2, id2, ins2) /\ RenamedAs(agen, d, id2, ins2, out)
       /\ JoinedBy(F1, id2, F2) /\ id2 \in Ids /\ id2 \notin F1
       /\ EnqueuedAs(d, both, id) /\ F1 \in SUBSET Ids /\ F2 \in SUBSET Ids
       /\ new \in SUBSET (F \cup new) /\ F \cup new = F2 /\ id \in new
       /\ DTMP \in Registers /\ out \in Registers /\ F \subseteq F1 /\ F1 \subseteq F2
       /\ \A k \in 1..3 : ins[k] \in Registers /\ ins2[k] \in Registers
  <2>1. /\ DTMP \in Registers /\ out \in Registers
        /\ \A k \in 1..3 : ins[k] \in Registers /\ ins2[k] \in Registers
    BY DEF Instructions, Registers
  <2>2. ~IsStore(c.station[id])
    BY <1>8 DEF IsStore
  <2>3. Operation(c, id, ins, DTMP)
    BY <2>1, <2>2 DEF Operation
  <2> QED
    BY <1>3, <2>1, <2>3 DEF RenamedAs, JoinedBy, EnqueuedAs
<1>11. i.op = "store" => out = NA
  OBVIOUS
<1> HIDE DEF c, ins, ins2, out, agen, d, both, st, R, F1, F2, new, eq
<1>12. FlowsIn(agen, F1, R2) /\ RenamedTo(c, agen, id, ins, DTMP) /\ Unaffected(c.station, agen.station, F)
  BY <1>3, <1>6, <1>7, <1>9, <1>10, RenamedFlows
<1>13. Unchained(agen.station, id2, 1)
  <2> DEFINE outs == <<DTMP, NA>>
             G == F \cup new
  <2>1. /\ \A k \in 1..2 : outs[k] \in Registers
        /\ agen = Renamed(c, id, ins, outs)
        /\ \A k \in 1..3 : ins[k] \in Registers
        /\ G \in SUBSET Ids /\ new \in SUBSET G /\ Filling(c, G, new, eq)
    BY <1>6, <1>10 DEF Registers, RenamedAs
  <2> HIDE DEF outs, G
  <2>2. OthersUnchained(c.station, agen.station, id)
    BY <1>2, <1>6, <1>10, <2>1, FillingRenamed
  <2> QED
    BY <1>6, <2>2 DEF OthersUnchained
<1>14. /\ agen.station[id2].op = i.op /\ ~agen.station[id2].completed
       /\ Unscheduled(agen.station, id2)
       /\ \A p \in Ids : /\ agen.station[p].seq = c.station[p].seq
                         /\ (agen.station[p].spec_mode <=> c.station[p].spec_mode)
  BY <1>8, <1>12, RenamedFields
<1>15. Joins(agen, F1, id2)
  <2>1. /\ \A p \in F : c.station[p].seq < c.station[id2].seq
        /\ ~c.station[id2].spec_mode => \A p \in F : ~c.station[p].spec_mode
    BY <1>9 DEF Joins, NewestIs
  <2>2. inst_seq \in Nat
    BY NumbersBelow
  <2>3. c.station[id].seq < c.station[id2].seq /\ (c.station[id].spec_mode <=> c.station[id2].spec_mode)
    BY <1>8, <2>2
  <2>4. \A p \in F1 : p \in Ids /\ (p \in F \/ p = id)
    BY <1>3, <1>10 DEF JoinedBy
  <2> QED
    BY <1>10, <1>14, <2>1, <2>3, <2>4 DEF Joins, NewestIs
<1>16. Operation(agen, id2, ins2, out)
  BY <1>10, <1>11, <1>14 DEF Operation, IsStore
<1>17. FlowsIn(d, F2, R2) /\ RenamedTo(agen, d, id2, ins2, out) /\ Unaffected(agen.station, d.station, F1)
  BY <1>10, <1>12, <1>13, <1>15, <1>16, RenamedFlows
<1>18. FlowsIn(both, F2, R2) /\ OnlyDiffers(d.station, both.station, id)
  BY <1>10, <1>17, EnqueuedFlows
<1>19. Unscheduled(both.station, id2)
  <2>1. Unscheduled(d.station, id2)
    BY <1>14, <1>17, RenamedFields
  <2> QED
    BY <1>18, <2>1 DEF OnlyDiffers, Unscheduled
<1>20. Unaffected(st, both.station, F)
  <2>1. Unaffected(d.station, both.station, F)
    BY <1>3, <1>18 DEF Unaffected, OnlyDiffers
  <2>2. Unaffected(st, agen.station, F)
    BY <1>7, <1>12, UnaffectedTransitive
  <2>3. Unaffected(st, d.station, F)
    BY <1>10, <1>17, <2>2, UnaffectedTransitive
  <2> QED
    BY <2>1, <2>3, UnaffectedTransitive
<1>21. FlowsIn(e, F2, R2) /\ Unaffected(st, e.station, F) /\ (i.op # "store" => Unscheduled(e.station, id2))
  <2>1. CASE i.op = "store"
    <3>1. EnqueuedAs(both, e, id2)
      BY <1>1, <2>1 DEF EnqueuedAs
    <3>2. FlowsIn(e, F2, R2) /\ OnlyDiffers(both.station, e.station, id2)
      BY <1>10, <1>18, <3>1, EnqueuedFlows
    <3>3. Unaffected(both.station, e.station, F)
      BY <1>3, <3>2 DEF Unaffected, OnlyDiffers
    <3>4. Unaffected(st, e.station, F)
      BY <1>20, <3>3, UnaffectedTransitive
    <3> QED
      BY <2>1, <3>2, <3>4
  <2>2. CASE i.op # "store"
    <3>1. e = both
      BY <1>1, <2>2
    <3> QED
      BY <1>18, <1>19, <1>20, <3>1
  <2> QED
    BY <2>1, <2>2
<1>22. F2 = F \cup {id, id2}
  BY <1>10 DEF new
<1> QED
  BY <1>21, <1>22 DEF st

\* What a station reads follows from its place in the program.
LEMMA NewReads ==
  ASSUME text' = text, NEW id \in Ids, NEW pc, NEW i, i = Inst(pc), station'[id].PC = pc
  PROVE  /\ station'[id].ea_comp /\ ~station'[id].in_LSQ =>
              ReadsOf(Inputs', id, <<NA, i.in[2], i.in[3]>>)
         /\ ~station'[id].ea_comp /\ station'[id].in_LSQ =>
              ReadsOf(Inputs', id, <<i.in[1], DTMP, NA>>)
         /\ ~station'[id].ea_comp /\ ~station'[id].in_LSQ => ReadsOf(Inputs', id, i.in)
<1>1. Inst(station[id].PC)' = i
  BY DEF Inst
<1>2. ASSUME NEW k \in 1..3
      PROVE  Inputs'[id][k] = CASE station'[id].ea_comp -> <<NA, i.in[2], i.in[3]>>[k]
                                [] station'[id].in_LSQ -> <<i.in[1], DTMP, NA>>[k]
                                [] OTHER -> i.in[k]
  <2>1. Input(id, k)' = CASE station'[id].ea_comp -> <<NA, i.in[2], i.in[3]>>[k]
                          [] station'[id].in_LSQ -> <<i.in[1], DTMP, NA>>[k]
                          [] OTHER -> i.in[k]
    BY <1>1 DEF Input
  <2>2. Inputs'[id][k] = Input(id, k)'
    BY DEF Inputs
  <2> QED
    BY <2>1, <2>2
<1>3. ASSUME station'[id].ea_comp, ~station'[id].in_LSQ
      PROVE  ReadsOf(Inputs', id, <<NA, i.in[2], i.in[3]>>)
  <2> DEFINE ins == <<NA, i.in[2], i.in[3]>>
  <2> HIDE DEF ins
  <2>1. \A k \in 1..3 : Inputs'[id][k] = ins[k]
    BY <1>2, <1>3 DEF ins
  <2> QED
    BY <2>1 DEF ReadsOf, ins
<1>4. ASSUME ~station'[id].ea_comp, station'[id].in_LSQ
      PROVE  ReadsOf(Inputs', id, <<i.in[1], DTMP, NA>>)
  <2> DEFINE ins == <<i.in[1], DTMP, NA>>
  <2> HIDE DEF ins
  <2>1. \A k \in 1..3 : Inputs'[id][k] = ins[k]
    BY <1>2, <1>4 DEF ins
  <2> QED
    BY <2>1 DEF ReadsOf, ins
<1>5. ASSUME ~station'[id].ea_comp, ~station'[id].in_LSQ PROVE ReadsOf(Inputs', id, i.in)
  BY <1>2, <1>5 DEF ReadsOf
<1> QED
  BY <1>3, <1>4, <1>5

\* A store names no output.
LEMMA StoresNameNothing ==
  ASSUME Program, NEW p
  PROVE  Inst(p).op = "store" => Inst(p).out = NA
<1>1. \E s \in Setups : text = s.text
  BY DEF Program
<1> QED
  BY <1>1, BogusFacts, SetupsAssumption DEF Inst

\* A dispatched instruction joins the flow.
LEMMA OpFlows ==
  ASSUME IInv, RegistersInv, CanDispatch, NEW i, IsFetched(i),
         NEW npc \in NextPCs(Fetched.regs_PC), DispatchOp(i, npc),
         UNCHANGED <<programVars, stage, RUU_head, LSQ_head, event_queue, issueVars,
                     fetch_data, uncached, branch_cnt, busy>>
  PROVE  /\ RegistersInv' /\ MemoryStays(station, station', FlightNow)
         /\ FlightNow' = FlightNow \cup (IF i.op \in F_MEM THEN {RUUNew, LSQNew} ELSE {RUUNew})
         /\ i.op \in F_MEM => station'[LSQNew].op = i.op
         /\ i.op = "load" => Unscheduled(station', LSQNew)
         /\ HeldNow' = HeldNow
<1> DEFINE mem == i.op \in F_MEM
           mis == Mispredicted(i, npc)
           F == FlightNow
           new == IF mem THEN {RUUNew, LSQNew} ELSE {RUUNew}
           id == RUUNew
           id2 == LSQNew
           R2 == Inputs'
           r == NewStation(i, npc)
           a == NewAccessStation(i, npc)
           st2 == station'
<1>1. /\ Arrived(st2, i, npc, mis) /\ st2 \in [Ids -> StationSet]
      /\ RUU_num' = RUU_num + 1 /\ Longer(RUUIds, RUUIds', RUU_num, RUUNew) /\ RUUNew \in RUU
      /\ RingGrows(LSQIds, LSQIds', LSQ_num, LSQ_num', LSQNew, mem)
      /\ LSQNew \in LSQ /\ LSQNew \notin F
      /\ FrontPC = Fetched.regs_PC
  BY InstructionArrives DEF FlightNow
<1>2. /\ stage = "dispatch" /\ text' = text /\ i = Inst(Fetched.regs_PC)
      /\ station \in [Ids -> StationSet] /\ inst_seq \in Nat /\ spec_mode \in BOOLEAN
      /\ mis \in BOOLEAN /\ mem \in BOOLEAN /\ Program
  <2>1. mem \in BOOLEAN /\ mis \in BOOLEAN
    BY DEF Mispredicted
  <2> HIDE DEF mem, mis
  <2> QED
    BY <2>1 DEF CanDispatch, programVars, IsFetched, IInv, CoreTypes
<1>3. /\ Fetched.regs_PC \in PCs /\ PCs \subseteq Nat /\ i \in Instructions /\ npc \in Nat
      /\ i.op = "store" => i.out = NA
  <2>1. Fetched.regs_PC \in PCs
    BY <1>1 DEF IInv, Structure, StructureOf, Flow
  <2>2. /\ PCs \subseteq Nat /\ i \in Instructions \cup {NOP} /\ npc \in PCs
    BY <1>2, <2>1, TextFacts
  <2>3. i # NOP
    BY DEF DispatchOp, NOP
  <2> QED
    BY <1>2, <2>1, <2>2, <2>3, StoresNameNothing
<1>4. PICK c : /\ AllocatedTo(c, i, npc) /\ MarkedTo(c.station, station', RUUNew, mis)
               /\ create_vector' = c.cv /\ spec_create_vector' = c.spec_cv
               /\ use_spec_cv' = c.use
               /\ ready_queue' = c.ready_queue /\ rslink_free' = c.free
  BY DEF DispatchOp, AllocatedTo, MarkedTo, Marked
<1>5. F \in SUBSET Ids /\ id \in Ids /\ id2 \in Ids /\ id2 # id /\ id \notin F /\ id2 \notin F
  <2>1. F \in SUBSET Ids /\ Places(RUUIds, RUU_num, RUU) /\ Places(LSQIds, LSQ_num, LSQ)
    BY RingsPlaced DEF IInv, FlightNow
  <2>2. \A p \in RUU : p \notin LSQ
    BY DEF RUU, LSQ
  <2> QED
    BY <1>1, <2>1, <2>2 DEF Flight, FlightNow, Places, Longer, Ids
<1>6. FlightNow' = F \cup new
  <2> DEFINE ruu2 == RUUIds'
             n2 == RUU_num'
             lsq2 == LSQIds'
             m2 == LSQ_num'
             ruu == RUUIds
             lsq == LSQIds
             n == RUU_num
             m == LSQ_num
             e == RUUNew
             e2 == LSQNew
  <2>1. n2 = n + 1 /\ Longer(ruu, ruu2, n, e) /\ RingGrows(lsq, lsq2, m, m2, e2, mem)
    BY <1>1
  <2>2. n \in Nat /\ m \in Nat /\ mem \in BOOLEAN
    BY <1>2, RingsPlaced DEF IInv
  <2> HIDE DEF ruu2, n2, lsq2, m2, ruu, lsq, n, m, e, e2, mem
  <2>3. Flight(ruu2, n2, lsq2, m2) = Flight(ruu, n, lsq, m) \cup (IF mem THEN {e, e2} ELSE {e})
    BY <2>1, <2>2, FlightGrows
  <2> QED
    BY <2>3 DEF ruu2, n2, lsq2, m2, ruu, lsq, n, m, e, e2, FlightNow
<1>7. /\ FilledIn(r, station[id], i, npc, IF mem THEN "agen" ELSE i.op, inst_seq + 1)
      /\ FilledIn(a, station[id2], i, npc, i.op, inst_seq + 2)
      /\ r \in StationSet /\ a \in StationSet
  <2>1. /\ FilledIn(NewStation(i, npc), station[RUUNew], i, npc,
                    IF i.op \in F_MEM THEN "agen" ELSE i.op, inst_seq + 1)
        /\ FilledIn(NewAccessStation(i, npc), station[LSQNew], i, npc, i.op, inst_seq + 2)
    BY <1>2, <1>3, <1>5, NewlyFilled
  <2> QED
    BY <2>1 DEF FilledIn
<1>8. SameReads(Inputs, R2, F)
  <2>1. \A p \in F : SameStation(station, station', p)
    BY <1>1, <1>5 DEF Arrived
  <2>2. \A p \in F : /\ station'[p].PC = station[p].PC
                     /\ station'[p].ea_comp = station[p].ea_comp
                     /\ station'[p].in_LSQ = station[p].in_LSQ
    BY <2>1 DEF SameStation
  <2> HIDE DEF F
  <2> QED
    BY <1>2, <1>5, <2>2, InputsKept
<1>9. /\ st2[id].PC = Fetched.regs_PC /\ (st2[id].ea_comp <=> mem) /\ ~st2[id].in_LSQ
      /\ mem => st2[id2].in_LSQ /\ ~st2[id2].ea_comp
  BY <1>1 DEF Arrived, NewOperation, NewAccess
<1>10. /\ c.station \in [Ids -> StationSet] /\ st2 = Marked(c.station, id, mis)
       /\ mem => SameStations([station EXCEPT ![id] = r, ![id2] = a], c.station)
  <2>1. st2 = Marked(c.station, id, mis)
    BY <1>4 DEF MarkedTo
  <2>2. F = Flight(RUUIds, RUU_num, LSQIds, LSQ_num) /\ c = Allocated(i, npc)
        /\ id = RUUNew /\ id2 = LSQNew /\ r = NewStation(i, npc) /\ a = NewAccessStation(i, npc)
    BY <1>4 DEF FlightNow, AllocatedTo
  <2> HIDE DEF F, id, id2, r, a
  <2>3. CASE mem
    <3>1. FilledIn(r, station[id], i, npc, "agen", inst_seq + 1)
      BY <1>7, <2>3
    <3>2. /\ Filling(c, F \cup {id, id2}, {}, event_queue)
          /\ SameStations([station EXCEPT ![id] = r, ![id2] = a], c.station)
      BY <1>2, <1>3, <1>5, <1>7, <2>2, <2>3, <3>1, AccessAllocated
    <3> QED
      BY <2>1, <3>2 DEF Filling, RenameStates
  <2>4. CASE ~mem
    <3>1. FilledIn(r, station[id], i, npc, i.op, inst_seq + 1)
      BY <1>7, <2>4
    <3>2. Filling(c, F \cup {id}, {}, event_queue)
      BY <1>2, <1>3, <1>5, <1>7, <2>2, <2>4, <3>1, OperationAllocated
    <3> QED
      BY <2>1, <2>4, <3>2 DEF Filling, RenameStates
  <2> QED
    BY <2>3, <2>4
<1>11. mem => st2[id2].PC = Fetched.regs_PC /\ st2[id2].op = i.op
  <2> SUFFICES ASSUME mem PROVE st2[id2].PC = Fetched.regs_PC /\ st2[id2].op = i.op
    OBVIOUS
  <2>1. a.PC = Fetched.regs_PC /\ a.op = i.op
    BY <1>7 DEF FilledIn
  <2> DEFINE st1 == [station EXCEPT ![id] = r, ![id2] = a]
  <2>2. st1[id2] = a
    BY <1>2, <1>5
  <2>3. SameStation(st1, c.station, id2)
    BY <1>5, <1>10 DEF SameStations
  <2>4. st2[id2] = c.station[id2]
    BY <1>5, <1>10 DEF Marked
  <2> HIDE DEF st1, a, id2, st2
  <2> QED
    BY <2>1, <2>2, <2>3, <2>4 DEF SameStation
<1>12. /\ mem => ReadsOf(R2, id, <<NA, i.in[2], i.in[3]>>) /\ ReadsOf(R2, id2, <<i.in[1], DTMP, NA>>)
       /\ ~mem => ReadsOf(R2, id, i.in)
  <2> DEFINE pc == Fetched.regs_PC
  <2>1. station'[id].PC = pc /\ (mem => station'[id2].PC = pc) /\ i = Inst(pc) /\ text' = text
    BY <1>2, <1>9, <1>11
  <2> HIDE DEF pc, R2, id, id2
  <2>2. id \in Ids /\ id2 \in Ids
    BY <1>5
  <2>3. /\ mem => ReadsOf(Inputs', id, <<NA, i.in[2], i.in[3]>>)
        /\ ~mem => ReadsOf(Inputs', id, i.in)
    BY <1>9, <2>1, <2>2, NewReads
  <2>4. mem => ReadsOf(Inputs', id2, <<i.in[1], DTMP, NA>>)
    BY <1>9, <2>1, <2>2, NewReads
  <2> QED
    BY <2>3, <2>4 DEF R2
<1>13. /\ FlowsIn(c, F \cup new, R2) /\ Unaffected(station, c.station, F)
       /\ i.op = "load" => Unscheduled(c.station, id2)
  <2>1. F = FlightNow /\ id = RUUNew /\ id2 = LSQNew /\ r = NewStation(i, npc)
        /\ a = NewAccessStation(i, npc)
    OBVIOUS
  <2>2. new = (IF mem THEN {id, id2} ELSE {id}) /\ (i.op \in F_MEM <=> mem)
        /\ ("load" \in F_MEM)
    BY DEF F_MEM
  <2> HIDE DEF F, id, id2, r, a, mem, new, R2, st2, mis
  <2>3. CASE mem
    <3>1. FilledIn(r, station[id], i, npc, "agen", inst_seq + 1)
      BY <1>7, <2>3
    <3>2. FilledIn(a, station[id2], i, npc, i.op, inst_seq + 2)
      BY <1>7
    <3>3. ReadsOf(R2, id, <<NA, i.in[2], i.in[3]>>) /\ ReadsOf(R2, id2, <<i.in[1], DTMP, NA>>)
      BY <1>12, <2>3
    <3>4. id # id2
      BY <1>5
    <3>5. /\ FlowsIn(c, F \cup {id, id2}, R2) /\ Unaffected(station, c.station, F)
          /\ i.op # "store" => Unscheduled(c.station, id2)
      BY <1>2, <1>3, <1>4, <1>5, <1>7, <1>8, <2>1, <2>2, <2>3, <3>1, <3>2, <3>3, <3>4, AccessFlows
    <3> QED
      BY <2>2, <2>3, <3>5
  <2>4. CASE ~mem
    <3>1. FilledIn(r, station[id], i, npc, i.op, inst_seq + 1)
      BY <1>7, <2>4
    <3>2. ReadsOf(R2, id, i.in)
      BY <1>12, <2>4
    <3>3. FlowsIn(c, F \cup {id}, R2) /\ Unaffected(station, c.station, F)
      BY <1>2, <1>3, <1>4, <1>5, <1>7, <1>8, <2>1, <2>2, <2>4, <3>1, <3>2, OperationFlows
    <3> QED
      BY <2>2, <2>4, <3>3
  <2> QED
    BY <1>2, <2>3, <2>4
<1>14. /\ DataOf(st2, F \cup new, R2, c.cv, c.spec_cv, c.use)
       /\ \A p \in Ids : p # id => st2[p] = c.station[p]
  <2> DEFINE F2 == F \cup new
             s == c.station
             cv == c.cv
             spec_cv == c.spec_cv
             use == c.use
  <2>1. s \in [Ids -> StationSet] /\ DataOf(s, F2, R2, cv, spec_cv, use) /\ MarkedTo(s, st2, id, mis)
    BY <1>10, <1>13 DEF FlowsIn, MarkedTo
  <2>2. F2 \in SUBSET Ids /\ id \in Ids /\ mis \in BOOLEAN
    BY <1>2, <1>5
  <2>3. \A p \in Ids : p # id => st2[p] = s[p]
    BY <2>1, <2>2 DEF MarkedTo, Marked
  <2> HIDE DEF F2, s, cv, spec_cv, use, R2, id, mis, st2
  <2>4. DataOf(st2, F2, R2, cv, spec_cv, use)
    BY <2>1, <2>2, MarkedFlows
  <2> QED
    BY <2>3, <2>4 DEF F2, s, cv, spec_cv, use
<1>15. RegistersInv'
  <2>1. create_vector' = c.cv /\ spec_create_vector' = c.spec_cv /\ use_spec_cv' = c.use
    BY <1>4
  <2>2. DataOf(st2, FlightNow', R2, create_vector', spec_create_vector', use_spec_cv')
    BY <1>6, <1>14, <2>1
  <2> QED
    BY <2>2 DEF RegistersInv
<1>16. MemoryStays(station, st2, F)
  <2>1. \A p \in F : st2[p] = c.station[p]
    BY <1>5, <1>14
  <2> HIDE DEF F, st2
  <2> QED
    BY <1>13, <2>1 DEF MemoryStays, Unaffected
<1>17. i.op = "load" => Unscheduled(st2, id2)
  <2>1. st2[id2] = c.station[id2]
    BY <1>5, <1>14
  <2> QED
    BY <1>13, <2>1 DEF Unscheduled
<1>18. HeldNow' = HeldNow
  <2>1. \A p \in Ids, j \in 1..2 : st2[p].odep_list[j] = c.station[p].odep_list[j]
    BY <1>5, <1>10, MarkedChains
  <2>2. Chains(st2, Ids) = Chains(c.station, Ids)
    BY <2>1, SameChainsCounted
  <2>3. Held(c) = HeldNow
    BY <1>13 DEF FlowsIn
  <2> QED
    BY <1>4, <2>2, <2>3 DEF Held, HeldNow
<1> QED
  BY <1>6, <1>11, <1>15, <1>16, <1>17, <1>18

-----------------------------------------------------------------------------
(* The steps of the core.                                                  *)

\* Values flow as before when stations and creation vectors stay.
LEMMA NothingFlows ==
  ASSUME IInv, RegistersInv, text' = text, UNCHANGED <<station, ruuVars, lsqVars, cvVars>>
  PROVE  RegistersInv' /\ FlightNow' = FlightNow /\ MemoryStays(station, station', FlightNow)
<1>1. station' = station /\ station \in [Ids -> StationSet] /\ UNCHANGED <<ruuVars, lsqVars, cvVars>>
  BY DEF IInv, CoreTypes
<1>2. FlagsDiffer(station, station')
  BY <1>1 DEF FlagsDiffer, SameMaker, SameShape
<1>3. RegistersInv' /\ FlightNow' = FlightNow
  BY <1>1, <1>2, FlagsStep
<1>4. MemoryStays(station, station', FlightNow)
  BY <1>1 DEF MemoryStays
<1> QED
  BY <1>3, <1>4

\* Stations, rings and creation vectors stay.
Idles == text' = text /\ UNCHANGED <<station, ruuVars, lsqVars, cvVars>>

\* What ruu_issue leaves alone.
LEMMA IssueLeaves ==
  ASSUME ruu_issue
  PROVE  UNCHANGED <<ruuVars, lsqVars, cvVars>> /\ text' = text
BY DEF ruu_issue, programVars

\* The steps that move values or schedule, and the others.
LEMMA OtherSteps ==
  ASSUME Next
  PROVE  \/ ruu_commit \/ ruu_writeback \/ lsq_refresh \/ ruu_issue \/ ruu_issue_done
         \/ ruu_dispatch \/ Idles
<1>1. CASE ruu_release_fu
  BY <1>1 DEF ruu_release_fu, Idles, programVars
<1>2. CASE ruu_writeback_done
  BY <1>2 DEF ruu_writeback_done, Idles, programVars
<1>3. CASE ruu_dispatch_exit \/ ruu_dispatch_done
  BY <1>3 DEF ruu_dispatch_exit, ruu_dispatch_done, Idles, programVars
<1>4. CASE ruu_fetch
  BY <1>4 DEF ruu_fetch, Idles, programVars
<1>5. CASE ruu_fetch_miss \/ ruu_fetch_done
  BY <1>5 DEF ruu_fetch_miss, ruu_fetch_done, EndCycle, Idles, programVars
<1>6. CASE Exited
  BY <1>6 DEF Exited, vars, Idles, programVars
<1> QED
  BY <1>1, <1>2, <1>3, <1>4, <1>5, <1>6 DEF Next

\* A NOP takes no station, anything else joins the flow.
LEMMA DispatchFlows ==
  ASSUME IInv, RegistersInv, ruu_dispatch
  PROVE  RegistersInv'
<1>1. CanDispatch /\ UNCHANGED <<programVars, stage, RUU_head, LSQ_head, event_queue, issueVars,
                                 fetch_data, uncached, branch_cnt, busy>>
  BY DEF ruu_dispatch
<1>2. PICK npc \in NextPCs(Fetched.regs_PC) :
         \/ DispatchNop(Inst(Fetched.regs_PC), npc)
         \/ DispatchOp(Inst(Fetched.regs_PC), npc)
  BY DEF ruu_dispatch
<1>3. CASE DispatchNop(Inst(Fetched.regs_PC), npc)
  <2>1. UNCHANGED <<station, ruuVars, lsqVars, cvVars>> /\ text' = text
    BY <1>1, <1>3 DEF DispatchNop, ruuVars, lsqVars, programVars
  <2> QED
    BY <2>1, NothingFlows
<1>4. CASE DispatchOp(Inst(Fetched.regs_PC), npc)
  <2> DEFINE i == Inst(Fetched.regs_PC)
  <2>1. IsFetched(i) /\ DispatchOp(i, npc)
    BY <1>4 DEF IsFetched
  <2> HIDE DEF i
  <2> QED
    BY <1>1, <2>1, OpFlows
<1> QED
  BY <1>2, <1>3, <1>4

\* Every step keeps the flow of values through registers.
LEMMA StepFlows ==
  ASSUME IInv, RegistersInv, Next
  PROVE  RegistersInv'
<1>1. CASE ruu_commit
  BY <1>1, CommitFlows
<1>2. CASE ruu_writeback
  BY <1>2, WritebackFlows
<1>3. CASE lsq_refresh
  <2>1. UNCHANGED <<ruuVars, lsqVars, cvVars>> /\ text' = text
    BY <1>3 DEF lsq_refresh, programVars
  <2> QED
    BY <1>3, <2>1, RefreshDiffers, FlagsStep
<1>4. CASE ruu_issue
  <2>1. UNCHANGED <<ruuVars, lsqVars, cvVars>> /\ text' = text
    BY <1>4, IssueLeaves
  <2> QED
    BY <1>4, <2>1, IssueDiffers, FlagsStep
<1>5. CASE ruu_issue_done
  <2>1. UNCHANGED <<ruuVars, lsqVars, cvVars>> /\ text' = text
    BY <1>5 DEF ruu_issue_done, programVars
  <2> QED
    BY <1>5, <2>1, IssueEndDiffers, FlagsStep
<1>6. CASE ruu_dispatch
  BY <1>6, DispatchFlows
<1>7. CASE Idles
  BY <1>7, NothingFlows DEF Idles
<1> QED
  BY <1>1, <1>2, <1>3, <1>4, <1>5, <1>6, <1>7, OtherSteps

\* Nothing is in flight at first.
LEMMA StartFlows ==
  ASSUME Init
  PROVE  RegistersInv
<1>1. /\ RUU_num = 0 /\ LSQ_num = 0 /\ station = [id \in Ids |-> FreeStation]
      /\ create_vector = [r \in Regs \cup {DTMP} |-> CVLINK_NULL]
      /\ spec_create_vector = [r \in Regs \cup {DTMP} |-> CVLINK_NULL] /\ use_spec_cv = {}
  BY DEF Init
<1>2. FlightNow = {}
  BY <1>1 DEF FlightNow, Flight
<1>3. \A p \in Ids : station[p].odep_list = << <<>>, <<>> >>
  BY <1>1 DEF FreeStation
<1> HIDE DEF Init
<1>4. Outputs(station, {})
  BY <1>3 DEF Outputs
<1>5. Awaiting(station, {}, Inputs)
  BY DEF Awaiting
<1>6. Creating(station, {}, create_vector, spec_create_vector, use_spec_cv)
  <2>1. Lasting(station, {}) = {}
    BY DEF Lasting
  <2> QED
    BY <1>1, <2>1 DEF Creating, Named, CVLINK_NULL
<1> QED
  BY <1>2, <1>4, <1>5, <1>6 DEF RegistersInv, DataOf

-----------------------------------------------------------------------------
(* What the properties say.                                                *)

\* The first element of a set of stations in flight that no other is younger than.
LEMMA YoungestExact ==
  ASSUME NEW S, NEW p \in S, \A q \in S : q # p => station[q].seq < station[p].seq,
         \A q \in S : station[q].seq \in Nat
  PROVE  Youngest(S) = p
<1>1. \A q \in S : ~Older(p, q)
  BY DEF Older
<1>2. ASSUME NEW x \in S, \A q \in S : ~Older(x, q) PROVE x = p
  BY <1>2 DEF Older
<1> QED
  BY <1>1, <1>2 DEF Youngest

\* Of the stations S that write r the latest is the youngest.
YoungestIn(S, r) ==
    LET writers == {p \in S : Writes(p, r)}
    IN /\ writers = {p \in S : Makes(station, p, r)}
       /\ writers # {} => Youngest(writers) \in writers
       /\ \A p \in S : LatestOf(station, S, r, p) <=> writers # {} /\ p = Youngest(writers)

\* Of those that write a register one is the youngest.
LEMMA YoungestWriter ==
  ASSUME NEW F \in SUBSET Ids, Numbered(station, F), NEW S \in SUBSET F, NEW r,
         NEW top \in Nat, \A p \in F : station[p].seq \in 0..top,
         Outputs(station, F)
  PROVE  YoungestIn(S, r)
<1> DEFINE writers == {p \in S : Writes(p, r)}
<1>1. \A p \in S : Writes(p, r) <=> Makes(station, p, r)
  BY DEF Writes, Makes, Outputs
<1>2. ASSUME writers # {}
      PROVE  \E p \in writers : \A q \in writers : q # p => station[q].seq < station[p].seq
  <2> DEFINE numbers == {station[p].seq : p \in writers}
  <2>1. numbers \in SUBSET (0..top) /\ numbers # {}
    BY <1>2
  <2>2. PICK x \in numbers : \A y \in numbers : y <= x
    <3> HIDE DEF numbers
    <3> QED
      BY <2>1, GreatestElement
  <2>3. PICK p \in writers : station[p].seq = x
    BY <2>2
  <2>4. ASSUME NEW q \in writers, q # p PROVE station[q].seq < station[p].seq
    <3>1. station[q].seq <= station[p].seq
      BY <2>2, <2>3
    <3>2. station[q].seq # station[p].seq
      BY <2>4 DEF Numbered
    <3>3. station[q].seq \in Nat /\ station[p].seq \in Nat
      OBVIOUS
    <3> QED
      BY <3>1, <3>2, <3>3
  <2> QED
    BY <2>3, <2>4
<1>3. ASSUME writers # {}
      PROVE  /\ Youngest(writers) \in writers
             /\ \A p \in S : LatestOf(station, S, r, p) <=> p = Youngest(writers)
  <2>1. PICK p \in writers : \A q \in writers : q # p => station[q].seq < station[p].seq
    BY <1>2, <1>3
  <2>2. \A q \in writers : station[q].seq \in Nat
    OBVIOUS
  <2>3. Youngest(writers) = p
    <3> HIDE DEF writers
    <3> QED
      BY <2>1, <2>2, YoungestExact
  <2>4. LatestOf(station, S, r, p)
    BY <1>1, <2>1, <2>2 DEF LatestOf
  <2>5. ASSUME NEW x \in S, LatestOf(station, S, r, x) PROVE x = p
    BY <1>1, <2>1, <2>2, <2>5 DEF LatestOf
  <2> QED
    BY <2>1, <2>3, <2>4, <2>5
<1>4. \A p \in S : LatestOf(station, S, r, p) => writers # {}
  BY <1>1 DEF LatestOf
<1>5. /\ writers = {p \in S : Makes(station, p, r)}
      /\ \A p \in S : LatestOf(station, S, r, p) <=> writers # {} /\ p = Youngest(writers)
  BY <1>1, <1>3, <1>4
<1> QED
  BY <1>3, <1>5 DEF YoungestIn

\* A creation vector entry that names the latest writer creates its value.
LEMMA NamesCreator ==
  ASSUME NEW F \in SUBSET Ids, Numbered(station, F), NEW S \in SUBSET F, NEW r,
         NEW top \in Nat, \A p \in F : station[p].seq \in 0..top, Outputs(station, F),
         NEW entry \in CVSet, Named(station, entry, S, r)
  PROVE  Creates(entry, r, S)
<1> DEFINE writers == {p \in S : Writes(p, r)}
           last == Youngest(writers)
<1>1. /\ writers = {p \in S : Makes(station, p, r)} /\ (writers # {} => last \in writers)
      /\ \A p \in S : LatestOf(station, S, r, p) <=> writers # {} /\ p = last
  <2>1. YoungestIn(S, r)
    BY YoungestWriter
  <2> QED
    BY <2>1 DEF YoungestIn
<1>2. /\ \A p \in S : entry.rs = p <=> LatestOf(station, S, r, p) /\ ~station[p].completed
      /\ entry.rs \in S \cup {NoRS} /\ entry.odep_num = 1
  BY DEF Named
<1>3. NoRS \notin Ids
  BY DEF NoRS, Ids, RUU, LSQ
<1>4. CASE writers = {} \/ station[last].completed
  <2>1. \A p \in S : entry.rs # p
    BY <1>1, <1>2, <1>4
  <2>2. entry.rs = NoRS
    BY <1>2, <2>1
  <2>3. entry = CVLINK_NULL
    BY <1>3, <2>2 DEF CVSet
  <2> QED
    BY <1>4, <2>3 DEF Creates
<1>5. CASE ~(writers = {} \/ station[last].completed)
  <2>1. last \in writers /\ entry.rs = last
    BY <1>1, <1>2, <1>5
  <2>2. station[last].onames[entry.odep_num] = r
    BY <1>1, <1>2, <2>1 DEF Makes
  <2> QED
    BY <1>5, <2>1, <2>2 DEF Creates
<1> QED
  BY <1>4, <1>5

\* The numbers in flight are bounded.
LEMMA FlightBounded ==
  ASSUME IInv
  PROVE  inst_seq \in Nat /\ \A p \in FlightNow : station[p].seq \in 0..inst_seq
<1>1. /\ inst_seq \in Nat /\ FlightNow \in SUBSET Ids
      /\ \A p \in FlightNow : station[p].seq <= inst_seq
  BY NumbersBelow, NumbersNow
<1>2. ASSUME NEW p \in FlightNow PROVE station[p].seq \in 0..inst_seq
  <2>1. station[p].seq \in Nat
    BY <1>1, StationFields DEF IInv, CoreTypes
  <2> QED
    BY <1>1, <2>1
<1> QED
  BY <1>1, <1>2

\* The creation vectors name the youngest instruction in flight that will still
\* write a register.
LEMMA CreatorsLatest ==
  ASSUME IInv, RegistersInv
  PROVE  CreatorsAreLatest
<1> DEFINE F == FlightNow
           cv == create_vector
           spec_cv == spec_create_vector
           use == use_spec_cv
<1>1. /\ F \in SUBSET Ids /\ Numbered(station, F) /\ InFlight = F
      /\ inst_seq \in Nat /\ \A p \in F : station[p].seq \in 0..inst_seq
  BY NumbersNow, FlightBounded, RingsPlaced DEF IInv, FlightNow
<1>2. Outputs(station, F) /\ Creating(station, F, cv, spec_cv, use)
  BY DEF RegistersInv, DataOf
<1>3. cv \in [Regs \cup {DTMP} -> CVSet] /\ spec_cv \in [Regs \cup {DTMP} -> CVSet]
  BY DEF IInv, CoreTypes
<1> HIDE DEF F, cv, spec_cv, use
<1>4. ASSUME NEW r \in Regs \cup {DTMP}
      PROVE  /\ Creates(cv[r], r, {p \in F : ~station[p].spec_mode})
             /\ Creates(IF r \in use THEN spec_cv[r] ELSE cv[r], r, F)
  <2> DEFINE S == {p \in F : ~station[p].spec_mode}
             first == cv[r]
             second == IF r \in use THEN spec_cv[r] ELSE cv[r]
  <2>1. S = Lasting(station, F) /\ S \in SUBSET F /\ F \in SUBSET F
    BY DEF Lasting
  <2>2. first \in CVSet /\ second \in CVSet
    BY <1>3
  <2>3. Named(station, first, S, r) /\ Named(station, second, F, r)
    BY <1>2, <2>1 DEF Creating
  <2> HIDE DEF S, first, second
  <2>4. Creates(first, r, S)
    BY <1>1, <1>2, <2>1, <2>2, <2>3, NamesCreator
  <2>5. Creates(second, r, F)
    BY <1>1, <1>2, <2>1, <2>2, <2>3, NamesCreator
  <2> QED
    BY <2>4, <2>5 DEF S, first, second
<1> QED
  BY <1>1, <1>4 DEF CreatorsAreLatest, cv, spec_cv, use

\* A chain holds one good link to an operand, or none.
LEMMA ChainedOnce ==
  ASSUME NEW F, ChainLinks(station, F, Ids), station \in [Ids -> StationSet],
         NEW p \in Ids, NEW id, NEW k
  PROVE  Cardinality(Chained(p, 1, id, k)) = IF Linked(station, p, id, k) THEN 1 ELSE 0
<1> DEFINE chain == station[p].odep_list[1]
           C == Chained(p, 1, id, k)
<1>1. C = {n \in DOMAIN chain : GoodLink(station, chain[n], id, k)}
  BY DEF Chained, GoodLink
<1>2. ASSUME NEW m \in C, NEW n \in C PROVE m = n
  <2>1. /\ chain[m].rs = id /\ chain[m].x = k /\ chain[m].tag = station[id].tag
        /\ chain[n].rs = id /\ chain[n].x = k /\ chain[n].tag = station[id].tag
        /\ RSLINK_VALID(station, chain[m])
    BY <1>1 DEF GoodLink, RSLINK_VALID
  <2>2. chain \in Seq(OperandSet) /\ m \in DOMAIN chain /\ n \in DOMAIN chain
    BY <1>1 DEF StationSet
  <2>3. chain[m] = chain[n]
    <3>1. chain[m] \in OperandSet /\ chain[n] \in OperandSet
      BY <2>2
    <3> QED
      BY <2>1, <3>1 DEF OperandSet
  <2> QED
    BY <2>1, <2>2, <2>3 DEF ChainLinks
<1>3. CASE Linked(station, p, id, k)
  <2>1. PICK n \in DOMAIN chain : GoodLink(station, chain[n], id, k)
    BY <1>3 DEF Linked
  <2>2. C = {n}
    BY <1>1, <1>2, <2>1
  <2>3. Cardinality({n}) = 1
    BY FS_Singleton
  <2> QED
    BY <1>3, <2>2, <2>3
<1>4. CASE ~Linked(station, p, id, k)
  <2>1. C = {}
    BY <1>1, <1>4 DEF Linked
  <2>2. Cardinality({}) = 0
    BY FS_EmptySet
  <2> QED
    BY <1>4, <2>1, <2>2
<1> QED
  BY <1>3, <1>4

\* An operand waits for the youngest older instruction that writes its register,
\* and is chained to it once.
LEMMA OperandsWait ==
  ASSUME IInv, RegistersInv
  PROVE  OperandsAwaited
<1> DEFINE F == InFlight
<1>1. /\ F \in SUBSET Ids /\ Numbered(station, F) /\ FlightNow = F
      /\ inst_seq \in Nat /\ \A p \in F : station[p].seq \in 0..inst_seq
  BY NumbersNow, FlightBounded, RingsPlaced DEF IInv, FlightNow
<1>2. Outputs(station, F) /\ Awaiting(station, F, Inputs)
  BY <1>1 DEF RegistersInv, DataOf
<1>3. station \in [Ids -> StationSet] /\ ChainLinks(station, F, Ids)
  BY <1>1 DEF IInv, CoreTypes, LinksInv, LinksOf, FlightNow
<1> HIDE DEF F
<1>4. ASSUME NEW id \in F, NEW k \in 1..3
      PROVE  LET r == Input(id, k)
                 producers == {p \in F : Writes(p, r) /\ Older(p, id)}
                 pending == {p \in producers : p = Youngest(producers) /\ ~station[p].completed}
             IN /\ station[id].idep_ready[k] = (pending = {})
                /\ \A p \in F, j \in 1..2 :
                     Cardinality(Chained(p, j, id, k)) =
                       IF p \in pending /\ station[p].onames[j] = r THEN 1 ELSE 0
  <2> DEFINE r == Input(id, k)
             S == OlderIn(station, F, id)
             producers == {p \in F : Writes(p, r) /\ Older(p, id)}
             writers == {p \in S : Writes(p, r)}
             pending == {p \in producers : p = Youngest(producers) /\ ~station[p].completed}
  <2>1. producers = writers /\ S \in SUBSET F
    BY DEF OlderIn, Older
  <2>2. Inputs[id][k] = r
    BY <1>1 DEF Inputs
  <2>3. AwaitsAt(station, F, r, id, k)
    BY <1>2, <2>2 DEF Awaiting
  <2>4. /\ writers = {p \in S : Makes(station, p, r)} /\ (writers # {} => Youngest(writers) \in writers)
        /\ \A p \in S : LatestOf(station, S, r, p) <=> writers # {} /\ p = Youngest(writers)
    <3> HIDE DEF r, S
    <3>1. YoungestIn(S, r)
      BY <1>1, <1>2, <2>1, YoungestWriter
    <3> QED
      BY <3>1 DEF YoungestIn
  <2>5. \A p \in F : p \in pending <=> Provider(station, F, r, id, p)
    <3> HIDE DEF r
    <3>1. \A p \in F : p \in pending <=> p \in writers /\ p = Youngest(writers) /\ ~station[p].completed
      BY <2>1
    <3>2. \A p \in F : LatestOf(station, S, r, p) => p \in S
      BY DEF LatestOf
    <3> HIDE DEF pending, writers, producers, S
    <3>3. \A p \in F : Provider(station, F, r, id, p) <=>
                         LatestOf(station, S, r, p) /\ ~station[p].completed
      BY DEF Provider, S
    <3>4. writers \subseteq S
      BY DEF writers
    <3> QED
      BY <2>4, <3>1, <3>2, <3>3, <3>4
  <2>6. pending \subseteq F
    OBVIOUS
  <2>7. station[id].idep_ready[k] = (pending = {})
    <3>1. station[id].idep_ready[k] \in BOOLEAN
      <4>1. station[id] \in StationSet
        BY <1>1, <1>3
      <4> QED
        BY <4>1 DEF StationSet
    <3>2. station[id].idep_ready[k] <=> pending = {}
      <4> HIDE DEF pending, r
      <4> QED
        BY <2>3, <2>5, <2>6 DEF AwaitsAt
    <3> QED
      BY <3>1, <3>2
  <2>8. ASSUME NEW p \in F, NEW j \in 1..2
        PROVE  Cardinality(Chained(p, j, id, k)) =
                 IF p \in pending /\ station[p].onames[j] = r THEN 1 ELSE 0
    <3>1. p \in pending <=> Linked(station, p, id, k)
      <4> HIDE DEF pending, r
      <4> QED
        BY <2>3, <2>5 DEF AwaitsAt
    <3>2. p \in pending => r # NA /\ station[p].onames[1] = r
      <4> HIDE DEF pending, r
      <4> QED
        BY <2>5 DEF Provider, LatestOf, Makes
    <3> HIDE DEF pending, r
    <3>3. CASE j = 1
      <4>1. Cardinality(Chained(p, 1, id, k)) = IF Linked(station, p, id, k) THEN 1 ELSE 0
        BY <1>1, <1>3, ChainedOnce
      <4> QED
        BY <3>1, <3>2, <3>3, <4>1
    <3>4. CASE j = 2
      <4>1. station[p].odep_list[2] = <<>> /\ station[p].onames[2] = NA
        BY <1>1, <1>2 DEF Outputs
      <4>2. Chained(p, 2, id, k) = {}
        BY <4>1 DEF Chained
      <4>3. Cardinality({}) = 0
        BY FS_EmptySet
      <4> QED
        BY <3>2, <3>4, <4>1, <4>2, <4>3
    <3> QED
      BY <3>3, <3>4
  <2> QED
    BY <2>7, <2>8
<1> QED
  BY <1>4 DEF OperandsAwaited, F

-----------------------------------------------------------------------------
(* Loads and stores.                                                       *)

\* The store at i, if it is one, is no obstacle to the load at j: it knows its
\* address, and has its data if the load takes them from it.
Serves(st, lsq, i, j) ==
    IsStore(st[lsq[i]]) =>
      /\ STORE_ADDR_READY(st[lsq[i]])
      /\ st[lsq[i]].addr = st[lsq[j]].addr
           /\ (\A k \in i + 1 .. j - 1 :
                  IsStore(st[lsq[k]]) => st[lsq[k]].addr # st[lsq[j]].addr)
         => OPERANDS_READY(st[lsq[i]])

\* No older store is an obstacle to the load at j.
Served(st, lsq, j) == IsLoad(st[lsq[j]]) /\ \A i \in 1 .. j - 1 : Serves(st, lsq, i, j)

\* Loads that are scheduled are served.
MemoryOrder(st, lsq, m) ==
    \A j \in 1 .. m : IsLoad(st[lsq[j]]) /\ (st[lsq[j]].queued \/ st[lsq[j]].issued)
                        => Served(st, lsq, j)

\* Operations, addresses and operands are the same.
SameOperands(s, s2) ==
    \A p \in Ids : s2[p].op = s[p].op /\ s2[p].addr = s[p].addr /\ s2[p].idep_ready = s[p].idep_ready

\* The store at i waits for its data, and no later one before n hides it.
Blocks(st, lsq, i, n) ==
    /\ IsStore(st[lsq[i]]) /\ ~OPERANDS_READY(st[lsq[i]])
    /\ \A k \in i + 1 .. n : IsStore(st[lsq[k]]) => st[lsq[k]].addr # st[lsq[i]].addr

\* The first n entries have been scanned, from the stations s on: while the scan
\* has not stopped the stores know their addresses, and those that block a load
\* are known; what has been enqueued is served.
Scanned(s, scan, lsq, n) ==
    /\ SameOperands(s, scan.q.station)
    /\ ~scan.stop => \A i \in 1 .. n : IsStore(s[lsq[i]]) => STORE_ADDR_READY(s[lsq[i]])
    /\ ~scan.stop => \A i \in 1 .. n : Blocks(s, lsq, i, n) =>
                        \E x \in DOMAIN scan.std_unknowns : scan.std_unknowns[x] = s[lsq[i]].addr
    /\ \A p \in Ids : scan.q.station[p].queued =>
          s[p].queued \/ \E j \in 1 .. n : p = lsq[j] /\ Served(s, lsq, j)

\* One entry of the queue: rs is the station.
EntryScanned(scan, scan2, id, rs) ==
    \/ scan.stop /\ scan2 = scan
    \/ /\ IsStore(rs) /\ ~STORE_ADDR_READY(rs) /\ scan2.stop /\ scan2.q = scan.q
    \/ /\ ~scan.stop /\ IsStore(rs) /\ STORE_ADDR_READY(rs) /\ OPERANDS_READY(rs)
       /\ scan2.q = scan.q
       /\ \A x \in DOMAIN scan.std_unknowns : scan.std_unknowns[x] # rs.addr =>
             x \in DOMAIN scan2.std_unknowns /\ scan2.std_unknowns[x] = scan.std_unknowns[x]
    \/ /\ ~scan.stop /\ IsStore(rs) /\ STORE_ADDR_READY(rs) /\ ~OPERANDS_READY(rs)
       /\ scan2.q = scan.q /\ scan2.std_unknowns = Append(scan.std_unknowns, rs.addr)
    \/ /\ ~scan.stop /\ ~IsStore(rs) /\ scan2 = scan
    \/ /\ ~scan.stop /\ IsLoad(rs) /\ \A x \in DOMAIN scan.std_unknowns : scan.std_unknowns[x] # rs.addr
       /\ ~scan2.stop /\ scan2.std_unknowns = scan.std_unknowns
       /\ scan2.q = readyq_enqueue(scan.q, id)

\* What the scan does with an entry.
LEMMA EntryCases ==
  ASSUME NEW scan \in ScanStates, NEW id \in Ids
  PROVE  EntryScanned(scan, Refresh(scan, id), id, scan.q.station[id])
<1> DEFINE q == scan.q
           rs == q.station[id]
           unknowns == scan.std_unknowns
           hidden == [i \in DOMAIN unknowns |->
                        IF unknowns[i] = rs.addr THEN 0 ELSE unknowns[i]]
           waits == ~rs.queued /\ ~rs.issued /\ ~rs.completed
           ready == IsLoad(rs) /\ waits /\ OPERANDS_READY(rs) /\ ~Contains(unknowns, rs.addr)
           enqueued == readyq_enqueue(q, id)
           r == Refresh(scan, id)
<1>1. CASE scan.stop
  <2>1. r = scan
    BY <1>1 DEF Refresh
  <2> QED
    BY <1>1, <2>1 DEF EntryScanned
<1>2. CASE ~scan.stop /\ IsStore(rs) /\ ~STORE_ADDR_READY(rs)
  <2>1. r = [scan EXCEPT !.stop = TRUE]
    BY <1>2 DEF Refresh
  <2>2. r.stop /\ r.q = scan.q
    BY <2>1 DEF ScanStates
  <2> QED
    BY <1>2, <2>2 DEF EntryScanned
<1>3. CASE ~scan.stop /\ IsStore(rs) /\ STORE_ADDR_READY(rs) /\ OPERANDS_READY(rs)
  <2>1. r = [scan EXCEPT !.std_unknowns = hidden]
    BY <1>3 DEF Refresh
  <2>2. r.std_unknowns = hidden /\ r.q = scan.q
    BY <2>1 DEF ScanStates
  <2>3. \A x \in DOMAIN unknowns : unknowns[x] # rs.addr => x \in DOMAIN hidden /\ hidden[x] = unknowns[x]
    OBVIOUS
  <2> QED
    BY <1>3, <2>2, <2>3 DEF EntryScanned
<1>4. CASE ~scan.stop /\ IsStore(rs) /\ STORE_ADDR_READY(rs) /\ ~OPERANDS_READY(rs)
  <2>1. r = [scan EXCEPT !.std_unknowns = Append(unknowns, rs.addr)]
    BY <1>4 DEF Refresh
  <2>2. r.std_unknowns = Append(unknowns, rs.addr) /\ r.q = scan.q
    BY <2>1 DEF ScanStates
  <2> QED
    BY <1>4, <2>2 DEF EntryScanned
<1>5. CASE ~scan.stop /\ ~IsStore(rs) /\ ready
  <2>1. r = [scan EXCEPT !.q = enqueued]
    BY <1>5 DEF Refresh
  <2> HIDE DEF enqueued
  <2>2. r.q = enqueued /\ r.stop = scan.stop /\ r.std_unknowns = unknowns
    BY <2>1 DEF ScanStates
  <2>3. \A x \in DOMAIN unknowns : unknowns[x] # rs.addr
    BY <1>5 DEF Contains
  <2> QED
    BY <1>5, <2>2, <2>3 DEF EntryScanned, enqueued
<1>6. CASE ~scan.stop /\ ~IsStore(rs) /\ ~ready
  <2>1. r = scan
    BY <1>6 DEF Refresh
  <2> QED
    BY <1>6, <2>1 DEF EntryScanned
<1> QED
  BY <1>1, <1>2, <1>3, <1>4, <1>5, <1>6

\* Enqueueing sets a flag.
LEMMA EnqueueOperands ==
  ASSUME NEW q \in ListStates, NEW id \in Ids, NEW e, e = readyq_enqueue(q, id)
  PROVE  /\ SameOperands(q.station, e.station)
         /\ \A p \in Ids : e.station[p].queued => q.station[p].queued \/ p = id
<1> DEFINE st == q.station
<1>1. e.station = [st EXCEPT ![id].queued = TRUE] /\ st \in [Ids -> StationSet]
  BY EnqueueEffect DEF ListStates
<1>2. ASSUME NEW p \in Ids
      PROVE  /\ e.station[p].op = st[p].op /\ e.station[p].addr = st[p].addr
             /\ e.station[p].idep_ready = st[p].idep_ready
             /\ e.station[p].queued => st[p].queued \/ p = id
  <2>1. e.station[p] = IF p = id THEN [st[id] EXCEPT !.queued = TRUE] ELSE st[p]
    BY <1>1
  <2>2. st[id] \in StationSet
    BY <1>1
  <2> QED
    BY <2>1, <2>2 DEF StationSet
<1> QED
  BY <1>2 DEF SameOperands

\* The scan of one more entry.
LEMMA ScanStep ==
  ASSUME NEW s, NEW scan \in ScanStates, NEW lsq, NEW n \in Nat \ {0}, Scanned(s, scan, lsq, n - 1),
         \A k \in 1..n : lsq[k] \in Ids, NEW id, id = lsq[n],
         NEW scan2, EntryScanned(scan, scan2, id, scan.q.station[id])
  PROVE  Scanned(s, scan2, lsq, n)
<1> DEFINE q == scan.q
           rs == q.station[id]
           u == scan.std_unknowns
           u2 == scan2.std_unknowns
           Knows(i) == IsStore(s[lsq[i]]) => STORE_ADDR_READY(s[lsq[i]])
           Kept(i) == \E x \in DOMAIN u : u[x] = s[lsq[i]].addr
<1>1. /\ id \in Ids /\ q \in ListStates /\ u \in Seq(Nat)
      /\ SameOperands(s, q.station)
      /\ ~scan.stop => \A i \in 1..n - 1 : Knows(i) /\ (Blocks(s, lsq, i, n - 1) => Kept(i))
      /\ \A p \in Ids : q.station[p].queued =>
            s[p].queued \/ \E j \in 1..n - 1 : p = lsq[j] /\ Served(s, lsq, j)
  BY DEF Scanned, ScanStates
<1>2. /\ rs.op = s[id].op /\ rs.addr = s[id].addr /\ rs.idep_ready = s[id].idep_ready
  BY <1>1 DEF SameOperands
<1>3. \A i \in 1..n : i \in 1..n - 1 \/ i = n
  OBVIOUS
<1>4. ASSUME NEW i \in 1..n - 1, Blocks(s, lsq, i, n)
      PROVE  Blocks(s, lsq, i, n - 1) /\ (IsStore(s[id]) => s[id].addr # s[lsq[i]].addr)
  BY <1>4 DEF Blocks
<1>5. \A i \in 1..n - 1 : i \in 1..n
  OBVIOUS
<1>6. \A p \in Ids : q.station[p].queued =>
         s[p].queued \/ \E j \in 1..n : p = lsq[j] /\ Served(s, lsq, j)
  BY <1>1, <1>5
<1> HIDE DEF Knows, Kept, q, u, u2, rs
<1>7. CASE scan.stop /\ scan2 = scan
  BY <1>1, <1>6, <1>7 DEF Scanned, q
<1>8. CASE IsStore(rs) /\ ~STORE_ADDR_READY(rs) /\ scan2.stop /\ scan2.q = scan.q
  BY <1>1, <1>6, <1>8 DEF Scanned, q
<1>9. CASE /\ ~scan.stop /\ IsStore(rs) /\ STORE_ADDR_READY(rs) /\ OPERANDS_READY(rs)
           /\ scan2.q = scan.q
           /\ \A x \in DOMAIN u : u[x] # rs.addr => x \in DOMAIN u2 /\ u2[x] = u[x]
  <2>1. IsStore(s[id]) /\ STORE_ADDR_READY(s[id]) /\ OPERANDS_READY(s[id])
    BY <1>2, <1>9 DEF IsStore, STORE_ADDR_READY, OPERANDS_READY
  <2>2. \A i \in 1..n : Knows(i)
    BY <1>1, <1>3, <1>9, <2>1 DEF Knows
  <2>3. ASSUME NEW i \in 1..n, Blocks(s, lsq, i, n) PROVE \E x \in DOMAIN u2 : u2[x] = s[lsq[i]].addr
    <3>1. i \in 1..n - 1
      BY <1>3, <2>1, <2>3 DEF Blocks
    <3>2. Kept(i) /\ s[id].addr # s[lsq[i]].addr
      BY <1>1, <1>4, <1>9, <2>1, <2>3, <3>1
    <3>3. PICK x \in DOMAIN u : u[x] = s[lsq[i]].addr
      BY <3>2 DEF Kept
    <3> QED
      BY <1>2, <1>9, <3>2, <3>3
  <2> QED
    BY <1>1, <1>6, <1>9, <2>2, <2>3 DEF Scanned, Knows, q, u2
<1>10. CASE /\ ~scan.stop /\ IsStore(rs) /\ STORE_ADDR_READY(rs) /\ ~OPERANDS_READY(rs)
            /\ scan2.q = scan.q /\ u2 = Append(u, rs.addr)
  <2>1. IsStore(s[id]) /\ STORE_ADDR_READY(s[id])
    BY <1>2, <1>10 DEF IsStore, STORE_ADDR_READY
  <2>2. \A i \in 1..n : Knows(i)
    BY <1>1, <1>3, <1>10, <2>1 DEF Knows
  <2>3. /\ \A x \in DOMAIN u : x \in DOMAIN u2 /\ u2[x] = u[x]
        /\ \E x \in DOMAIN u2 : u2[x] = s[id].addr
    <3>1. Len(u) + 1 \in DOMAIN u2 /\ u2[Len(u) + 1] = rs.addr
      BY <1>1, <1>10
    <3> QED
      BY <1>1, <1>2, <1>10, <3>1
  <2>4. ASSUME NEW i \in 1..n, Blocks(s, lsq, i, n) PROVE \E x \in DOMAIN u2 : u2[x] = s[lsq[i]].addr
    <3>1. CASE i = n
      BY <2>3, <3>1
    <3>2. CASE i \in 1..n - 1
      <4>1. Kept(i)
        BY <1>1, <1>4, <1>10, <2>4, <3>2
      <4> QED
        BY <2>3, <4>1 DEF Kept
    <3> QED
      BY <1>3, <3>1, <3>2
  <2> QED
    BY <1>1, <1>6, <1>10, <2>2, <2>4 DEF Scanned, Knows, q, u2
<1>11. ASSUME ~scan.stop, ~IsStore(rs)
       PROVE  /\ \A i \in 1..n : Knows(i)
              /\ \A i \in 1..n : Blocks(s, lsq, i, n) => Kept(i)
  <2>1. ~IsStore(s[id])
    BY <1>2, <1>11 DEF IsStore
  <2>2. \A i \in 1..n : Knows(i)
    BY <1>1, <1>3, <1>11, <2>1 DEF Knows
  <2>3. ASSUME NEW i \in 1..n, Blocks(s, lsq, i, n) PROVE Kept(i)
    <3>1. i \in 1..n - 1
      BY <1>3, <2>1, <2>3 DEF Blocks
    <3> QED
      BY <1>1, <1>4, <1>11, <2>3, <3>1
  <2> QED
    BY <2>2, <2>3
<1>12. CASE ~scan.stop /\ ~IsStore(rs) /\ scan2 = scan
  BY <1>1, <1>6, <1>11, <1>12 DEF Scanned, Knows, Kept, q, u
<1>13. CASE /\ ~scan.stop /\ IsLoad(rs) /\ \A x \in DOMAIN u : u[x] # rs.addr
            /\ ~scan2.stop /\ u2 = u /\ scan2.q = readyq_enqueue(q, id)
  <2>1. ~IsStore(rs) /\ IsLoad(s[id])
    BY <1>2, <1>13 DEF IsStore, IsLoad
  <2>2. /\ \A i \in 1..n : Knows(i)
        /\ \A i \in 1..n : Blocks(s, lsq, i, n) => Kept(i)
    BY <1>11, <1>13, <2>1
  <2>3. Served(s, lsq, n)
    <3>1. ASSUME NEW i \in 1..n - 1 PROVE Serves(s, lsq, i, n)
      <4>1. Knows(i) /\ (Blocks(s, lsq, i, n - 1) => Kept(i))
        BY <1>1, <1>13
      <4>2. ~Kept(i) \/ s[lsq[i]].addr # s[id].addr
        BY <1>2, <1>13 DEF Kept
      <4> QED
        BY <4>1, <4>2 DEF Serves, Blocks, Knows
    <3> QED
      BY <2>1, <3>1 DEF Served
  <2>4. /\ SameOperands(q.station, scan2.q.station)
        /\ \A p \in Ids : scan2.q.station[p].queued => q.station[p].queued \/ p = id
    BY <1>1, <1>13, EnqueueOperands
  <2>5. SameOperands(s, scan2.q.station)
    BY <1>1, <2>4 DEF SameOperands
  <2>6. \A p \in Ids : scan2.q.station[p].queued =>
           s[p].queued \/ \E j \in 1..n : p = lsq[j] /\ Served(s, lsq, j)
    BY <1>6, <2>3, <2>4
  <2> QED
    BY <1>13, <2>2, <2>5, <2>6 DEF Scanned, Knows, Kept, u, u2
<1> QED
  BY <1>7, <1>8, <1>9, <1>10, <1>12, <1>13 DEF EntryScanned, q, u, u2, rs

\* Whether a load is served depends on operations, addresses and operands.
LEMMA ServedAsBefore ==
  ASSUME NEW s, NEW s2, SameOperands(s, s2), NEW lsq, NEW m, \A k \in 1..m : lsq[k] \in Ids,
         m \in Nat, NEW j \in 1..m, Served(s, lsq, j)
  PROVE  Served(s2, lsq, j)
<1>1. ASSUME NEW k \in 1..m
      PROVE  /\ s2[lsq[k]].op = s[lsq[k]].op /\ s2[lsq[k]].addr = s[lsq[k]].addr
             /\ s2[lsq[k]].idep_ready = s[lsq[k]].idep_ready
  BY DEF SameOperands
<1>2. ASSUME NEW i \in 1..j - 1 PROVE Serves(s2, lsq, i, j)
  <2>1. i \in 1..m /\ \A k \in i + 1..j - 1 : k \in 1..m
    OBVIOUS
  <2>2. Serves(s, lsq, i, j)
    BY DEF Served
  <2> QED
    BY <1>1, <2>1, <2>2 DEF Serves, IsStore, STORE_ADDR_READY, OPERANDS_READY
<1> QED
  BY <1>1, <1>2 DEF Served, IsLoad

\* The scan enqueues only loads that no older store is an obstacle to.
LEMMA RefreshServes ==
  ASSUME IInv, MemoryOrder(station, LSQIds, LSQ_num), lsq_refresh
  PROVE  MemoryOrder(station, LSQIds, LSQ_num)'
<1> DEFINE scan == [q |-> Lists(station), stop |-> FALSE, std_unknowns |-> <<>>]
           lsq == LSQIds
           N == LSQ_num
           s == station
           s2 == station'
           last == Refreshed(scan, lsq)
<1>1. stage = "refresh" /\ s2 = last.q.station /\ LSQIds' = lsq /\ LSQ_num' = N
  BY DEF lsq_refresh, lsqVars, LSQIds
<1>2. /\ N \in Nat /\ Len(lsq) = N /\ scan \in ScanStates /\ scan.q.station = s
      /\ ~scan.stop
  <2>1. ~scan.stop
    OBVIOUS
  <2> HIDE DEF scan
  <2> QED
    BY <1>1, <2>1, ScanStarts DEF scan
<1>3. Places(lsq, N, LSQ)
  BY RingsPlaced DEF IInv
<1>4. /\ \A n \in 1..N : lsq[n] \in Ids
      /\ \A i, j \in 1..N : lsq[i] = lsq[j] => i = j
  BY <1>3 DEF Places, Ids
<1>5. \A p \in Ids : s2[p].issued = s[p].issued
  BY RefreshDiffers DEF SameFields
<1>6. MemoryOrder(s, lsq, N)
  OBVIOUS
<1> HIDE DEF scan, lsq, N, s, s2
<1>7. PICK f \in [0..N -> ScanStates] : Scans(f, scan, lsq, N)
  BY <1>2, <1>4, RefreshedStates
<1>8. Scanned(s, f[0], lsq, 0)
  BY <1>2, <1>7 DEF Scans, Scanned, SameOperands
<1> DEFINE P == {n \in 0..N : Scanned(s, f[n], lsq, n)}
<1>9. ASSUME NEW n \in 1..N, n - 1 \in P PROVE n \in P
  <2> DEFINE a == f[n - 1]
             b == f[n]
             id == lsq[n]
  <2>1. /\ a \in ScanStates /\ b = Refresh(a, id) /\ Scanned(s, a, lsq, n - 1)
        /\ n \in Nat \ {0} /\ id \in Ids /\ \A k \in 1..n : lsq[k] \in Ids
    BY <1>2, <1>4, <1>7, <1>9 DEF Scans
  <2> HIDE DEF a, b, P, id
  <2>2. EntryScanned(a, b, id, a.q.station[id])
    BY <2>1, EntryCases
  <2>3. id = lsq[n]
    BY DEF id
  <2>4. Scanned(s, b, lsq, n)
    BY <2>1, <2>2, <2>3, ScanStep
  <2> QED
    BY <2>4 DEF P, b
<1>10. P = 0..N
  <2>1. 0 \in P /\ P \in SUBSET (0..N) /\ \A n \in 1..N : n - 1 \in P => n \in P
    BY <1>2, <1>8, <1>9
  <2> HIDE DEF P
  <2> QED
    BY <1>2, <2>1, Iteration
<1>11. Scanned(s, last, lsq, N)
  BY <1>2, <1>7, <1>10 DEF Scans
<1> HIDE DEF last
<1>12. SameOperands(s, s2)
  BY <1>1, <1>11 DEF Scanned
<1>13. ASSUME NEW j \in 1..N, IsLoad(s2[lsq[j]]), s2[lsq[j]].queued \/ s2[lsq[j]].issued
       PROVE  Served(s2, lsq, j)
  <2>1. Served(s, lsq, j)
    <3>1. lsq[j] \in Ids /\ IsLoad(s[lsq[j]])
      BY <1>4, <1>12, <1>13 DEF SameOperands, IsLoad
    <3>2. CASE s[lsq[j]].queued \/ s[lsq[j]].issued
      BY <1>6, <3>1, <3>2 DEF MemoryOrder
    <3>3. CASE s2[lsq[j]].queued /\ ~s[lsq[j]].queued
      <4>1. PICK i \in 1..N : lsq[j] = lsq[i] /\ Served(s, lsq, i)
        BY <1>1, <1>11, <3>1, <3>3 DEF Scanned
      <4> QED
        BY <1>4, <4>1
    <3> QED
      BY <1>5, <1>13, <3>1, <3>2, <3>3
  <2> QED
    BY <1>2, <1>4, <1>12, <2>1, ServedAsBefore
<1>14. MemoryOrder(s2, lsq, N)
  BY <1>13 DEF MemoryOrder
<1> QED
  BY <1>1, <1>14 DEF s2

\* The accesses lsq2 are those of lsq from the one after d on.
SegmentOf(lsq, m, lsq2, m2, d) == m2 + d <= m /\ \A k \in 1 .. m2 : lsq2[k] = lsq[k + d]

\* Loads remain served when stations leave at either end of the queue.
LEMMA SegmentServed ==
  ASSUME NEW s, NEW s2, NEW lsq, NEW lsq2, NEW m \in Nat, NEW m2 \in Nat, NEW d \in Nat,
         SegmentOf(lsq, m, lsq2, m2, d), NEW F2, MemoryStays(s, s2, F2),
         \A k \in 1..m2 : lsq2[k] \in F2 /\ s[lsq2[k]].in_LSQ, MemoryOrder(s, lsq, m)
  PROVE  MemoryOrder(s2, lsq2, m2)
<1>1. ASSUME NEW k \in 1..m2
      PROVE  LET a == s[lsq[k + d]]
                 b == s2[lsq2[k]]
             IN /\ b.op = a.op /\ b.addr = a.addr
                /\ IsLoad(a) /\ (b.queued \/ b.issued) => a.queued \/ a.issued
                /\ \A x \in 1..3 : a.idep_ready[x] => b.idep_ready[x]
                /\ k + d \in 1..m
  <2>1. lsq2[k] = lsq[k + d] /\ k + d \in 1..m
    BY DEF SegmentOf
  <2> QED
    BY <2>1 DEF MemoryStays
<1>2. ASSUME NEW j \in 1..m2, IsLoad(s2[lsq2[j]]), s2[lsq2[j]].queued \/ s2[lsq2[j]].issued
      PROVE  Served(s2, lsq2, j)
  <2>1. IsLoad(s[lsq[j + d]]) /\ (s[lsq[j + d]].queued \/ s[lsq[j + d]].issued)
    BY <1>1, <1>2 DEF IsLoad
  <2>2. Served(s, lsq, j + d)
    BY <1>1, <2>1 DEF MemoryOrder
  <2>3. ASSUME NEW i \in 1..j - 1 PROVE Serves(s2, lsq2, i, j)
    <3>1. i \in 1..m2 /\ i + d \in 1..(j + d) - 1
      OBVIOUS
    <3>2. Serves(s, lsq, i + d, j + d)
      BY <2>2, <3>1 DEF Served
    <3>3. SUFFICES ASSUME IsStore(s2[lsq2[i]])
                   PROVE  /\ STORE_ADDR_READY(s2[lsq2[i]])
                          /\ s2[lsq2[i]].addr = s2[lsq2[j]].addr
                               /\ (\A k \in i + 1..j - 1 :
                                      IsStore(s2[lsq2[k]]) => s2[lsq2[k]].addr # s2[lsq2[j]].addr)
                             => OPERANDS_READY(s2[lsq2[i]])
      BY DEF Serves
    <3>4. IsStore(s[lsq[i + d]])
      BY <1>1, <3>1, <3>3 DEF IsStore
    <3>5. STORE_ADDR_READY(s2[lsq2[i]])
      BY <1>1, <3>1, <3>2, <3>4 DEF Serves, STORE_ADDR_READY
    <3>6. ASSUME s2[lsq2[i]].addr = s2[lsq2[j]].addr,
                 \A k \in i + 1..j - 1 :
                    IsStore(s2[lsq2[k]]) => s2[lsq2[k]].addr # s2[lsq2[j]].addr
          PROVE  OPERANDS_READY(s2[lsq2[i]])
      <4>1. s[lsq[i + d]].addr = s[lsq[j + d]].addr
        BY <1>1, <3>1, <3>6
      <4>2. ASSUME NEW n \in i + d + 1..(j + d) - 1, IsStore(s[lsq[n]])
            PROVE  s[lsq[n]].addr # s[lsq[j + d]].addr
        <5> DEFINE k == n - d
        <5>1. k \in i + 1..j - 1 /\ k \in 1..m2 /\ k + d = n
          OBVIOUS
        <5> HIDE DEF k
        <5>2. s2[lsq2[k]].op = s[lsq[n]].op /\ s2[lsq2[k]].addr = s[lsq[n]].addr
              /\ s2[lsq2[j]].addr = s[lsq[j + d]].addr
          BY <1>1, <5>1
        <5> QED
          BY <3>6, <4>2, <5>1, <5>2 DEF IsStore
      <4>3. OPERANDS_READY(s[lsq[i + d]])
        BY <3>2, <3>4, <4>1, <4>2 DEF Serves
      <4> QED
        BY <1>1, <3>1, <4>3 DEF OPERANDS_READY
    <3> QED
      BY <3>5, <3>6
  <2> QED
    BY <1>2, <2>3 DEF Served
<1> QED
  BY <1>2 DEF MemoryOrder

\* What has been scheduled is served.
AccessesInv == MemoryOrder(station, LSQIds, LSQ_num)

\* The accesses in flight.
LEMMA AccessesNow ==
  ASSUME IInv
  PROVE  /\ LSQ_num \in Nat /\ Places(LSQIds, LSQ_num, LSQ)
         /\ \A k \in 1..LSQ_num : LSQIds[k] \in FlightNow /\ station[LSQIds[k]].in_LSQ
<1>1. LSQ_num \in Nat /\ Places(LSQIds, LSQ_num, LSQ)
  BY RingsPlaced DEF IInv
<1>2. Kinds(station, LSQIds, LSQ_num)
  BY DEF IInv, Structure, StructureOf
<1> QED
  BY <1>1, <1>2 DEF Kinds, FlightNow, Flight

\* Loads remain served when none is scheduled.
LEMMA SegmentKept ==
  ASSUME IInv, AccessesInv, MemoryStays(station, station', FlightNow'),
         NEW d \in Nat, SegmentOf(LSQIds, LSQ_num, LSQIds', LSQ_num', d), LSQ_num' \in Nat
  PROVE  AccessesInv'
<1> DEFINE s == station
           s2 == station'
           lsq == LSQIds
           lsq2 == LSQIds'
           m == LSQ_num
           m2 == LSQ_num'
           F2 == FlightNow'
<1>1. /\ m \in Nat /\ m2 \in Nat /\ SegmentOf(lsq, m, lsq2, m2, d)
      /\ MemoryStays(s, s2, F2) /\ MemoryOrder(s, lsq, m)
  BY AccessesNow DEF AccessesInv
<1>2. ASSUME NEW k \in 1..m2 PROVE lsq2[k] \in F2 /\ s[lsq2[k]].in_LSQ
  <2>1. lsq2[k] \in F2
    BY DEF FlightNow, Flight
  <2>2. \A n \in 1..m : s[lsq[n]].in_LSQ
    BY AccessesNow
  <2> HIDE DEF s, lsq, lsq2, m, m2, F2
  <2>3. lsq2[k] = lsq[k + d] /\ k + d \in 1..m
    BY <1>1 DEF SegmentOf
  <2> QED
    BY <2>1, <2>2, <2>3
<1> HIDE DEF s, s2, lsq, lsq2, m, m2, F2
<1>3. MemoryOrder(s2, lsq2, m2)
  BY <1>1, <1>2, SegmentServed
<1> QED
  BY <1>3 DEF AccessesInv, s2, lsq2, m2

\* Loads remain served when the queue stays.
LEMMA QueueKept ==
  ASSUME IInv, AccessesInv, MemoryStays(station, station', FlightNow),
         UNCHANGED <<ruuVars, lsqVars>>
  PROVE  AccessesInv'
<1>1. /\ LSQIds' = LSQIds /\ LSQ_num' = LSQ_num /\ RUUIds' = RUUIds /\ RUU_num' = RUU_num
  BY DEF ruuVars, lsqVars, RUUIds, LSQIds
<1>2. FlightNow' = FlightNow /\ LSQ_num \in Nat
  BY <1>1, AccessesNow DEF FlightNow
<1>3. SegmentOf(LSQIds, LSQ_num, LSQIds', LSQ_num', 0)
  BY <1>1, <1>2 DEF SegmentOf
<1> QED
  BY <1>1, <1>2, <1>3, SegmentKept

\* Loads remain served when accesses retire.
LEMMA CommitServes ==
  ASSUME IInv, RegistersInv, AccessesInv, ruu_commit
  PROVE  AccessesInv'
<1> DEFINE mem == station[Oldest].ea_comp
           lsq == LSQIds
           lsq2 == LSQIds'
           m == LSQ_num
           m2 == LSQ_num'
           d == IF mem THEN 1 ELSE 0
<1>1. LeftByCommit(mem)
  <2> HIDE DEF mem
  <2> QED
    BY CommitLeaves DEF mem
<1>2. m \in Nat /\ AccessesLeft(mem, lsq, m, lsq2, m2) /\ (mem => m > 0) /\ d \in Nat
  BY <1>1, AccessesNow DEF LeftByCommit
<1>3. m2 \in Nat /\ SegmentOf(lsq, m, lsq2, m2, d)
  <2> HIDE DEF mem, lsq, lsq2, m, m2
  <2>1. CASE mem
    BY <1>2, <2>1 DEF AccessesLeft, RestOf, SegmentOf
  <2>2. CASE ~mem
    BY <1>2, <2>2 DEF AccessesLeft, SegmentOf
  <2> QED
    BY <2>1, <2>2
<1> HIDE DEF d
<1> QED
  BY <1>2, <1>3, CommitFlows, SegmentKept

\* Loads remain served when an operation completes, and when accesses are squashed.
LEMMA WritebackServes ==
  ASSUME IInv, RegistersInv, AccessesInv, ruu_writeback
  PROVE  AccessesInv'
<1> DEFINE id == event_queue[NextEvent].rs
           rec == station[id].recover_inst
           gone == ToSet(Squashed(id).RUU) \cup ToSet(Squashed(id).LSQ)
<1>1. /\ stage = "writeback" /\ Occurred # {} /\ UNCHANGED <<RUU_head, LSQ_head>>
      /\ IF rec THEN Recovered(id) ELSE UNCHANGED <<RUU_num, RUU_tail, LSQ_num, LSQ_tail>>
  BY Zenon DEF ruu_writeback
<1>2. RegistersInv' /\ MemoryStays(station, station', FlightNow')
  BY WritebackFlows
<1>3. CASE ~rec
  <2>1. UNCHANGED <<ruuVars, lsqVars>>
    BY <1>1, <1>3 DEF ruuVars, lsqVars
  <2>2. FlightNow' = FlightNow
    BY <2>1 DEF FlightNow, RUUIds, LSQIds, ruuVars, lsqVars
  <2> QED
    BY <1>2, <2>1, <2>2, QueueKept
<1>4. CASE rec
  <2>1. id \in Flight(RUUIds, RUU_num, LSQIds, LSQ_num)
    <3>1. NextEvent \in DOMAIN event_queue /\ RSLINK_VALID(station, event_queue[NextEvent])
      BY <1>1, NextEventFirst
    <3>2. EventLinks(station, FlightNow, event_queue)
      BY DEF IInv, LinksInv, LinksOf, FlightNow
    <3> QED
      BY <3>1, <3>2 DEF EventLinks, Sound, FlightNow
  <2>2. PICK b \in 1..RUU_num, t \in 0..LSQ_num : RecoveredTo(id, b, t, gone)
    <3> HIDE DEF id
    <3>1. \E b \in 1..RUU_num, t \in 0..LSQ_num : RecoveredTo(id, b, t, gone)
      <4> HIDE DEF gone
      <4> QED
        BY <1>1, <1>4, <2>1, RecoveryShrinks DEF gone
    <3> QED
      BY <3>1
  <2>3. LSQ_num \in Nat /\ LSQ_num' = t /\ SameFirst(LSQIds, LSQIds', t)
    BY <2>2, AccessesNow DEF RecoveredTo
  <2>4. LSQ_num' \in Nat /\ SegmentOf(LSQIds, LSQ_num, LSQIds', LSQ_num', 0)
    BY <2>3 DEF SameFirst, SegmentOf
  <2> QED
    BY <1>2, <2>4, SegmentKept
<1> QED
  BY <1>3, <1>4

\* A load waits for lsq_refresh when it is dispatched.
LEMMA DispatchServes ==
  ASSUME IInv, RegistersInv, AccessesInv, ruu_dispatch
  PROVE  AccessesInv'
<1>1. CanDispatch /\ UNCHANGED <<programVars, stage, RUU_head, LSQ_head, event_queue, issueVars,
                                 fetch_data, uncached, branch_cnt, busy>>
  BY DEF ruu_dispatch
<1>2. PICK npc \in NextPCs(Fetched.regs_PC) :
         \/ DispatchNop(Inst(Fetched.regs_PC), npc)
         \/ DispatchOp(Inst(Fetched.regs_PC), npc)
  BY DEF ruu_dispatch
<1>3. CASE DispatchNop(Inst(Fetched.regs_PC), npc)
  <2>1. UNCHANGED <<station, ruuVars, lsqVars, cvVars>> /\ text' = text
    BY <1>1, <1>3 DEF DispatchNop, ruuVars, lsqVars, programVars
  <2> QED
    BY <2>1, NothingFlows, QueueKept
<1>4. CASE DispatchOp(Inst(Fetched.regs_PC), npc)
  <2> DEFINE i == Inst(Fetched.regs_PC)
             s == station
             s2 == station'
             F == FlightNow
             lsq == LSQIds
             lsq2 == LSQIds'
             m == LSQ_num
             m2 == LSQ_num'
             e == LSQNew
             mem == i.op \in F_MEM
  <2>1. IsFetched(i) /\ DispatchOp(i, npc)
    BY <1>4 DEF IsFetched
  <2>2. /\ MemoryStays(s, s2, F)
        /\ mem => s2[e].op = i.op
        /\ i.op = "load" => Unscheduled(s2, e)
    <3> HIDE DEF i
    <3> QED
      BY <1>1, <2>1, OpFlows DEF mem
  <2>3. RingGrows(lsq, lsq2, m, m2, e, mem)
    <3> HIDE DEF i
    <3> QED
      BY <1>1, <2>1, InstructionArrives DEF mem
  <2>4. /\ m \in Nat /\ MemoryOrder(s, lsq, m)
        /\ \A k \in 1..m : lsq[k] \in F /\ s[lsq[k]].in_LSQ
    BY AccessesNow DEF AccessesInv
  <2>5. mem /\ IsLoad(s2[e]) => i.op = "load"
    BY <2>2 DEF IsLoad
  <2> HIDE DEF i, s, s2, F, lsq, lsq2, m, m2, e, mem
  <2>6. MemoryOrder(s2, lsq2, m)
    <3>1. SegmentOf(lsq, m, lsq2, m, 0) /\ \A k \in 1..m : lsq2[k] \in F /\ s[lsq2[k]].in_LSQ
      BY <2>3, <2>4 DEF RingGrows, Longer, SegmentOf
    <3> QED
      BY <2>2, <2>4, <3>1, SegmentServed
  <2>7. CASE ~mem
    <3>1. m2 = m
      BY <2>3, <2>7 DEF RingGrows
    <3>2. MemoryOrder(s2, lsq2, m2)
      BY <2>6, <3>1
    <3> QED
      BY <3>2 DEF AccessesInv, s2, lsq2, m2
  <2>8. CASE mem
    <3>1. m2 = m + 1 /\ lsq2[m + 1] = e
      BY <2>3, <2>4, <2>8 DEF RingGrows, Longer
    <3>2. ~(IsLoad(s2[lsq2[m + 1]]) /\ (s2[lsq2[m + 1]].queued \/ s2[lsq2[m + 1]].issued))
      BY <2>2, <2>5, <2>8, <3>1 DEF Unscheduled
    <3>3. \A j \in 1..m2 : j \in 1..m \/ j = m + 1
      BY <2>4, <3>1
    <3>4. MemoryOrder(s2, lsq2, m2)
      BY <2>6, <3>2, <3>3 DEF MemoryOrder
    <3> QED
      BY <3>4 DEF AccessesInv, s2, lsq2, m2
  <2> QED
    BY <2>7, <2>8
<1> QED
  BY <1>2, <1>3, <1>4

\* Every step keeps scheduled loads served.
LEMMA StepServes ==
  ASSUME IInv, RegistersInv, AccessesInv, Next
  PROVE  AccessesInv'
<1>1. CASE ruu_commit
  BY <1>1, CommitServes
<1>2. CASE ruu_writeback
  BY <1>2, WritebackServes
<1>3. CASE lsq_refresh
  BY <1>3, RefreshServes DEF AccessesInv
<1>4. CASE ruu_issue
  BY <1>4, IssueLeaves, IssueDiffers, QueueKept
<1>5. CASE ruu_issue_done
  <2>1. UNCHANGED <<ruuVars, lsqVars>>
    BY <1>5 DEF ruu_issue_done
  <2> QED
    BY <1>5, <2>1, IssueEndDiffers, QueueKept
<1>6. CASE ruu_dispatch
  BY <1>6, DispatchServes
<1>7. CASE Idles
  BY <1>7, NothingFlows, QueueKept DEF Idles
<1> QED
  BY <1>1, <1>2, <1>3, <1>4, <1>5, <1>6, <1>7, OtherSteps

\* Loads that are served come after the stores.
LEMMA ServedAfterStores ==
  ASSUME IInv, AccessesInv
  PROVE  LoadsAfterStores
<1> DEFINE lsq == LSQIds
           m == LSQ_num
<1>1. DOMAIN lsq = 1..m /\ m \in Nat
  BY RingsPlaced DEF IInv
<1>2. MemoryOrder(station, lsq, m)
  BY DEF AccessesInv
<1> HIDE DEF lsq, m
<1>3. ASSUME NEW i \in 1..m, NEW j \in 1..m
      PROVE  LET store == station[lsq[i]]
                 load == station[lsq[j]]
                 between == {station[lsq[k]] : k \in i + 1..j - 1}
             IN i < j /\ IsStore(store) /\ IsLoad(load) /\ (load.queued \/ load.issued) =>
                  /\ STORE_ADDR_READY(store)
                  /\ store.addr = load.addr /\ (\A s \in between : IsStore(s) => s.addr # load.addr)
                       => OPERANDS_READY(store)
  <2> DEFINE store == station[lsq[i]]
             load == station[lsq[j]]
             between == {station[lsq[k]] : k \in i + 1..j - 1}
  <2>1. SUFFICES ASSUME i < j, IsStore(store), IsLoad(load), load.queued \/ load.issued
                 PROVE  /\ STORE_ADDR_READY(store)
                        /\ store.addr = load.addr
                             /\ (\A s \in between : IsStore(s) => s.addr # load.addr)
                           => OPERANDS_READY(store)
    OBVIOUS
  <2>2. Served(station, lsq, j)
    BY <1>2, <2>1 DEF MemoryOrder
  <2>3. i \in 1..j - 1
    BY <1>1, <2>1
  <2>4. Serves(station, lsq, i, j)
    BY <2>2, <2>3 DEF Served
  <2>5. \A k \in i + 1..j - 1 : station[lsq[k]] \in between
    OBVIOUS
  <2> HIDE DEF between
  <2> QED
    BY <2>1, <2>4, <2>5 DEF Serves
<1> QED
  BY <1>1, <1>3 DEF LoadsAfterStores, lsq

-----------------------------------------------------------------------------
(* No link is lost or made.                                                *)

(* What the pool had at first.                                             *)
LinksKept == HeldNow + Len(event_queue) + Len(node) = MAX_RS_LINKS

\* The numbers that are added.
LEMMA LinkCounts ==
  ASSUME IInv
  PROVE  /\ rslink_free \in Int /\ Len(ready_queue) \in Nat /\ Len(event_queue) \in Nat
         /\ Len(node) \in Nat /\ HeldNow \in Int
         /\ \A ids \in SUBSET Ids : Chains(station, ids) \in Nat
<1>1. /\ rslink_free \in Int /\ Len(ready_queue) \in Nat /\ Len(event_queue) \in Nat
      /\ Len(node) \in Nat /\ station \in [Ids -> StationSet]
  BY DEF IInv, CoreTypes
<1>2. \A ids \in SUBSET Ids : Chains(station, ids) \in Nat
  BY <1>1, ChainsCounted
<1>3. Chains(station, Ids) \in Nat
  BY <1>2
<1> QED
  BY <1>1, <1>2, <1>3 DEF HeldNow

\* When the pool, the ready queue and the chains stay, as many are held.
LEMMA HeldStays ==
  ASSUME rslink_free' = rslink_free, ready_queue' = ready_queue,
         \A p \in Ids : station'[p].odep_list = station[p].odep_list
  PROVE  HeldNow' = HeldNow
<1>1. \A p \in Ids, j \in 1..2 : station'[p].odep_list[j] = station[p].odep_list[j]
  OBVIOUS
<1>2. Chains(station', Ids) = Chains(station, Ids)
  BY <1>1, SameChainsCounted
<1> QED
  BY <1>2 DEF HeldNow

\* Retiring changes no chain.
LEMMA CommitHolds ==
  ASSUME IInv, LinksKept, ruu_commit
  PROVE  LinksKept'
<1> DEFINE st == station
           st2 == station'
<1>1. /\ UNCHANGED <<rslink_free, event_queue, ready_queue, node>> /\ st \in [Ids -> StationSet]
      /\ \E ids : st2 = [id \in Ids |-> [st[id] EXCEPT !.tag = IF id \in ids THEN @ + 1 ELSE @]]
  <2> DEFINE access == st[Oldest].ea_comp
             ids == {id \in Ids : id = Oldest \/ (access /\ id = OldestAccess)}
  <2>1. st2 = [id \in Ids |-> [st[id] EXCEPT !.tag =
                  IF id = Oldest \/ (access /\ id = OldestAccess) THEN @ + 1 ELSE @]]
    BY DEF ruu_commit
  <2>2. st2 = [id \in Ids |-> [st[id] EXCEPT !.tag = IF id \in ids THEN @ + 1 ELSE @]]
    BY <2>1
  <2>3. UNCHANGED <<rslink_free, event_queue, ready_queue, node>> /\ st \in [Ids -> StationSet]
    BY DEF ruu_commit, issueVars, IInv, CoreTypes
  <2> HIDE DEF ids, st, st2
  <2> QED
    BY <2>2, <2>3 DEF st
<1>2. PICK ids : st2 = [id \in Ids |-> [st[id] EXCEPT !.tag = IF id \in ids THEN @ + 1 ELSE @]]
  BY <1>1
<1> HIDE DEF st, st2
<1>3. \A p \in Ids : st2[p].odep_list = st[p].odep_list
  BY <1>1, <1>2 DEF StationSet
<1>4. HeldNow' = HeldNow
  BY <1>1, <1>3, HeldStays DEF st, st2
<1> QED
  BY <1>1, <1>4 DEF LinksKept

\* An operation that completes passes its chains on, and frees them with those
\* of the stations it squashes and the events that occurred.
LEMMA WritebackHolds ==
  ASSUME IInv, LinksKept, ruu_writeback
  PROVE  LinksKept'
<1> DEFINE st == station
           st2 == station'
           rq == ready_queue
           eq == event_queue
           eq2 == event_queue'
           free == rslink_free
           e == NextEvent
           id == eq[e].rs
           rec == st[id].recover_inst
           gone == IF rec THEN ToSet(Squashed(id).RUU) \cup ToSet(Squashed(id).LSQ) ELSE {}
           links == st[id].odep_list[1] \o st[id].odep_list[2]
           none == << <<>>, <<>> >>
           over == [st EXCEPT ![id].completed = TRUE]
           left == Squash(over, gone)
           q == [station |-> left, ready_queue |-> rq, free |-> free]
           F == FlightNow
<1>1. PICK w : /\ w = Woken(q, links)
               /\ rec => Recovered(id)
               /\ st2 = [w.station EXCEPT ![id].odep_list = << <<>>, <<>> >>]
               /\ ready_queue' = w.ready_queue
               /\ rslink_free' = w.free + e + Len(links) + Chains(st, gone)
  BY Zenon DEF ruu_writeback, Lists
<1>2. /\ stage = "writeback" /\ Occurred # {} /\ eq2 = SubSeq(eq, e + 1, Len(eq))
      /\ UNCHANGED <<node, RUU_head, LSQ_head>>
  BY DEF ruu_writeback, issueVars
<1>3. st \in [Ids -> StationSet] /\ rq \in Seq(LinkSet) /\ free \in Int /\ eq \in Seq(LinkSet)
  BY DEF IInv, CoreTypes
<1>4. /\ e \in DOMAIN eq /\ id \in F /\ id \in Ids /\ F \in SUBSET Ids
  <2>1. e \in DOMAIN eq /\ RSLINK_VALID(st, eq[e])
    BY <1>2, NextEventFirst
  <2>2. EventLinks(st, F, eq) /\ F \in SUBSET Ids
    BY NumbersNow DEF IInv, LinksInv, LinksOf, FlightNow
  <2> HIDE DEF st, F, eq, e
  <2> QED
    BY <2>1, <2>2 DEF EventLinks, Sound
<1>5. gone \in SUBSET Ids /\ id \notin gone
  <2>1. CASE ~rec
    BY <2>1
  <2>2. CASE rec
    <3>1. Recovered(id) /\ gone = ToSet(Squashed(id).RUU) \cup ToSet(Squashed(id).LSQ)
          /\ id \in Flight(RUUIds, RUU_num, LSQIds, LSQ_num)
      BY <1>1, <1>4, <2>2 DEF FlightNow
    <3>2. PICK b \in 1..RUU_num, t \in 0..LSQ_num : RecoveredTo(id, b, t, gone)
      BY <1>2, <2>2, <3>1, RecoveryShrinks
    <3> QED
      BY <3>2 DEF RecoveredTo
  <2> QED
    BY <2>1, <2>2
<1>6. /\ links \in Seq(OperandSet) /\ st[id].odep_list[1] \in Seq(OperandSet)
      /\ st[id].odep_list[2] \in Seq(OperandSet)
      /\ Len(links) = Len(st[id].odep_list[1]) + Len(st[id].odep_list[2])
  <2>1. st[id].odep_list \in [1..2 -> Seq(OperandSet)] /\ 1 \in 1..2 /\ 2 \in 1..2
    BY <1>3, <1>4, StationFields
  <2> HIDE DEF st, id
  <2> QED
    BY <2>1, ConcatProperties
<1> HIDE DEF id, gone, F, eq, eq2, e, st, st2
<1>7. /\ left \in [Ids -> StationSet]
      /\ \A p \in Ids : left[p].odep_list = IF p \in gone THEN none ELSE st[p].odep_list
  <2>1. over \in [Ids -> StationSet] /\ \A p \in Ids : over[p].odep_list = st[p].odep_list
    <3>1. over \in [Ids -> StationSet] /\ SameShape(st, st)
      BY <1>3, <1>4, FlagUpdates DEF SameShape
    <3>2. ASSUME NEW p \in Ids PROVE over[p].odep_list = st[p].odep_list
      <4> DEFINE r == st[p]
                 r2 == over[p]
      <4>1. r \in StationSet /\ r2 = IF p = id THEN [r EXCEPT !.completed = TRUE] ELSE r
        BY <1>3, <1>4
      <4> HIDE DEF r, r2
      <4>2. r2.odep_list = r.odep_list
        BY <4>1 DEF StationSet
      <4> QED
        BY <4>2 DEF r, r2
    <3> QED
      BY <3>1, <3>2
  <2> HIDE DEF over
  <2>2. left = [p \in Ids |-> IF p \in gone THEN [over[p] EXCEPT !.tag = @ + 1, !.odep_list = none]
                              ELSE over[p]]
    BY DEF Squash
  <2>3. SquashedTo(over, left, gone)
    BY <2>1, SquashEffect
  <2> HIDE DEF none, left
  <2>4. \A p \in Ids : p \in gone => left[p].odep_list = none
    BY <2>1, <2>2 DEF StationSet
  <2> QED
    BY <2>1, <2>2, <2>3, <2>4 DEF SquashedTo
<1> HIDE DEF left, over
<1>8. q \in ListStates
  BY <1>3, <1>7 DEF ListStates
<1> HIDE DEF links, q
<1>9. /\ w \in ListStates /\ Held(w) = Held(q)
      /\ \A p \in Ids : w.station[p].odep_list = q.station[p].odep_list
  <2>1. SameFields(q.station, w.station)
    BY <1>1, <1>6, <1>8, WokenExact
  <2> QED
    BY <1>1, <1>6, <1>8, <2>1, WokenHolds DEF SameFields
<1> DEFINE out == gone \cup {id}
<1>10. st2 \in [Ids -> StationSet] /\ \A p \in Ids, j \in 1..2 :
          st2[p].odep_list[j] = IF p \in out THEN <<>> ELSE st[p].odep_list[j]
  <2> DEFINE s == w.station
  <2>1. s \in [Ids -> StationSet] /\ \A p \in Ids : s[p].odep_list =
          IF p \in gone THEN none ELSE st[p].odep_list
    BY <1>7, <1>9 DEF ListStates, q
  <2>2. none \in [1..2 -> Seq(OperandSet)] /\ \A j \in 1..2 : none[j] = <<>>
    BY NoChains
  <2>3. st2 = [s EXCEPT ![id].odep_list = none]
    BY <1>1
  <2> HIDE DEF s, none
  <2>4. ASSUME NEW p \in Ids
        PROVE  st2[p] \in StationSet
               /\ st2[p].odep_list = IF p = id THEN none ELSE s[p].odep_list
    <3> DEFINE r == s[p]
    <3>1. r \in StationSet /\ st2[p] = IF p = id THEN [r EXCEPT !.odep_list = none] ELSE r
      BY <2>1, <2>3, <1>4
    <3> HIDE DEF r
    <3>2. /\ st2[p] \in StationSet
          /\ st2[p].odep_list = IF p = id THEN none ELSE r.odep_list
      BY <2>2, <3>1 DEF StationSet
    <3> QED
      BY <3>2 DEF r
  <2>5. st2 \in [Ids -> StationSet]
    <3>1. st2 = [p \in Ids |-> st2[p]]
      BY <2>1, <2>3
    <3> QED
      BY <2>4, <3>1
  <2>6. ASSUME NEW p \in Ids, NEW j \in 1..2
        PROVE  st2[p].odep_list[j] = IF p \in out THEN <<>> ELSE st[p].odep_list[j]
    BY <2>1, <2>2, <2>4
  <2> QED
    BY <2>5, <2>6
<1>11. /\ Chains(st2, Ids) + Chains(st, out) = Chains(st, Ids)
       /\ Chains(st, out) = Chains(st, gone) + Chains(st, {id})
       /\ Chains(st, {id}) = Len(links)
  <2>1. out \in SUBSET Ids /\ gone \cap {id} = {} /\ {id} \in SUBSET Ids
    BY <1>4, <1>5
  <2>2. Chains(st, {id}) = Len(links)
    BY <1>3, <1>4, <1>6, ChainsOfOne DEF links
  <2>3. Chains(st, gone \cup {id}) = Chains(st, gone) + Chains(st, {id})
    BY <1>3, <1>5, <2>1, ChainsSplit
  <2> HIDE DEF out
  <2>4. Chains(st2, Ids) + Chains(st, out) = Chains(st, Ids)
    BY <1>3, <1>10, <2>1, EmptiedCounted
  <2> QED
    BY <2>2, <2>3, <2>4 DEF out
<1>12. Chains(left, Ids) + Chains(st, gone) = Chains(st, Ids)
  <2>1. \A j \in 1..2 : none[j] = <<>>
    BY NoChains
  <2>2. \A p \in Ids, j \in 1..2 : left[p].odep_list[j] = IF p \in gone THEN <<>> ELSE st[p].odep_list[j]
    BY <1>7, <2>1
  <2> QED
    BY <1>3, <1>5, <1>7, <2>2, EmptiedCounted
<1>13. Chains(w.station, Ids) = Chains(left, Ids)
  BY <1>9, SameChainsCounted DEF q
<1>14. /\ Chains(st, Ids) \in Nat /\ Chains(st, gone) \in Nat /\ Chains(st2, Ids) \in Nat
       /\ Chains(left, Ids) \in Nat /\ Len(links) \in Nat /\ Len(rq) \in Nat
       /\ w.free \in Int /\ Len(w.ready_queue) \in Nat
  <2>1. Ids \in SUBSET Ids
    OBVIOUS
  <2>2. /\ Chains(st, Ids) \in Nat /\ Chains(st, gone) \in Nat /\ Chains(st2, Ids) \in Nat
        /\ Chains(left, Ids) \in Nat
    BY <1>3, <1>5, <1>7, <1>10, <2>1, ChainsCounted
  <2>3. w.free \in Int /\ w.ready_queue \in Seq(LinkSet)
    BY <1>9 DEF ListStates
  <2>4. Len(w.ready_queue) \in Nat
    BY <2>3
  <2>5. Len(rq) \in Nat
    BY <1>3 DEF rq
  <2>6. Len(links) \in Nat
    <3>1. links \in Seq(OperandSet)
      BY <1>6
    <3> HIDE DEF links
    <3> QED
      BY <3>1, LenProperties
  <2> QED
    BY <2>2, <2>3, <2>4, <2>5, <2>6
<1>15. Len(eq2) = Len(eq) - e /\ e \in 1..Len(eq) /\ Len(eq) \in Nat
  BY <1>2, <1>3, <1>4
<1>16. w.free + Len(w.ready_queue) + Chains(left, Ids) = free + Len(rq) + Chains(left, Ids)
  BY <1>9, <1>13 DEF Held, q
<1>17. LinksKept <=> free + Len(rq) + Chains(st, Ids) + Len(eq) + Len(node) = MAX_RS_LINKS
  BY DEF LinksKept, HeldNow, st, eq
<1>18. LinksKept' <=> rslink_free' + Len(ready_queue') + Chains(st2, Ids) + Len(eq2) + Len(node') = MAX_RS_LINKS
  BY DEF LinksKept, HeldNow, st2, eq2
<1>19. Len(node) \in Nat /\ node' = node
  BY <1>2, LinkCounts
<1> HIDE DEF out, rq, free, left, links
<1>20. rslink_free' + Len(ready_queue') + Chains(st2, Ids) + Len(eq2)
          = free + Len(rq) + Chains(st, Ids) + Len(eq)
  <2> DEFINE a == Chains(st, Ids)
             b == Chains(st, gone)
             c == Chains(st2, Ids)
             l == Chains(left, Ids)
             k == Len(links)
             f == w.free
             r == Len(w.ready_queue)
             n == Len(rq)
             m == Len(eq)
  <2>1. /\ a \in Nat /\ b \in Nat /\ c \in Nat /\ l \in Nat /\ k \in Nat /\ f \in Int
        /\ r \in Nat /\ n \in Nat /\ m \in Nat /\ e \in Int /\ free \in Int
    BY <1>3, <1>14, <1>15 DEF rq, free
  <2>2. c + (b + k) = a /\ f + r + l = free + n + l
    BY <1>11, <1>16
  <2>3. rslink_free' = f + e + k + b /\ Len(ready_queue') = r /\ Len(eq2) = m - e
    BY <1>1, <1>15
  <2> HIDE DEF a, b, c, l, k, f, r, n, m
  <2>4. (f + e + k + b) + r + c + (m - e) = free + n + a + m
    BY <2>1, <2>2
  <2> QED
    BY <2>3, <2>4 DEF a, c, n, m
<1> QED
  BY <1>17, <1>18, <1>19, <1>20

\* Stale events that are due are freed.
LEMMA WritebackEndHolds ==
  ASSUME IInv, LinksKept, ruu_writeback_done
  PROVE  LinksKept'
<1> DEFINE d == Cardinality(Due)
           m == Len(event_queue)
           h == Len(ready_queue) + Chains(station, Ids)
<1>1. /\ UNCHANGED <<station, ready_queue, node>> /\ event_queue' = SubSeq(event_queue, d + 1, m)
      /\ rslink_free' = rslink_free + d
  BY DEF ruu_writeback_done, issueVars
<1>2. d \in 0..m /\ m \in Nat /\ event_queue \in Seq(LinkSet)
  BY DueIsPrefix DEF IInv, CoreTypes
<1> HIDE DEF d
<1>3. Len(event_queue') = m - d
  BY <1>1, <1>2
<1>4. rslink_free \in Int /\ h \in Int /\ Len(node) \in Nat
  BY LinkCounts
<1>5. LinksKept <=> rslink_free + h + m + Len(node) = MAX_RS_LINKS
  BY <1>4, LinkCounts DEF LinksKept, HeldNow
<1>6. LinksKept' <=> rslink_free' + h + Len(event_queue') + Len(node) = MAX_RS_LINKS
  <2> DEFINE c == Chains(station, Ids)
             r == Len(ready_queue)
             f == rslink_free'
  <2>1. HeldNow' = f + r + c
    BY <1>1 DEF HeldNow
  <2>2. f \in Int /\ r \in Nat /\ c \in Nat
    BY <1>1, <1>2, <1>4, LinkCounts
  <2>3. h = r + c
    OBVIOUS
  <2> HIDE DEF c, r, f, h
  <2>4. HeldNow' = f + h
    BY <2>1, <2>2, <2>3
  <2> QED
    BY <1>1, <2>4 DEF LinksKept, f
<1> HIDE DEF h, m
<1> QED
  BY <1>1, <1>2, <1>3, <1>4, <1>5, <1>6

\* What lists hold, when they are the lists of the next state but for links
\* that were freed besides.
LEMMA ListsNext ==
  ASSUME NEW q \in ListStates, NEW k \in Int, station' = q.station,
         ready_queue' = q.ready_queue, rslink_free' = q.free + k
  PROVE  HeldNow' = Held(q) + k
<1>1. q.free \in Int /\ Len(q.ready_queue) \in Nat /\ Chains(q.station, Ids) \in Nat
  <2>1. q.free \in Int /\ q.ready_queue \in Seq(LinkSet) /\ q.station \in [Ids -> StationSet]
    BY DEF ListStates
  <2> QED
    BY <2>1, ChainsCounted
<1> QED
  BY <1>1 DEF HeldNow, Held

\* The lists before a step hold what is held.
LEMMA ListsHold ==
  ASSUME IInv
  PROVE  Lists(station) \in ListStates /\ Held(Lists(station)) = HeldNow
BY DEF Lists, ListStates, IInv, CoreTypes, Held, HeldNow

\* Loads move to the ready queue, which ruu_issue takes.
LEMMA RefreshHolds ==
  ASSUME IInv, LinksKept, lsq_refresh
  PROVE  LinksKept'
<1> DEFINE scan == [q |-> Lists(station), stop |-> FALSE, std_unknowns |-> <<>>]
           lsq == LSQIds
           N == LSQ_num
           q2 == Refreshed(scan, lsq).q
<1>1. /\ stage = "refresh" /\ station' = q2.station /\ rslink_free' = q2.free
      /\ node' = q2.ready_queue /\ ready_queue' = <<>> /\ event_queue' = event_queue
  BY DEF lsq_refresh
<1>2. N \in Nat /\ Len(lsq) = N /\ scan \in ScanStates /\ \A n \in 1..N : lsq[n] \in Ids
  <2> HIDE DEF scan
  <2> QED
    BY <1>1, ScanStarts DEF scan
<1>3. scan.q = Lists(station)
  OBVIOUS
<1> HIDE DEF scan, lsq, N
<1>4. q2 \in ListStates /\ Held(q2) = HeldNow
  BY <1>2, <1>3, RefreshedHolds, ListsHold
<1>5. node = <<>>
  BY <1>1 DEF IInv, LinksInv
<1> HIDE DEF q2
<1>6. q2.free \in Int /\ Len(q2.ready_queue) \in Nat /\ Chains(q2.station, Ids) \in Nat
  <2>1. q2.free \in Int /\ q2.ready_queue \in Seq(LinkSet) /\ q2.station \in [Ids -> StationSet]
    BY <1>4 DEF ListStates
  <2> QED
    BY <2>1, ChainsCounted
<1>7. HeldNow' + Len(node') = Held(q2) + 0
  BY <1>1, <1>6 DEF HeldNow, Held
<1>8. HeldNow' \in Int
  BY <1>1, <1>6 DEF HeldNow
<1>9. Len(node') \in Nat /\ Len(node) = 0 /\ HeldNow \in Int /\ Len(event_queue) \in Nat
  BY <1>1, <1>5, <1>6, LinkCounts
<1> HIDE DEF HeldNow
<1> QED
  BY <1>1, <1>4, <1>7, <1>8, <1>9 DEF LinksKept

\* An operation that needs a unit is scheduled.
LEMMA UnitSchedules ==
  ASSUME IInv, IssueToUnit
  PROVE  \E x \in Int : Scheduled(Visited, x)
<1> DEFINE class == FUClass[station[Visited].op]
<1>1. CASE IsLoad(station[Visited])
  <2> DEFINE data == IF Forwards(station, LSQIds, Visited) THEN {1} ELSE DataLatencies
  <2>1. PICK load_lat \in data, tlb_lat \in TLBLatencies :
           Scheduled(Visited, IF tlb_lat > load_lat THEN tlb_lat ELSE load_lat)
    BY <1>1 DEF IssueToUnit
  <2>2. load_lat \in Nat \ {0} /\ tlb_lat \in Nat \ {0}
    BY WidthsAssumption
  <2> DEFINE x == IF tlb_lat > load_lat THEN tlb_lat ELSE load_lat
  <2>3. x \in Int
    BY <2>2
  <2> QED
    BY <2>1, <2>3
<1>2. CASE ~IsLoad(station[Visited])
  <2> DEFINE x == fu_pool[res_get(class)][class].oplat
  <2>1. Scheduled(Visited, x) /\ Idle(class) # {}
    BY <1>2 DEF IssueToUnit
  <2>2. x \in Nat \ {0}
    <3> HIDE DEF class
    <3> QED
      BY <2>1, UnitReserved
  <2> HIDE DEF x
  <2>3. x \in Int
    BY <2>2
  <2> QED
    BY <2>1, <2>3
<1> QED
  BY <1>1, <1>2

\* An operation that is scheduled has one event more.
LEMMA ScheduledCounts ==
  ASSUME IInv, NEW v \in Ids, NEW x \in Int, Scheduled(v, x)
  PROVE  Len(event_queue') = Len(event_queue) + 1
<1> DEFINE eq == event_queue
           link == Link(station, v, x)
<1>1. eq \in Seq(LinkSet) /\ Sorted(eq) /\ link \in LinkSet
  BY LinkType DEF IInv, CoreTypes, EventsInOrder, Sorted
<1> HIDE DEF link, eq
<1>2. Inserted(eq, eventq_queue_event(eq, link), link)
  BY <1>1, SortedInsert
<1>3. Len(eventq_queue_event(eq, link)) = Len(eq) + 1
  BY <1>2 DEF Inserted
<1> QED
  BY <1>3 DEF Scheduled, link, eq

\* The link that ruu_issue visits is freed, or becomes an event, or is put back.
LEMMA IssueHolds ==
  ASSUME IInv, RegistersInv, LinksKept, ruu_issue
  PROVE  LinksKept'
<1>1. /\ node' = Tail(node) /\ node # <<>> /\ node \in Seq(LinkSet) /\ Head(node) \in LinkSet
      /\ IssueStale \/ IssueStore \/ IssueFree \/ IssueToUnit \/ IssueLater
  BY DEF ruu_issue, Visit, IInv, CoreTypes
<1>2. \A p \in Ids : station'[p].odep_list = station[p].odep_list
  BY IssueDiffers DEF FlagsDiffer
<1>3. Len(node') = Len(node) - 1
  BY <1>1
<1>4. /\ rslink_free \in Int /\ Len(ready_queue) \in Nat /\ Len(event_queue) \in Nat
      /\ Len(node) \in Nat /\ HeldNow \in Int
  BY LinkCounts
<1>5. ASSUME rslink_free' = rslink_free + 1, ready_queue' = ready_queue
      PROVE  HeldNow' = HeldNow + 1
  <2>1. Chains(station', Ids) = Chains(station, Ids)
    BY <1>2, SameChainsCounted
  <2>2. Chains(station, Ids) \in Nat
    BY LinkCounts
  <2> QED
    BY <1>4, <1>5, <2>1, <2>2 DEF HeldNow
<1>6. CASE IssueStale \/ IssueStore
  <2>1. rslink_free' = rslink_free + 1 /\ UNCHANGED <<event_queue, ready_queue>>
    BY <1>6 DEF IssueStale, IssueStore
  <2>2. HeldNow' = HeldNow + 1
    BY <1>5, <2>1
  <2> QED
    BY <1>3, <1>4, <2>1, <2>2 DEF LinksKept
<1>7. CASE IssueFree \/ IssueToUnit
  <2>1. rslink_free' = rslink_free /\ ready_queue' = ready_queue
    BY <1>7 DEF IssueFree, IssueToUnit
  <2>2. HeldNow' = HeldNow
    BY <1>2, <2>1, HeldStays
  <2>3. \E x \in Int : Scheduled(Visited, x)
    <3>1. IssueFree => Scheduled(Visited, 1) /\ 1 \in Int
      BY DEF IssueFree
    <3> QED
      BY <1>7, <3>1, UnitSchedules
  <2>4. Visited \in Ids
    BY <1>1 DEF Visited, LinkSet
  <2>5. Len(event_queue') = Len(event_queue) + 1
    BY <2>3, <2>4, ScheduledCounts
  <2> QED
    BY <1>3, <1>4, <2>2, <2>5 DEF LinksKept
<1>8. CASE IssueLater
  <2> DEFINE q == Lists(station)
             link == Head(node)
             back == PutBack(q, link)
  <2>1. /\ station' = back.station /\ ready_queue' = back.ready_queue
        /\ rslink_free' = back.free + 1 /\ event_queue' = event_queue
    BY <1>8 DEF IssueLater
  <2>2. q \in ListStates /\ Held(q) = HeldNow /\ link \in LinkSet
    BY <1>1, ListsHold
  <2> HIDE DEF q, link
  <2>3. Held(back) = HeldNow
    BY <2>2, PutBackHolds
  <2>4. back \in ListStates
    <3> DEFINE one == <<link>>
    <3>1. PICK f \in [0..Len(one) -> ListStates] : PutsBack(f, q, one)
      <4>1. one \in Seq(LinkSet)
        BY <2>2
      <4> HIDE DEF one
      <4> QED
        BY <2>2, <4>1, PutBackStates
    <3>2. Len(one) = 1 /\ one[1] = link
      OBVIOUS
    <3> HIDE DEF one
    <3>3. 1 \in 1..1 /\ 1 \in 0..1 /\ 1 - 1 = 0
      OBVIOUS
    <3>4. f[1] = PutBack(f[0], link) /\ f[0] = q /\ f[1] \in ListStates
      BY <3>1, <3>2, <3>3 DEF PutsBack
    <3> QED
      BY <3>4
  <2> HIDE DEF back
  <2>5. HeldNow' = Held(back) + 1
    <3>1. 1 \in Int
      OBVIOUS
    <3> QED
      BY <2>1, <2>4, <3>1, ListsNext
  <2> QED
    BY <1>3, <1>4, <2>1, <2>3, <2>5 DEF LinksKept
<1> QED
  BY <1>1, <1>6, <1>7, <1>8

\* What the issue width left over is put back.
LEMMA IssueEndHolds ==
  ASSUME IInv, LinksKept, ruu_issue_done
  PROVE  LinksKept'
<1> DEFINE nd == node
           q == AllPutBack(Lists(station), nd)
<1>1. /\ station' = q.station /\ ready_queue' = q.ready_queue /\ rslink_free' = q.free + Len(nd)
      /\ node' = <<>> /\ event_queue' = event_queue
  BY DEF ruu_issue_done
<1>2. nd \in Seq(LinkSet) /\ Len(nd) \in Int
  BY DEF IInv, CoreTypes
<1> HIDE DEF nd
<1>3. q \in ListStates /\ Held(q) = HeldNow
  BY <1>2, AllPutBackHolds, ListsHold
<1> HIDE DEF q
<1>4. HeldNow' = HeldNow + Len(nd)
  BY <1>1, <1>2, <1>3, ListsNext
<1>5. Len(node') = 0 /\ HeldNow \in Int /\ Len(event_queue) \in Nat
  BY <1>1, LinkCounts
<1> QED
  BY <1>1, <1>2, <1>4, <1>5 DEF LinksKept, nd

\* A new instruction takes its links from the pool.
LEMMA DispatchHolds ==
  ASSUME IInv, RegistersInv, LinksKept, ruu_dispatch
  PROVE  LinksKept'
<1>1. CanDispatch /\ UNCHANGED <<programVars, stage, RUU_head, LSQ_head, event_queue, issueVars,
                                 fetch_data, uncached, branch_cnt, busy>>
  BY DEF ruu_dispatch
<1>2. PICK npc \in NextPCs(Fetched.regs_PC) :
         \/ DispatchNop(Inst(Fetched.regs_PC), npc)
         \/ DispatchOp(Inst(Fetched.regs_PC), npc)
  BY DEF ruu_dispatch
<1>3. HeldNow' = HeldNow
  <2>1. CASE DispatchNop(Inst(Fetched.regs_PC), npc)
    BY <2>1, HeldStays DEF DispatchNop
  <2>2. CASE DispatchOp(Inst(Fetched.regs_PC), npc)
    <3> DEFINE i == Inst(Fetched.regs_PC)
    <3>1. IsFetched(i) /\ DispatchOp(i, npc)
      BY <2>2 DEF IsFetched
    <3> HIDE DEF i
    <3> QED
      BY <1>1, <3>1, OpFlows
  <2> QED
    BY <1>2, <2>1, <2>2
<1> QED
  BY <1>1, <1>3 DEF LinksKept, issueVars

\* The events only come nearer when a cycle ends.
LEMMA CycleEndHolds ==
  ASSUME IInv, LinksKept, ruu_fetch_miss \/ ruu_fetch_done
  PROVE  LinksKept'
<1> DEFINE eq == event_queue
           eq2 == event_queue'
<1>1. /\ UNCHANGED <<station, rslink_free, ready_queue, node>>
      /\ eq2 = [i \in DOMAIN eq |-> [eq[i] EXCEPT !.x = @ - 1]]
  BY DEF ruu_fetch_miss, ruu_fetch_done, EndCycle, issueVars
<1>2. DOMAIN eq = 1..Len(eq) /\ Len(eq) \in Nat
  BY DEF IInv, CoreTypes
<1>3. Len(eq2) = Len(eq)
  <2> HIDE DEF eq, eq2
  <2>1. DOMAIN eq2 = 1..Len(eq)
    BY <1>1, <1>2
  <2> QED
    BY <1>2, <2>1
<1>4. HeldNow' = HeldNow
  BY <1>1, HeldStays
<1> QED
  BY <1>1, <1>3, <1>4 DEF LinksKept

\* Every step keeps all links.
LEMMA StepHolds ==
  ASSUME IInv, RegistersInv, LinksKept, Next
  PROVE  LinksKept'
<1>1. ASSUME UNCHANGED <<station, rslink_free, ready_queue, event_queue, node>>
      PROVE  LinksKept'
  <2>1. HeldNow' = HeldNow
    BY <1>1, HeldStays
  <2> QED
    BY <1>1, <2>1 DEF LinksKept
<1>2. CASE ruu_release_fu
  BY <1>1, <1>2 DEF ruu_release_fu, issueVars
<1>3. CASE ruu_dispatch_exit \/ ruu_dispatch_done
  BY <1>1, <1>3 DEF ruu_dispatch_exit, ruu_dispatch_done, issueVars
<1>4. CASE ruu_fetch
  BY <1>1, <1>4 DEF ruu_fetch, issueVars
<1>5. CASE Exited
  BY <1>1, <1>5 DEF Exited, vars, issueVars
<1> QED
  BY <1>2, <1>3, <1>4, <1>5, CommitHolds, WritebackHolds, WritebackEndHolds, RefreshHolds,
     IssueHolds, IssueEndHolds, DispatchHolds, CycleEndHolds DEF Next

\* At first all links are free.
LEMMA StartHolds ==
  ASSUME Init
  PROVE  LinksKept
<1>1. /\ rslink_free = MAX_RS_LINKS /\ event_queue = <<>> /\ ready_queue = <<>> /\ node = <<>>
      /\ station = [id \in Ids |-> FreeStation]
  BY DEF Init
<1>2. MAX_RS_LINKS \in Int
  BY LinksAssumption
<1>3. Chains(station, Ids) = 0
  <2>1. \A p \in Ids, j \in 1..2 : DOMAIN station[p].odep_list[j] = {}
    <3>1. \A p \in Ids : station[p].odep_list = << <<>>, <<>> >>
      BY <1>1 DEF FreeStation
    <3> QED
      BY <3>1, NoChains
  <2>2. ChainPlaces(station, Ids) = {}
    BY <2>1, PlaceInChains
  <2> QED
    BY <2>2, ChainsAre, FS_EmptySet
<1> QED
  BY <1>1, <1>2, <1>3 DEF LinksKept, HeldNow

\* What the invariants say of the links.
LEMMA LinksAccountedFor ==
  ASSUME IInv, RegistersInv, LinksKept
  PROVE  LinksAccounted
<1>1. rslink_free + Len(event_queue) + Len(ready_queue) + Len(node) + Chains(station, Ids)
         = MAX_RS_LINKS
  <2>1. Chains(station, Ids) \in Nat
    BY LinkCounts
  <2> QED
    BY <2>1, LinkCounts DEF LinksKept, HeldNow
<1>2. FlightNow = InFlight
  BY RingsPlaced DEF IInv, FlightNow
<1>3. ASSUME NEW id \in Ids, id \notin InFlight \/ station[id].completed
      PROVE  station[id].odep_list = << <<>>, <<>> >>
  <2>1. Outputs(station, FlightNow) /\ station \in [Ids -> StationSet]
    BY DEF RegistersInv, DataOf, IInv, CoreTypes
  <2> QED
    BY <1>2, <1>3, <2>1, NoChainsOutside
<1> QED
  BY <1>1, <1>3 DEF LinksAccounted

-----------------------------------------------------------------------------
(* The theorems.                                                           *)

\* The core keeps the flow of values through registers and through memory, and
\* its links.
THEOREM DataflowInvariant == Spec => [](IInv /\ RegistersInv /\ AccessesInv /\ LinksKept)
<1>1. Init => IInv /\ RegistersInv /\ AccessesInv /\ LinksKept
  <2>1. Init => AccessesInv
    BY DEF Init, AccessesInv, MemoryOrder
  <2> QED
    BY <2>1, StartsInOrder, StartFlows, StartHolds
<1>2. /\ IInv /\ RegistersInv /\ AccessesInv /\ LinksKept
      /\ [Next]_vars
      => (IInv /\ RegistersInv /\ AccessesInv /\ LinksKept)'
  <2>1. CASE Next
    BY <2>1, StepKeeps, StepFlows, StepServes, StepHolds
  <2>2. CASE UNCHANGED vars
    <3>1. text' = text /\ UNCHANGED <<station, ruuVars, lsqVars, cvVars>>
      BY <2>2 DEF vars, programVars
    <3>2. UNCHANGED <<station, rslink_free, ready_queue, event_queue, node>>
      BY <2>2 DEF vars, issueVars
    <3>3. HeldNow' = HeldNow
      BY <3>2, HeldStays
    <3>4. LinksKept => LinksKept'
      BY <3>2, <3>3 DEF LinksKept
    <3> QED
      BY <2>2, <3>1, <3>4, NothingChanges, NothingFlows, QueueKept
  <2> QED
    BY <2>1, <2>2
<1> QED
  BY <1>1, <1>2, PTL DEF Spec

\* An operand waits exactly for the youngest older instruction that writes its
\* register, as long as that has not completed, and is chained to it once: no
\* result is taken from another instruction and no operand waits for ever.
THEOREM OperandsWaited == Spec => []OperandsAwaited
BY DataflowInvariant, OperandsWait, PTL

\* The creation vectors name the youngest instruction in flight that will still
\* write a register, of those that survive a recovery and of all.
THEOREM CreatorsNamed == Spec => []CreatorsAreLatest
BY DataflowInvariant, CreatorsLatest, PTL

\* A load executes when every older store knows its address, and the one it takes
\* its data from has them.
THEOREM LoadsFollowStores == Spec => []LoadsAfterStores
BY DataflowInvariant, ServedAfterStores, PTL

\* No link is lost, made, or freed twice: those of the pool, the ready queue, the
\* event queue, the issue in progress and the chains are always as many as the
\* pool had at first, and a station that has completed, or was squashed or
\* retired, holds none.
THEOREM LinksNeverLost == Spec => []LinksAccounted
BY DataflowInvariant, LinksAccountedFor, PTL
=============================================================================
