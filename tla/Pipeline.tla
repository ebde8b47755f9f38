------------------------------ MODULE Pipeline ------------------------------
(***************************************************************************)
(* The out-of-order core of sim-outorder.c.  The stages of a cycle run in  *)
(* the order of sim_main, from commit back to fetch; an iteration of the   *)
(* loop of a stage is a step, so that every state in which one part of the *)
(* core is ahead of another is seen.  Times are relative to sim_cycle.     *)
(*                                                                         *)
(* An instruction is executed when it is dispatched, as in the code; here  *)
(* its result is only where it goes next, chosen freely, and the address   *)
(* it accesses, a property of the program text.  What the branch predictor *)
(* answers and what the caches cost are chosen freely.  All addresses      *)
(* outside of the text, where fetch finds only MD_NOP_INST, are one.       *)
(***************************************************************************)
EXTENDS Stations, ProgramText

CONSTANTS
    Regs,                   \* the registers of the programs, without DTMP
    Setups,                 \* programs with options, and text not in the I-cache
    ruu_decode_width, ruu_issue_width, ruu_commit_width, fetch_speed,
    ruu_ifq_size, ruu_branch_penalty,
    fu_pool,                \* for each unit, its classes: oplat and issuelat
    MAX_RS_LINKS,           \* links in the pool
    MissLatencies, DataLatencies, TLBLatencies

ASSUME WidthsAssumption ==
    /\ {ruu_decode_width, ruu_issue_width, ruu_commit_width, fetch_speed,
        ruu_ifq_size, ruu_branch_penalty} \subseteq Nat \ {0}
    /\ DataLatencies \cup TLBLatencies \cup MissLatencies \subseteq Nat \ {0}

ASSUME LinksAssumption == MAX_RS_LINKS \in Nat \ {0}

(* What the decoder makes of an instruction word.  A direct jump leads     *)
(* into the text or to the one address outside of it; a store writes no    *)
(* register ("store creates result" of ruu_issue is not reached).          *)
Instructions ==
    [op : DOMAIN FUClass \ {"agen"}, in : [1 .. 3 -> Regs \cup {NA}],
     out : Regs \cup {NA}, addr : Nat, target : Nat]

(* The word of MD_NOP_INST decodes to a NOP on PISA; on Alpha (alpha.c:75) *)
(* it adds to the register that is always 0, which takes a station.        *)
ZeroAdd == [op |-> "add", in |-> <<NA, NA, NA>>, out |-> NA, addr |-> 0, target |-> 0]
ASSUME BogusAssumption == MD_NOP_INST \in {NOP, ZeroAdd}

ASSUME SetupsAssumption ==
    \A s \in Setups :
        /\ s.text \in Seq(Instructions \cup {NOP})
        /\ \A p \in DOMAIN s.text :
              /\ s.text[p].op \in F_DIRJMP => s.text[p].target \in 1 .. Len(s.text) + 1
              /\ s.text[p].op = "store" => s.text[p].out = NA

(* fu_config: every class takes its unit for some time.                    *)
ASSUME UnitsAssumption ==
    /\ DOMAIN fu_pool \subseteq Nat
    /\ \A u \in DOMAIN fu_pool : \A class \in DOMAIN fu_pool[u] :
          /\ fu_pool[u][class].oplat \in Nat \ {0}
          /\ fu_pool[u][class].issuelat \in Nat

VARIABLES
    options,                \* inorder_issue, include_spec, bugcompat, perfect
    stage,                  \* where sim_main is
    station,                \* RUU and LSQ
    RUU_head, RUU_tail, RUU_num,
    LSQ_head, LSQ_tail, LSQ_num,
    rslink_free,            \* how many links are free
    event_queue, ready_queue,
    node, n_issued,         \* ruu_issue: links still to visit, operations issued
    create_vector, spec_create_vector, use_spec_cv,
    inst_seq, last_op,
    spec_mode, recover_PC,
    fetch_data, fetch_head, fetch_tail, fetch_num,
    fetch_pred_PC, fetch_regs_PC, ruu_fetch_issue_delay,
    count,                  \* progress of the loop of the stage
    branch_cnt,             \* branches predicted taken in this fetch
    uncached,               \* external: addresses that the I-cache will miss
    busy                    \* cycles until a unit is free again

ruuVars == <<RUU_head, RUU_tail, RUU_num>>
lsqVars == <<LSQ_head, LSQ_tail, LSQ_num>>
cvVars == <<create_vector, spec_create_vector, use_spec_cv>>
issueVars == <<node, n_issued>>
ifqVars == <<fetch_data, fetch_head, fetch_tail, fetch_num>>
fetchVars == <<fetch_pred_PC, fetch_regs_PC, ruu_fetch_issue_delay, uncached>>
specVars == <<spec_mode, recover_PC>>
programVars == <<text, options>>
vars == <<programVars, stage, station, ruuVars, lsqVars, rslink_free,
          event_queue, ready_queue, issueVars, cvVars, inst_seq, last_op,
          specVars, ifqVars, fetchVars, count, branch_cnt, busy>>

-----------------------------------------------------------------------------
RUUIds == RingIds("RUU", RUU_head, RUU_num, RUU_size)
LSQIds == RingIds("LSQ", LSQ_head, LSQ_num, LSQ_size)

Init ==
    /\ \E s \in Setups : text = s.text /\ options = s.options /\ uncached = s.uncached
    /\ stage = "commit"
    /\ station = [id \in Ids |-> FreeStation]
    /\ RUU_head = 0 /\ RUU_tail = 0 /\ RUU_num = 0
    /\ LSQ_head = 0 /\ LSQ_tail = 0 /\ LSQ_num = 0
    /\ rslink_free = MAX_RS_LINKS
    /\ event_queue = <<>> /\ ready_queue = <<>>
    /\ node = <<>> /\ n_issued = 0
    /\ create_vector = [r \in Regs \cup {DTMP} |-> CVLINK_NULL]
    /\ spec_create_vector = [r \in Regs \cup {DTMP} |-> CVLINK_NULL]
    /\ use_spec_cv = {}
    /\ inst_seq = 0 /\ last_op = <<>>
    /\ spec_mode = FALSE /\ recover_PC = 1
    /\ fetch_data = [i \in 0 .. ruu_ifq_size - 1 |-> [regs_PC |-> 1, pred_PC |-> 1]]
    /\ fetch_head = 0 /\ fetch_tail = 0 /\ fetch_num = 0
    /\ fetch_pred_PC = 1 /\ fetch_regs_PC = 1 /\ ruu_fetch_issue_delay = 0
    /\ count = 0 /\ branch_cnt = 0
    /\ busy = [u \in DOMAIN fu_pool |-> 0]

-----------------------------------------------------------------------------
(* Functional units: the first idle one that serves the class.             *)

Idle(class) == {u \in DOMAIN fu_pool : class \in DOMAIN fu_pool[u] /\ busy[u] = 0}
res_get(class) == CHOOSE u \in Idle(class) : \A v \in Idle(class) : u <= v

Reserve(class) ==
    busy' = [busy EXCEPT ![res_get(class)] = fu_pool[res_get(class)][class].issuelat]

-----------------------------------------------------------------------------
(* Commit: the oldest station leaves when it has completed, an access to   *)
(* memory together with the oldest entry of the LSQ, and a store only with *)
(* a port to the cache.                                                    *)

Oldest == <<"RUU", RUU_head>>
OldestAccess == <<"LSQ", LSQ_head>>

CanCommit ==
    /\ stage = "commit"
    /\ RUU_num > 0 /\ count < ruu_commit_width
    /\ station[Oldest].completed
    /\ station[Oldest].ea_comp =>
         /\ station[OldestAccess].completed
         /\ IsStore(station[OldestAccess]) => Idle("WrPort") # {}

ruu_commit ==
    /\ CanCommit
    /\ LET access == station[Oldest].ea_comp
       IN /\ station' = [id \in Ids |->
                [station[id] EXCEPT !.tag =
                    IF id = Oldest \/ (access /\ id = OldestAccess) THEN @ + 1 ELSE @]]
          /\ IF access THEN /\ LSQ_head' = (LSQ_head + 1) % LSQ_size
                            /\ LSQ_num' = LSQ_num - 1
                       ELSE UNCHANGED <<LSQ_head, LSQ_num>>
          /\ IF access /\ IsStore(station[OldestAccess])
             THEN Reserve("WrPort") ELSE UNCHANGED busy
    /\ RUU_head' = (RUU_head + 1) % RUU_size
    /\ RUU_num' = RUU_num - 1
    /\ count' = count + 1
    /\ UNCHANGED <<programVars, stage, RUU_tail, LSQ_tail, rslink_free,
                   event_queue, ready_queue, issueVars, cvVars, inst_seq,
                   last_op, specVars, ifqVars, fetchVars, branch_cnt>>

ruu_release_fu ==
    /\ stage = "commit" /\ ~CanCommit
    /\ busy' = [u \in DOMAIN busy |-> IF busy[u] > 0 THEN busy[u] - 1 ELSE 0]
    /\ stage' = "writeback" /\ count' = 0
    /\ UNCHANGED <<programVars, station, ruuVars, lsqVars, rslink_free,
                   event_queue, ready_queue, issueVars, cvVars, inst_seq,
                   last_op, specVars, ifqVars, fetchVars, branch_cnt>>

-----------------------------------------------------------------------------
(* The stations st with the ready queue and the pool of links.             *)
Lists(st) == [station |-> st, ready_queue |-> ready_queue, free |-> rslink_free]

(* Writeback.  The events that are due are a prefix of the queue.          *)

Due == {i \in DOMAIN event_queue : event_queue[i].x <= 0}
Occurred == {i \in Due : RSLINK_VALID(station, event_queue[i])}

(* eventq_next_event frees the stale links before the next valid one.      *)
NextEvent == CHOOSE i \in Occurred : \A j \in Occurred : i <= j

\* Mutant: an access is squashed for every station.
SquashedAccesses(b) ==
    LET at == CHOOSE k \in DOMAIN RUUIds : RUUIds[k] = b
        young == SubSeq(RUUIds, at + 1, RUU_num)
        first == LSQ_num - Len(young) + 1
    IN [RUU |-> young, LSQ |-> SubSeq(LSQIds, IF first < 1 THEN 1 ELSE first, LSQ_num)]

(* The stations younger than the branch, and the accesses among them.      *)
Squashed(b) ==
    LET at == CHOOSE k \in DOMAIN RUUIds : RUUIds[k] = b
        young == SubSeq(RUUIds, at + 1, RUU_num)
        accesses == Cardinality({k \in DOMAIN young : station[young[k]].ea_comp})
    IN [RUU |-> young, LSQ |-> SubSeq(LSQIds, LSQ_num - accesses + 1, LSQ_num)]

(* How many links the output chains of the stations ids have.              *)
Chains(st, ids) ==
    Cardinality(UNION {{<<id, j, n>> : n \in DOMAIN st[id].odep_list[j]} :
                         id \in ids, j \in 1 .. 2})

\* Mutant: the output chains of squashed stations are left as they are.
SquashKeepsChains(st, ids) ==
    [id \in Ids |-> IF id \in ids THEN [st[id] EXCEPT !.tag = @ + 1] ELSE st[id]]

Squash(st, ids) ==
    [id \in Ids |-> IF id \in ids
                    THEN [st[id] EXCEPT !.tag = @ + 1, !.odep_list = << <<>>, <<>> >>]
                    ELSE st[id]]

(* ruu_recover and tracer_recover, after which st are the stations.        *)
Recovered(b) ==
    LET gone == Squashed(b)
    IN /\ RUU_num' = RUU_num - Len(gone.RUU)
       /\ RUU_tail' = (RUU_head + RUU_num') % RUU_size
       /\ LSQ_num' = LSQ_num - Len(gone.LSQ)
       /\ LSQ_tail' = (LSQ_head + LSQ_num') % LSQ_size
       /\ use_spec_cv' = {}
       /\ spec_mode' = FALSE
       /\ fetch_num' = 0 /\ fetch_tail' = 0 /\ fetch_head' = 0
       /\ fetch_pred_PC' = recover_PC /\ fetch_regs_PC' = recover_PC
       /\ ruu_fetch_issue_delay' = ruu_branch_penalty

\* Mutant: the entry is cleared although a younger station will write it.
ClearedByName(cv, id) ==
    [r \in DOMAIN cv |-> IF \E k \in 1 .. 2 : station[id].onames[k] = r
                         THEN CVLINK_NULL ELSE cv[r]]

(* The creation vector cv without the outputs of the station id.           *)
Cleared(cv, id) ==
    [r \in DOMAIN cv |->
        IF \E k \in 1 .. 2 : station[id].onames[k] = r /\ cv[r] = [rs |-> id, odep_num |-> k]
        THEN CVLINK_NULL ELSE cv[r]]

ruu_writeback ==
    /\ stage = "writeback" /\ Occurred # {}
    /\ LET id == event_queue[NextEvent].rs
           rs == station[id]
           gone == IF rs.recover_inst
                   THEN ToSet(Squashed(id).RUU) \cup ToSet(Squashed(id).LSQ) ELSE {}
           left == Squash([station EXCEPT ![id].completed = TRUE], gone)
           waiting == rs.odep_list[1] \o rs.odep_list[2]
       IN \E woken \in {Woken(Lists(left), waiting)} :
          /\ IF rs.recover_inst THEN Recovered(id)
             ELSE UNCHANGED <<RUU_num, RUU_tail, LSQ_num, LSQ_tail, use_spec_cv,
                              spec_mode, fetch_num, fetch_tail, fetch_head,
                              fetch_pred_PC, fetch_regs_PC, ruu_fetch_issue_delay>>
          /\ IF rs.spec_mode
             THEN /\ spec_create_vector' = Cleared(spec_create_vector, id)
                  /\ UNCHANGED create_vector
             ELSE /\ create_vector' = Cleared(create_vector, id)
                  /\ UNCHANGED spec_create_vector
          /\ station' = [woken.station EXCEPT ![id].odep_list = << <<>>, <<>> >>]
          /\ ready_queue' = woken.ready_queue
          /\ rslink_free' = woken.free + NextEvent + Len(waiting) + Chains(station, gone)
          /\ event_queue' = SubSeq(event_queue, NextEvent + 1, Len(event_queue))
    /\ UNCHANGED <<programVars, stage, RUU_head, LSQ_head, issueVars, inst_seq,
                   last_op, recover_PC, fetch_data, uncached, count, branch_cnt, busy>>

(* No valid event is due: stale ones are freed.                            *)
ruu_writeback_done ==
    /\ stage = "writeback" /\ Occurred = {}
    /\ event_queue' = SubSeq(event_queue, Cardinality(Due) + 1, Len(event_queue))
    /\ rslink_free' = rslink_free + Cardinality(Due)
    /\ stage' = IF options.bugcompat THEN "dispatch" ELSE "refresh"
    /\ UNCHANGED <<programVars, station, ruuVars, lsqVars, ready_queue, issueVars,
                   cvVars, inst_seq, last_op, specVars, ifqVars, fetchVars, count,
                   branch_cnt, busy>>

-----------------------------------------------------------------------------
(* Loads become ready; ruu_issue, which follows, takes the ready queue.    *)

lsq_refresh ==
    /\ stage = "refresh"
    /\ \E scan \in {Refreshed([q |-> Lists(station), stop |-> FALSE, std_unknowns |-> <<>>],
                              LSQIds)} :
          /\ station' = scan.q.station
          /\ rslink_free' = scan.q.free
          /\ node' = scan.q.ready_queue
    /\ ready_queue' = <<>> /\ n_issued' = 0
    /\ stage' = "issue"
    /\ UNCHANGED <<programVars, ruuVars, lsqVars, event_queue, cvVars, inst_seq,
                   last_op, specVars, ifqVars, fetchVars, count, branch_cnt, busy>>

(* The visited link is taken from the queue and freed in any case.         *)
Visit == node # <<>> /\ n_issued < ruu_issue_width /\ stage = "issue"
Visited == Head(node).rs

\* Mutant: an operation that is issued remains queued.
StartedQueued(id) == [station EXCEPT ![id].issued = TRUE]
Started(id) == [station EXCEPT ![id].queued = FALSE, ![id].issued = TRUE]
Scheduled(id, latency) ==
    event_queue' = eventq_queue_event(event_queue, Link(station, id, latency))

(* A link that is enqueued again.                                          *)
PutBack(q, link) ==
    IF RSLINK_VALID(q.station, link)
    THEN readyq_enqueue([q EXCEPT !.station[link.rs].queued = FALSE], link.rs) ELSE q

AllPutBack(q, links) ==
    LET after[n \in 0 .. Len(links)] == IF n = 0 THEN q ELSE PutBack(after[n - 1], links[n])
    IN after[Len(links)]

(* A link whose station has been squashed.                                 *)
IssueStale ==
    /\ ~RSLINK_VALID(station, Head(node))
    /\ rslink_free' = rslink_free + 1
    /\ UNCHANGED <<station, event_queue, ready_queue, n_issued, busy>>

(* A store is complete at once.                                            *)
IssueStore ==
    /\ RSLINK_VALID(station, Head(node)) /\ IsStore(station[Visited])
    /\ station' = [Started(Visited) EXCEPT ![Visited].completed = TRUE]
    /\ rslink_free' = rslink_free + 1
    /\ n_issued' = n_issued + 1
    /\ UNCHANGED <<event_queue, ready_queue, busy>>

(* An operation that needs no unit takes a cycle.                          *)
IssueFree ==
    /\ RSLINK_VALID(station, Head(node))
    /\ FUClass[station[Visited].op] = NA
    /\ station' = Started(Visited)
    /\ Scheduled(Visited, 1)
    /\ rslink_free' = rslink_free
    /\ n_issued' = n_issued + 1
    /\ UNCHANGED <<ready_queue, busy>>

(* A load takes the time of the cache and the TLB, or of the TLB and a     *)
(* cycle if a store forwards; others the latency of their unit.            *)
IssueToUnit ==
    LET rs == station[Visited]
        class == FUClass[rs.op]
        data == IF Forwards(station, LSQIds, Visited) THEN {1} ELSE DataLatencies
    IN /\ RSLINK_VALID(station, Head(node)) /\ ~IsStore(rs)
       /\ class # NA /\ Idle(class) # {}
       /\ Reserve(class)
       /\ station' = Started(Visited)
       /\ IF IsLoad(rs)
          THEN \E load_lat \in data, tlb_lat \in TLBLatencies :
                  Scheduled(Visited, IF tlb_lat > load_lat THEN tlb_lat ELSE load_lat)
          ELSE Scheduled(Visited, fu_pool[res_get(class)][class].oplat)
       /\ rslink_free' = rslink_free
       /\ n_issued' = n_issued + 1
       /\ UNCHANGED ready_queue

\* Mutant: an operation without a unit is not enqueued again.
IssueNever ==
    LET class == FUClass[station[Visited].op]
    IN /\ RSLINK_VALID(station, Head(node)) /\ ~IsStore(station[Visited])
       /\ class # NA /\ Idle(class) = {}
       /\ station' = [station EXCEPT ![Visited].queued = FALSE]
       /\ rslink_free' = rslink_free + 1
       /\ UNCHANGED <<ready_queue, event_queue, n_issued, busy>>

(* No unit is idle: it goes back to the ready queue.                       *)
IssueLater ==
    LET class == FUClass[station[Visited].op]
        back == PutBack(Lists(station), Head(node))
    IN /\ RSLINK_VALID(station, Head(node)) /\ ~IsStore(station[Visited])
       /\ class # NA /\ Idle(class) = {}
       /\ station' = back.station
       /\ ready_queue' = back.ready_queue
       /\ rslink_free' = back.free + 1
       /\ UNCHANGED <<event_queue, n_issued, busy>>

ruu_issue ==
    /\ Visit
    /\ node' = Tail(node)
    /\ IssueStale \/ IssueStore \/ IssueFree \/ IssueToUnit \/ IssueLater
    /\ UNCHANGED <<programVars, stage, ruuVars, lsqVars, cvVars, inst_seq, last_op,
                   specVars, ifqVars, fetchVars, count, branch_cnt>>

(* What the issue width left over is enqueued again.                       *)
ruu_issue_done ==
    /\ stage = "issue" /\ ~Visit
    /\ \E q \in {AllPutBack(Lists(station), node)} :
          /\ station' = q.station
          /\ ready_queue' = q.ready_queue
          /\ rslink_free' = q.free + Len(node)
    /\ node' = <<>>
    /\ stage' = IF options.bugcompat THEN "fetch" ELSE "dispatch"
    /\ UNCHANGED <<programVars, ruuVars, lsqVars, event_queue, n_issued, cvVars,
                   inst_seq, last_op, specVars, ifqVars, fetchVars, count,
                   branch_cnt, busy>>

-----------------------------------------------------------------------------
(* Dispatch.                                                               *)

\* Mutant: the index is not masked.
NextSlotUnmasked(i) == i + 1
NextSlot(i) == (i + 1) % ruu_ifq_size

Fetched == fetch_data[fetch_head]
LastOpStalls ==
    /\ options.inorder_issue /\ last_op # <<>>
    /\ RSLINK_VALID(station, last_op[1])
    /\ ~OPERANDS_READY(station[last_op[1].rs])

CanDispatch ==
    /\ stage = "dispatch"
    /\ count < ruu_decode_width * fetch_speed
    /\ RUU_num < RUU_size /\ LSQ_num < LSQ_size
    /\ fetch_num # 0
    /\ options.include_spec \/ ~spec_mode
    /\ ~LastOpStalls
    /\ Inst(Fetched.regs_PC).op \in F_TRAP => RUU_num = 0

RUUNew == <<"RUU", RUU_tail>>
LSQNew == <<"LSQ", LSQ_tail>>

Filled(old, i, npc, op, seq) ==
    [old EXCEPT !.op = op, !.PC = Fetched.regs_PC, !.next_PC = npc,
                !.in_LSQ = FALSE, !.ea_comp = FALSE, !.recover_inst = FALSE,
                !.spec_mode = spec_mode, !.addr = 0, !.seq = seq,
                !.queued = FALSE, !.issued = FALSE, !.completed = FALSE]

Enqueued(c, id) == IF OPERANDS_READY(c.station[id]) THEN readyq_enqueue(c, id) ELSE c

(* The stations and the rename state with the instruction i.  An access to *)
(* memory is two operations: the computation of its address, in the RUU,   *)
(* hands the address in DTMP to the access, in the LSQ.                    *)
Allocated(i, npc) ==
    LET c == [station |-> station, ready_queue |-> ready_queue, free |-> rslink_free,
              cv |-> create_vector, spec_cv |-> spec_create_vector, use |-> use_spec_cv]
        op == IF i.op \in F_MEM THEN "agen" ELSE i.op
        rs == [Filled(station[RUUNew], i, npc, op, inst_seq + 1) EXCEPT
                 !.ea_comp = i.op \in F_MEM]
        lsq == [Filled(station[LSQNew], i, npc, i.op, inst_seq + 2) EXCEPT
                  !.in_LSQ = TRUE, !.addr = i.addr]
    IN IF i.op \in F_MEM
       THEN LET filled2 == [c EXCEPT !.station[RUUNew] = rs, !.station[LSQNew] = lsq]
                agen == Renamed(filled2, RUUNew, <<NA, i.in[2], i.in[3]>>, <<DTMP, NA>>)
                both == Enqueued(Renamed(agen, LSQNew, <<i.in[1], DTMP, NA>>, <<i.out, NA>>),
                                 RUUNew)
            IN IF i.op = "store" THEN Enqueued(both, LSQNew) ELSE both
       ELSE Enqueued(Renamed([c EXCEPT !.station[RUUNew] = rs], RUUNew, i.in, <<i.out, NA>>),
                     RUUNew)

(* The prediction is wrong about a direct jump, or must be perfect: fetch  *)
(* is redirected without speculation.                                      *)
Redirects(i, npc) ==
    \/ options.perfect /\ Fetched.pred_PC # npc
    \/ /\ i.op \in F_DIRJMP /\ i.target # Fetched.pred_PC
       /\ Fetched.pred_PC # Following(Fetched.regs_PC)

\* Mutant: branches on a wrong path recover too.
MispredictedAnywhere(i, npc) == Fetched.pred_PC # npc /\ ~Redirects(i, npc)
Mispredicted(i, npc) == ~spec_mode /\ Fetched.pred_PC # npc /\ ~Redirects(i, npc)

\* Mutant: a redirected fetch leaves the queue as it is.
ConsumeOne(i, npc) ==
    /\ fetch_head' = NextSlot(fetch_head) /\ fetch_num' = fetch_num - 1
    /\ IF Redirects(i, npc) THEN fetch_pred_PC' = npc /\ fetch_regs_PC' = npc
       ELSE UNCHANGED <<fetch_pred_PC, fetch_regs_PC>>
    /\ UNCHANGED <<fetch_tail, ruu_fetch_issue_delay>>

Consume(i, npc) ==
    IF Redirects(i, npc)
    THEN /\ fetch_pred_PC' = npc /\ fetch_regs_PC' = npc
         /\ fetch_head' = 0 /\ fetch_num' = 0 /\ fetch_tail' = 0
         /\ ruu_fetch_issue_delay' =
               IF options.perfect THEN ruu_fetch_issue_delay ELSE ruu_branch_penalty
    ELSE /\ fetch_head' = NextSlot(fetch_head)
         /\ fetch_num' = fetch_num - 1
         /\ UNCHANGED <<fetch_pred_PC, fetch_regs_PC, fetch_tail, ruu_fetch_issue_delay>>

(* A NOP takes no station.                                                 *)
DispatchNop(i, npc) ==
    /\ i.op = "nop"
    /\ Consume(i, npc)
    /\ UNCHANGED <<station, RUU_tail, RUU_num, LSQ_tail, LSQ_num, rslink_free,
                   ready_queue, cvVars, inst_seq, last_op, specVars, count>>

DispatchOp(i, npc) ==
    LET newest == IF i.op \in F_MEM THEN LSQNew ELSE RUUNew
        mem == IF i.op \in F_MEM THEN 1 ELSE 0
    IN i.op \notin {"nop", "exit"} /\ \E c \in {Allocated(i, npc)} :
       /\ Consume(i, npc)
       /\ station' = [c.station EXCEPT ![RUUNew].recover_inst = Mispredicted(i, npc)]
       /\ ready_queue' = c.ready_queue /\ rslink_free' = c.free
       /\ create_vector' = c.cv /\ spec_create_vector' = c.spec_cv
       /\ use_spec_cv' = c.use
       /\ RUU_tail' = (RUU_tail + 1) % RUU_size /\ RUU_num' = RUU_num + 1
       /\ LSQ_tail' = (LSQ_tail + mem) % LSQ_size /\ LSQ_num' = LSQ_num + mem
       /\ inst_seq' = inst_seq + 1 + mem
       /\ last_op' = IF mem = 0 /\ OPERANDS_READY(c.station[RUUNew]) THEN <<>>
                     ELSE <<[rs |-> newest, tag |-> station[newest].tag]>>
       /\ spec_mode' = (spec_mode \/ Mispredicted(i, npc))
       /\ recover_PC' = IF Mispredicted(i, npc) THEN npc ELSE recover_PC
       /\ count' = count + 1

ruu_dispatch ==
    /\ CanDispatch
    /\ LET i == Inst(Fetched.regs_PC)
       IN \E npc \in NextPCs(Fetched.regs_PC) : DispatchNop(i, npc) \/ DispatchOp(i, npc)
    /\ UNCHANGED <<programVars, stage, RUU_head, LSQ_head, event_queue, issueVars,
                   fetch_data, uncached, branch_cnt, busy>>

(* The exit system call ends the simulation when it executes.              *)
ruu_dispatch_exit ==
    /\ CanDispatch
    /\ Inst(Fetched.regs_PC).op = "exit"
    /\ stage' = "exited"
    /\ UNCHANGED <<programVars, station, ruuVars, lsqVars, rslink_free, event_queue,
                   ready_queue, issueVars, cvVars, inst_seq, last_op, specVars,
                   ifqVars, fetchVars, count, branch_cnt, busy>>

ruu_dispatch_done ==
    /\ stage = "dispatch" /\ ~CanDispatch
    /\ stage' = IF options.bugcompat THEN "refresh" ELSE "fetch"
    /\ count' = 0
    /\ UNCHANGED <<programVars, station, ruuVars, lsqVars, rslink_free, event_queue,
                   ready_queue, issueVars, cvVars, inst_seq, last_op, specVars,
                   ifqVars, fetchVars, branch_cnt, busy>>

-----------------------------------------------------------------------------
(* Fetch, and the end of the cycle.                                        *)

CanFetch ==
    /\ stage = "fetch" /\ ruu_fetch_issue_delay = 0
    /\ count < ruu_decode_width * fetch_speed
    /\ fetch_num < ruu_ifq_size
    /\ branch_cnt < fetch_speed

(* What the predictor may answer for a control instruction, but not taken: *)
(* its target, whatever address the BTB or the stack holds, or 1, "taken", *)
(* if it knows no target, which is outside of the text.                    *)
Predictions(pc) == IF Inst(pc).op \in F_CTRL THEN PCs ELSE {}

ruu_fetch ==
    /\ CanFetch
    /\ fetch_pred_PC \notin uncached
    /\ fetch_regs_PC' = fetch_pred_PC
    /\ \/ /\ fetch_pred_PC' = Following(fetch_pred_PC)
          /\ UNCHANGED branch_cnt
       \/ /\ fetch_pred_PC' \in Predictions(fetch_pred_PC)
          /\ branch_cnt' = branch_cnt + 1
    /\ fetch_data' = [fetch_data EXCEPT ![fetch_tail] =
                         [regs_PC |-> fetch_pred_PC, pred_PC |-> fetch_pred_PC']]
    /\ fetch_tail' = NextSlot(fetch_tail)
    /\ fetch_num' = fetch_num + 1
    /\ count' = count + 1
    /\ UNCHANGED <<programVars, stage, station, ruuVars, lsqVars, rslink_free,
                   event_queue, ready_queue, issueVars, cvVars, inst_seq, last_op,
                   specVars, fetch_head, ruu_fetch_issue_delay, uncached, busy>>

EndCycle ==
    /\ stage' = "commit" /\ count' = 0 /\ branch_cnt' = 0
    /\ event_queue' = [i \in DOMAIN event_queue |-> [event_queue[i] EXCEPT !.x = @ - 1]]
    /\ UNCHANGED <<programVars, station, ruuVars, lsqVars, rslink_free, ready_queue,
                   issueVars, cvVars, inst_seq, last_op, specVars, ifqVars,
                   fetch_pred_PC, busy>>

(* A miss of the I-cache blocks fetch; then the line is there.             *)
ruu_fetch_miss ==
    /\ CanFetch
    /\ fetch_pred_PC \in uncached
    /\ \E lat \in MissLatencies : ruu_fetch_issue_delay' = lat - 1
    /\ fetch_regs_PC' = fetch_pred_PC
    /\ uncached' = uncached \ {fetch_pred_PC}
    /\ EndCycle

ruu_fetch_done ==
    /\ stage = "fetch" /\ ~CanFetch
    /\ ruu_fetch_issue_delay' =
          IF ruu_fetch_issue_delay = 0 THEN 0 ELSE ruu_fetch_issue_delay - 1
    /\ EndCycle
    /\ UNCHANGED <<fetch_regs_PC, uncached>>

Exited == stage = "exited" /\ UNCHANGED vars

Next ==
    \/ ruu_commit \/ ruu_release_fu
    \/ ruu_writeback \/ ruu_writeback_done
    \/ lsq_refresh \/ ruu_issue \/ ruu_issue_done
    \/ ruu_dispatch \/ ruu_dispatch_exit \/ ruu_dispatch_done
    \/ ruu_fetch \/ ruu_fetch_miss \/ ruu_fetch_done
    \/ Exited

Spec == Init /\ [][Next]_vars
FairSpec == Spec /\ WF_vars(Next)
=============================================================================
