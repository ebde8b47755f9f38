------------------------ MODULE PipelineProperties ------------------------
(***************************************************************************)
(* What makes the out-of-order core correct, whatever the order in which   *)
(* operations complete and mispredictions are found.                       *)
(***************************************************************************)
EXTENDS Pipeline

InFlight == ToSet(RUUIds) \cup ToSet(LSQIds)
Older(a, b) == station[a].seq < station[b].seq
Ops == {op \in DOMAIN FUClass : TRUE}

(* The core keeps its types: the rings, the queues of links, the modes.    *)
TypeOK ==
    /\ \E s \in Setups : text = s.text /\ options = s.options /\ uncached \subseteq s.uncached
    /\ stage \in {"commit", "writeback", "refresh", "issue", "dispatch", "fetch", "exited"}
    /\ RUU_head \in 0 .. RUU_size - 1 /\ RUU_tail \in 0 .. RUU_size - 1
    /\ LSQ_head \in 0 .. LSQ_size - 1 /\ LSQ_tail \in 0 .. LSQ_size - 1
    /\ \A id \in Ids : station[id].op \in Ops /\ station[id].tag \in Nat
    /\ fetch_head \in 0 .. ruu_ifq_size - 1 /\ fetch_tail \in 0 .. ruu_ifq_size - 1
    /\ fetch_pred_PC \in PCs /\ fetch_regs_PC \in PCs /\ recover_PC \in PCs
    /\ \A u \in DOMAIN fu_pool : busy[u] \in Nat

-----------------------------------------------------------------------------
(* The sanity checks of sim_main, and what commit and recovery rely on:    *)
(* the rings hold what their counts say, and the k-th address computation  *)
(* in the RUU belongs to the k-th access in the LSQ.                       *)
Agens == {k \in DOMAIN RUUIds : station[RUUIds[k]].ea_comp}

RingsInStep ==
    /\ RUU_num \in 0 .. RUU_size /\ LSQ_num \in 0 .. LSQ_size
    /\ RUU_tail = (RUU_head + RUU_num) % RUU_size
    /\ LSQ_tail = (LSQ_head + LSQ_num) % LSQ_size
    /\ fetch_num \in 0 .. ruu_ifq_size
    /\ fetch_tail = (fetch_head + fetch_num) % ruu_ifq_size
    /\ Cardinality(Agens) = LSQ_num
    /\ \A k \in 1 .. LSQ_num :
         /\ station[LSQIds[k]].in_LSQ
         /\ \E a \in Agens :
              /\ Cardinality({b \in Agens : b <= a}) = k
              /\ station[LSQIds[k]].seq = station[RUUIds[a]].seq + 1

(* The register operand k of a station reads.                              *)
Input(id, k) ==
    LET rs == station[id]
        in == Inst(rs.PC).in
    IN CASE rs.ea_comp -> <<NA, in[2], in[3]>>[k]
         [] rs.in_LSQ -> <<in[1], DTMP, NA>>[k]
         [] OTHER -> in[k]

Writes(p, r) == r # NA /\ \E j \in 1 .. 2 : station[p].onames[j] = r
Youngest(ids) == CHOOSE p \in ids : \A q \in ids : ~Older(p, q)

(* The links in the output chain j of p that make operand k of id ready.   *)
Chained(p, j, id, k) ==
    LET chain == station[p].odep_list[j]
    IN {n \in DOMAIN chain : chain[n].rs = id /\ chain[n].x = k /\ RSLINK_VALID(station, chain[n])}

(* An operand waits exactly for the youngest older instruction that writes *)
(* its register, as long as that has not completed, and is chained to it   *)
(* exactly once: no result is taken from another instruction, across       *)
(* squashes and reuse of stations, and no operand waits for ever.          *)
OperandsAwaited ==
    LET ids == InFlight
    IN \A id \in ids, k \in 1 .. 3 :
        LET r == Input(id, k)
            producers == {p \in ids : Writes(p, r) /\ Older(p, id)}
            pending == {p \in producers : p = Youngest(producers) /\ ~station[p].completed}
        IN /\ station[id].idep_ready[k] = (pending = {})
           /\ \A p \in ids, j \in 1 .. 2 :
                Cardinality(Chained(p, j, id, k)) =
                  IF p \in pending /\ station[p].onames[j] = r THEN 1 ELSE 0

(* The creation vectors name the youngest instruction in flight that will  *)
(* still write a register: the non-speculative one those that survive a    *)
(* recovery, the speculative one all.                                      *)
Creates(cv, r, ids) ==
    LET writers == {p \in ids : Writes(p, r)}
        last == Youngest(writers)
    IN IF writers = {} \/ station[last].completed THEN cv = CVLINK_NULL
       ELSE cv.rs = last /\ station[last].onames[cv.odep_num] = r

CreatorsAreLatest ==
    \A r \in Regs \cup {DTMP} :
        /\ Creates(create_vector[r], r, {p \in InFlight : ~station[p].spec_mode})
        /\ Creates(IF r \in use_spec_cv THEN spec_create_vector[r] ELSE create_vector[r],
                   r, InFlight)

-----------------------------------------------------------------------------
(* The links to a station in a list that are not stale.                    *)
LinksTo(list, id) ==
    {i \in DOMAIN list : list[i].rs = id /\ RSLINK_VALID(station, list[i])}

(* Events lie in the future and are in the order of their times, so that   *)
(* those that are due are a prefix of the queue.                           *)
EventsInOrder ==
    /\ \A i, j \in DOMAIN event_queue : i < j => event_queue[i].x <= event_queue[j].x
    /\ stage \notin {"commit", "writeback"} => \A i \in DOMAIN event_queue : event_queue[i].x > 0

(* An operation is in the ready queue once when it is queued, in the event *)
(* queue once when it executes, and in neither otherwise; once its         *)
(* operands are there it is queued, unless it is a load, for which         *)
(* lsq_refresh decides.  So no operation runs twice and none is forgotten; *)
(* the panics of readyq_enqueue, ruu_issue, eventq_queue_event and         *)
(* ruu_writeback are not reached.                                          *)
ScheduledOnce ==
    /\ EventsInOrder
    /\ \A id \in InFlight :
           LET rs == station[id]
               ready == Cardinality(LinksTo(ready_queue, id)) + Cardinality(LinksTo(node, id))
           IN /\ ready = IF rs.queued THEN 1 ELSE 0
              /\ Cardinality(LinksTo(event_queue, id)) =
                   IF rs.issued /\ ~rs.completed THEN 1 ELSE 0
              /\ rs.queued \/ rs.issued => OPERANDS_READY(rs) /\ ~(rs.queued /\ rs.issued)
              /\ rs.completed => rs.issued
              /\ OPERANDS_READY(rs) => rs.queued \/ rs.issued \/ IsLoad(rs)

(* Every link is free or in one list: completing, squashing and retiring   *)
(* neither lose nor duplicate one.                                         *)
LinksAccounted ==
    /\ rslink_free + Len(event_queue) + Len(ready_queue) + Len(node)
         + Chains(station, Ids) = MAX_RS_LINKS
    /\ \A id \in Ids : id \notin InFlight \/ station[id].completed =>
         station[id].odep_list = << <<>>, <<>> >>

(* Besides, the pool is never empty: the panic of RSLINK_NEW, "out of      *)
(* rs links", is not reached.                                              *)
LinksConserved == LinksAccounted /\ rslink_free > 0

(* A load executes when every older store knows its address, and the one   *)
(* that it takes its data from has them.                                   *)
LoadsAfterStores ==
    \A i, j \in DOMAIN LSQIds :
        LET store == station[LSQIds[i]]
            load == station[LSQIds[j]]
            between == {station[LSQIds[k]] : k \in i + 1 .. j - 1}
        IN i < j /\ IsStore(store) /\ IsLoad(load) /\ (load.queued \/ load.issued) =>
             /\ STORE_ADDR_READY(store)
             /\ store.addr = load.addr /\ (\A s \in between : IsStore(s) => s.addr # load.addr)
                  => OPERANDS_READY(store)

(* While fetch follows a mispredicted branch, that branch is in flight,    *)
(* not completed, and the only one that recovers; what is younger is       *)
(* speculative, what is older is not.  Otherwise nothing in flight is.     *)
SpeculationContained ==
    LET recovering == {id \in InFlight : station[id].recover_inst /\ ~station[id].completed}
    IN IF ~spec_mode
       THEN recovering = {} /\ \A id \in InFlight : ~station[id].spec_mode
       ELSE \E b \in ToSet(RUUIds) :
              /\ recovering = {b}
              /\ station[b].next_PC = recover_PC
              /\ \A id \in InFlight : station[id].spec_mode <=> Older(b, id)

-----------------------------------------------------------------------------
(* Stations retire in the order of the program, along the path it takes:   *)
(* nothing speculative retires, and nothing is lost or repeated by a       *)
(* recovery or a redirected fetch.                                         *)
OldestPC ==
    IF RUU_num > 0 THEN station[Oldest].PC
    ELSE IF fetch_num > 0 THEN Fetched.regs_PC ELSE fetch_pred_PC

Sequential == INSTANCE SequentialMachine WITH
    pc <- OldestPC, exited <- stage = "exited"

InProgramOrder == Sequential!Spec

(* Every program reaches its exit: no operation starves for a unit or a    *)
(* port, no store waits for ever for one at commit, no recovery is missed. *)
Exits == <>(stage = "exited")
=============================================================================
