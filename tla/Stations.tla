------------------------------ MODULE Stations ------------------------------
(***************************************************************************)
(* The reservation stations of the out-of-order core (sim-outorder.c): the *)
(* RUU and the LSQ, the tagged links that refer to a station without       *)
(* keeping it alive, and the two lists of links, the event queue and the   *)
(* ready queue.  A link stays in its list when its station is squashed;    *)
(* the tag of the station, which changes then, makes it stale.             *)
(***************************************************************************)
EXTENDS Integers, Sequences, SequencesExt, FiniteSets

CONSTANTS
    NA,                     \* no register
    RUU_size, LSQ_size,     \* stations of the two rings
    DTMP                    \* the register that carries an effective address

ASSUME SizesAssumption == RUU_size \in Nat \ {0} /\ LSQ_size \in Nat \ {0}

RUU == {"RUU"} \X (0 .. RUU_size - 1)
LSQ == {"LSQ"} \X (0 .. LSQ_size - 1)
Ids == RUU \cup LSQ

(* The ids of num stations of a ring from head on, oldest first.           *)
RingIds(ring, head, num, size) ==
    [k \in 1 .. num |-> <<ring, (head + k - 1) % size>>]

-----------------------------------------------------------------------------
(* Instructions: what the core asks of the flags of an opcode.             *)

F_MEM == {"load", "store"}
F_CTRL == {"branch", "jal", "jr"}
F_DIRJMP == {"branch", "jal"}
F_LONGLAT == {"div"}
F_TRAP == {"syscall", "exit"}

FUClass ==
    [agen |-> "IntALU", add |-> "IntALU", branch |-> "IntALU",
     div |-> "IntDIV", load |-> "RdPort", store |-> "WrPort",
     jal |-> "IntALU", jr |-> NA, syscall |-> NA, exit |-> NA]

-----------------------------------------------------------------------------
(* A station, as it is before its first use.                               *)

FreeStation ==
    [op |-> "add", PC |-> 0, next_PC |-> 0, addr |-> 0,
     in_LSQ |-> FALSE, ea_comp |-> FALSE, recover_inst |-> FALSE,
     spec_mode |-> FALSE, tag |-> 0, seq |-> 0,
     queued |-> FALSE, issued |-> FALSE, completed |-> FALSE,
     onames |-> <<NA, NA>>, odep_list |-> << <<>>, <<>> >>,
     idep_ready |-> <<FALSE, FALSE, FALSE>>]

OPERANDS_READY(rs) == \A k \in 1 .. 3 : rs.idep_ready[k]

IsStore(rs) == rs.op = "store"
IsLoad(rs) == rs.op = "load"

STORE_ADDR_READY(rs) == rs.idep_ready[2]

(* A link to the station id; x is its time, sequence or operand number.    *)
Link(station, id, x) == [rs |-> id, tag |-> station[id].tag, x |-> x]

\* Mutant: a link is good for as long as its station exists.
RSLINK_ALWAYS_VALID(station, link) == link.rs \in Ids

RSLINK_VALID(station, link) == link.tag = station[link.rs].tag

-----------------------------------------------------------------------------
(* The two lists.  Both insert before the first link that is not smaller;  *)
(* memory operations, long operations and branches go to the very front.   *)

FirstNotBelow(list, x) ==
    LET at == {i \in DOMAIN list : list[i].x >= x}
    IN IF at = {} THEN Len(list) + 1 ELSE CHOOSE i \in at : \A j \in at : i <= j

eventq_queue_event(queue, link) ==
    InsertAt(queue, FirstNotBelow(queue, link.x), link)

Urgent(rs) == rs.in_LSQ \/ rs.op \in F_LONGLAT \cup F_CTRL

(* Station id enqueued.  The lists are a record of the stations, the ready  *)
(* queue and the number of free links.                                     *)
readyq_enqueue(q, id) ==
    LET rs == q.station[id]
        link == Link(q.station, id, rs.seq)
    IN [q EXCEPT
          !.station[id].queued = TRUE,
          !.free = @ - 1,
          !.ready_queue =
              IF Urgent(rs) THEN <<link>> \o @
              ELSE InsertAt(@, FirstNotBelow(@, rs.seq), link)]

-----------------------------------------------------------------------------
(* One link of an output chain: it marks an operand of its station ready,  *)
(* and enqueues the station when that was the last one.  Loads wait for    *)
(* lsq_refresh.                                                            *)

Wake(q, link) ==
    LET woken == [q EXCEPT !.station[link.rs].idep_ready[link.x] = TRUE]
        rs == woken.station[link.rs]
    IN IF ~RSLINK_VALID(q.station, link) THEN q
       ELSE IF OPERANDS_READY(rs) /\ (rs.in_LSQ => IsStore(rs))
            THEN readyq_enqueue(woken, link.rs)
       ELSE woken

(* The links of an output chain, one after the other.                      *)
Woken(q, links) ==
    LET after[n \in 0 .. Len(links)] == IF n = 0 THEN q ELSE Wake(after[n - 1], links[n])
    IN after[Len(links)]

\* Mutant: a store without address is passed over.
RefreshPastUnknown(scan, id) ==
    LET rs == scan.q.station[id]
    IN IF IsLoad(rs) /\ ~rs.queued /\ ~rs.issued /\ OPERANDS_READY(rs)
          /\ ~Contains(scan.std_unknowns, rs.addr)
       THEN [scan EXCEPT !.q = readyq_enqueue(scan.q, id)]
       ELSE IF IsStore(rs) /\ STORE_ADDR_READY(rs) /\ ~OPERANDS_READY(rs)
       THEN [scan EXCEPT !.std_unknowns = Append(@, rs.addr)]
       ELSE scan

(* One entry of the load/store queue, oldest first: stores that do not     *)
(* know their address stop the scan, those that lack their data block the  *)
(* loads of the same address, unless a later store hides them, which       *)
(* leaves the address 0 in their place.                                    *)
Refresh(scan, id) ==
    LET rs == scan.q.station[id]
        waits == ~rs.queued /\ ~rs.issued /\ ~rs.completed
        hidden == [i \in DOMAIN scan.std_unknowns |->
                     IF scan.std_unknowns[i] = rs.addr THEN 0
                     ELSE scan.std_unknowns[i]]
    IN CASE scan.stop -> scan
         [] ~scan.stop /\ IsStore(rs) ->
              IF ~STORE_ADDR_READY(rs) THEN [scan EXCEPT !.stop = TRUE]
              ELSE [scan EXCEPT !.std_unknowns =
                      IF OPERANDS_READY(rs) THEN hidden
                      ELSE Append(@, rs.addr)]
         [] OTHER ->
              IF IsLoad(rs) /\ waits /\ OPERANDS_READY(rs)
                 /\ ~Contains(scan.std_unknowns, rs.addr)
              THEN [scan EXCEPT !.q = readyq_enqueue(scan.q, id)]
              ELSE scan

Refreshed(scan, lsq) ==
    LET after[n \in 0 .. Len(lsq)] == IF n = 0 THEN scan ELSE Refresh(after[n - 1], lsq[n])
    IN after[Len(lsq)]

(* A store before the load id, to the same address, forwards its data.     *)
Forwards(station, lsq, id) ==
    \E i, j \in DOMAIN lsq :
        /\ i < j /\ lsq[j] = id
        /\ IsStore(station[lsq[i]])
        /\ station[lsq[i]].addr = station[id].addr

-----------------------------------------------------------------------------
(* Dependences of a new station.  The rename state is the lists and the    *)
(* creation vectors: for each register the station and output that will    *)
(* make its value, copied on write while instructions are speculative.     *)

NoRS == <<"none", 0>>
CVLINK_NULL == [rs |-> NoRS, odep_num |-> 1]

CREATE_VECTOR(c, r) == IF r \in c.use THEN c.spec_cv[r] ELSE c.cv[r]

ruu_link_idep(c, id, k, r) ==
    LET head == IF r = NA THEN CVLINK_NULL ELSE CREATE_VECTOR(c, r)
    IN IF head.rs = NoRS THEN [c EXCEPT !.station[id].idep_ready[k] = TRUE]
       ELSE LET waits == [c EXCEPT !.station[id].idep_ready[k] = FALSE]
            IN [waits EXCEPT !.station[head.rs].odep_list[head.odep_num] =
                                <<Link(c.station, id, k)>> \o @,
                             !.free = @ - 1]

ruu_install_odep(c, id, k, r) ==
    LET made == [rs |-> id, odep_num |-> k]
        named == [c EXCEPT !.station[id].onames[k] = r]
    IN IF r = NA THEN named
       ELSE LET new == [named EXCEPT !.station[id].odep_list[k] = <<>>]
            IN IF c.station[id].spec_mode
               THEN [new EXCEPT !.use = @ \cup {r}, !.spec_cv[r] = made]
               ELSE [new EXCEPT !.cv[r] = made]

(* Outputs are installed after the inputs, to prevent a self reference.    *)
Renamed(c, id, ins, outs) ==
    LET in1 == ruu_link_idep(c, id, 1, ins[1])
        in2 == ruu_link_idep(in1, id, 2, ins[2])
        in3 == ruu_link_idep(in2, id, 3, ins[3])
        out1 == ruu_install_odep(in3, id, 1, outs[1])
    IN ruu_install_odep(out1, id, 2, outs[2])
=============================================================================
