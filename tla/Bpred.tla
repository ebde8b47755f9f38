-------------------------------- MODULE Bpred --------------------------------
(***************************************************************************)
(* The branch predictor of bpred.c, driven as sim-outorder.c drives it: a  *)
(* branch is looked up when it is fetched, trains the predictor when it is *)
(* dispatched (ID), written back (WB) or committed (CT), and is in flight  *)
(* in between, while younger branches are looked up.                       *)
(*                                                                         *)
(* An address is a number, an instruction has size 1, and addresses below  *)
(* 2 are none: bpred_lookup returns 0 for "not taken" and 1 for "taken,    *)
(* target unknown".  What a program does is not modelled: any branch may   *)
(* follow any other, with any of its outcomes.                             *)
(***************************************************************************)
EXTENDS Integers, Sequences, FiniteSets

CONSTANT Configs            \* options and branches of the runs

\* What bpred_create and bpred_dir_create make of a class, and accept as sizes.
DirNames(class) ==
    CASE class = "Comb" -> {"twolev", "bimod", "meta"}
      [] class = "2Level" -> {"twolev"}
      [] class = "2bit" -> {"bimod"}
      [] OTHER -> {}
IsDir(d) ==
    \/ d.class = "2Level" /\ {d.l1size, d.l2size} \subseteq Nat \ {0} /\ d.shift_width \in 1 .. 30
    \/ d.class = "2bit" /\ d.size \in Nat \ {0}

ASSUME ConfigsAssumption == \A c \in Configs :
    /\ c.class \in {"Comb", "2Level", "2bit", "Taken", "NotTaken"}
    /\ DOMAIN c.dir = DirNames(c.class) /\ \A name \in DOMAIN c.dir : IsDir(c.dir[name])
    /\ {c.btb_sets, c.btb_assoc, c.retstack_size} \subseteq Nat
    /\ c.class \notin {"Taken", "NotTaken"} => c.btb_sets # 0 /\ c.btb_assoc # 0
    /\ c.spec_update \in {"ID", "WB", "CT"}
    /\ \A pc \in DOMAIN c.kind : pc \in Nat /\ pc > 1

\* A history register is an int of up to 30 bits.
ASSUME RegistersAssumption == \A width \in 1 .. 30 : 2 ^ width \in Nat \ {0}

VARIABLES
    config,
    counters,               \* per component and index: a saturating counter
    shiftregs,              \* per two-level component and index: recent outcomes
    btb,                    \* per set and way: address, target and LRU links
    entered,                \* history: the last branch that entered the BTB, or 0
    tos, stack,             \* the return-address stack
    flight,                 \* the branches in flight, oldest first
    spec_mode,              \* dispatch is on a wrong path
    lost_path,              \* history: fetch is on a wrong path
    top, callers,           \* history: the return stack of the right path
    disturbed               \* history: which of the two has been lost

tables == <<counters, shiftregs, btb, entered>>
retstack == <<tos, stack>>
history == <<top, callers, disturbed>>
vars == <<config, tables, retstack, flight, spec_mode, lost_path, history>>

Kind(pc) == config.kind[pc]
PCs == DOMAIN config.kind
Cond(pc) == Kind(pc) = "cond"
IsCall(pc) == Kind(pc) \in {"call", "callr"}
IsReturn(pc) == Kind(pc) = "return"
IsDirect(pc) == Kind(pc) \in {"cond", "jump", "call"}
Outcomes(pc) == config.targets[pc] \cup (IF Cond(pc) THEN {pc + 1} ELSE {})

Stateful == config.class \notin {"Taken", "NotTaken"}
Components == DOMAIN config.dir
Dir(component) == config.dir[component]
NULL == <<>>                \* of a pointer to a counter: <<component, index>>
NoWay == -1

Size(component) ==
    IF Dir(component).class = "2Level" THEN Dir(component).l2size ELSE Dir(component).size
TwoLevels == {c \in Components : Dir(c).class = "2Level"}

\* Counters start weakly taken or not, alternating; the ways of a set are linked.
bpred_create(c) ==
    /\ config = c
    /\ counters = [d \in Components |-> [i \in 0 .. Size(d) - 1 |-> 1 + (i % 2)]]
    /\ shiftregs = [d \in TwoLevels |-> [i \in 0 .. Dir(d).l1size - 1 |-> 0]]
    /\ btb = [s \in 0 .. c.btb_sets - 1 |-> [w \in 0 .. c.btb_assoc - 1 |->
                [addr |-> 0, target |-> 0, prev |-> w - 1,
                 next |-> IF w = c.btb_assoc - 1 THEN NoWay ELSE w + 1]]]
    /\ stack = [i \in 0 .. c.retstack_size - 1 |-> 0]
    /\ tos = c.retstack_size - 1

Init ==
    /\ \E c \in Configs : bpred_create(c)
    /\ entered = 0
    /\ flight = <<>> /\ spec_mode = FALSE /\ lost_path = FALSE
    /\ top = tos /\ callers = <<>> /\ disturbed = "none"

-----------------------------------------------------------------------------
(* bpred_lookup.                                                           *)

\* The history alone is the index if xor is set, else the address is put above it.
L1Index(d, pc) == pc % Dir(d).l1size
L2Index(d, pc) ==
    LET hist == shiftregs[d][L1Index(d, pc)]
    IN (IF Dir(d).xor THEN hist ELSE hist + pc * 2 ^ Dir(d).shift_width) % Dir(d).l2size

bpred_dir_lookup(d, pc) ==
    <<d, IF Dir(d).class = "2Level" THEN L2Index(d, pc) ELSE pc % Dir(d).size>>

Counter(p) == counters[p[1]][p[2]]
MetaTwolev(pmeta) == Counter(pmeta) >= 4

\* The update record: the counters consulted, and what each predicted.
NoUpdate == [pdir1 |-> NULL, pdir2 |-> NULL, pmeta |-> NULL,
             ras |-> FALSE, bimod |-> FALSE, twolev |-> FALSE]
DirUpdate(pc) ==
    IF ~Cond(pc) \/ ~Stateful THEN NoUpdate
    ELSE IF config.class # "Comb"
         THEN [NoUpdate EXCEPT !.pdir1 = bpred_dir_lookup(
                 IF config.class = "2Level" THEN "twolev" ELSE "bimod", pc)]
    ELSE LET bimod == bpred_dir_lookup("bimod", pc)
             twolev == bpred_dir_lookup("twolev", pc)
             meta == bpred_dir_lookup("meta", pc)
         IN [NoUpdate EXCEPT
               !.pmeta = meta,
               !.bimod = Counter(bimod) >= 2, !.twolev = Counter(twolev) >= 4,
               !.pdir1 = IF MetaTwolev(meta) THEN twolev ELSE bimod,
               !.pdir2 = IF MetaTwolev(meta) THEN bimod ELSE twolev]

BTBSet(pc) == pc % config.btb_sets
BTBWays == 0 .. config.btb_assoc - 1
BTBHits(pc) == {w \in BTBWays : btb[BTBSet(pc)][w].addr = pc}
BTBTarget(pc) == btb[BTBSet(pc)][CHOOSE w \in BTBHits(pc) : TRUE].target

UsesRAS(pc) == Stateful /\ IsReturn(pc) /\ config.retstack_size # 0
Pushes(pc) == Stateful /\ IsCall(pc) /\ config.retstack_size # 0
Below(t) == (t + config.retstack_size - 1) % config.retstack_size
Above(t) == (t + 1) % config.retstack_size

\* The static predictors are given no target and always predict the next address.
bpred_lookup(pc) ==
    CASE ~Stateful -> 0
      [] UsesRAS(pc) -> stack[tos]
      [] ~UsesRAS(pc) /\ Stateful /\ Cond(pc) /\ Counter(DirUpdate(pc).pdir1) < 2 -> 0
      [] OTHER -> IF BTBHits(pc) = {} THEN 1 ELSE BTBTarget(pc)

(* ruu_fetch: look the branch up and go on at the predicted address.       *)
pred_PC(pc) == IF bpred_lookup(pc) = 0 THEN pc + 1 ELSE bpred_lookup(pc)

NextTOS(pc) == CASE UsesRAS(pc) -> Below(tos) [] Pushes(pc) -> Above(tos) [] OTHER -> tos

\* What is lost is not followed any more.
Lose(what) ==
    /\ disturbed' = IF disturbed = "top" THEN "top" ELSE what
    /\ callers' = <<>>
    /\ top' = IF disturbed' = "top" THEN 0 ELSE top

CallersAfter(pc) ==
    CASE disturbed # "none" -> <<>>
      [] disturbed = "none" /\ Pushes(pc) -> SubSeq(<<pc + 1>> \o callers, 1,
                              IF Len(callers) < config.retstack_size THEN Len(callers) + 1
                              ELSE config.retstack_size)
      [] disturbed = "none" /\ UsesRAS(pc) /\ callers # <<>> -> Tail(callers)
      [] OTHER -> callers

RecoverIndex(pc) == IF config.retstack_size = 0 \/ ~Stateful THEN 0 ELSE tos

\* Mutant: the address is written before the top moves.
PushSlotBelow == tos
PushSlot == Above(tos)

ruu_fetch(pc, next_PC) ==
    /\ Len(flight) < config.max_flight
    /\ flight' = Append(flight,
         [pc |-> pc, next_PC |-> next_PC, pred_PC |-> pred_PC(pc),
          dir_update |-> [DirUpdate(pc) EXCEPT !.ras = UsesRAS(pc)],
          stack_recover_idx |-> RecoverIndex(pc),
          wrong |-> lost_path, stage |-> "fetched", recover |-> FALSE])
    /\ tos' = NextTOS(pc)
    /\ stack' = IF Pushes(pc) THEN [stack EXCEPT ![PushSlot] = pc + 1] ELSE stack
    /\ lost_path' = (lost_path \/ pred_PC(pc) # next_PC)
    /\ IF lost_path
       THEN IF Pushes(pc) THEN Lose("callers") ELSE UNCHANGED history
       ELSE /\ top' = IF disturbed = "top" THEN 0 ELSE NextTOS(pc)
            /\ callers' = CallersAfter(pc)
            /\ UNCHANGED disturbed
    /\ UNCHANGED <<config, tables, spec_mode>>

-----------------------------------------------------------------------------
(* bpred_update, of a branch in flight.                                    *)

Taken(e) == e.next_PC # e.pc + 1
Correct(e) == e.pred_PC = e.next_PC

\* The history of every two-level component, the chosen one or not, is shifted.
Shifted(e) ==
    [d \in TwoLevels |->
       [shiftregs[d] EXCEPT ![L1Index(d, e.pc)] =
          (2 * @ + (IF Taken(e) THEN 1 ELSE 0)) % 2 ^ Dir(d).shift_width]]

\* A counter of the combination saturates at 7 or 3, by what the meta predictor
\* says now of the component the counter belonged to at the lookup.
Limit(e, p) ==
    LET pmeta == e.dir_update.pmeta
    IN IF pmeta # NULL /\ MetaTwolev(pmeta) = (p = e.dir_update.pdir1) THEN 7 ELSE 3

Trained(n, taken, limit) ==
    IF taken THEN IF n < limit THEN n + 1 ELSE n ELSE IF n > 0 THEN n - 1 ELSE 0

\* The meta predictor moves towards the component that was right alone.
Voted(e, n) ==
    IF e.dir_update.bimod = e.dir_update.twolev THEN n
    ELSE Trained(n, e.dir_update.twolev = Taken(e), 7)

Counted(e) ==
    [d \in Components |-> [i \in DOMAIN counters[d] |->
       LET p == <<d, i>> IN
       IF p \in {e.dir_update.pdir1, e.dir_update.pdir2}
       THEN Trained(counters[d][i], Taken(e), Limit(e, p))
       ELSE IF p = e.dir_update.pmeta THEN Voted(e, counters[d][i])
       ELSE counters[d][i]]]

Head_(set) == CHOOSE w \in BTBWays : set[w].prev = NoWay
Last_(set) == CHOOSE w \in BTBWays : set[w].next = NoWay

\* Mutant: the successor keeps its link to the entry that moves.
SplicedHalf(set, w) ==
    IF w = Head_(set) THEN set
    ELSE [x \in BTBWays |->
       [set[x] EXCEPT
          !.next = CASE x = w -> Head_(set) [] x = set[w].prev -> set[w].next [] OTHER -> @,
          !.prev = CASE x = w -> NoWay [] x = Head_(set) -> w [] OTHER -> @]]

\* The entry is spliced out and becomes the head.
Spliced(set, w) ==
    IF w = Head_(set) THEN set
    ELSE [x \in BTBWays |->
       [set[x] EXCEPT
          !.next = CASE x = w -> Head_(set) [] x = set[w].prev -> set[w].next [] OTHER -> @,
          !.prev = CASE x = w -> NoWay [] x = Head_(set) -> w
                     [] x = set[w].next -> set[w].prev [] OTHER -> @]]

BTBVictim(pc) == Last_(btb[BTBSet(pc)])

\* Mutant: a branch that is there already stays where it is in the list.
EnteredInPlace(e) ==
    LET hit == BTBHits(e.pc) # {}
        w == IF hit THEN CHOOSE x \in BTBHits(e.pc) : TRUE ELSE BTBVictim(e.pc)
        set == IF hit THEN btb[BTBSet(e.pc)] ELSE Spliced(btb[BTBSet(e.pc)], w)
    IN [btb EXCEPT ![BTBSet(e.pc)] =
          [set EXCEPT ![w].addr = e.pc,
                      ![w].target = IF hit /\ Correct(e) THEN @ ELSE e.next_PC]]

\* A taken branch enters the BTB; if it is there, a wrong target is corrected.
Entered(e) ==
    LET hit == BTBHits(e.pc) # {}
        w == IF hit THEN CHOOSE x \in BTBHits(e.pc) : TRUE ELSE BTBVictim(e.pc)
        set == Spliced(btb[BTBSet(e.pc)], w)
    IN [btb EXCEPT ![BTBSet(e.pc)] =
          [set EXCEPT ![w].addr = e.pc,
                      ![w].target = IF hit /\ Correct(e) THEN @ ELSE e.next_PC]]

bpred_update(e) ==
    IF e.dir_update.ras \/ ~Stateful THEN UNCHANGED tables
    ELSE /\ shiftregs' = IF Cond(e.pc) THEN Shifted(e) ELSE shiftregs
         /\ counters' = Counted(e)
         /\ IF Taken(e) THEN btb' = Entered(e) /\ entered' = e.pc
            ELSE UNCHANGED <<btb, entered>>

UpdateAt(stage, e) == IF config.spec_update = stage THEN bpred_update(e) ELSE UNCHANGED tables

-----------------------------------------------------------------------------
(* The life of a branch after it has been fetched.                         *)

\* A direct branch that is predicted taken to a wrong target is found out when
\* it is decoded: the younger fetched instructions are dropped.
Redirects(e) ==
    /\ IsDirect(e.pc) /\ e.pred_PC # e.pc + 1
    /\ \A target \in config.targets[e.pc] : e.pred_PC # target

StackUser(e) == UsesRAS(e.pc) \/ Pushes(e.pc)

\* Mutant: branches of a wrong path train the predictor.
TrainsAtDecodeAll(e) == TRUE
TrainsAtDecode(e) == ~spec_mode

Mispredicted(e) == ~spec_mode /\ ~Correct(e) /\ ~Redirects(e)

ruu_dispatch(i) ==
    LET e == flight[i]
        done == [e EXCEPT !.stage = "dispatched", !.recover = Mispredicted(e)]
    IN /\ e.stage = "fetched" /\ \A j \in 1 .. i - 1 : flight[j].stage # "fetched"
       /\ IF Redirects(e)
          THEN /\ flight' = Append(SubSeq(flight, 1, i - 1), done)
               /\ lost_path' = e.wrong
               /\ IF \E j \in i + 1 .. Len(flight) : StackUser(flight[j])
                  THEN Lose("top") ELSE UNCHANGED history
          ELSE flight' = [flight EXCEPT ![i] = done] /\ UNCHANGED <<lost_path, history>>
       /\ spec_mode' = (spec_mode \/ Mispredicted(e))
       /\ IF TrainsAtDecode(e) THEN UpdateAt("ID", e) ELSE UNCHANGED tables
       /\ UNCHANGED <<config, retstack>>

\* Mutant: the return stack is left as the wrong path has made it.
bpred_recover_none(e) == tos
bpred_recover(e) == e.stack_recover_idx

ruu_writeback(i) ==
    LET e == flight[i]
        done == [e EXCEPT !.stage = "done"]
    IN /\ e.stage = "dispatched"
       /\ IF e.recover
          THEN /\ flight' = Append(SubSeq(flight, 1, i - 1), done)
               /\ tos' = bpred_recover(e)
               /\ spec_mode' = FALSE /\ lost_path' = FALSE
               /\ IF StackUser(e) THEN Lose("top") ELSE UNCHANGED history
          ELSE /\ flight' = [flight EXCEPT ![i] = done]
               /\ UNCHANGED <<tos, spec_mode, lost_path, history>>
       /\ UpdateAt("WB", e)
       /\ UNCHANGED <<config, stack>>

ruu_commit ==
    /\ flight # <<>> /\ flight[1].stage = "done"
    /\ flight' = Tail(flight)
    /\ UpdateAt("CT", flight[1])
    /\ UNCHANGED <<config, retstack, spec_mode, lost_path, history>>

Next ==
    \/ \E pc \in PCs : \E next_PC \in Outcomes(pc) : ruu_fetch(pc, next_PC)
    \/ \E i \in DOMAIN flight : ruu_dispatch(i) \/ ruu_writeback(i)
    \/ ruu_commit

Spec == Init /\ [][Next]_vars
=============================================================================
