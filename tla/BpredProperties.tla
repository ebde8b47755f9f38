--------------------------- MODULE BpredProperties ---------------------------
(***************************************************************************)
(* Properties of the branch predictor.                                     *)
(***************************************************************************)
EXTENDS Bpred

Pointers == {NULL} \cup UNION {{d} \X (0 .. Size(d) - 1) : d \in Components}

(* The tables keep their types.  Two-bit counters stay two bits wide, but  *)
(* for the bimodal component of the combination (see TwoBitCounters).      *)
TypeOK ==
    /\ \A d \in Components : \A i \in 0 .. Size(d) - 1 :
         counters[d][i] \in 0 .. (IF config.class = "Comb" THEN 7 ELSE 3)
    /\ \A d \in TwoLevels : \A i \in DOMAIN shiftregs[d] :
         shiftregs[d][i] \in 0 .. 2 ^ Dir(d).shift_width - 1
    /\ entered \in {0} \cup PCs
    /\ tos \in -1 .. config.retstack_size
    /\ {spec_mode, lost_path} \subseteq BOOLEAN
    /\ \A i \in DOMAIN flight :
         /\ flight[i].dir_update.pdir1 \in Pointers /\ flight[i].dir_update.pdir2 \in Pointers
         /\ flight[i].pc \in PCs /\ flight[i].stage \in {"fetched", "dispatched", "done"}

(* The LRU links of a set of the BTB, followed from the head, lead through *)
(* all ways and back, and no branch has two entries (the assertions of     *)
(* bpred_update): the splice has cases for the head, the tail and between. *)
NextWays(set) == {<<w, set[w].next>> : w \in BTBWays} \ (BTBWays \X {NoWay})
PrevWays(set) == {<<w, set[w].prev>> : w \in BTBWays} \ (BTBWays \X {NoWay})

LinkedWays ==
    config.btb_assoc > 1 => \A s \in DOMAIN btb :
      /\ Cardinality(NextWays(btb[s])) = config.btb_assoc - 1
      /\ PrevWays(btb[s]) = {<<p[2], p[1]>> : p \in NextWays(btb[s])}
      /\ \A X \in SUBSET BTBWays :
           X # {} /\ (\A p \in NextWays(btb[s]) : p[1] \in X => p[2] \in X) =>
             Last_(btb[s]) \in X
      /\ \A v, w \in BTBWays :
           btb[s][v].addr = btb[s][w].addr /\ btb[s][v].addr # 0 => v = w

(* The tables of the predictor are sound.                                  *)
TablesSound == TypeOK /\ LinkedWays

(* The branches of a set of the BTB from the one taken last.               *)
After(set) ==
    LET after[n \in 0 .. config.btb_assoc - 1] ==
          IF n = 0 THEN Head_(set) ELSE set[after[n - 1]].next
    IN after
Held(set) == {w \in BTBWays : set[w].addr # 0}
Order(set) == [n \in 1 .. Cardinality(Held(set)) |-> set[After(set)[n - 1]].addr]

(* The branch taken last, with its set.                                    *)
LastTaken == IF entered = 0 THEN <<>> ELSE <<BTBSet(entered), entered>>

Buffer == INSTANCE RecentBranches WITH
    recent <- [s \in DOMAIN btb |-> Order(btb[s])], capacity <- config.btb_assoc,
    taken <- LastTaken

(* A set of the BTB holds the branches taken most recently, in this order: *)
(* whichever branch is taken, and trains, comes to the front of its set,   *)
(* the one that gives way is the one that was taken longest ago, and       *)
(* nothing else changes the set.                                           *)
TakenLast == Buffer!Spec

(* After a recovery, and on the right path, the top of the return stack is *)
(* where the calls and returns of the right path have put it, whatever a   *)
(* wrong path has pushed and popped.  It is lost for good in two cases:    *)
(* when the mispredicted branch is itself a call or return, whose own push *)
(* or pop bpred_recover undoes, and when a redirected fetch drops calls or *)
(* returns, for which nothing is recovered.                                *)
TOSRecovered ==
    ~lost_path /\ disturbed # "top" /\ Stateful /\ config.retstack_size # 0 => tos = top

(* And as long as no call of a wrong path has overwritten an entry, the    *)
(* innermost callers are on the stack, as many as it holds.                *)
ReturnsToCaller ==
    ~lost_path /\ disturbed = "none" =>
      \A d \in DOMAIN callers :
        stack[(tos + config.retstack_size - (d - 1)) % config.retstack_size] = callers[d]

(* "only non-speculative state is committed into the BTB"                  *)
(* (sim-outorder.c:4060): unless the predictor is trained at writeback, a  *)
(* branch of a wrong path changes no table.                                *)
RightPathTrains ==
    [][tables' # tables =>
         CASE config.spec_update = "ID" ->
                \E i \in DOMAIN flight' : /\ flight[i].stage = "fetched" /\ ~flight[i].wrong
                                         /\ flight'[i].stage = "dispatched"
           [] config.spec_update = "CT" -> ~flight[1].wrong
           [] OTHER -> TRUE]_vars

(* A run checks this one: bpred.c:881 and 904 call the counters of the     *)
(* bimodal component two bits wide.                                        *)
TwoBitCounters ==
    config.class = "Comb" =>
      \A i \in DOMAIN counters["bimod"] : counters["bimod"][i] <= 3
=============================================================================
