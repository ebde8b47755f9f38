------------------------------- MODULE MCBpred -------------------------------
(***************************************************************************)
(* Predictors with tables of one or two entries, each with branches that   *)
(* reach the cases of one of its parts.                                    *)
(***************************************************************************)
EXTENDS BpredProperties, TLC

TwoLevel(l1size, l2size, width, xor) ==
    [class |-> "2Level", l1size |-> l1size, l2size |-> l2size,
     shift_width |-> width, xor |-> xor]
TwoBit(size) == [class |-> "2bit", size |-> size]

\* Addresses from 10 on; an instruction before a branch is not fetched.
Code(kind, targets) == [kind |-> kind, targets |-> targets]
OneCond == Code(10 :> "cond", 10 :> {20})
Loops == Code(10 :> "cond" @@ 13 :> "cond", 10 :> {20} @@ 13 :> {10})
Subroutines ==
    Code(10 :> "cond" @@ 13 :> "call" @@ 15 :> "return",
         10 :> {20} @@ 13 :> {15} @@ 15 :> {14})
Indirect == Code(10 :> "callr" @@ 15 :> "return", 10 :> {15, 20} @@ 15 :> {11})
Switches ==
    Code(10 :> "jr" @@ 12 :> "jr" @@ 14 :> "jump" @@ 16 :> "jump" @@ 18 :> "jump",
         10 :> {20, 30} @@ 12 :> {20} @@ 14 :> {20} @@ 16 :> {20} @@ 18 :> {20})

Setup(code, class, dir, update, sets, assoc, ras, max) ==
    [kind |-> code.kind, targets |-> code.targets, class |-> class, dir |-> dir,
     spec_update |-> update, btb_sets |-> sets, btb_assoc |-> assoc,
     retstack_size |-> ras, max_flight |-> max]

None == <<>>
Combined == [twolev |-> TwoLevel(1, 1, 1, FALSE), bimod |-> TwoLevel(1, 1, 1, FALSE),
             meta |-> TwoBit(1)]

Updates == {"ID", "WB", "CT"}
MCConfigs ==
    {Setup(OneCond, "Comb", Combined, u, 1, 1, 0, 2) : u \in Updates}
    \cup {Setup(Loops, "2Level", [twolev |-> TwoLevel(2, 4, 1, x)], "CT", 1, 1, 0, 1)
            : x \in BOOLEAN}
    \cup {Setup(Subroutines, "2bit", [bimod |-> TwoBit(1)], u, 1, 1, 2,
                IF u = "WB" THEN 3 ELSE 2) : u \in Updates}
    \cup {Setup(Indirect, "2bit", [bimod |-> TwoBit(1)], "ID", 2, 1, 2, 2)}
    \cup {Setup(Switches, "2bit", [bimod |-> TwoBit(1)], "CT", 1, 4, 0, 1)}
    \cup {Setup(Subroutines, c, None, "CT", 0, 0, 0, 2) : c \in {"Taken", "NotTaken"}}
=============================================================================
