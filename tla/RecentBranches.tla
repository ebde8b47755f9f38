--------------------------- MODULE RecentBranches ---------------------------
(***************************************************************************)
(* What the BTB promises: each of its sets remembers the branches that     *)
(* were taken most recently, as many as it has ways.  The branch taken is  *)
(* visible, so that it is this one that comes to the front of its set.     *)
(***************************************************************************)
EXTENDS Sequences, SequencesExt, Integers

VARIABLES
    recent,                 \* per set: branches, from the one taken last
    taken,                  \* the set and address of the branch taken last
    capacity                \* never changes

rvars == <<recent, taken, capacity>>

Init ==
    /\ capacity \in Nat /\ \A s \in DOMAIN recent : recent[s] = <<>>
    /\ taken = <<>>

Others(s, branch) == RemoveFirst(recent[s], branch)

TakenBranch(s, branch) ==
    LET longest == Len(Others(s, branch)) + 1
    IN recent' = [recent EXCEPT ![s] =
         SubSeq(<<branch>> \o Others(s, branch), 1,
                IF longest < capacity THEN longest ELSE capacity)]

Next ==
    /\ taken' # <<>> /\ taken'[1] \in DOMAIN recent
    /\ TakenBranch(taken'[1], taken'[2])
    /\ UNCHANGED capacity

Spec == Init /\ [][Next]_rvars
=============================================================================
