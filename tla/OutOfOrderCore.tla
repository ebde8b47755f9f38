--------------------------- MODULE OutOfOrderCore ---------------------------
(***************************************************************************)
(* What a machine with reservation stations promises about the order of     *)
(* events, whatever its registers do: instructions are issued in program    *)
(* order while a station of their unit is free, complete in any order,      *)
(* broadcast together whatever has completed, and commit in program order.  *)
(* Tomasulo implements it.                                                  *)
(***************************************************************************)
EXTENDS Integers, FiniteSets

CONSTANTS
  Size,       \* the longest program
  Units,      \* classes of reservation stations
  Capacity    \* how many stations each class has

VARIABLES
  program,    \* the unit each instruction needs, in program order
  length,     \* number of instructions read
  stage,      \* how far each instruction has come
  halted

avars == <<program, length, stage, halted>>

Slots == 0..(Size - 1)
\* An instruction is "waiting", "issued", "completed", "written", "committed".

AInit ==
  /\ program = [i \in Slots |-> "none"]
  /\ length = 0
  /\ stage = [i \in Slots |-> "waiting"]
  /\ halted = FALSE

\* The program is read before it runs.
Fetch ==
  /\ length < Size
  /\ \A i \in Slots : stage[i] = "waiting"
  /\ \E u \in Units : program' = [program EXCEPT ![length] = u]
  /\ length' = length + 1
  /\ UNCHANGED <<stage, halted>>

InFlight(u) == {i \in Slots : program[i] = u /\ stage[i] \in {"issued", "completed"}}

Dispatch(i) ==
  /\ i < length
  /\ stage[i] = "waiting"
  /\ \A j \in 0..(i - 1) : stage[j] # "waiting"
  /\ Cardinality(InFlight(program[i])) < Capacity[program[i]]
  /\ stage' = [stage EXCEPT ![i] = "issued"]
  /\ UNCHANGED <<program, length, halted>>

\* Any of the issued instructions may complete, several at once.
Finish ==
  /\ \E S \in SUBSET {i \in Slots : stage[i] = "issued"} :
       stage' = [i \in Slots |-> IF i \in S THEN "completed" ELSE stage[i]]
  /\ UNCHANGED <<program, length, halted>>

Broadcast ==
  /\ stage' = [i \in Slots |-> IF stage[i] = "completed" THEN "written" ELSE stage[i]]
  /\ UNCHANGED <<program, length, halted>>

Retire(i) ==
  /\ stage[i] = "written"
  /\ \A j \in 0..(i - 1) : stage[j] = "committed"
  /\ stage' = [stage EXCEPT ![i] = "committed"]
  /\ UNCHANGED <<program, length, halted>>

\* The machine stops only when everything has committed.
Halt ==
  /\ \A i \in 0..(length - 1) : stage[i] = "committed"
  /\ halted' = TRUE
  /\ UNCHANGED <<program, length, stage>>

ANext == /\ ~halted
         /\ \/ Fetch \/ Finish \/ Broadcast \/ Halt
            \/ \E i \in Slots : Dispatch(i) \/ Retire(i)

ASpec == AInit /\ [][ANext]_avars
=============================================================================
