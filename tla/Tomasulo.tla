------------------------------ MODULE Tomasulo ------------------------------
(***************************************************************************)
(* The Tomasulo simulator of Project2 (main.c, tomasulo.c, tomasulo.h).     *)
(*                                                                         *)
(* main() reads a program of at most MAX_INST_NUM instructions and then    *)
(* runs one loop iteration per clock cycle.  An iteration is a fixed        *)
(* sequence of passes over the reservation stations; each pass is one       *)
(* action here and "phase" names the pass that runs next:                   *)
(*                                                                         *)
(*   Read -> Tick -> Commit -> Writeback -> Complete -> Refresh -> Issue    *)
(*             ^                                                     |     *)
(*             +---------------------- Start <-----------------------+     *)
(*                                       |                                 *)
(*                                      Done                               *)
(*                                                                         *)
(* The four station arrays of main() are one set of station numbers, laid  *)
(* out in the order every pass visits them: loads, stores, adders,          *)
(* multipliers.  Only the fields some decision or result depends on are     *)
(* kept: the copies of an instruction's fields in its station (op,          *)
(* dest_tag, base_tag, offset) are read through inst_ptr, Vj/Vk are the     *)
(* complement of Qj/Qk, and the valid and inst_ptr fields of a register     *)
(* are only ever written.                                                   *)
(***************************************************************************)
EXTENDS Integers

CONSTANTS
  NUM_LOAD_RS, NUM_STORE_RS,        \* sizes of the station arrays
  NUM_ADD_SUB_RS, NUM_MUL_DIV_RS,
  LW_CYCLE, SW_CYCLE, ADD_SUB_CYCLE, MUL_CYCLE, DIV_CYCLE,
  MAX_INST_NUM,                     \* capacity of the instruction table
  Lines,                            \* the input lines a trace file may hold
  MaxCycle                          \* bound on cycle_counter (model only)

ASSUME StationsAssumption ==
  /\ NUM_LOAD_RS \in Nat \ {0}    /\ NUM_STORE_RS \in Nat \ {0}
  /\ NUM_ADD_SUB_RS \in Nat \ {0} /\ NUM_MUL_DIV_RS \in Nat \ {0}
  /\ NUM_LOAD_RS = NUM_STORE_RS   \* rs_ls_init clears both with one bound

ASSUME CyclesAssumption ==
  /\ LW_CYCLE \in Nat \ {0}      /\ SW_CYCLE \in Nat \ {0}
  /\ ADD_SUB_CYCLE \in Nat \ {0} /\ MUL_CYCLE \in Nat \ {0}
  /\ DIV_CYCLE \in Nat \ {0}

ASSUME SizeAssumption == MAX_INST_NUM \in Nat \ {0} /\ MaxCycle \in Nat

ASSUME LinesAssumption ==
  Lines \subseteq [op: STRING, dest: STRING, src_1: STRING, src_2: STRING]

VALUE_EMPTY == -1
NO_REG      == 8      \* the enumerator after F14
MEM_OFFSET  == 5000   \* a register value MEM_OFFSET + ID is "result of ID"

Regs == 0..7          \* F0, F2, ..., F14
IDs  == 0..(MAX_INST_NUM - 1)

Loads    == 0..(NUM_LOAD_RS - 1)
Stores   == NUM_LOAD_RS..(NUM_LOAD_RS + NUM_STORE_RS - 1)
AddBase  == NUM_LOAD_RS + NUM_STORE_RS
Adds     == AddBase..(AddBase + NUM_ADD_SUB_RS - 1)
MulBase  == AddBase + NUM_ADD_SUB_RS
Muls     == MulBase..(MulBase + NUM_MUL_DIV_RS - 1)
Alus     == Adds \cup Muls
Stations == Loads \cup Stores \cup Alus

Types == {"LW", "SW", "ADD", "SUB", "MUL", "DIV"}

\* The stations an instruction type may use, and how long it executes.
StationsOf(type) ==
  CASE type = "LW" -> Loads
    [] type = "SW" -> Stores
    [] type \in {"ADD", "SUB"} -> Adds
    [] OTHER -> Muls

Latency(type) ==
  CASE type = "LW" -> LW_CYCLE
    [] type = "SW" -> SW_CYCLE
    [] type \in {"ADD", "SUB"} -> ADD_SUB_CYCLE
    [] type = "MUL" -> MUL_CYCLE
    [] OTHER -> DIV_CYCLE

\* The code that names station s as the pending producer of a register.
StationTag(s) ==
  CASE s \in Loads -> 1000 + s
    [] s \in Adds  -> 3000 + (s - AddBase)
    [] OTHER       -> 4000 + (s - MulBase)

VARIABLES
  phase,             \* the pass of the main loop that runs next
  cycle_counter,
  inst, inst_count,  \* the instruction table and how much of it is filled
  program_counter,   \* next instruction to issue
  commit_count,      \* next instruction to commit
  issue, execute, writeback, commit,   \* per instruction: cycle of each event
  state, inst_ptr, Qj, Qk, cycle_last, \* per station
  waiting, value                       \* per register

stamps   == <<issue, execute, writeback, commit>>
stations == <<state, inst_ptr, Qj, Qk, cycle_last>>
table    == <<inst, inst_count>>
regfile  == <<waiting, value>>
vars     == <<phase, cycle_counter, table, program_counter, commit_count,
              stamps, stations, regfile>>

-----------------------------------------------------------------------------
(* Reading the trace.                                                      *)

\* Any name that is not one of the first seven FP registers reads as F14.
reg_to_reg_tag(name) ==
  CASE name = "F0" -> 0 [] name = "F2" -> 1 [] name = "F4" -> 2
    [] name = "F6" -> 3 [] name = "F8" -> 4 [] name = "F10" -> 5
    [] name = "F12" -> 6 [] OTHER -> 7

\* Any mnemonic that is not one of the first five reads as DIV; loads and
\* stores have no second source.
Decode(line) ==
  LET type == IF line.op \in {"LW", "SW", "MUL", "ADD", "SUB"}
                THEN line.op ELSE "DIV"
  IN [type  |-> type,
      dest  |-> reg_to_reg_tag(line.dest),
      src_1 |-> reg_to_reg_tag(line.src_1),
      src_2 |-> IF type \in {"LW", "SW"} THEN NO_REG
                                         ELSE reg_to_reg_tag(line.src_2)]

EmptySlot == [type |-> "NOP", dest |-> NO_REG, src_1 |-> NO_REG, src_2 |-> NO_REG]

Init ==
  /\ phase = "Read"
  /\ cycle_counter = 0
  /\ inst = [i \in IDs |-> EmptySlot]
  /\ inst_count = 0
  /\ program_counter = 0
  /\ commit_count = 0
  /\ issue     = [i \in IDs |-> VALUE_EMPTY]
  /\ execute   = [i \in IDs |-> VALUE_EMPTY]
  /\ writeback = [i \in IDs |-> VALUE_EMPTY]
  /\ commit    = [i \in IDs |-> VALUE_EMPTY]
  /\ state      = [s \in Stations |-> "unused"]
  /\ inst_ptr   = [s \in Stations |-> VALUE_EMPTY]
  /\ Qj         = [s \in Stations |-> VALUE_EMPTY]
  /\ Qk         = [s \in Stations |-> VALUE_EMPTY]
  /\ cycle_last = [s \in Stations |-> VALUE_EMPTY]
  /\ waiting = [r \in Regs |-> FALSE]
  /\ value   = [r \in Regs |-> VALUE_EMPTY]

ReadInst(line) ==
  /\ phase = "Read"
  /\ inst_count < MAX_INST_NUM
  /\ inst' = [inst EXCEPT ![inst_count] = Decode(line)]
  /\ inst_count' = inst_count + 1
  /\ UNCHANGED <<phase, cycle_counter, program_counter, commit_count,
                 stamps, stations, regfile>>

\* End of file, or the table is full and the rest of the file is ignored.
ReadEnd ==
  /\ phase = "Read"
  /\ phase' = "Tick"
  /\ UNCHANGED <<cycle_counter, table, program_counter, commit_count,
                 stamps, stations, regfile>>

-----------------------------------------------------------------------------
(* The passes of one cycle.                                                *)

Dest(s) == inst[inst_ptr[s]].dest
Busy(s) == state[s] # "unused"

Tick ==
  /\ phase = "Tick"
  /\ cycle_counter < MaxCycle
  /\ phase' = "Commit"
  /\ cycle_counter' = cycle_counter + 1
  /\ cycle_last' = [s \in Stations |->
                      IF state[s] = "exec" THEN cycle_last[s] - 1 ELSE cycle_last[s]]
  /\ UNCHANGED <<table, program_counter, commit_count, stamps,
                 state, inst_ptr, Qj, Qk, regfile>>

\* Mutant: commit() looks at the wrong column.
CommitsExecuted == execute[commit_count] # VALUE_EMPTY /\ commit[commit_count] = VALUE_EMPTY

\* The loop over earlier instructions overwrites its verdict every time
\* round, so only the instruction just before commit_count decides.
Committable ==
  /\ writeback[commit_count] # VALUE_EMPTY
  /\ commit[commit_count] = VALUE_EMPTY
  /\ commit_count > 0 => /\ writeback[commit_count - 1] # VALUE_EMPTY
                         /\ commit[commit_count - 1] # VALUE_EMPTY

Commit ==
  /\ phase = "Commit"
  /\ phase' = "Writeback"
  /\ \/ /\ Committable
        /\ commit' = [commit EXCEPT ![commit_count] = cycle_counter]
        /\ commit_count' = commit_count + 1
     \/ /\ ~Committable
        /\ UNCHANGED <<commit, commit_count>>
  /\ UNCHANGED <<cycle_counter, table, program_counter, issue, execute,
                 writeback, stations, regfile>>

\* Stations whose result is broadcast this cycle, and the registers whose
\* pending mark the broadcast clears.  A store broadcasts no value, but it
\* clears the mark of the register it stores.
Finished == {s \in Stations : state[s] = "done"}
\* Mutant: the loop over the loads does not call update_RS.
WrittenByAlus == {Dest(s) : s \in Finished \cap Alus}
Written  == {Dest(s) : s \in Finished \ Stores}
Cleared  == {Dest(s) : s \in Finished}

\* The last finished station the loops visit for register r.
LastFinished(r) ==
  CHOOSE s \in Finished \ Stores :
    /\ Dest(s) = r
    /\ \A t \in Finished \ Stores : Dest(t) = r => t <= s

\* A source field after update_RS (only issued arithmetic stations listen)
\* and reset_RS (a finished station is cleared).
AfterBroadcast(Q, s) ==
  IF state[s] = "done" \/ (s \in Alus /\ state[s] = "issued" /\ Q[s] \in Written)
    THEN VALUE_EMPTY ELSE Q[s]

Writeback ==
  /\ phase = "Writeback"
  /\ phase' = "Complete"
  /\ writeback' = [i \in IDs |-> IF \E s \in Finished : inst_ptr[s] = i
                                   THEN cycle_counter ELSE writeback[i]]
  /\ value' = [r \in Regs |-> IF r \in Written
                                THEN MEM_OFFSET + inst_ptr[LastFinished(r)]
                                ELSE value[r]]
  /\ waiting' = [r \in Regs |-> waiting[r] /\ r \notin Cleared]
  /\ Qj' = [s \in Stations |-> AfterBroadcast(Qj, s)]
  /\ Qk' = [s \in Stations |-> AfterBroadcast(Qk, s)]
  /\ state' = [s \in Stations |-> IF s \in Finished THEN "unused" ELSE state[s]]
  /\ inst_ptr' = [s \in Stations |-> IF s \in Finished THEN VALUE_EMPTY ELSE inst_ptr[s]]
  /\ cycle_last' = [s \in Stations |-> IF s \in Finished THEN VALUE_EMPTY ELSE cycle_last[s]]
  /\ UNCHANGED <<cycle_counter, table, program_counter, commit_count,
                 issue, execute, commit>>

\* Mutants: one cycle too early; the loop over the stores is missing.
FinishingEarly == {s \in Stations : state[s] = "exec" /\ cycle_last[s] <= 1}
FinishingButStores == {s \in Stations \ Stores : state[s] = "exec" /\ cycle_last[s] = 0}

\* Stations whose last cycle of execution this is.
Finishing == {s \in Stations : state[s] = "exec" /\ cycle_last[s] = 0}

Complete ==
  /\ phase = "Complete"
  /\ phase' = "Refresh"
  /\ state' = [s \in Stations |-> IF s \in Finishing THEN "done" ELSE state[s]]
  /\ execute' = [i \in IDs |-> IF \E s \in Finishing : inst_ptr[s] = i
                                 THEN cycle_counter ELSE execute[i]]
  /\ UNCHANGED <<cycle_counter, table, program_counter, commit_count, issue,
                 writeback, commit, inst_ptr, Qj, Qk, cycle_last, regfile>>

\* Registers marked pending again each cycle: by every load that executes and
\* every arithmetic station that waits or executes, not by a waiting load.
Claimed == {Dest(s) : s \in {t \in Loads \cup Alus :
                               \/ state[t] = "exec"
                               \/ t \in Alus /\ state[t] = "issued"}}

Refresh ==
  /\ phase = "Refresh"
  /\ phase' = "Issue"
  /\ waiting' = [r \in Regs |-> waiting[r] \/ r \in Claimed]
  /\ UNCHANGED <<cycle_counter, table, program_counter, commit_count, stamps,
                 stations, value>>

\* Mutant: a station counts as idle as soon as it has executed.
IdleOrDone(type) == {s \in StationsOf(type) : state[s] \in {"unused", "done"}}

Idle(type) == {s \in StationsOf(type) : state[s] = "unused"}
FirstIdle(type) == CHOOSE s \in Idle(type) : \A t \in Idle(type) : s <= t

\* Mutants: the source field names the station; the destination is marked
\* before the sources are read.
PendingStation(r) == IF waiting[r] THEN value[r] ELSE VALUE_EMPTY
PendingSelf(r) == IF waiting[r] \/ r = inst[program_counter].dest THEN r ELSE VALUE_EMPTY

\* The source field of a new arithmetic station: the register it must wait
\* for, or empty when the register is not pending.
PendingSource(r) == IF waiting[r] THEN r ELSE VALUE_EMPTY

CanIssue == /\ program_counter < inst_count
            /\ Idle(inst[program_counter].type) # {}

Place(new) ==
  LET i == inst[program_counter]
      s == FirstIdle(i.type)
  IN /\ issue' = [issue EXCEPT ![program_counter] = cycle_counter]
     /\ inst_ptr' = [inst_ptr EXCEPT ![s] = program_counter]
     /\ cycle_last' = [cycle_last EXCEPT ![s] = Latency(i.type)]
     /\ state' = [state EXCEPT ![s] = new.state]
     /\ Qj' = [Qj EXCEPT ![s] = new.Qj]
     /\ Qk' = [Qk EXCEPT ![s] = new.Qk]
     /\ program_counter' = program_counter + 1

\* The destination register of a new load or arithmetic station.
Claim ==
  LET i == inst[program_counter]
  IN /\ waiting' = [waiting EXCEPT ![i.dest] = TRUE]
     /\ value' = [value EXCEPT ![i.dest] = StationTag(FirstIdle(i.type))]

Parked == [state |-> "issued", Qj |-> VALUE_EMPTY, Qk |-> VALUE_EMPTY]

set_idle_load ==
  /\ CanIssue
  /\ inst[program_counter].type = "LW"
  /\ Place(Parked)
  /\ Claim

set_idle_store ==
  /\ CanIssue
  /\ inst[program_counter].type = "SW"
  /\ Place(Parked)
  /\ UNCHANGED regfile

\* set_idle_add and set_idle_mult: an instruction whose sources are both
\* available starts to execute at once.
set_idle_alu ==
  LET i == inst[program_counter]
      j == PendingSource(i.src_1)
      k == PendingSource(i.src_2)
  IN /\ CanIssue
     /\ i.type \notin {"LW", "SW"}
     /\ Place([state |-> IF j = VALUE_EMPTY /\ k = VALUE_EMPTY
                           THEN "exec" ELSE "issued",
               Qj |-> j, Qk |-> k])
     /\ Claim

NoIssue ==
  /\ ~CanIssue
  /\ UNCHANGED <<issue, stations, regfile, program_counter>>

Issue ==
  /\ phase = "Issue"
  /\ phase' = "Start"
  /\ set_idle_load \/ set_idle_store \/ set_idle_alu \/ NoIssue
  /\ UNCHANGED <<cycle_counter, table, commit_count, execute, writeback, commit>>

\* No instruction before ID still holds register tag uncommitted.
check_reg(id, tag) ==
  \A i \in 0..(id - 1) : ~(commit[i] = VALUE_EMPTY /\ inst[i].dest = tag)

\* Mutant: stores start unconditionally.
MayStartStores(s) == s \in Stores \/ (Qj[s] = VALUE_EMPTY /\ Qk[s] = VALUE_EMPTY
                                      /\ check_reg(inst_ptr[s], Dest(s)))

MayStart(s) ==
  IF s \in Stores
    THEN ~waiting[Dest(s)]
    ELSE /\ Qj[s] = VALUE_EMPTY /\ Qk[s] = VALUE_EMPTY
         /\ check_reg(inst_ptr[s], Dest(s))

\* Mutant: the finish test misses the commits of this cycle.
FinishSeenLate == \A i \in 0..(inst_count - 1) : commit[i] \in 1..(cycle_counter - 1)

check_finish == \A i \in 0..(inst_count - 1) : commit[i] # VALUE_EMPTY

Start ==
  /\ phase = "Start"
  /\ phase' = IF check_finish THEN "Done" ELSE "Tick"
  /\ state' = [s \in Stations |-> IF state[s] = "issued" /\ MayStart(s)
                                    THEN "exec" ELSE state[s]]
  /\ UNCHANGED <<cycle_counter, table, program_counter, commit_count, stamps,
                 inst_ptr, Qj, Qk, cycle_last, regfile>>

\* main() has left the loop and printed the table.
Terminated == phase = "Done" /\ UNCHANGED vars

Cycle == Tick \/ Commit \/ Writeback \/ Complete \/ Refresh \/ Issue \/ Start

Next ==
  \/ \E line \in Lines : ReadInst(line)
  \/ ReadEnd
  \/ Cycle
  \/ Terminated

\* The program is one thread that never blocks: it always takes its next step.
Fairness == WF_vars(ReadEnd) /\ WF_vars(Cycle)

Spec == Init /\ [][Next]_vars
FairSpec == Spec /\ Fairness

=============================================================================
