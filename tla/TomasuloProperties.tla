------------------------- MODULE TomasuloProperties -------------------------
(***************************************************************************)
(* What the Tomasulo simulator of Project2 guarantees, and what its        *)
(* comments promise but its code does not keep.                             *)
(***************************************************************************)
EXTENDS Tomasulo

\* Every variable holds a value of its C type that the program can store: in
\* particular a source field names a register, never a station.
TypeOK ==
  /\ phase \in {"Read", "Tick", "Commit", "Writeback", "Complete",
                "Refresh", "Issue", "Start", "Done"}
  /\ cycle_counter \in 0..MaxCycle
  /\ inst \in [IDs -> [type  : Types \cup {"NOP"}, dest  : Regs \cup {NO_REG},
                       src_1 : Regs \cup {NO_REG}, src_2 : Regs \cup {NO_REG}]]
  /\ inst_count \in 0..MAX_INST_NUM
  /\ program_counter \in 0..inst_count
  /\ commit_count \in 0..inst_count
  /\ \A stamp \in {issue, execute, writeback, commit} :
       stamp \in [IDs -> {VALUE_EMPTY} \cup 1..MaxCycle]
  /\ state \in [Stations -> {"unused", "issued", "exec", "done"}]
  /\ inst_ptr \in [Stations -> IDs \cup {VALUE_EMPTY}]
  /\ Qj \in [Stations -> Regs \cup {VALUE_EMPTY}]
  /\ Qk \in [Stations -> Regs \cup {VALUE_EMPTY}]
  /\ cycle_last \in [Stations -> Nat \cup {VALUE_EMPTY}]
  /\ waiting \in [Regs -> BOOLEAN]
  /\ value \in [Regs -> Int]

-----------------------------------------------------------------------------
(* Stations and instructions.                                              *)

Issued(i)    == issue[i] # VALUE_EMPTY
WroteBack(i)  == writeback[i] # VALUE_EMPTY
Committed(i) == commit[i] # VALUE_EMPTY
IsStore(i)   == inst[i].type = "SW"

\* The stations that will write register r.
Writers(r) == {s \in Loads \cup Alus : Busy(s) /\ Dest(s) = r}

\* The passes of main() walk the stations and dereference inst_ptr whenever it
\* is set, and free a station only in writeback(): the busy stations are in
\* one-to-one correspondence with the issued instructions that have not
\* written back, each in a station of its own class.
StationOwnership ==
  /\ \A s \in Stations :
       IF Busy(s)
         THEN /\ inst_ptr[s] \in 0..(program_counter - 1)
              /\ s \in StationsOf(inst[inst_ptr[s]].type)
              /\ ~WroteBack(inst_ptr[s])
              /\ \A t \in Stations \ {s} : inst_ptr[t] # inst_ptr[s]
         ELSE inst_ptr[s] = VALUE_EMPTY /\ Qj[s] = VALUE_EMPTY /\ Qk[s] = VALUE_EMPTY
  /\ \A i \in 0..(program_counter - 1) :
       WroteBack(i) \/ \E s \in Stations : inst_ptr[s] = i

\* What is waited for will come.  A pending mark on a register is cleared by a
\* later writeback: some station that will write the register is still busy (a
\* store waits on this mark only, so a mark nobody clears would block it for
\* ever).  An arithmetic station that waits for a register has the producer it
\* waits for in flight, and that producer is older: update_RS will wake it up,
\* and two stations never wait for each other.
NoLostWakeup ==
  /\ \A r \in Regs : waiting[r] => Writers(r) # {}
  /\ \A s \in Alus : \A r \in {Qj[s], Qk[s]} \ {VALUE_EMPTY} :
       /\ state[s] = "issued"
       /\ \E t \in Writers(r) : inst_ptr[t] < inst_ptr[s]

\* The four columns dump_inst prints: an instruction issues, executes for at
\* least its latency, writes back and commits in distinct cycles, and both
\* issue and commit follow program order, one instruction a cycle.
Timestamps ==
  /\ \A i \in IDs :
       /\ execute[i] # VALUE_EMPTY =>
            Issued(i) /\ execute[i] >= issue[i] + Latency(inst[i].type)
       /\ WroteBack(i)  => execute[i] # VALUE_EMPTY /\ writeback[i] > execute[i]
       /\ Committed(i) => WroteBack(i) /\ commit[i] > writeback[i]
  /\ \A i, j \in IDs : i < j =>
       /\ Issued(j)    => Issued(i) /\ issue[i] < issue[j]
       /\ Committed(j) => Committed(i) /\ commit[i] < commit[j]

\* commit() reads the table at commit_count without comparing it with the
\* number of instructions; that the main loop stops in the cycle of the last
\* commit is all that keeps the index inside the table.
CommitIndexInTable ==
  phase = "Commit" =>
    /\ commit_count < MAX_INST_NUM
    /\ inst_count > 0 => commit_count < inst_count

-----------------------------------------------------------------------------
(* Data dependences.                                                       *)

\* The program never writes a register an earlier instruction names as its
\* destination (for a store: the register it stores).
Renamed ==
  \A i, j \in 0..(inst_count - 1) :
    i < j /\ ~IsStore(j) => inst[i].dest # inst[j].dest

\* The registers instruction i reads (a store reads its dest field).
Sources(i) == IF IsStore(i) THEN {inst[i].dest}
              ELSE IF inst[i].type = "LW" THEN {}
              ELSE {inst[i].src_1, inst[i].src_2}

Producers(i) == {j \in 0..(i - 1) : ~IsStore(j) /\ inst[j].dest \in Sources(i)}

\* An instruction executes only after every earlier instruction that writes one
\* of its sources has broadcast its result.
SourcesWritten ==
  \A s \in Stations : state[s] \in {"exec", "done"} =>
    \A j \in Producers(inst_ptr[s]) : WroteBack(j)

\* At the end each register holds the result of the last instruction in
\* program order that writes it.
LastWriterWins ==
  phase = "Done" =>
    \A i \in 0..(inst_count - 1) :
      ~IsStore(i) /\ (\A j \in (i + 1)..(inst_count - 1) :
                        IsStore(j) \/ inst[j].dest # inst[i].dest)
        => value[inst[i].dest] = MEM_OFFSET + i

\* Programs that reuse no destination compute what they say, although a source
\* names a register and not its producer.
RightWhenRenamed == Renamed => SourcesWritten /\ LastWriterWins

-----------------------------------------------------------------------------
(* Progress.                                                               *)

\* No pass of the coming cycle can change anything but the cycle counter.
Wedged ==
  /\ phase = "Tick"
  /\ \A s \in Stations : state[s] \in {"unused", "issued"}
  /\ commit_count < inst_count /\ ~Committable
  /\ ~CanIssue

\* The loop of main() always has work left that can be done.
NeverWedged == ~Wedged

\* A wedged machine waits for a store at the head of the commit order: loads
\* and arithmetic instructions never block each other for ever.
WedgedOnlyByStore == Wedged => IsStore(commit_count)

\* The machine either prints the table or wedges on such a store.
FinishesOrWedges == <>(phase = "Done" \/ Wedged)

-----------------------------------------------------------------------------
(* The abstract machine.                                                   *)

UnitOf(type) == CASE type = "LW" -> "load"
                  [] type = "SW" -> "store"
                  [] type \in {"ADD", "SUB"} -> "adder"
                  [] type \in {"MUL", "DIV"} -> "multiplier"
                  [] OTHER -> "none"

StageOf(i) == CASE Committed(i) -> "committed"
                [] WroteBack(i) /\ ~Committed(i) -> "written"
                [] execute[i] # VALUE_EMPTY /\ ~WroteBack(i) -> "completed"
                [] Issued(i) /\ execute[i] = VALUE_EMPTY -> "issued"
                [] OTHER -> "waiting"

Core == INSTANCE OutOfOrderCore WITH
  Size     <- MAX_INST_NUM,
  Units    <- {"load", "store", "adder", "multiplier"},
  Capacity <- [u \in {"load", "store", "adder", "multiplier"} |->
                 CASE u = "load" -> NUM_LOAD_RS [] u = "store" -> NUM_STORE_RS
                   [] u = "adder" -> NUM_ADD_SUB_RS [] OTHER -> NUM_MUL_DIV_RS],
  program  <- [i \in IDs |-> UnitOf(inst[i].type)],
  length   <- inst_count,
  stage    <- [i \in IDs |-> StageOf(i)],
  halted   <- phase = "Done"

\* The simulator issues and commits in program order, completes out of order,
\* never overfills a class of stations, writes back everything that completed
\* in the cycle before, and stops only when all has committed.
CoreSpec == Core!ASpec

=============================================================================
