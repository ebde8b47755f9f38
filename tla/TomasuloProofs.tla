--------------------------- MODULE TomasuloProofs ---------------------------
(***************************************************************************)
(* Theorems about the Tomasulo simulator, for every size of the station     *)
(* arrays, every latency, every capacity of the table and every program.    *)
(*                                                                         *)
(* The inductive invariant IInv adds to the properties what they rest on:   *)
(* which instructions have been issued and committed is told by the two     *)
(* counters, the instructions that were read are decoded, and a station     *)
(* that executes has cycles left.                                           *)
(***************************************************************************)
EXTENDS TomasuloProperties, ProofFacts, FiniteSetTheorems, TLAPS

Bookkeeping ==
  /\ phase = "Read" => program_counter = 0
  /\ phase \notin {"Read", "Tick"} => cycle_counter >= 1
  /\ \A i \in IDs : Issued(i) <=> i < program_counter
  /\ \A i \in IDs : Committed(i) <=> i < commit_count
  /\ \A i \in IDs : WroteBack(i) => Issued(i)
  /\ commit_count <= program_counter

Decoded ==
  \A i \in 0..(inst_count - 1) :
    /\ inst[i].type \in Types
    /\ inst[i].dest \in Regs
    /\ inst[i].src_1 \in Regs
    /\ inst[i].type \notin {"LW", "SW"} => inst[i].src_2 \in Regs

Timers ==
  \A s \in Stations :
    /\ state[s] = "issued" => cycle_last[s] >= 1
    /\ state[s] = "exec" /\ phase \notin {"Commit", "Writeback", "Complete"}
         => cycle_last[s] >= 1
    /\ state[s] = "exec" => cycle_last[s] >= 0

CommitInRange ==
  phase \in {"Tick", "Commit"} => inst_count = 0 \/ commit_count < inst_count

IInv == TypeOK /\ Bookkeeping /\ Decoded /\ Timers /\ CommitInRange /\ StationOwnership

-----------------------------------------------------------------------------
(* The constants.                                                          *)

\* The station numbers are natural numbers and each class has its own.
LEMMA StationFacts ==
  /\ Stations \subseteq Nat
  /\ Loads \cap Stores = {} /\ Loads \cap Alus = {} /\ Stores \cap Alus = {}
  /\ \A t : StationsOf(t) \subseteq Stations
  /\ \A t : t \notin {"LW", "SW"} => StationsOf(t) \subseteq Alus
  /\ \A s \in Stations : StationTag(s) \in Int
  /\ VALUE_EMPTY \notin Nat /\ VALUE_EMPTY \in Int
<1>1. /\ NUM_LOAD_RS \in Nat /\ NUM_STORE_RS \in Nat
      /\ NUM_ADD_SUB_RS \in Nat /\ NUM_MUL_DIV_RS \in Nat
  BY StationsAssumption
<1>2. Stations \subseteq Nat
  BY <1>1 DEF Stations, Loads, Stores, Alus, Adds, Muls, AddBase, MulBase
<1>3. Loads \cap Stores = {} /\ Loads \cap Alus = {} /\ Stores \cap Alus = {}
  BY <1>1 DEF Loads, Stores, Alus, Adds, Muls, AddBase, MulBase
<1>4. \A t : StationsOf(t) \subseteq Stations
  BY DEF StationsOf, Stations, Alus
<1>5. \A t : t \notin {"LW", "SW"} => StationsOf(t) \subseteq Alus
  BY DEF StationsOf, Alus
<1>6. \A s \in Stations : StationTag(s) \in Int
  BY <1>1, <1>2 DEF StationTag, AddBase, MulBase
<1> QED
  BY <1>2, <1>3, <1>4, <1>5, <1>6 DEF VALUE_EMPTY

\* Every instruction executes for at least one cycle.
LEMMA LatencyType == \A t : Latency(t) \in Nat \ {0}
  BY CyclesAssumption DEF Latency

-----------------------------------------------------------------------------
(* The stations the passes pick.                                           *)

\* find_idle_* returns an unused station of the class when there is one.
LEMMA FirstIdleIsIdle ==
  ASSUME NEW type, Idle(type) # {}
  PROVE  /\ FirstIdle(type) \in StationsOf(type)
         /\ FirstIdle(type) \in Stations
         /\ state[FirstIdle(type)] = "unused"
<1>1. Idle(type) \in SUBSET Nat
  BY StationFacts DEF Idle
<1>2. \E s \in Idle(type) : \A t \in Idle(type) : s <= t
  BY <1>1, LeastElement
<1>3. FirstIdle(type) \in Idle(type)
  BY <1>2 DEF FirstIdle
<1> QED
  BY <1>3, StationFacts DEF Idle

\* The station whose result a written register keeps is a finished one.
LEMMA LastFinishedIsFinished ==
  ASSUME NEW r \in Written
  PROVE  /\ LastFinished(r) \in Finished \ Stores
         /\ Dest(LastFinished(r)) = r
<1> DEFINE S == {s \in Finished \ Stores : Dest(s) = r}
           n == MulBase + NUM_MUL_DIV_RS
<1>1. S # {}
  BY DEF Written
<1>2. n \in Nat /\ S \in SUBSET (0..n)
  <2>1. n \in Nat
    BY StationsAssumption DEF MulBase, AddBase
  <2>2. Stations \subseteq 0..n
    BY StationsAssumption DEF Stations, Loads, Stores, Alus, Adds, Muls, MulBase, AddBase
  <2> QED
    BY <2>1, <2>2 DEF Finished
<1>3. \E s \in S : \A t \in S : t <= s
  <2> HIDE DEF S, n
  <2> QED BY <1>1, <1>2, GreatestElement
<1>4. \E s \in Finished \ Stores :
        /\ Dest(s) = r
        /\ \A t \in Finished \ Stores : Dest(t) = r => t <= s
  BY <1>3
<1> QED
  BY <1>4 DEF LastFinished

-----------------------------------------------------------------------------
(* Each action preserves the invariant.                                    *)

\* An empty table and idle stations satisfy the invariant.
LEMMA InitInv == Init => IInv
<1> SUFFICES ASSUME Init PROVE IInv
  OBVIOUS
<1> USE DEF Init, VALUE_EMPTY
<1>1. TypeOK
  BY SizeAssumption DEF TypeOK, IDs, EmptySlot, NO_REG
<1>2. Bookkeeping
  BY DEF Bookkeeping, Issued, Committed, WroteBack, IDs
<1>3. Decoded /\ Timers /\ CommitInRange
  BY DEF Decoded, Timers, CommitInRange
<1>4. StationOwnership
  BY DEF StationOwnership, Busy
<1> QED
  BY <1>1, <1>2, <1>3, <1>4 DEF IInv

\* What read_inst stores in the table.
LEMMA DecodeType ==
  ASSUME NEW line
  PROVE  LET i == Decode(line)
         IN /\ i \in [type  : Types, dest : Regs, src_1 : Regs, src_2 : Regs \cup {NO_REG}]
            /\ i.type \notin {"LW", "SW"} => i.src_2 \in Regs
<1>1. \A name : reg_to_reg_tag(name) \in Regs
  BY DEF reg_to_reg_tag, Regs
<1>2. line.op \in {"LW", "SW", "MUL", "ADD", "SUB"} => line.op \in Types
  BY DEF Types
<1> QED
  BY <1>1, <1>2 DEF Decode, Types

\* Reading a line of the trace preserves the invariant (read_inst).
LEMMA ReadInstInv ==
  ASSUME IInv, NEW line \in Lines, ReadInst(line)
  PROVE  IInv'
<1> USE DEF ReadInst, IInv, TypeOK, stamps, stations, regfile
<1> DEFINE new == Decode(line)
<1>1. /\ new \in [type  : Types, dest : Regs, src_1 : Regs, src_2 : Regs \cup {NO_REG}]
      /\ new.type \notin {"LW", "SW"} => new.src_2 \in Regs
  BY DecodeType
<1>2. inst_count \in IDs /\ inst_count' = inst_count + 1 /\ MAX_INST_NUM \in Nat
  BY SizeAssumption DEF IDs
<1>3. program_counter = 0
  BY DEF Bookkeeping
<1> HIDE DEF new
<1>4. inst' = [inst EXCEPT ![inst_count] = new]
  BY DEF new
<1>5. TypeOK'
  <2>1. inst' \in [IDs -> [type  : Types \cup {"NOP"}, dest  : Regs \cup {NO_REG},
                       src_1 : Regs \cup {NO_REG}, src_2 : Regs \cup {NO_REG}]]
    BY <1>1, <1>2, <1>4
  <2>2. inst_count' \in 0..MAX_INST_NUM /\ program_counter' \in 0..inst_count'
        /\ commit_count' \in 0..inst_count'
    BY <1>2
  <2> QED
    BY <2>1, <2>2
<1>6. Decoded'
  BY <1>1, <1>2, <1>4 DEF Decoded, IDs
<1>7. Bookkeeping' /\ Timers' /\ CommitInRange'
  BY DEF Bookkeeping, Timers, CommitInRange, Issued, Committed, WroteBack
<1>8. StationOwnership'
  BY <1>3 DEF StationOwnership, Busy, WroteBack
<1> QED
  BY <1>5, <1>6, <1>7, <1>8

\* The end of the trace preserves the invariant.
LEMMA ReadEndInv == IInv /\ ReadEnd => IInv'
<1> SUFFICES ASSUME IInv, ReadEnd PROVE IInv'
  OBVIOUS
<1> USE DEF ReadEnd, IInv, table, stamps, stations, regfile
<1>1. TypeOK'
  BY DEF TypeOK
<1>2. Bookkeeping'
  BY DEF Bookkeeping, Issued, Committed, WroteBack
<1>3. Decoded' /\ Timers'
  BY DEF Decoded, Timers
<1>4. CommitInRange'
  BY DEF Bookkeeping, CommitInRange, TypeOK
<1>5. StationOwnership'
  BY DEF StationOwnership, Busy, WroteBack
<1> QED
  BY <1>1, <1>2, <1>3, <1>4, <1>5

\* A clock tick preserves the invariant: no running timer passes zero.
LEMMA TickInv == IInv /\ Tick => IInv'
<1> SUFFICES ASSUME IInv, Tick PROVE IInv'
  OBVIOUS
<1> USE DEF Tick, IInv, table, stamps, regfile
<1>1. Timers'
  BY StationFacts DEF Timers, TypeOK
<1>2. TypeOK'
  <2>1. cycle_counter' \in 0..MaxCycle
    BY SizeAssumption DEF TypeOK
  <2>2. cycle_last' \in [Stations -> Nat \cup {VALUE_EMPTY}]
    BY StationFacts DEF Timers, TypeOK
  <2> QED
    BY <2>1, <2>2 DEF TypeOK
<1>3. Bookkeeping'
  BY DEF Bookkeeping, Issued, Committed, WroteBack, TypeOK
<1>4. Decoded' /\ CommitInRange'
  BY DEF Decoded, CommitInRange
<1>5. StationOwnership'
  BY DEF StationOwnership, Busy, WroteBack
<1> QED
  BY <1>1, <1>2, <1>3, <1>4, <1>5

\* commit preserves the invariant: the counter stays behind the issue counter.
LEMMA CommitInv == IInv /\ Commit => IInv'
<1> SUFFICES ASSUME IInv, Commit PROVE IInv'
  OBVIOUS
<1> USE DEF Commit, IInv, table, stations, regfile
<1>1. commit_count \in IDs
  BY SizeAssumption DEF CommitInRange, TypeOK, IDs
<1>2. Committable => commit_count < program_counter
  BY <1>1 DEF Committable, Bookkeeping, Issued, WroteBack
<1>3. cycle_counter \in 1..MaxCycle
  BY DEF Bookkeeping, TypeOK
<1>4. TypeOK'
  BY <1>1, <1>2, <1>3 DEF TypeOK
<1>5. Bookkeeping'
  <2>1. \A i \in IDs : Committed(i)' <=> i < commit_count'
    BY <1>1, <1>3, <1>4 DEF Bookkeeping, Committed, TypeOK, VALUE_EMPTY, IDs
  <2>2. commit_count' <= program_counter'
    BY <1>2 DEF Bookkeeping, TypeOK
  <2> QED
    BY <2>1, <2>2 DEF Bookkeeping, Issued, WroteBack
<1>6. Decoded' /\ CommitInRange'
  BY DEF Decoded, CommitInRange
<1>7. Timers'
  BY DEF Timers
<1>8. StationOwnership'
  BY DEF StationOwnership, Busy, WroteBack
<1> QED
  BY <1>4, <1>5, <1>6, <1>7, <1>8

\* writeback preserves the invariant: a reset station was its instruction's.
LEMMA WritebackInv == IInv /\ Writeback => IInv'
<1> SUFFICES ASSUME IInv, Writeback PROVE IInv'
  OBVIOUS
<1> USE DEF Writeback, IInv, table
<1>1. cycle_counter \in 1..MaxCycle
  BY DEF Bookkeeping, TypeOK
<1>2. \A s \in Finished : s \in Stations /\ inst_ptr[s] \in 0..(program_counter - 1)
  BY DEF Finished, StationOwnership, Busy
<1>3. \A i \in IDs : WroteBack(i)' <=> (WroteBack(i) \/ \E s \in Finished : inst_ptr[s] = i)
  BY <1>1 DEF WroteBack, VALUE_EMPTY
<1>4. TypeOK'
  <2>1. value' \in [Regs -> Int]
    <3>1. \A r \in Written : LastFinished(r) \in Finished
      BY LastFinishedIsFinished
    <3>2. \A r \in Written : MEM_OFFSET + inst_ptr[LastFinished(r)] \in Int
      BY <1>2, <3>1 DEF TypeOK, MEM_OFFSET
    <3> QED
      BY <3>2 DEF TypeOK
  <2>2. writeback' \in [IDs -> {VALUE_EMPTY} \cup 1..MaxCycle]
    BY <1>1 DEF TypeOK
  <2>3. waiting' \in [Regs -> BOOLEAN]
    BY DEF TypeOK
  <2>4. /\ Qj' \in [Stations -> Regs \cup {VALUE_EMPTY}]
        /\ Qk' \in [Stations -> Regs \cup {VALUE_EMPTY}]
    BY DEF TypeOK, AfterBroadcast
  <2>5. /\ state' \in [Stations -> {"unused", "issued", "exec", "done"}]
        /\ inst_ptr' \in [Stations -> IDs \cup {VALUE_EMPTY}]
        /\ cycle_last' \in [Stations -> Nat \cup {VALUE_EMPTY}]
    BY DEF TypeOK
  <2> QED
    BY <2>1, <2>2, <2>3, <2>4, <2>5 DEF TypeOK
<1>5. Bookkeeping'
  <2>1. \A i \in IDs : WroteBack(i)' => Issued(i)'
    BY <1>2, <1>3 DEF Bookkeeping, Issued, TypeOK
  <2> QED
    BY <2>1 DEF Bookkeeping, Issued, Committed
<1>6. Decoded' /\ CommitInRange'
  BY DEF Decoded, CommitInRange
<1>7. Timers'
  BY DEF Timers, TypeOK
<1>8. StationOwnership'
  <2>1. \A s \in Stations : Busy(s)' <=> Busy(s) /\ s \notin Finished
    BY DEF Busy, Finished, TypeOK
  <2>2. ASSUME NEW s \in Stations, Busy(s)'
        PROVE  /\ inst_ptr'[s] = inst_ptr[s] /\ inst_ptr[s] \in IDs
               /\ ~WroteBack(inst_ptr[s])'
               /\ \A t \in Stations \ {s} : inst_ptr'[t] # inst_ptr'[s]
    <3>1. Busy(s) /\ s \notin Finished /\ inst_ptr'[s] = inst_ptr[s]
      BY <2>1, <2>2
    <3>2. inst_ptr[s] \in IDs /\ inst_ptr[s] # VALUE_EMPTY
      BY <3>1, SizeAssumption DEF StationOwnership, TypeOK, IDs, VALUE_EMPTY
    <3>3. ~ \E t \in Finished : inst_ptr[t] = inst_ptr[s]
      BY <3>1 DEF StationOwnership, Finished
    <3>4. ~WroteBack(inst_ptr[s])'
      BY <1>3, <3>1, <3>2, <3>3 DEF StationOwnership, WroteBack
    <3>5. \A t \in Stations \ {s} : inst_ptr[t] # inst_ptr[s]
      BY <3>1 DEF StationOwnership
    <3>6. \A t \in Stations \ {s} : inst_ptr'[t] # inst_ptr'[s]
      BY <3>1, <3>2, <3>5
    <3> QED
      BY <3>1, <3>2, <3>4, <3>6
  <2>3. ASSUME NEW s \in Stations, ~Busy(s)'
        PROVE  inst_ptr'[s] = VALUE_EMPTY /\ Qj'[s] = VALUE_EMPTY /\ Qk'[s] = VALUE_EMPTY
    BY <2>1, <2>3 DEF StationOwnership, Finished, AfterBroadcast
  <2>4. ASSUME NEW i \in 0..(program_counter - 1)
        PROVE  WroteBack(i)' \/ \E s \in Stations : inst_ptr'[s] = i
    <3>1. i \in IDs
      BY SizeAssumption DEF TypeOK, IDs
    <3>2. CASE WroteBack(i)
      BY <1>3, <3>1, <3>2
    <3>3. CASE \E s \in Stations : inst_ptr[s] = i
      BY <1>3, <3>1, <3>3
    <3> QED
      BY <3>2, <3>3 DEF StationOwnership
  <2>5. \A s \in Stations : Busy(s)' =>
          /\ inst_ptr'[s] \in 0..(program_counter' - 1)
          /\ s \in StationsOf(inst'[inst_ptr'[s]].type)
    BY <2>1, <2>2 DEF StationOwnership, Busy
  <2>6. program_counter' = program_counter
    OBVIOUS
  <2> HIDE DEF Writeback, IInv
  <2> QED
    BY <2>2, <2>3, <2>4, <2>5, <2>6 DEF StationOwnership
<1> QED
  BY <1>4, <1>5, <1>6, <1>7, <1>8

\* The completion pass preserves the invariant.
LEMMA CompleteInv == IInv /\ Complete => IInv'
<1> SUFFICES ASSUME IInv, Complete PROVE IInv'
  OBVIOUS
<1> USE DEF Complete, IInv, table, regfile
<1>1. cycle_counter \in 1..MaxCycle
  BY DEF Bookkeeping, TypeOK
<1>2. TypeOK'
  <2>1. execute' \in [IDs -> {VALUE_EMPTY} \cup 1..MaxCycle]
    BY <1>1 DEF TypeOK
  <2>2. state' \in [Stations -> {"unused", "issued", "exec", "done"}]
    BY DEF TypeOK
  <2> QED
    BY <2>1, <2>2 DEF TypeOK
<1>3. Bookkeeping'
  BY DEF Bookkeeping, Issued, Committed, WroteBack
<1>4. Decoded' /\ CommitInRange'
  BY DEF Decoded, CommitInRange
<1>5. Timers'
  BY DEF Timers, TypeOK, Finishing, VALUE_EMPTY
<1>6. StationOwnership'
  <2>1. \A s \in Stations : Busy(s)' <=> Busy(s)
    BY DEF Busy, Finishing, TypeOK
  <2>2. \A i : WroteBack(i)' <=> WroteBack(i)
    BY DEF WroteBack
  <2> QED
    BY <2>1, <2>2 DEF StationOwnership
<1> QED
  BY <1>2, <1>3, <1>4, <1>5, <1>6

\* The pass that marks registers ready preserves the invariant.
LEMMA RefreshInv == IInv /\ Refresh => IInv'
<1> SUFFICES ASSUME IInv, Refresh PROVE IInv'
  OBVIOUS
<1> USE DEF Refresh, IInv, table, stamps, stations
<1>1. TypeOK'
  BY DEF TypeOK
<1>2. Bookkeeping'
  BY DEF Bookkeeping, Issued, Committed, WroteBack
<1>3. Decoded' /\ CommitInRange' /\ Timers'
  BY DEF Decoded, CommitInRange, Timers
<1>4. StationOwnership'
  BY DEF StationOwnership, Busy, WroteBack
<1> QED
  BY <1>1, <1>2, <1>3, <1>4

\* The start of execution preserves the invariant: a timer starts positive.
LEMMA StartInv == IInv /\ Start => IInv'
<1> SUFFICES ASSUME IInv, Start PROVE IInv'
  OBVIOUS
<1> USE DEF Start, IInv, table, stamps, regfile
<1>1. TypeOK'
  BY DEF TypeOK
<1>2. Bookkeeping'
  BY DEF Bookkeeping, Issued, Committed, WroteBack
<1>3. Decoded'
  BY DEF Decoded
<1>4. Timers'
  <2>1. \A s \in Stations : /\ state'[s] = "issued" => state[s] = "issued"
                            /\ state'[s] = "exec" => state[s] \in {"issued", "exec"}
    BY DEF TypeOK
  <2>2. \A s \in Stations : state[s] \in {"issued", "exec"} => cycle_last[s] >= 1
    BY DEF Timers
  <2>3. \A s \in Stations : cycle_last[s] \in Int
    BY StationFacts DEF TypeOK
  <2>4. cycle_last' = cycle_last
    OBVIOUS
  <2> HIDE DEF Start, IInv
  <2> QED
    BY <2>1, <2>2, <2>3, <2>4 DEF Timers
<1>5. CommitInRange'
  <2>1. CASE check_finish
    BY <2>1 DEF CommitInRange
  <2>2. CASE ~check_finish
    <3>1. PICK i \in 0..(inst_count - 1) : ~Committed(i)
      BY <2>2 DEF check_finish, Committed
    <3>2. i \in IDs
      BY SizeAssumption DEF IDs, TypeOK
    <3>3. commit_count <= i
      BY <3>1, <3>2 DEF Bookkeeping, TypeOK, IDs
    <3> QED
      BY <3>3 DEF CommitInRange, TypeOK
  <2> QED
    BY <2>1, <2>2
<1>6. StationOwnership'
  <2>1. \A s \in Stations : Busy(s)' <=> Busy(s)
    BY DEF Busy, TypeOK
  <2>2. \A i : WroteBack(i)' <=> WroteBack(i)
    BY DEF WroteBack
  <2> QED
    BY <2>1, <2>2 DEF StationOwnership
<1> QED
  BY <1>1, <1>2, <1>3, <1>4, <1>5, <1>6

\* Putting the next instruction into a free station of its class, in whatever
\* state and with whatever source fields, preserves the invariant.
LEMMA PlaceInv ==
  ASSUME IInv, phase = "Issue", phase' = "Start", CanIssue,
         NEW new, new.state \in {"issued", "exec"},
         new.Qj \in Regs \cup {VALUE_EMPTY}, new.Qk \in Regs \cup {VALUE_EMPTY},
         Place(new),
         waiting' \in [Regs -> BOOLEAN], value' \in [Regs -> Int],
         UNCHANGED <<cycle_counter, inst, inst_count, commit_count,
                     execute, writeback, commit>>
  PROVE  IInv'
<1> USE DEF IInv
<1>a. /\ program_counter \in IDs /\ program_counter < inst_count
      /\ program_counter' = program_counter + 1
      /\ FirstIdle(inst[program_counter].type) \in Stations
  BY SizeAssumption, FirstIdleIsIdle DEF CanIssue, TypeOK, IDs, Place
<1>b. PICK p \in IDs, s \in Stations :
        p = program_counter /\ s = FirstIdle(inst[p].type)
  BY <1>a
<1>1. s \in StationsOf(inst[p].type) /\ state[s] = "unused"
  BY <1>b, FirstIdleIsIdle DEF CanIssue
<1>2. /\ p \in Nat /\ p < inst_count
      /\ program_counter' = p + 1
      /\ ~Issued(p)
  BY <1>a, <1>b, SizeAssumption DEF TypeOK, IDs, Bookkeeping
<1>3. cycle_counter \in 1..MaxCycle
  BY DEF Bookkeeping, TypeOK
<1>4. /\ issue' = [issue EXCEPT ![p] = cycle_counter]
      /\ inst_ptr' = [inst_ptr EXCEPT ![s] = p]
      /\ cycle_last' = [cycle_last EXCEPT ![s] = Latency(inst[p].type)]
      /\ state' = [state EXCEPT ![s] = new.state]
      /\ Qj' = [Qj EXCEPT ![s] = new.Qj]
      /\ Qk' = [Qk EXCEPT ![s] = new.Qk]
  BY <1>b DEF Place
<1>5. Latency(inst[p].type) \in Nat /\ Latency(inst[p].type) >= 1
  BY LatencyType
<1>6. p = program_counter
  BY <1>b
<1>7. TypeOK'
  <2>1. issue' \in [IDs -> {VALUE_EMPTY} \cup 1..MaxCycle]
    BY <1>3, <1>4 DEF TypeOK
  <2>2. /\ inst_ptr' \in [Stations -> IDs \cup {VALUE_EMPTY}]
        /\ cycle_last' \in [Stations -> Nat \cup {VALUE_EMPTY}]
        /\ state' \in [Stations -> {"unused", "issued", "exec", "done"}]
        /\ Qj' \in [Stations -> Regs \cup {VALUE_EMPTY}]
        /\ Qk' \in [Stations -> Regs \cup {VALUE_EMPTY}]
    BY <1>2, <1>4, <1>5 DEF TypeOK
  <2>3. program_counter' \in 0..inst_count'
    BY <1>2, <1>6 DEF TypeOK
  <2> QED
    BY <2>1, <2>2, <2>3 DEF TypeOK
<1>8. Bookkeeping'
  <2>1. \A k \in IDs : Issued(k)' <=> k < program_counter'
    BY <1>2, <1>3, <1>4, <1>6 DEF Bookkeeping, Issued, TypeOK, VALUE_EMPTY, IDs
  <2>2. \A k \in IDs : WroteBack(k)' => Issued(k)'
    BY <1>2, <1>3, <1>4 DEF Bookkeeping, Issued, WroteBack, TypeOK, VALUE_EMPTY
  <2>3. commit_count' <= program_counter'
    BY <1>2, <1>6 DEF Bookkeeping, TypeOK
  <2> QED
    BY <1>3, <2>1, <2>2, <2>3 DEF Bookkeeping, Committed
<1>9. Decoded' /\ CommitInRange'
  BY DEF Decoded, CommitInRange
<1>10. Timers'
  <2>1. \A t \in Stations : /\ state[t] \in {"issued", "exec"} => cycle_last[t] >= 1
                            /\ cycle_last[t] \in Int
    BY StationFacts DEF Timers, TypeOK
  <2>2. \A t \in Stations : state'[t] \in {"issued", "exec"} => cycle_last'[t] >= 1
    BY <1>1, <1>4, <1>5, <2>1 DEF TypeOK
  <2>3. \A t \in Stations : cycle_last'[t] \in Int
    BY <1>7, StationFacts DEF TypeOK
  <2> QED
    BY <2>2, <2>3 DEF Timers
<1>11. StationOwnership'
  <2>1. /\ \A t \in Stations \ {s} : /\ inst_ptr'[t] = inst_ptr[t]
                                     /\ state'[t] = state[t]
                                     /\ Qj'[t] = Qj[t] /\ Qk'[t] = Qk[t]
        /\ inst_ptr'[s] = p /\ state'[s] = new.state
    BY <1>1, <1>4 DEF TypeOK
  <2>2. \A t \in Stations : inst_ptr[t] # p
    <3>1. \A t \in Stations : inst_ptr[t] \in 0..(program_counter - 1) \cup {VALUE_EMPTY}
      BY DEF StationOwnership
    <3> QED
      BY <1>2, <1>6, <3>1 DEF VALUE_EMPTY, TypeOK
  <2>3. ~WroteBack(p)
    BY <1>2 DEF Bookkeeping
  <2>4. \A k : WroteBack(k)' <=> WroteBack(k)
    BY DEF WroteBack
  <2>5. ASSUME NEW t \in Stations \ {s}, Busy(t)'
        PROVE  /\ inst_ptr'[t] \in 0..(program_counter' - 1)
               /\ t \in StationsOf(inst'[inst_ptr'[t]].type)
               /\ ~WroteBack(inst_ptr[t])'
               /\ \A u \in Stations \ {t} : inst_ptr'[u] # inst_ptr'[t]
    <3>1. Busy(t) /\ inst_ptr'[t] = inst_ptr[t]
      BY <2>1, <2>5 DEF Busy
    <3>2. inst_ptr'[t] \in 0..(program_counter' - 1)
      BY <1>2, <1>6, <3>1 DEF StationOwnership, TypeOK
    <3>3. t \in StationsOf(inst'[inst_ptr'[t]].type) /\ ~WroteBack(inst_ptr[t])'
      BY <2>4, <3>1 DEF StationOwnership, WroteBack
    <3>4. \A u \in Stations \ {t} : inst_ptr[u] # inst_ptr[t]
      BY <3>1 DEF StationOwnership
    <3>5. \A u \in Stations \ {t} : inst_ptr'[u] # inst_ptr'[t]
      BY <2>1, <2>2, <3>1, <3>4
    <3> QED
      BY <3>2, <3>3, <3>5
  <2>6. /\ inst_ptr'[s] \in 0..(program_counter' - 1)
        /\ s \in StationsOf(inst'[inst_ptr'[s]].type)
        /\ ~WroteBack(inst_ptr[s])'
        /\ \A u \in Stations \ {s} : inst_ptr'[u] # inst_ptr'[s]
        /\ Busy(s)'
    <3>1. inst_ptr'[s] \in 0..(program_counter' - 1)
      BY <1>2, <1>6, <2>1
    <3>2. s \in StationsOf(inst'[inst_ptr'[s]].type)
      BY <1>1, <2>1
    <3>3. ~WroteBack(inst_ptr[s])'
      BY <2>1, <2>3 DEF WroteBack
    <3> QED
      BY <2>1, <2>2, <3>1, <3>2, <3>3 DEF Busy
  <2>7. ASSUME NEW t \in Stations, ~Busy(t)'
        PROVE  inst_ptr'[t] = VALUE_EMPTY /\ Qj'[t] = VALUE_EMPTY /\ Qk'[t] = VALUE_EMPTY
    <3>1. t # s /\ ~Busy(t)
      BY <2>1, <2>6, <2>7 DEF Busy
    <3> QED
      BY <2>1, <3>1 DEF StationOwnership
  <2>8. ASSUME NEW k \in 0..(program_counter' - 1)
        PROVE  WroteBack(k)' \/ \E t \in Stations : inst_ptr'[t] = k
    <3>1. CASE k = p
      BY <1>1, <2>1, <3>1
    <3>2. CASE k # p
      <4>1. k \in 0..(program_counter - 1)
        BY <1>2, <1>6, <3>2
      <4>2. CASE WroteBack(k)
        BY <2>4, <4>2
      <4>3. CASE \E t \in Stations : inst_ptr[t] = k
        <5>1. PICK t \in Stations : inst_ptr[t] = k
          BY <4>3
        <5>2. t # s
          BY <1>1, <1>2, <1>6, <4>1, <5>1 DEF StationOwnership, Busy, VALUE_EMPTY
        <5> QED
          BY <2>1, <5>1, <5>2
      <4> QED
        BY <4>1, <4>2, <4>3 DEF StationOwnership
    <3> QED
      BY <3>1, <3>2
  <2> HIDE DEF IInv
  <2> QED
    BY <2>5, <2>6, <2>7, <2>8 DEF StationOwnership
<1> QED
  BY <1>7, <1>8, <1>9, <1>10, <1>11

\* Issue preserves the invariant, whichever of the four station classes it takes.
LEMMA IssueInv == IInv /\ Issue => IInv'
<1> SUFFICES ASSUME IInv, Issue PROVE IInv'
  OBVIOUS
<1> USE DEF Issue, table
<1>3. CASE set_idle_load
  <2>1. waiting' \in [Regs -> BOOLEAN] /\ value' \in [Regs -> Int]
    BY <1>3, FirstIdleIsIdle, StationFacts
    DEF set_idle_load, Claim, CanIssue, IInv, TypeOK
  <2> QED
    BY <1>3, <2>1, PlaceInv DEF set_idle_load, Parked
<1>4. CASE set_idle_store
  <2>1. waiting' \in [Regs -> BOOLEAN] /\ value' \in [Regs -> Int]
    BY <1>4 DEF set_idle_store, regfile, IInv, TypeOK
  <2> QED
    BY <1>4, <2>1, PlaceInv DEF set_idle_store, Parked
<1>5. CASE set_idle_alu
  <2>1. waiting' \in [Regs -> BOOLEAN] /\ value' \in [Regs -> Int]
    BY <1>5, FirstIdleIsIdle, StationFacts
    DEF set_idle_alu, Claim, CanIssue, IInv, TypeOK
  <2>2. /\ inst[program_counter].type \notin {"LW", "SW"}
        /\ program_counter \in 0..(inst_count - 1)
    BY <1>5 DEF set_idle_alu, CanIssue, IInv, TypeOK
  <2>3. /\ PendingSource(inst[program_counter].src_1) \in Regs \cup {VALUE_EMPTY}
        /\ PendingSource(inst[program_counter].src_2) \in Regs \cup {VALUE_EMPTY}
    BY <2>2 DEF PendingSource, IInv, Decoded
  <2> QED
    BY <1>5, <2>1, <2>3, PlaceInv DEF set_idle_alu
<1>6. CASE NoIssue
  <2> USE DEF NoIssue, stations, regfile, IInv
  <2>1. TypeOK'
    BY <1>6 DEF TypeOK
  <2>2. Bookkeeping'
    BY <1>6 DEF Bookkeeping, Issued, Committed, WroteBack
  <2>3. Decoded' /\ Timers' /\ CommitInRange'
    BY <1>6 DEF Decoded, Timers, CommitInRange
  <2>4. StationOwnership'
    BY <1>6 DEF StationOwnership, Busy, WroteBack
  <2> QED
    BY <2>1, <2>2, <2>3, <2>4
<1> QED
  BY <1>3, <1>4, <1>5, <1>6

\* A stuttering step preserves the invariant.
LEMMA StutterInv == IInv /\ UNCHANGED vars => IInv'
<1> SUFFICES ASSUME IInv, UNCHANGED vars PROVE IInv'
  OBVIOUS
<1> USE DEF vars, table, stamps, stations, regfile, IInv
<1>1. TypeOK'
  BY DEF TypeOK
<1>2. Bookkeeping' /\ Decoded' /\ Timers' /\ CommitInRange'
  BY DEF Bookkeeping, Issued, Committed, WroteBack, Decoded, Timers, CommitInRange
<1>3. StationOwnership'
  BY DEF StationOwnership, Busy, WroteBack
<1> QED
  BY <1>1, <1>2, <1>3

\* The inductive invariant holds in every reachable state.
THEOREM Invariance == Spec => []IInv
<1>1. Init => IInv
  BY InitInv
<1>2. IInv /\ [Next]_vars => IInv'
  <2> SUFFICES ASSUME IInv, [Next]_vars PROVE IInv'
    OBVIOUS
  <2>1. ASSUME NEW line \in Lines, ReadInst(line) PROVE IInv'
    BY <2>1, ReadInstInv
  <2>2. CASE ReadEnd
    BY <2>2, ReadEndInv
  <2>3. CASE Cycle
    BY <2>3, TickInv, CommitInv, WritebackInv, CompleteInv, RefreshInv, IssueInv,
       StartInv DEF Cycle
  <2>4. CASE Terminated \/ UNCHANGED vars
    BY <2>4, StutterInv DEF Terminated
  <2> QED
    BY <2>1, <2>2, <2>3, <2>4 DEF Next
<1> QED
  BY <1>1, <1>2, PTL DEF Spec

\* Every variable keeps its type: in particular the counters never leave the
\* instruction table and a source field never holds a station.
THEOREM TypeCorrect == Spec => []TypeOK
<1>1. IInv => TypeOK
  BY DEF IInv
<1> QED
  BY <1>1, Invariance, PTL

\* Busy stations and instructions in flight are in one-to-one correspondence.
THEOREM Ownership == Spec => []StationOwnership
<1>1. IInv => StationOwnership
  BY DEF IInv
<1> QED
  BY <1>1, Invariance, PTL

\* commit() never indexes the table out of its bounds.
THEOREM CommitInBounds == Spec => []CommitIndexInTable
<1>1. IInv => CommitIndexInTable
  BY SizeAssumption DEF IInv, TypeOK, CommitInRange, CommitIndexInTable
<1> QED
  BY <1>1, Invariance, PTL

-----------------------------------------------------------------------------
(***************************************************************************)
(* The order of events: the four time stamps of an instruction, the         *)
(* wake-up of stations that wait, and the values that operands take.        *)
(***************************************************************************)

(* Time stamps.                                                            *)

\* A stamp is never in the future, and from the tick to the pass that writes
\* its column it is in the past.
Stamped(stamp, passes) ==
  \A i \in IDs : /\ stamp[i] <= cycle_counter
                 /\ phase \in passes => stamp[i] < cycle_counter

StampsPast ==
  /\ Stamped(commit, {"Commit"})
  /\ Stamped(writeback, {"Commit", "Writeback"})
  /\ Stamped(execute, {"Commit", "Writeback", "Complete"})
  /\ Stamped(issue, {"Commit", "Writeback", "Complete", "Refresh", "Issue"})

\* The cycles a station has left account for the latency of its instruction,
\* and one that is done has been stamped.
TimersKept ==
  \A s \in Stations :
    /\ state[s] \in {"issued", "exec"} =>
         cycle_counter + cycle_last[s] >= issue[inst_ptr[s]] + Latency(inst[inst_ptr[s]].type)
    /\ state[s] = "done" => execute[inst_ptr[s]] # VALUE_EMPTY

TimeInv == StampsPast /\ TimersKept /\ Timestamps

\* An empty table satisfies the invariant.
LEMMA InitTime == Init => TimeInv
<1> SUFFICES ASSUME Init PROVE TimeInv
  OBVIOUS
<1> USE DEF Init, VALUE_EMPTY
<1>1. StampsPast
  BY DEF StampsPast, Stamped
<1>2. TimersKept
  BY DEF TimersKept
<1>3. Timestamps
  BY DEF Timestamps, Issued, WroteBack, Committed
<1> QED
  BY <1>1, <1>2, <1>3 DEF TimeInv

\* What the types say of the stamps.
LEMMA StampTypes ==
  ASSUME IInv
  PROVE  /\ cycle_counter \in Nat
         /\ \A i \in IDs : /\ issue[i] \in Int /\ execute[i] \in Int
                           /\ writeback[i] \in Int /\ commit[i] \in Int
                           /\ i \in Nat
         /\ \A s \in Stations : cycle_last[s] \in Int
         /\ \A s \in Stations : Busy(s) =>
              /\ inst_ptr[s] \in IDs /\ ~WroteBack(inst_ptr[s]) /\ Issued(inst_ptr[s])
              /\ \A t \in Stations : inst_ptr[t] = inst_ptr[s] => t = s
<1> USE DEF IInv
<1>1. cycle_counter \in Nat
  BY DEF TypeOK
<1>2. \A i \in IDs : /\ issue[i] \in Int /\ execute[i] \in Int
                     /\ writeback[i] \in Int /\ commit[i] \in Int /\ i \in Nat
  BY DEF TypeOK, VALUE_EMPTY, IDs
<1>3. \A s \in Stations : cycle_last[s] \in Int
  BY DEF TypeOK, VALUE_EMPTY
<1>4. ASSUME NEW s \in Stations, Busy(s)
      PROVE  /\ inst_ptr[s] \in IDs /\ ~WroteBack(inst_ptr[s]) /\ Issued(inst_ptr[s])
             /\ \A t \in Stations : inst_ptr[t] = inst_ptr[s] => t = s
  <2>1. inst_ptr[s] \in 0..(program_counter - 1) /\ program_counter \in 0..MAX_INST_NUM
    BY <1>4, SizeAssumption DEF StationOwnership, TypeOK
  <2>2. inst_ptr[s] \in IDs
    BY <2>1, SizeAssumption DEF IDs
  <2>3. Issued(inst_ptr[s])
    BY <2>1, <2>2 DEF Bookkeeping
  <2> QED
    BY <1>4, <2>2, <2>3 DEF StationOwnership
<1> QED
  BY <1>1, <1>2, <1>3, <1>4

\* Steps that touch neither stamps nor stations keep the invariant.
LEMMA QuietTime ==
  ASSUME IInv, TimeInv,
         \/ (\E line \in Lines : ReadInst(line)) \/ ReadEnd \/ Refresh \/ UNCHANGED vars
  PROVE  TimeInv'
<1> USE DEF ReadInst, ReadEnd, Refresh, vars, stamps, stations, table, regfile, TimeInv
<1>1. UNCHANGED <<cycle_counter, stamps, stations>>
  OBVIOUS
<1>2. phase' \in {"Commit", "Writeback", "Complete", "Refresh", "Issue"} =>
        phase' = phase \/ (phase' = "Issue" /\ phase = "Refresh")
  OBVIOUS
<1>3. StampsPast'
  BY <1>1, <1>2 DEF StampsPast, Stamped
<1>4. \A s \in Stations : Busy(s) => inst'[inst_ptr[s]] = inst[inst_ptr[s]]
  <2>1. CASE inst' = inst
    BY <2>1
  <2>2. CASE \E line \in Lines : ReadInst(line)
    BY <2>2 DEF IInv, Bookkeeping, StationOwnership
  <2> QED
    BY <2>1, <2>2
<1>5. TimersKept'
  BY <1>1, <1>4 DEF TimersKept, Busy
<1>6. Timestamps'
  <2>1. CASE inst' = inst
    BY <1>1, <2>1 DEF Timestamps, Issued, WroteBack, Committed
  <2>2. CASE \E line \in Lines : ReadInst(line)
    <3>1. \A i \in IDs : ~Issued(i) /\ ~WroteBack(i)
      BY <2>2 DEF IInv, Bookkeeping, IDs
    <3> QED
      BY <1>1, <3>1 DEF Timestamps, Issued, WroteBack, Committed
  <2> QED
    BY <2>1, <2>2
<1> QED
  BY <1>3, <1>5, <1>6

\* After a tick all stamps are in the past, and a station that executes has
\* spent one of its cycles.
LEMMA TickTime == IInv /\ TimeInv /\ Tick => TimeInv'
<1> SUFFICES ASSUME IInv, TimeInv, Tick PROVE TimeInv'
  OBVIOUS
<1> USE DEF Tick, table, stamps, regfile, TimeInv
<1>1. cycle_counter' = cycle_counter + 1 /\ cycle_counter \in Nat
  BY StampTypes
<1>2. StampsPast'
  BY <1>1, StampTypes DEF StampsPast, Stamped
<1>3. TimersKept'
  <2>1. ASSUME NEW s \in Stations, state[s] \in {"issued", "exec"}
        PROVE  cycle_counter' + cycle_last'[s] >= cycle_counter + cycle_last[s]
    BY <1>1, <2>1, StampTypes
  <2>2. ASSUME NEW s \in Stations, state[s] \in {"issued", "exec"}
        PROVE  issue[inst_ptr[s]] \in Int /\ cycle_last[s] \in Int /\ cycle_last'[s] \in Int
    BY <2>2, StampTypes DEF Busy
  <2>3. ASSUME NEW s \in Stations, state[s] \in {"issued", "exec"}
        PROVE  cycle_counter' + cycle_last'[s] >=
                 issue[inst_ptr[s]] + Latency(inst[inst_ptr[s]].type)
    <3>1. Latency(inst[inst_ptr[s]].type) \in Nat
      BY LatencyType
    <3> QED
      BY <1>1, <2>1, <2>2, <2>3, <3>1 DEF TimersKept
  <2> QED
    BY <2>3 DEF TimersKept
<1>4. Timestamps'
  BY DEF Timestamps, Issued, WroteBack, Committed
<1> QED
  BY <1>2, <1>3, <1>4

\* A commit is stamped later than the write-back and than earlier commits.
LEMMA CommitTime == IInv /\ TimeInv /\ Commit => TimeInv'
<1> SUFFICES ASSUME IInv, TimeInv, Commit PROVE TimeInv'
  OBVIOUS
<1> USE DEF Commit, table, stations, regfile, TimeInv
<1>1. commit_count \in IDs /\ commit_count \in Nat
  BY SizeAssumption DEF IInv, CommitInRange, TypeOK, IDs
<1>2. \A i \in IDs : \/ commit'[i] = commit[i]
                     \/ /\ i = commit_count /\ commit'[i] = cycle_counter
                        /\ WroteBack(i)
  BY <1>1 DEF Committable, WroteBack, IInv, TypeOK
<1>3. StampsPast'
  BY <1>2, StampTypes DEF StampsPast, Stamped
<1>4. TimersKept'
  BY DEF TimersKept
<1>5. Timestamps'
  <2>1. \A i \in IDs : Committed(i)' => WroteBack(i) /\ commit'[i] > writeback[i]
    BY <1>2, StampTypes DEF Timestamps, StampsPast, Stamped, Committed
  <2>2. \A i, j \in IDs : i < j /\ Committed(j)' => Committed(i)' /\ commit'[i] < commit'[j]
    <3>1. \A i \in IDs : Committed(i) <=> i < commit_count
      BY DEF IInv, Bookkeeping
    <3>2. ASSUME NEW i \in IDs, NEW j \in IDs, i < j, Committed(j)'
          PROVE  Committed(i) /\ commit'[i] = commit[i]
      BY <1>1, <1>2, <3>1, <3>2, StampTypes DEF Committed
    <3>3. ASSUME NEW i \in IDs, NEW j \in IDs, i < j, Committed(j)'
          PROVE  commit'[i] < commit'[j]
      BY <1>2, <3>2, <3>3, StampTypes DEF Timestamps, StampsPast, Stamped, Committed
    <3> QED
      BY <3>2, <3>3 DEF Committed
  <2>3. UNCHANGED <<issue, execute, writeback>>
    OBVIOUS
  <2> QED
    BY <2>1, <2>2, <2>3 DEF Timestamps, Issued, WroteBack
<1> QED
  BY <1>3, <1>4, <1>5

\* What is written back was done in an earlier cycle.
LEMMA WritebackTime == IInv /\ TimeInv /\ Writeback => TimeInv'
<1> SUFFICES ASSUME IInv, TimeInv, Writeback PROVE TimeInv'
  OBVIOUS
<1> USE DEF Writeback, table, TimeInv
<1>1. \A i \in IDs : \/ writeback'[i] = writeback[i]
                     \/ /\ writeback'[i] = cycle_counter /\ ~WroteBack(i)
                        /\ execute[i] # VALUE_EMPTY
  BY StampTypes DEF Finished, TimersKept, Busy
<1>2. StampsPast'
  BY <1>1, StampTypes DEF StampsPast, Stamped
<1>3. TimersKept'
  BY DEF TimersKept, Finished
<1>4. Timestamps'
  <2>1. \A i \in IDs : WroteBack(i)' => execute[i] # VALUE_EMPTY /\ writeback'[i] > execute[i]
    BY <1>1, StampTypes DEF Timestamps, StampsPast, Stamped, WroteBack
  <2>2. \A i \in IDs : Committed(i) => WroteBack(i)' /\ commit[i] > writeback'[i]
    BY <1>1 DEF Timestamps, WroteBack
  <2>3. UNCHANGED <<issue, execute, commit>>
    OBVIOUS
  <2> QED
    BY <2>1, <2>2, <2>3 DEF Timestamps, Issued, Committed
<1> QED
  BY <1>2, <1>3, <1>4

\* A station is done when it has spent the latency of its instruction.
LEMMA CompleteTime == IInv /\ TimeInv /\ Complete => TimeInv'
<1> SUFFICES ASSUME IInv, TimeInv, Complete PROVE TimeInv'
  OBVIOUS
<1> USE DEF Complete, table, regfile, TimeInv
<1>1. \A i \in IDs : \/ execute'[i] = execute[i]
                     \/ /\ execute'[i] = cycle_counter /\ ~WroteBack(i) /\ Issued(i)
                        /\ cycle_counter >= issue[i] + Latency(inst[i].type)
  BY StampTypes DEF Finishing, TimersKept, Busy
<1>2. StampsPast'
  BY <1>1, StampTypes DEF StampsPast, Stamped
<1>3. TimersKept'
  <2>1. ASSUME NEW s \in Stations, state'[s] = "done"
        PROVE  execute'[inst_ptr[s]] # VALUE_EMPTY
    <3>1. inst_ptr[s] \in IDs
      BY <2>1, StampTypes DEF Busy, Finishing
    <3>2. CASE s \in Finishing
      BY <3>1, <3>2, StampTypes DEF VALUE_EMPTY
    <3>3. CASE s \notin Finishing
      BY <1>1, <2>1, <3>1, <3>3, StampTypes DEF TimersKept, VALUE_EMPTY
    <3> QED
      BY <3>2, <3>3
  <2>2. \A s \in Stations : state'[s] \in {"issued", "exec"} => state[s] = state'[s]
    OBVIOUS
  <2>3. UNCHANGED <<cycle_counter, cycle_last, issue, inst_ptr, inst>>
    OBVIOUS
  <2> QED
    BY <2>1, <2>2, <2>3 DEF TimersKept
<1>4. Timestamps'
  <2>1. \A i \in IDs : execute'[i] # VALUE_EMPTY =>
          Issued(i) /\ execute'[i] >= issue[i] + Latency(inst[i].type)
    BY <1>1 DEF Timestamps
  <2>2. \A i \in IDs : WroteBack(i) => execute'[i] # VALUE_EMPTY /\ writeback[i] > execute'[i]
    BY <1>1 DEF Timestamps
  <2>3. UNCHANGED <<issue, writeback, commit, inst>>
    OBVIOUS
  <2> QED
    BY <2>1, <2>2, <2>3 DEF Timestamps, Issued, WroteBack, Committed
<1> QED
  BY <1>2, <1>3, <1>4

\* An instruction is issued later than those before it, with its full latency.
LEMMA IssueTime == IInv /\ TimeInv /\ Issue => TimeInv'
<1> SUFFICES ASSUME IInv, TimeInv, Issue PROVE TimeInv'
  OBVIOUS
<1> USE DEF Issue, table, TimeInv
<1>1. CASE NoIssue
  BY <1>1 DEF NoIssue, stations, regfile, StampsPast, Stamped, TimersKept, Timestamps,
     Issued, WroteBack, Committed
<1>2. ASSUME NEW new, new.state \in {"issued", "exec"}, CanIssue, Place(new)
      PROVE  TimeInv'
  <2>1. PICK p \in IDs, s \in Stations :
          p = program_counter /\ s = FirstIdle(inst[p].type) /\ state[s] = "unused"
    BY <1>2, SizeAssumption, FirstIdleIsIdle DEF CanIssue, IInv, TypeOK, IDs
  <2>2. /\ issue' = [issue EXCEPT ![p] = cycle_counter]
        /\ inst_ptr' = [inst_ptr EXCEPT ![s] = p]
        /\ cycle_last' = [cycle_last EXCEPT ![s] = Latency(inst[p].type)]
        /\ state' = [state EXCEPT ![s] = new.state]
        /\ UNCHANGED <<cycle_counter, inst, execute, writeback, commit>>
        /\ phase = "Issue" /\ phase' = "Start"
    BY <1>2, <2>1 DEF Place
  <2>3. \A i \in IDs : i # p => issue'[i] = issue[i]
    BY <2>2 DEF IInv, TypeOK
  <2>4. issue'[p] = cycle_counter /\ ~Issued(p) /\ p \in Nat
    BY <2>1, <2>2, StampTypes DEF IInv, TypeOK, Bookkeeping
  <2>5. StampsPast'
    BY <2>2, <2>3, <2>4, StampTypes DEF StampsPast, Stamped
  <2>6. TimersKept'
    <3>1. \A t \in Stations : t # s => /\ state'[t] = state[t] /\ inst_ptr'[t] = inst_ptr[t]
                                       /\ cycle_last'[t] = cycle_last[t]
      BY <2>2 DEF IInv, TypeOK
    <3>2. /\ state'[s] = new.state /\ inst_ptr'[s] = p
          /\ cycle_last'[s] = Latency(inst[p].type)
      BY <2>2 DEF IInv, TypeOK
    <3>3. cycle_counter + Latency(inst[p].type) >= cycle_counter + Latency(inst[p].type)
      BY LatencyType, StampTypes
    <3>4. \A t \in Stations : t # s /\ Busy(t) => inst_ptr[t] \in IDs /\ inst_ptr[t] # p
      BY <2>4, StampTypes
    <3> QED
      BY <1>2, <2>2, <2>3, <2>4, <3>1, <3>2, <3>3, <3>4 DEF TimersKept, Busy
  <2>7. Timestamps'
    <3>1. execute[p] = VALUE_EMPTY
      BY <2>4 DEF Timestamps
    <3>2. \A i \in IDs : execute[i] # VALUE_EMPTY =>
            Issued(i)' /\ execute[i] >= issue'[i] + Latency(inst[i].type)
      BY <2>3, <3>1 DEF Timestamps, Issued
    <3>3. \A i \in IDs : Issued(i) <=> i < p
      BY <2>1 DEF IInv, Bookkeeping
    <3>4. \A i \in IDs : Issued(i)' <=> i <= p
      BY <2>2, <2>3, <2>4, <3>3, StampTypes DEF Issued, VALUE_EMPTY
    <3>5. ASSUME NEW i \in IDs, NEW j \in IDs, i < j, Issued(j)'
          PROVE  Issued(i)' /\ issue'[i] < issue'[j]
      <4>1. i < p /\ Issued(i) /\ issue'[i] = issue[i] /\ i \in Nat /\ j \in Nat
        BY <2>3, <2>4, <3>3, <3>4, <3>5, StampTypes
      <4>2. CASE j = p
        BY <2>2, <2>4, <3>4, <4>1, <4>2, StampTypes DEF StampsPast, Stamped
      <4>3. CASE j # p
        <5>1. Issued(j) /\ issue'[j] = issue[j]
          BY <2>3, <2>4, <3>3, <3>4, <3>5, <4>1, <4>3
        <5> QED
          BY <3>4, <3>5, <4>1, <2>4, <5>1 DEF Timestamps
      <4> QED
        BY <4>2, <4>3
    <3> QED
      BY <2>2, <3>2, <3>5 DEF Timestamps, WroteBack, Committed
  <2> QED
    BY <2>5, <2>6, <2>7
<1>3. CASE set_idle_load \/ set_idle_store
  BY <1>2, <1>3 DEF set_idle_load, set_idle_store, Parked
<1>4. CASE set_idle_alu
  BY <1>2, <1>4 DEF set_idle_alu
<1> QED
  BY <1>1, <1>3, <1>4

\* The start of execution stamps nothing.
LEMMA StartTime == IInv /\ TimeInv /\ Start => TimeInv'
<1> SUFFICES ASSUME IInv, TimeInv, Start PROVE TimeInv'
  OBVIOUS
<1> USE DEF Start, table, stamps, regfile, TimeInv
<1>1. StampsPast' /\ Timestamps'
  BY DEF StampsPast, Stamped, Timestamps, Issued, WroteBack, Committed
<1>2. \A s \in Stations : /\ state'[s] \in {"issued", "exec"} => state[s] \in {"issued", "exec"}
                          /\ state'[s] = "done" => state[s] = "done"
  OBVIOUS
<1>3. UNCHANGED <<cycle_counter, cycle_last, issue, execute, inst_ptr, inst>>
  OBVIOUS
<1>4. TimersKept'
  BY <1>2, <1>3 DEF TimersKept
<1> QED
  BY <1>1, <1>4

\* The invariant of the stamps holds in every reachable state.
LEMMA TimeInvariance == Spec => []TimeInv
<1>1. Init => TimeInv
  BY InitTime
<1>2. IInv /\ TimeInv /\ [Next]_vars => TimeInv'
  <2> SUFFICES ASSUME IInv, TimeInv, [Next]_vars PROVE TimeInv'
    OBVIOUS
  <2>1. CASE (\E line \in Lines : ReadInst(line)) \/ ReadEnd \/ Terminated \/ UNCHANGED vars
    BY <2>1, QuietTime DEF Terminated
  <2>2. CASE Cycle
    BY <2>2, TickTime, CommitTime, WritebackTime, CompleteTime, QuietTime, IssueTime,
       StartTime DEF Cycle
  <2> QED
    BY <2>1, <2>2 DEF Next
<1> QED
  BY <1>1, <1>2, Invariance, PTL DEF Spec

\* The four columns of the table keep their order: an instruction issues,
\* executes for its latency, writes back and commits in distinct cycles, and
\* issue and commit follow program order, one instruction a cycle.
THEOREM StampsInOrder == Spec => []Timestamps
<1>1. TimeInv => Timestamps
  BY DEF TimeInv
<1> QED
  BY <1>1, TimeInvariance, PTL

-----------------------------------------------------------------------------
(* Waiting.                                                                *)

\* A station that is still waiting when the cycle begins was passed over by
\* the loops that start execution.
NoneToStart == phase = "Tick" => \A s \in Stations : state[s] = "issued" => ~MayStart(s)

\* Loads and stores have no source fields.
OnlyAlusWait == \A s \in Loads \cup Stores : Qj[s] = VALUE_EMPTY /\ Qk[s] = VALUE_EMPTY

WaitInv == NoLostWakeup /\ NoneToStart /\ OnlyAlusWait

\* A waiting station that is not to start yet is in the same state after steps
\* that leave the stations, the registers and the commits alone.
LEMMA QuietWait ==
  ASSUME IInv, WaitInv,
         \/ (\E line \in Lines : ReadInst(line)) \/ ReadEnd \/ Tick \/ Commit
         \/ Complete \/ UNCHANGED vars
  PROVE  WaitInv'
<1> USE DEF ReadInst, ReadEnd, Tick, Commit, Complete, vars, stamps, stations, table,
            regfile, WaitInv
<1>1. UNCHANGED <<inst_ptr, Qj, Qk, waiting>>
  OBVIOUS
<1>2. \A s \in Stations : Busy(s)' <=> Busy(s)
  BY DEF Busy, Finishing, IInv, TypeOK
<1>3. \A s \in Stations : state'[s] = "issued" <=> state[s] = "issued"
  BY DEF Finishing, IInv, TypeOK
<1>4. \A s \in Stations : Busy(s) => Dest(s)' = Dest(s)
  <2>1. CASE inst' = inst
    BY <1>1, <2>1 DEF Dest
  <2>2. CASE \E line \in Lines : ReadInst(line)
    BY <2>2 DEF IInv, Bookkeeping, StationOwnership
  <2> QED
    BY <2>1, <2>2
<1>5. \A r : Writers(r)' = Writers(r)
  BY <1>2, <1>4 DEF Writers, Stations
<1>6. NoLostWakeup'
  BY <1>1, <1>3, <1>5 DEF NoLostWakeup, Stations
<1>7. NoneToStart'
  <2>1. CASE phase' # "Tick"
    BY <2>1 DEF NoneToStart
  <2>2. CASE UNCHANGED vars
    BY <2>2 DEF NoneToStart, MayStart, check_reg, Dest
  <2>3. CASE phase' = "Tick" /\ ReadEnd
    BY <2>3 DEF NoneToStart, IInv, Bookkeeping, StationOwnership, Busy
  <2> QED
    BY <2>1, <2>2, <2>3
<1> QED
  BY <1>1, <1>6, <1>7 DEF OnlyAlusWait

\* Whatever a write-back clears, the station that waited for it hears of it.
LEMMA WritebackWait == IInv /\ WaitInv /\ Writeback => WaitInv'
<1> SUFFICES ASSUME IInv, WaitInv, Writeback PROVE WaitInv'
  OBVIOUS
<1> USE DEF Writeback, table, WaitInv
<1>1. \A s \in Stations : Busy(s)' <=> Busy(s) /\ s \notin Finished
  BY DEF Busy, Finished, IInv, TypeOK
<1>2. \A s \in Stations : s \notin Finished => inst_ptr'[s] = inst_ptr[s] /\ Dest(s)' = Dest(s)
  BY DEF Dest, IInv, TypeOK
<1>3. \A r : Writers(r)' = Writers(r) \ Finished
  <2>1. ASSUME NEW r, NEW s \in Loads \cup Alus
        PROVE  s \in Writers(r)' <=> s \in Writers(r) \ Finished
    <3>1. s \in Stations
      BY DEF Stations
    <3> HIDE DEF Writeback
    <3> QED
      BY <1>1, <1>2, <3>1 DEF Writers
  <2> QED
    BY <2>1 DEF Writers
<1>4. \A r \in Regs : waiting'[r] => Writers(r)' # {}
  BY <1>3 DEF NoLostWakeup, Cleared, Writers
<1>5. ASSUME NEW s \in Alus, NEW r \in {Qj'[s], Qk'[s]} \ {VALUE_EMPTY}
      PROVE  state'[s] = "issued" /\ \E t \in Writers(r)' : inst_ptr'[t] < inst_ptr'[s]
  <2>1. s \in Stations
    BY DEF Stations
  <2>2. r \in {Qj[s], Qk[s]} \ {VALUE_EMPTY} /\ r \notin Written /\ s \notin Finished
    BY <1>5, <2>1 DEF AfterBroadcast, Finished, NoLostWakeup
  <2>3. PICK t \in Writers(r) : inst_ptr[t] < inst_ptr[s]
    BY <2>2 DEF NoLostWakeup
  <2>4. t \in Stations /\ t \notin Finished
    BY <2>2, <2>3, StationFacts DEF Written, Writers, Stations
  <2> QED
    BY <1>2, <1>3, <2>1, <2>2, <2>3, <2>4 DEF NoLostWakeup
<1>6. NoneToStart'
  BY DEF NoneToStart
<1>7. OnlyAlusWait'
  BY DEF OnlyAlusWait, AfterBroadcast, Stations
<1> QED
  BY <1>4, <1>5, <1>6, <1>7 DEF NoLostWakeup

\* Marks are set for registers of busy stations only.
LEMMA RefreshWait == IInv /\ WaitInv /\ Refresh => WaitInv'
<1> SUFFICES ASSUME IInv, WaitInv, Refresh PROVE WaitInv'
  OBVIOUS
<1> USE DEF Refresh, table, stamps, stations, WaitInv
<1>1. \A r : Writers(r)' = Writers(r)
  BY DEF Writers, Busy, Dest
<1>2. \A r \in Claimed : Writers(r) # {}
  BY DEF Claimed, Writers, Busy
<1>3. NoLostWakeup'
  BY <1>1, <1>2 DEF NoLostWakeup
<1> QED
  BY <1>3 DEF NoneToStart, OnlyAlusWait

\* A station starts only when it waits for nothing.
LEMMA StartWait == IInv /\ WaitInv /\ Start => WaitInv'
<1> SUFFICES ASSUME IInv, WaitInv, Start PROVE WaitInv'
  OBVIOUS
<1> USE DEF Start, table, stamps, regfile, WaitInv
<1>1. \A s \in Stations : /\ Busy(s)' <=> Busy(s)
                          /\ state'[s] = "issued" <=> state[s] = "issued" /\ ~MayStart(s)
  BY DEF Busy, IInv, TypeOK
<1>2. \A r : Writers(r)' = Writers(r)
  BY <1>1 DEF Writers, Dest, Stations
<1>3. \A s \in Alus : ~(Qj[s] = VALUE_EMPTY /\ Qk[s] = VALUE_EMPTY) => ~MayStart(s)
  BY StationFacts DEF MayStart
<1>4. NoLostWakeup'
  BY <1>1, <1>2, <1>3 DEF NoLostWakeup, Stations
<1>5. \A s \in Stations : MayStart(s)' <=> MayStart(s)
  BY DEF MayStart, check_reg, Dest
<1>6. NoneToStart'
  BY <1>1, <1>5 DEF NoneToStart
<1> QED
  BY <1>4, <1>6 DEF OnlyAlusWait

\* A new station waits for stations that were there before it, and is the one
\* that whoever comes later waits for.
LEMMA IssueWait == IInv /\ WaitInv /\ Issue => WaitInv'
<1> SUFFICES ASSUME IInv, WaitInv, Issue PROVE WaitInv'
  OBVIOUS
<1> USE DEF Issue, table, WaitInv
<1>1. NoneToStart'
  BY DEF NoneToStart
<1>2. CASE NoIssue
  <2>1. \A r : Writers(r)' = Writers(r)
    BY <1>2 DEF NoIssue, stations, Writers, Busy, Dest
  <2>2. NoLostWakeup'
    BY <1>2, <2>1 DEF NoIssue, stations, regfile, NoLostWakeup
  <2>3. OnlyAlusWait'
    BY <1>2 DEF NoIssue, stations, OnlyAlusWait
  <2> QED
    BY <1>1, <2>2, <2>3
<1>3. ASSUME NEW new, CanIssue, Place(new), new.state \in {"issued", "exec"},
             \A r \in {new.Qj, new.Qk} \ {VALUE_EMPTY} :
               r \in Regs /\ waiting[r] /\ new.state = "issued",
             NEW claims \in BOOLEAN,
             claims <=> inst[program_counter].type # "SW",
             waiting' = IF claims THEN [waiting EXCEPT ![inst[program_counter].dest] = TRUE]
                        ELSE waiting,
             inst[program_counter].type \in {"LW", "SW"} =>
               new.Qj = VALUE_EMPTY /\ new.Qk = VALUE_EMPTY
      PROVE  NoLostWakeup' /\ OnlyAlusWait'
  <2>1. PICK p \in IDs, s \in Stations :
          /\ p = program_counter /\ s = FirstIdle(inst[p].type)
          /\ s \in StationsOf(inst[p].type) /\ state[s] = "unused"
    BY <1>3, SizeAssumption, FirstIdleIsIdle DEF CanIssue, IInv, TypeOK, IDs
  <2>2. /\ \A t \in Stations : t # s => /\ state'[t] = state[t] /\ inst_ptr'[t] = inst_ptr[t]
                                        /\ Qj'[t] = Qj[t] /\ Qk'[t] = Qk[t]
        /\ state'[s] = new.state /\ inst_ptr'[s] = p
        /\ Qj'[s] = new.Qj /\ Qk'[s] = new.Qk
    BY <1>3, <2>1 DEF Place, IInv, TypeOK
  <2>3. s \in Loads \cup Alus <=> claims
    BY <1>3, <2>1, StationFacts DEF StationsOf, Stations
  <2>4. \A r : Writers(r) \subseteq Writers(r)' /\ s \notin Writers(r)
    BY <2>1, <2>2 DEF Writers, Busy, Dest, Stations
  <2>5. claims => s \in Writers(inst[p].dest)'
    BY <1>3, <2>2, <2>3 DEF Writers, Busy, Dest
  <2>6. \A r \in Regs : waiting'[r] => Writers(r)' # {}
    BY <1>3, <2>1, <2>4, <2>5 DEF NoLostWakeup, IInv, TypeOK
  <2>7. ASSUME NEW a \in Alus, NEW r \in {Qj'[a], Qk'[a]} \ {VALUE_EMPTY}
        PROVE  state'[a] = "issued" /\ \E t \in Writers(r)' : inst_ptr'[t] < inst_ptr'[a]
    <3>1. CASE a # s
      <4>1. a \in Stations /\ state[a] = "issued"
        BY <2>2, <2>7, <3>1 DEF NoLostWakeup, Stations
      <4>2. PICK t \in Writers(r) : inst_ptr[t] < inst_ptr[a]
        BY <2>2, <2>7, <3>1, <4>1 DEF NoLostWakeup
      <4>3. t \in Stations /\ t # s
        BY <2>4, <4>2 DEF Writers, Stations
      <4> QED
        BY <2>2, <2>4, <3>1, <4>1, <4>2, <4>3
    <3>2. CASE a = s
      <4>1. r \in Regs /\ waiting[r] /\ state'[s] = "issued"
        BY <1>3, <2>2, <2>7, <3>2
      <4>2. PICK t \in Writers(r) : TRUE
        BY <4>1 DEF NoLostWakeup
      <4>3. t \in Stations /\ t # s /\ Busy(t)
        BY <2>4, <4>2 DEF Writers, Stations
      <4>4. inst_ptr[t] \in 0..(p - 1) /\ p \in Nat
        BY <2>1, <4>3 DEF IInv, StationOwnership, IDs
      <4>5. inst_ptr'[t] < inst_ptr'[s]
        BY <2>2, <4>3, <4>4
      <4> QED
        BY <2>4, <3>2, <4>1, <4>2, <4>5
    <3> QED
      BY <3>1, <3>2
  <2>8. s \in Loads \cup Stores => new.Qj = VALUE_EMPTY /\ new.Qk = VALUE_EMPTY
    BY <1>3, <2>1, StationFacts DEF StationsOf
  <2>9. OnlyAlusWait'
    BY <2>2, <2>8 DEF OnlyAlusWait, Stations
  <2> QED
    BY <2>6, <2>7, <2>9 DEF NoLostWakeup
<1>4. CASE set_idle_load
  <2>1. /\ CanIssue /\ Place(Parked) /\ inst[program_counter].type = "LW"
        /\ waiting' = [waiting EXCEPT ![inst[program_counter].dest] = TRUE]
    BY <1>4 DEF set_idle_load, Claim
  <2>2. Parked.state = "issued" /\ Parked.Qj = VALUE_EMPTY /\ Parked.Qk = VALUE_EMPTY
    BY DEF Parked
  <2> QED
    BY <1>1, <1>3, <2>1, <2>2
<1>5. CASE set_idle_store
  <2>1. /\ CanIssue /\ Place(Parked) /\ inst[program_counter].type = "SW"
        /\ waiting' = waiting
    BY <1>5 DEF set_idle_store, regfile
  <2>2. Parked.state = "issued" /\ Parked.Qj = VALUE_EMPTY /\ Parked.Qk = VALUE_EMPTY
    BY DEF Parked
  <2> QED
    BY <1>1, <1>3, <2>1, <2>2
<1>6. CASE set_idle_alu
  <2> DEFINE i == inst[program_counter]
             j == PendingSource(i.src_1)
             k == PendingSource(i.src_2)
             new == [state |-> IF j = VALUE_EMPTY /\ k = VALUE_EMPTY
                                 THEN "exec" ELSE "issued",
                     Qj |-> j, Qk |-> k]
  <2>1. i.src_1 \in Regs /\ i.src_2 \in Regs
    BY <1>6 DEF set_idle_alu, CanIssue, IInv, TypeOK, Decoded
  <2>2. \A r \in {new.Qj, new.Qk} \ {VALUE_EMPTY} :
          r \in Regs /\ waiting[r] /\ new.state = "issued"
    BY <2>1 DEF PendingSource
  <2>3. /\ CanIssue /\ Place(new) /\ new.state \in {"issued", "exec"}
        /\ i.type \notin {"LW", "SW"} /\ waiting' = [waiting EXCEPT ![i.dest] = TRUE]
    BY <1>6 DEF set_idle_alu, Claim
  <2> HIDE DEF new
  <2> QED
    BY <1>1, <1>3, <2>2, <2>3
<1> QED
  BY <1>2, <1>4, <1>5, <1>6

\* No wake-up is lost, and no station that may start is passed over.
LEMMA WaitInvariance == Spec => []WaitInv
<1>1. Init => WaitInv
  BY DEF Init, WaitInv, NoLostWakeup, NoneToStart, OnlyAlusWait, Stations
<1>2. IInv /\ WaitInv /\ [Next]_vars => WaitInv'
  <2> SUFFICES ASSUME IInv, WaitInv, [Next]_vars PROVE WaitInv'
    OBVIOUS
  <2>1. CASE (\E line \in Lines : ReadInst(line)) \/ ReadEnd \/ Terminated \/ UNCHANGED vars
    BY <2>1, QuietWait DEF Terminated
  <2>2. CASE Cycle
    BY <2>2, QuietWait, WritebackWait, RefreshWait, IssueWait, StartWait DEF Cycle
  <2> QED
    BY <2>1, <2>2 DEF Next
<1> QED
  BY <1>1, <1>2, Invariance, PTL DEF Spec

\* A register that is marked pending has a writer in flight, and a station that
\* waits has an older one: two stations never wait for each other.
THEOREM WakeupsArrive == Spec => []NoLostWakeup
<1>1. WaitInv => NoLostWakeup
  BY DEF WaitInv
<1> QED
  BY <1>1, WaitInvariance, PTL

\* The simulator stops making progress only in front of a store: with all
\* stations waiting, the oldest instruction would otherwise issue or start.
THEOREM OnlyStoresWedge == Spec => []WedgedOnlyByStore
<1>1. IInv /\ WaitInv /\ Timestamps => WedgedOnlyByStore
  <2> SUFFICES ASSUME IInv, WaitInv, Timestamps, Wedged, ~IsStore(commit_count) PROVE FALSE
    BY DEF WedgedOnlyByStore
  <2>1. PICK c \in IDs : c = commit_count
    BY SizeAssumption DEF IInv, TypeOK, Wedged, IDs
  <2>2. /\ c \in Nat /\ c < inst_count /\ ~Committable /\ ~Committed(c)
        /\ \A i \in IDs : i < c => Committed(i) /\ WroteBack(i)
    BY <2>1 DEF Wedged, IInv, Bookkeeping, IDs, Timestamps
  <2>3. ~WroteBack(c)
    <3>1. c > 0 => c - 1 \in IDs /\ c - 1 < c
      BY <2>1, <2>2, SizeAssumption DEF IDs
    <3> QED
      BY <2>1, <2>2, <3>1 DEF Committable, WroteBack, Committed
  <2>4. CASE ~Issued(c)
    <3>1. c = program_counter /\ program_counter < inst_count
      <4>1. program_counter \in Nat
        BY SizeAssumption DEF IInv, TypeOK
      <4>2. ~(c < program_counter) /\ c <= program_counter
        BY <2>1, <2>4 DEF IInv, Bookkeeping
      <4> QED
        BY <2>2, <4>1, <4>2
    <3>2. Idle(inst[c].type) = {}
      BY <3>1 DEF Wedged, CanIssue
    <3>3. PICK s \in StationsOf(inst[c].type) : TRUE
      BY StationsAssumption DEF StationsOf, Loads, Stores, Adds, Muls, AddBase, MulBase
    <3>4. s \in Stations /\ Busy(s)
      BY <3>2, <3>3, StationFacts DEF Idle, Busy
    <3>5. inst_ptr[s] \in IDs /\ inst_ptr[s] < c /\ ~WroteBack(inst_ptr[s])
      BY <2>2, <3>1, <3>4, StampTypes DEF IInv, StationOwnership
    <3> QED
      BY <2>2, <3>5
  <2>5. CASE Issued(c)
    <3>1. PICK s \in Stations : inst_ptr[s] = c
      BY <2>1, <2>2, <2>3, <2>5 DEF IInv, StationOwnership, Bookkeeping, TypeOK
    <3>2. Busy(s)
      BY <2>2, <3>1 DEF IInv, StationOwnership, VALUE_EMPTY
    <3>3. state[s] = "issued" /\ phase = "Tick"
      BY <3>2 DEF Wedged, Busy
    <3>4. ~MayStart(s)
      BY <3>3 DEF WaitInv, NoneToStart
    <3>5. s \in StationsOf(inst[c].type) /\ inst[c].type # "SW"
      BY <2>1, <3>1, <3>2 DEF IInv, StationOwnership, IsStore
    <3>6. s \notin Stores
      BY <3>5, StationFacts DEF StationsOf
    <3>7. check_reg(inst_ptr[s], Dest(s))
      <4>1. \A i \in 0..(c - 1) : i \in IDs /\ i < c
        BY <2>2, SizeAssumption DEF IDs
      <4> QED
        BY <2>2, <3>1, <4>1 DEF check_reg, Committed
    <3>8. PICK r \in {Qj[s], Qk[s]} : r # VALUE_EMPTY
      BY <3>4, <3>6, <3>7 DEF MayStart
    <3>9. s \in Alus
      BY <3>6, <3>8 DEF Stations, WaitInv, OnlyAlusWait
    <3>10. PICK t \in Writers(r) : inst_ptr[t] < inst_ptr[s]
      BY <3>8, <3>9 DEF WaitInv, NoLostWakeup
    <3>11. t \in Stations /\ Busy(t)
      BY <3>10 DEF Writers, Stations
    <3> QED
      BY <2>2, <3>1, <3>10, <3>11, StampTypes
  <2> QED
    BY <2>4, <2>5
<1> QED
  BY <1>1, Invariance, WaitInvariance, StampsInOrder, PTL

-----------------------------------------------------------------------------
(* The simulator computes what a program says, for programs that never     *)
(* reuse a destination register.                                           *)

\* Every earlier instruction that writes r has broadcast its result.
Ready(i, r) == \A j \in 0..(i - 1) : ~IsStore(j) /\ inst[j].dest = r => WroteBack(j)

\* The mark of a register stays as long as its writer is in flight.
WritersMark == \A s \in Loads \cup Alus : Busy(s) => waiting[Dest(s)]

\* A source field of a waiting station is its register, or the register is ready.
Tracked(Q, s, r) ==
  /\ Q[s] \in {VALUE_EMPTY, r}
  /\ Q[s] = VALUE_EMPTY => Ready(inst_ptr[s], r)

SourcesTracked ==
  \A s \in Alus : state[s] = "issued" =>
    /\ Tracked(Qj, s, inst[inst_ptr[s]].src_1)
    /\ Tracked(Qk, s, inst[inst_ptr[s]].src_2)

\* A result stays in its register.
ValuesKept ==
  \A i \in 0..(inst_count - 1) :
    ~IsStore(i) /\ WroteBack(i) => value[inst[i].dest] = MEM_OFFSET + i

DoneCommitted == phase = "Done" => \A i \in 0..(inst_count - 1) : Committed(i)

DataInv == SourcesWritten /\ WritersMark /\ SourcesTracked /\ ValuesKept

RenamedInv == (Renamed => DataInv) /\ DoneCommitted

-----------------------------------------------------------------------------
(* Instructions and stations.                                              *)

\* What a station in use says of its instruction.
LEMMA StationInst ==
  ASSUME IInv, NEW s \in Stations, Busy(s)
  PROVE  /\ inst_ptr[s] \in 0..(inst_count - 1) /\ inst_ptr[s] < program_counter
         /\ inst_ptr[s] \in IDs /\ inst_ptr[s] \in Nat
         /\ ~WroteBack(inst_ptr[s])
         /\ inst[inst_ptr[s]].type \in Types
         /\ s \in Stores <=> IsStore(inst_ptr[s])
         /\ s \in Loads <=> inst[inst_ptr[s]].type = "LW"
         /\ Dest(s) \in Regs
<1>1. inst_ptr[s] \in 0..(program_counter - 1) /\ s \in StationsOf(inst[inst_ptr[s]].type)
  BY DEF IInv, StationOwnership
<1>2. program_counter \in Nat /\ inst_count \in Nat /\ program_counter <= inst_count
  BY SizeAssumption DEF IInv, TypeOK
<1>3. inst_ptr[s] \in 0..(inst_count - 1)
  BY <1>1, <1>2
<1>4. inst[inst_ptr[s]].type \in Types /\ Dest(s) \in Regs
  BY <1>3 DEF IInv, Decoded, Dest
<1>5. /\ s \in Stores <=> IsStore(inst_ptr[s])
      /\ s \in Loads <=> inst[inst_ptr[s]].type = "LW"
  BY <1>1, StationFacts DEF StationsOf, IsStore
<1> QED
  BY <1>1, <1>2, <1>3, <1>4, <1>5, StampTypes

\* No two instructions of a renamed program write the same register.
LEMMA OneWriter ==
  ASSUME IInv, Renamed, NEW i \in 0..(inst_count - 1), NEW j \in 0..(inst_count - 1),
         ~IsStore(i), ~IsStore(j), inst[i].dest = inst[j].dest
  PROVE  i = j
<1>1. i \in Nat /\ j \in Nat
  BY SizeAssumption DEF IInv, TypeOK
<1> QED
  BY <1>1 DEF Renamed

\* A register without mark is ready for whatever is issued next.
LEMMA UnmarkedReady ==
  ASSUME IInv, WritersMark, NEW r \in Regs, ~waiting[r],
         NEW i \in Nat, i <= program_counter
  PROVE  Ready(i, r)
<1> SUFFICES ASSUME NEW j \in 0..(i - 1), ~IsStore(j), inst[j].dest = r, ~WroteBack(j)
             PROVE  FALSE
  BY DEF Ready
<1>1. j \in 0..(program_counter - 1) /\ j # VALUE_EMPTY
  BY SizeAssumption DEF IInv, TypeOK, VALUE_EMPTY
<1>2. PICK s \in Stations : inst_ptr[s] = j
  BY <1>1 DEF IInv, StationOwnership
<1>3. Busy(s) /\ s \notin Stores
  BY <1>1, <1>2, StationInst DEF IInv, StationOwnership
<1> QED
  BY <1>2, <1>3 DEF WritersMark, Stations, Dest

\* Stations that are ready in all their sources may execute.
LEMMA ReadyProducers ==
  ASSUME NEW i,
         IF IsStore(i) THEN Ready(i, inst[i].dest)
         ELSE inst[i].type = "LW" \/ (Ready(i, inst[i].src_1) /\ Ready(i, inst[i].src_2))
  PROVE  \A j \in Producers(i) : WroteBack(j)
BY DEF Producers, Sources, Ready, IsStore

-----------------------------------------------------------------------------
(* Each action preserves the invariant.                                    *)

\* Reading, counting, committing and completing move no data.
LEMMA QuietData ==
  ASSUME IInv, RenamedInv,
         \/ (\E line \in Lines : ReadInst(line)) \/ ReadEnd \/ Tick \/ Commit
         \/ Complete \/ Refresh \/ UNCHANGED vars
  PROVE  RenamedInv'
<1> USE DEF ReadInst, ReadEnd, Tick, Commit, Complete, Refresh, vars, stamps, stations,
            table, regfile, RenamedInv
<1>1. DoneCommitted'
  BY DEF DoneCommitted, Committed
<1>2. CASE \E line \in Lines : ReadInst(line)
  <2>1. \A s \in Stations : state'[s] = "unused"
    BY <1>2 DEF IInv, Bookkeeping, StationOwnership, Busy
  <2>2. inst_count' = inst_count + 1 /\ inst_count \in IDs
    BY <1>2, SizeAssumption DEF IInv, TypeOK, IDs
  <2>3. \A i \in 0..(inst_count' - 1) : ~WroteBack(i)'
    <3>1. \A i \in IDs : ~WroteBack(i)'
      BY <1>2, SizeAssumption DEF IInv, Bookkeeping, IDs, WroteBack
    <3> QED
      BY <2>2, <3>1, SizeAssumption DEF IDs
  <2>4. SourcesWritten' /\ WritersMark' /\ SourcesTracked'
    BY <2>1 DEF SourcesWritten, WritersMark, SourcesTracked, Busy, Stations
  <2>5. ValuesKept'
    BY <2>3 DEF ValuesKept
  <2> QED
    BY <1>1, <2>4, <2>5 DEF DataInv
<1>3. CASE ~(\E line \in Lines : ReadInst(line))
  <2>1. UNCHANGED <<inst, inst_count, inst_ptr, Qj, Qk, value, writeback>>
    BY <1>3
  <2>2. \A r \in Regs : waiting[r] => waiting'[r]
    BY DEF IInv, TypeOK
  <2>3. \A s \in Stations : /\ Busy(s)' <=> Busy(s)
                            /\ state'[s] = "issued" <=> state[s] = "issued"
                            /\ state'[s] \in {"exec", "done"} <=> state[s] \in {"exec", "done"}
    BY DEF Busy, Finishing, IInv, TypeOK
  <2>4. Renamed' <=> Renamed
    BY <2>1 DEF Renamed, IsStore
  <2>5. SourcesWritten => SourcesWritten'
    BY <2>1, <2>3 DEF SourcesWritten, Producers, Sources, IsStore, WroteBack
  <2>6. WritersMark => WritersMark'
    BY <2>1, <2>2, <2>3, StationInst DEF WritersMark, Dest, Stations
  <2>7. SourcesTracked => SourcesTracked'
    BY <2>1, <2>3 DEF SourcesTracked, Tracked, Ready, IsStore, WroteBack, Stations
  <2>8. ValuesKept => ValuesKept'
    BY <2>1 DEF ValuesKept, IsStore, WroteBack
  <2> QED
    BY <1>1, <2>4, <2>5, <2>6, <2>7, <2>8 DEF DataInv
<1> QED
  BY <1>2, <1>3

\* The start of execution: whatever starts has its sources ready.
LEMMA StartData == IInv /\ WaitInv /\ RenamedInv /\ Start => RenamedInv'
<1> SUFFICES ASSUME IInv, WaitInv, RenamedInv, Start PROVE RenamedInv'
  OBVIOUS
<1> USE DEF Start, table, stamps, regfile, RenamedInv
<1>1. DoneCommitted'
  BY DEF DoneCommitted, check_finish, Committed
<1>2. UNCHANGED <<inst, inst_count, inst_ptr, Qj, Qk, waiting, value, writeback>>
  OBVIOUS
<1>3. \A s \in Stations : /\ Busy(s)' <=> Busy(s)
                          /\ state'[s] = "issued" => state[s] = "issued"
                          /\ state'[s] \in {"exec", "done"} =>
                               state[s] \in {"exec", "done"} \/ (state[s] = "issued" /\ MayStart(s))
  BY DEF Busy, IInv, TypeOK
<1>4. Renamed' <=> Renamed
  BY <1>2 DEF Renamed, IsStore
<1> HIDE DEF Start
<1>5. ASSUME DataInv, NEW s \in Stations, state[s] = "issued", MayStart(s)
      PROVE  \A j \in Producers(inst_ptr[s]) : WroteBack(j)
  <2> DEFINE i == inst_ptr[s]
  <2>1. /\ Busy(s) /\ i \in Nat /\ i <= program_counter /\ Dest(s) = inst[i].dest
        /\ s \in Stores <=> IsStore(i)
        /\ s \in Loads <=> inst[i].type = "LW"
        /\ Dest(s) \in Regs
    <3>1. Busy(s)
      BY <1>5 DEF Busy
    <3>2. program_counter \in Nat
      BY SizeAssumption DEF IInv, TypeOK
    <3> QED
      BY <3>1, <3>2, StationInst DEF Dest
  <2>2. CASE s \in Stores
    <3>1. Ready(i, Dest(s))
      BY <1>5, <2>1, <2>2, UnmarkedReady DEF MayStart, DataInv
    <3> HIDE DEF i
    <3> QED
      BY <2>1, <2>2, <3>1, ReadyProducers DEF i
  <2>3. CASE s \in Loads
    BY <2>1, <2>3, ReadyProducers, StationFacts
  <2>4. CASE s \in Alus
    BY <1>5, <2>1, <2>4, ReadyProducers, StationFacts
    DEF DataInv, SourcesTracked, Tracked, MayStart
  <2> QED
    BY <2>2, <2>3, <2>4 DEF Stations
<1>6. DataInv => SourcesWritten'
  BY <1>2, <1>3, <1>5 DEF DataInv, SourcesWritten, Producers, Sources, IsStore, WroteBack
<1>7. DataInv => WritersMark' /\ SourcesTracked' /\ ValuesKept'
  BY <1>2, <1>3 DEF DataInv, WritersMark, SourcesTracked, ValuesKept, Dest, Tracked, Ready,
     IsStore, WroteBack, Stations
<1> QED
  BY <1>1, <1>4, <1>6, <1>7 DEF DataInv

\* A broadcast reaches whoever waits for it, and clears no other writer's mark.
LEMMA WritebackData == IInv /\ RenamedInv /\ Writeback => RenamedInv'
<1> SUFFICES ASSUME IInv, RenamedInv, Writeback PROVE RenamedInv'
  OBVIOUS
<1> USE DEF Writeback, table, RenamedInv
<1>1. DoneCommitted'
  BY DEF DoneCommitted
<1>2. Renamed' <=> Renamed
  BY DEF Renamed, IsStore
<1>3. SUFFICES ASSUME Renamed, DataInv PROVE DataInv'
  BY <1>1, <1>2
<1>4. \A i \in IDs : WroteBack(i)' <=> (WroteBack(i) \/ \E s \in Finished : inst_ptr[s] = i)
  BY StampTypes DEF WroteBack, VALUE_EMPTY, IInv, Bookkeeping
<1>5. \A s \in Stations : /\ Busy(s)' <=> Busy(s) /\ s \notin Finished
                          /\ state'[s] = "issued" <=> state[s] = "issued"
                          /\ state'[s] # "done"
                          /\ state'[s] = "exec" <=> state[s] = "exec"
                          /\ s \notin Finished => inst_ptr'[s] = inst_ptr[s]
  BY DEF Busy, Finished, IInv, TypeOK
<1>6. \A s \in Finished : s \in Stations /\ Busy(s)
  BY DEF Finished, Busy
<1>7. \A i \in 0..(inst_count - 1) : i \in IDs
  BY SizeAssumption DEF IInv, TypeOK, IDs
<1>8. UNCHANGED <<inst, inst_count>>
  OBVIOUS
<1> HIDE DEF Writeback
<1>9. SourcesWritten'
  <2>1. ASSUME NEW s \in Stations, state'[s] \in {"exec", "done"},
               NEW j \in Producers(inst_ptr[s])
        PROVE  WroteBack(j)'
    <3>1. state[s] = "exec" /\ s \notin Finished
      BY <1>5, <2>1 DEF Finished
    <3>2. WroteBack(j)
      BY <1>3, <2>1, <3>1 DEF DataInv, SourcesWritten
    <3>3. Busy(s) /\ j \in 0..(inst_ptr[s] - 1)
      BY <3>1 DEF Busy, Producers
    <3>4. j \in IDs
      BY <3>3, StationInst, SizeAssumption DEF IDs
    <3> QED
      BY <1>4, <3>2, <3>4
  <2>2. \A i : Producers(i)' = Producers(i)
    BY <1>8 DEF Producers, Sources, IsStore
  <2> QED
    BY <1>5, <2>1, <2>2 DEF SourcesWritten, Finished
<1>10. WritersMark'
  <2> SUFFICES ASSUME NEW s \in Loads \cup Alus, Busy(s)'
               PROVE  waiting'[Dest(s)']
    BY DEF WritersMark
  <2>1. s \in Stations /\ s \notin Stores
    BY StationFacts DEF Stations
  <2>2. Busy(s) /\ s \notin Finished /\ Dest(s)' = Dest(s)
    BY <1>5, <1>8, <2>1 DEF Dest
  <2>3. Dest(s) \in Regs /\ waiting[Dest(s)]
    BY <1>3, <2>1, <2>2, StationInst DEF DataInv, WritersMark
  <2>4. ASSUME NEW t \in Finished, Dest(t) = Dest(s) PROVE FALSE
    <3> DEFINE i == inst_ptr[s]
               k == inst_ptr[t]
    <3>1. /\ i \in 0..(inst_count - 1) /\ k \in 0..(inst_count - 1)
          /\ ~IsStore(i) /\ ~WroteBack(i) /\ inst[i].dest = inst[k].dest
          /\ i \in Nat /\ k \in Nat /\ t \in Stations /\ (t \in Stores <=> IsStore(k))
      BY <1>6, <2>1, <2>2, <2>4, StationInst DEF Dest
    <3>2. CASE ~IsStore(k)
      <4>1. i = k
        <5> HIDE DEF i, k
        <5> QED BY <1>3, <3>1, <3>2, OneWriter
      <4> QED
        BY <1>6, <2>1, <2>2, <2>4, <4>1, StampTypes
    <3>3. CASE IsStore(k)
      <4>1. ~(k < i)
        BY <1>3, <3>1, <3>3 DEF Renamed
      <4>2. i # k
        BY <3>1, <3>3
      <4>3. i \in Producers(k)
        BY <3>1, <3>3, <4>1, <4>2 DEF Producers, Sources
      <4>4. state[t] = "done"
        BY <2>4 DEF Finished
      <4> QED
        BY <1>3, <3>1, <4>3, <4>4 DEF DataInv, SourcesWritten
    <3> QED
      BY <3>2, <3>3
  <2>5. Dest(s) \notin Cleared
    BY <2>4 DEF Cleared
  <2> QED
    BY <2>2, <2>3, <2>5 DEF Writeback
<1>11. ASSUME NEW s \in Alus, state'[s] = "issued", NEW Q, NEW Q1, NEW r,
              Tracked(Q, s, r), Q1 = AfterBroadcast(Q, s)
       PROVE  /\ Q1 \in {VALUE_EMPTY, r}
              /\ Q1 = VALUE_EMPTY =>
                   \A j \in 0..(inst_ptr'[s] - 1) :
                     ~IsStore(j)' /\ inst'[j].dest = r => WroteBack(j)'
  <2>1. s \in Stations /\ state[s] = "issued" /\ s \notin Finished /\ Busy(s)
        /\ inst_ptr'[s] = inst_ptr[s]
    BY <1>5, <1>11 DEF Stations, Finished, Busy
  <2>2. Q1 \in {VALUE_EMPTY, r}
    BY <1>11 DEF AfterBroadcast, Tracked
  <2>3. ASSUME Q1 = VALUE_EMPTY, NEW j \in 0..(inst_ptr[s] - 1), ~IsStore(j), inst[j].dest = r
        PROVE  WroteBack(j)'
    <3>1. j \in 0..(inst_count - 1) /\ j \in IDs
      <4>1. inst_ptr[s] \in 0..(inst_count - 1) /\ inst_count \in Nat
        BY <2>1, StationInst, SizeAssumption DEF IInv, TypeOK
      <4>2. j \in 0..(inst_count - 1)
        BY <4>1
      <4> QED
        BY <1>7, <4>2
    <3>2. CASE Q[s] = VALUE_EMPTY
      BY <1>4, <1>11, <2>3, <3>1, <3>2 DEF Tracked, Ready
    <3>3. CASE Q[s] # VALUE_EMPTY
      <4>1. r \in Written
        BY <1>11, <2>1, <2>3, <3>3 DEF AfterBroadcast, Tracked
      <4>2. PICK t \in Finished \ Stores : Dest(t) = r
        BY <4>1 DEF Written
      <4>3. /\ inst_ptr[t] \in 0..(inst_count - 1) /\ ~IsStore(inst_ptr[t])
            /\ inst[inst_ptr[t]].dest = r
        BY <1>6, <4>2, StationInst DEF Dest
      <4>4. j = inst_ptr[t]
        BY <1>3, <2>3, <3>1, <4>3, OneWriter
      <4> QED
        BY <1>4, <3>1, <4>2, <4>4
    <3> QED
      BY <3>2, <3>3
  <2> QED
    BY <1>8, <2>1, <2>2, <2>3 DEF IsStore
<1>12. SourcesTracked'
  <2> SUFFICES ASSUME NEW s \in Alus, state'[s] = "issued"
               PROVE  /\ Tracked(Qj, s, inst[inst_ptr[s]].src_1)'
                      /\ Tracked(Qk, s, inst[inst_ptr[s]].src_2)'
    BY DEF SourcesTracked
  <2>1. s \in Stations /\ state[s] = "issued" /\ inst_ptr'[s] = inst_ptr[s]
    BY <1>5 DEF Stations, Finished
  <2>2. /\ Tracked(Qj, s, inst[inst_ptr[s]].src_1) /\ Qj'[s] = AfterBroadcast(Qj, s)
        /\ Tracked(Qk, s, inst[inst_ptr[s]].src_2) /\ Qk'[s] = AfterBroadcast(Qk, s)
    BY <1>3, <2>1 DEF DataInv, SourcesTracked, Writeback
  <2>3. inst'[inst_ptr'[s]] = inst[inst_ptr[s]]
    BY <1>8, <2>1
  <2>4. Tracked(Qj, s, inst[inst_ptr[s]].src_1)'
    <3> DEFINE r == inst[inst_ptr[s]].src_1
    <3>1. /\ Qj'[s] \in {VALUE_EMPTY, r}
          /\ Qj'[s] = VALUE_EMPTY =>
               \A j \in 0..(inst_ptr'[s] - 1) :
                 ~IsStore(j)' /\ inst'[j].dest = r => WroteBack(j)'
      <4> HIDE DEF r
      <4> QED BY <1>11, <2>2 DEF r
    <3> QED
      BY <2>3, <3>1 DEF Tracked, Ready
  <2>5. Tracked(Qk, s, inst[inst_ptr[s]].src_2)'
    <3> DEFINE r == inst[inst_ptr[s]].src_2
    <3>1. /\ Qk'[s] \in {VALUE_EMPTY, r}
          /\ Qk'[s] = VALUE_EMPTY =>
               \A j \in 0..(inst_ptr'[s] - 1) :
                 ~IsStore(j)' /\ inst'[j].dest = r => WroteBack(j)'
      <4> HIDE DEF r
      <4> QED BY <1>11, <2>2 DEF r
    <3> QED
      BY <2>3, <3>1 DEF Tracked, Ready
  <2> QED
    BY <2>4, <2>5
<1>13. ValuesKept'
  <2> SUFFICES ASSUME NEW i \in 0..(inst_count - 1), ~IsStore(i), WroteBack(i)'
               PROVE  value'[inst[i].dest] = MEM_OFFSET + i
    BY <1>8 DEF ValuesKept, IsStore
  <2>1. i \in IDs /\ inst[i].dest \in Regs
    BY <1>7 DEF IInv, Decoded
  <2>2. ASSUME NEW t \in Finished \ Stores, Dest(t) = inst[i].dest
        PROVE  inst_ptr[t] = i
    <3>1. /\ inst_ptr[t] \in 0..(inst_count - 1) /\ ~IsStore(inst_ptr[t])
          /\ inst[inst_ptr[t]].dest = inst[i].dest
      BY <1>6, <2>2, StationInst DEF Dest
    <3> QED
      BY <1>3, <3>1, OneWriter
  <2>3. CASE inst[i].dest \in Written
    <3>1. inst_ptr[LastFinished(inst[i].dest)] = i
      BY <2>2, <2>3, LastFinishedIsFinished
    <3> QED
      BY <2>1, <2>3, <3>1 DEF Writeback
  <2>4. CASE inst[i].dest \notin Written
    <3>1. WroteBack(i)
      <4>1. ASSUME NEW s \in Finished, inst_ptr[s] = i PROVE FALSE
        <5>1. s \notin Stores
          BY <1>6, <4>1, StationInst
        <5> QED
          BY <2>4, <4>1, <5>1 DEF Written, Dest
      <4> QED
        BY <1>4, <2>1, <4>1
    <3> QED
      BY <1>3, <2>1, <2>4, <3>1 DEF Writeback, DataInv, ValuesKept
  <2> QED
    BY <2>3, <2>4
<1> QED
  BY <1>9, <1>10, <1>12, <1>13 DEF DataInv

\* A station that starts at once finds the results of all earlier writers of its
\* sources; the register it claims holds no result of the program.
LEMMA IssueData == IInv /\ RenamedInv /\ Issue => RenamedInv'
<1> SUFFICES ASSUME IInv, RenamedInv, Issue PROVE RenamedInv'
  OBVIOUS
<1> USE DEF Issue, table, RenamedInv
<1>1. DoneCommitted'
  BY DEF DoneCommitted
<1>2. UNCHANGED <<inst, inst_count, writeback>>
  OBVIOUS
<1>3. Renamed' <=> Renamed
  BY <1>2 DEF Renamed, IsStore
<1>4. SUFFICES ASSUME Renamed, DataInv PROVE DataInv'
  BY <1>1, <1>3
<1>5. CASE NoIssue
  <2>1. UNCHANGED <<stations, regfile>>
    BY <1>5 DEF NoIssue
  <2> QED
    BY <1>2, <1>4, <2>1 DEF stations, regfile, DataInv, SourcesWritten, Producers, Sources,
       WritersMark, SourcesTracked, Tracked, ValuesKept, Ready, Busy, Dest, IsStore, WroteBack
<1>6. ASSUME NEW new, CanIssue, Place(new),
             LET i == inst[program_counter]
             IN /\ IF i.type = "SW" THEN UNCHANGED regfile ELSE Claim
                /\ IF i.type \in {"LW", "SW"} THEN new.state = "issued"
                   ELSE /\ new.state \in {"issued", "exec"}
                        /\ new.Qj = PendingSource(i.src_1) /\ new.Qk = PendingSource(i.src_2)
                        /\ new.state = "exec" => new.Qj = VALUE_EMPTY /\ new.Qk = VALUE_EMPTY
      PROVE  DataInv'
  <2>1. PICK p \in IDs, s \in Stations :
          /\ p = program_counter /\ s = FirstIdle(inst[p].type)
          /\ s \in StationsOf(inst[p].type) /\ state[s] = "unused"
    BY <1>6, SizeAssumption, FirstIdleIsIdle DEF CanIssue, IInv, TypeOK, IDs
  <2>2. /\ \A t \in Stations : t # s => /\ state'[t] = state[t] /\ inst_ptr'[t] = inst_ptr[t]
                                        /\ Qj'[t] = Qj[t] /\ Qk'[t] = Qk[t]
        /\ state'[s] = new.state /\ inst_ptr'[s] = p
        /\ Qj'[s] = new.Qj /\ Qk'[s] = new.Qk
    BY <1>6, <2>1 DEF Place, IInv, TypeOK
  <2>3. /\ p \in 0..(inst_count - 1) /\ p \in Nat /\ ~Issued(p)
        /\ inst[p].dest \in Regs /\ inst[p].src_1 \in Regs
        /\ inst[p].type \notin {"LW", "SW"} => inst[p].src_2 \in Regs
    BY <1>6, <2>1, SizeAssumption DEF CanIssue, IInv, TypeOK, Decoded, Bookkeeping
  <2>4. \A r \in Regs : waiting[r] => waiting'[r]
    BY <1>6, <2>1, <2>3 DEF Claim, regfile, IInv, TypeOK
  <2>5. s \in Loads \cup Alus <=> inst[p].type # "SW"
    BY <2>1, StationFacts DEF StationsOf, Stations
  <2>6. s \in Alus <=> inst[p].type \notin {"LW", "SW"}
    BY <2>1, StationFacts DEF StationsOf, Stations
  <2>7. \A r \in Regs : PendingSource(r) = VALUE_EMPTY => Ready(p, r)
    BY <1>4, <2>1, <2>3, UnmarkedReady DEF PendingSource, DataInv, Regs, VALUE_EMPTY
  <2>8. \A t \in Stations : t # s /\ Busy(t)' => Busy(t) /\ Dest(t)' = Dest(t)
    BY <1>2, <2>2 DEF Busy, Dest
  <2>9. SourcesWritten'
    <3>1. \A i : Producers(i)' = Producers(i)
      BY <1>2 DEF Producers, Sources, IsStore
    <3>2. state'[s] \in {"exec", "done"} => \A j \in Producers(p) : WroteBack(j)
      <4>1. state'[s] \in {"exec", "done"} =>
              /\ inst[p].type \notin {"LW", "SW"}
              /\ Ready(p, inst[p].src_1) /\ Ready(p, inst[p].src_2)
        BY <1>6, <2>1, <2>2, <2>3, <2>7
      <4> QED
        BY <4>1, ReadyProducers DEF IsStore
    <3>3. \A j : WroteBack(j)' <=> WroteBack(j)
      BY <1>2 DEF WroteBack
    <3> QED
      BY <1>4, <2>2, <3>1, <3>2, <3>3 DEF DataInv, SourcesWritten
  <2>10. WritersMark'
    <3>1. ASSUME NEW t \in Loads \cup Alus, Busy(t)', t # s
          PROVE  waiting'[Dest(t)']
      <4>1. t \in Stations /\ Busy(t) /\ Dest(t)' = Dest(t)
        BY <2>8, <3>1 DEF Stations
      <4> QED
        BY <1>4, <2>4, <3>1, <4>1, StationInst DEF DataInv, WritersMark
    <3>2. s \in Loads \cup Alus => waiting'[Dest(s)']
      BY <1>2, <1>6, <2>1, <2>2, <2>3, <2>5 DEF Claim, Dest, IInv, TypeOK
    <3> QED
      BY <3>1, <3>2 DEF WritersMark
  <2>11. SourcesTracked'
    <3>1. \A r, t : Ready(t, r)' <=> Ready(t, r)
      BY <1>2 DEF Ready, IsStore, WroteBack
    <3>2. ASSUME NEW t \in Alus, state'[t] = "issued", t # s
          PROVE  /\ Tracked(Qj, t, inst[inst_ptr[t]].src_1)'
                 /\ Tracked(Qk, t, inst[inst_ptr[t]].src_2)'
      BY <1>2, <1>4, <2>2, <3>1, <3>2 DEF DataInv, SourcesTracked, Tracked, Stations
    <3>3. s \in Alus => /\ Tracked(Qj, s, inst[inst_ptr[s]].src_1)'
                        /\ Tracked(Qk, s, inst[inst_ptr[s]].src_2)'
      <4>1. s \in Alus => /\ Qj'[s] = PendingSource(inst[p].src_1)
                          /\ Qk'[s] = PendingSource(inst[p].src_2)
                          /\ inst[p].src_1 \in Regs /\ inst[p].src_2 \in Regs
        BY <1>6, <2>1, <2>2, <2>3, <2>6
      <4>2. \A r : PendingSource(r) \in {VALUE_EMPTY, r}
        BY DEF PendingSource
      <4> QED
        BY <1>2, <2>2, <2>7, <3>1, <4>1, <4>2 DEF Tracked
    <3> QED
      BY <3>2, <3>3 DEF SourcesTracked
  <2>12. ValuesKept'
    <3> SUFFICES ASSUME NEW i \in 0..(inst_count - 1), ~IsStore(i), WroteBack(i)
                 PROVE  value'[inst[i].dest] = MEM_OFFSET + i
      BY <1>2 DEF ValuesKept, IsStore, WroteBack
    <3>1. i \in IDs /\ Issued(i) /\ i # p
      BY <2>3, SizeAssumption DEF IInv, Bookkeeping, IDs, TypeOK
    <3>2. inst[p].type # "SW" => inst[p].dest # inst[i].dest
      BY <1>4, <2>3, <3>1, OneWriter DEF IsStore
    <3>3. value'[inst[i].dest] = value[inst[i].dest]
      BY <1>6, <2>1, <3>2 DEF Claim, regfile, IInv, TypeOK, Decoded
    <3> QED
      BY <1>4, <3>3 DEF DataInv, ValuesKept
  <2> QED
    BY <2>9, <2>10, <2>11, <2>12 DEF DataInv
<1>7. CASE set_idle_load \/ set_idle_store
  BY <1>6, <1>7 DEF set_idle_load, set_idle_store, Parked
<1>8. CASE set_idle_alu
  <2> DEFINE i == inst[program_counter]
             j == PendingSource(i.src_1)
             k == PendingSource(i.src_2)
             new == [state |-> IF j = VALUE_EMPTY /\ k = VALUE_EMPTY
                                 THEN "exec" ELSE "issued",
                     Qj |-> j, Qk |-> k]
  <2>1. CanIssue /\ Place(new) /\ Claim /\ i.type \notin {"LW", "SW"}
    BY <1>8 DEF set_idle_alu
  <2>2. /\ new.state \in {"issued", "exec"} /\ new.Qj = j /\ new.Qk = k
        /\ new.state = "exec" => j = VALUE_EMPTY /\ k = VALUE_EMPTY
    OBVIOUS
  <2> HIDE DEF new
  <2> QED
    BY <1>6, <2>1, <2>2
<1> QED
  BY <1>5, <1>7, <1>8

\* A program that never writes a register an earlier instruction names as its
\* destination executes every instruction on the results of all earlier writers
\* of its sources, and leaves each register with its last writer's result.
THEOREM RenamedProgramsAreRight == Spec => []RightWhenRenamed
<1>1. Init => RenamedInv
  <2> SUFFICES ASSUME Init PROVE RenamedInv
    OBVIOUS
  <2>1. \A i \in 0..(inst_count - 1) : FALSE
    BY DEF Init
  <2>2. \A s \in Stations : state[s] = "unused"
    BY DEF Init
  <2> QED
    BY <2>1, <2>2 DEF Init, RenamedInv, DoneCommitted, DataInv, SourcesWritten, WritersMark,
       SourcesTracked, ValuesKept, Busy, Stations
<1>2. IInv /\ WaitInv /\ RenamedInv /\ [Next]_vars => RenamedInv'
  <2> SUFFICES ASSUME IInv, WaitInv, RenamedInv, [Next]_vars PROVE RenamedInv'
    OBVIOUS
  <2>1. CASE (\E line \in Lines : ReadInst(line)) \/ ReadEnd \/ Terminated \/ UNCHANGED vars
    BY <2>1, QuietData DEF Terminated
  <2>2. CASE Cycle
    BY <2>2, QuietData, WritebackData, IssueData, StartData DEF Cycle
  <2> QED
    BY <2>1, <2>2 DEF Next
<1>3. IInv /\ Timestamps /\ RenamedInv => RightWhenRenamed
  <2> SUFFICES ASSUME IInv, Timestamps, RenamedInv, Renamed PROVE SourcesWritten /\ LastWriterWins
    BY DEF RightWhenRenamed
  <2>1. \A i \in 0..(inst_count - 1) : i \in IDs
    BY SizeAssumption DEF IInv, TypeOK, IDs
  <2>2. phase = "Done" => \A i \in 0..(inst_count - 1) : WroteBack(i)
    BY <2>1 DEF RenamedInv, DoneCommitted, Timestamps
  <2> QED
    BY <2>2 DEF RenamedInv, DataInv, LastWriterWins, ValuesKept
<1> QED
  BY <1>1, <1>2, <1>3, Invariance, WaitInvariance, StampsInOrder, PTL DEF Spec

-----------------------------------------------------------------------------
(***************************************************************************)
(* The simulator implements the machine of OutOfOrderCore: every pass is    *)
(* one of its steps or none.                                                *)
(***************************************************************************)

\* A station that has a stamp of completion for its instruction is done.
DoneWhenExecuted ==
  \A s \in Stations : Busy(s) /\ execute[inst_ptr[s]] # VALUE_EMPTY => state[s] = "done"

\* The table holds no instruction before it is read.
EmptyAbove == \A i \in IDs : i >= inst_count => inst[i].type = "NOP"

MapInv == DoneWhenExecuted /\ EmptyAbove

-----------------------------------------------------------------------------
(* The mapped state.                                                       *)

Classes == {"load", "store", "adder", "multiplier"}

\* The stages of an instruction exclude each other.
LEMMA StageFacts ==
  ASSUME Timestamps, NEW i \in IDs
  PROVE  /\ StageOf(i) = "committed" <=> Committed(i)
         /\ StageOf(i) = "written" <=> WroteBack(i) /\ ~Committed(i)
         /\ StageOf(i) = "completed" <=> execute[i] # VALUE_EMPTY /\ ~WroteBack(i)
         /\ StageOf(i) = "issued" <=> Issued(i) /\ execute[i] = VALUE_EMPTY
         /\ StageOf(i) = "waiting" <=> ~Issued(i)
<1>1. /\ Committed(i) => WroteBack(i)
      /\ WroteBack(i) => execute[i] # VALUE_EMPTY
      /\ execute[i] # VALUE_EMPTY => Issued(i)
  BY DEF Timestamps
<1>2. CASE Committed(i)
  BY <1>1, <1>2 DEF StageOf
<1>3. CASE WroteBack(i) /\ ~Committed(i)
  BY <1>1, <1>3 DEF StageOf
<1>4. CASE execute[i] # VALUE_EMPTY /\ ~WroteBack(i)
  BY <1>1, <1>4 DEF StageOf
<1>5. CASE Issued(i) /\ execute[i] = VALUE_EMPTY
  BY <1>1, <1>5 DEF StageOf
<1>6. CASE ~Issued(i)
  BY <1>1, <1>6 DEF StageOf
<1> QED
  BY <1>1, <1>2, <1>3, <1>4, <1>5, <1>6

\* An instruction that is read has a class of stations, and its size.
LEMMA UnitFacts ==
  /\ UnitOf("NOP") = "none"
  /\ \A type \in Types : UnitOf(type) \in Classes
  /\ \A t1, t2 \in Types : UnitOf(t1) = UnitOf(t2) => StationsOf(t1) = StationsOf(t2)
BY DEF UnitOf, Types, Classes, StationsOf

CapacityOf(u) ==
  CASE u = "load" -> NUM_LOAD_RS [] u = "store" -> NUM_STORE_RS
    [] u = "adder" -> NUM_ADD_SUB_RS [] OTHER -> NUM_MUL_DIV_RS

\* A class of stations has as many as its unit has room for.
LEMMA StationsCount ==
  ASSUME NEW type \in Types
  PROVE  /\ IsFiniteSet(StationsOf(type))
         /\ Cardinality(StationsOf(type)) = CapacityOf(UnitOf(type))
<1>1. /\ NUM_LOAD_RS \in Nat \ {0} /\ NUM_STORE_RS \in Nat \ {0}
      /\ NUM_ADD_SUB_RS \in Nat \ {0} /\ NUM_MUL_DIV_RS \in Nat \ {0}
  BY StationsAssumption
<1>2. ASSUME NEW a \in Nat, NEW n \in Nat \ {0}
      PROVE  IsFiniteSet(a..(a + n - 1)) /\ Cardinality(a..(a + n - 1)) = n
  <2>1. a + n - 1 \in Int /\ ~(a > a + n - 1) /\ (a + n - 1) - a + 1 = n
    OBVIOUS
  <2> QED
    BY <2>1, FS_Interval
<1>3. AddBase \in Nat /\ MulBase \in Nat
  BY <1>1 DEF AddBase, MulBase
<1>4. /\ IsFiniteSet(Loads) /\ Cardinality(Loads) = NUM_LOAD_RS
      /\ IsFiniteSet(Stores) /\ Cardinality(Stores) = NUM_STORE_RS
      /\ IsFiniteSet(Adds) /\ Cardinality(Adds) = NUM_ADD_SUB_RS
      /\ IsFiniteSet(Muls) /\ Cardinality(Muls) = NUM_MUL_DIV_RS
  <2>1. Loads = 0..(0 + NUM_LOAD_RS - 1)
    BY <1>1 DEF Loads
  <2> QED
    BY <1>1, <1>2, <1>3, <2>1 DEF Stores, Adds, Muls
<1> QED
  BY <1>4 DEF StationsOf, CapacityOf, UnitOf, Types

-----------------------------------------------------------------------------
(* The invariant of the mapping.                                           *)

\* It holds initially and every step keeps it.
LEMMA MapInvariance == Spec => []MapInv
<1>1. Init => MapInv
  BY DEF Init, MapInv, DoneWhenExecuted, EmptyAbove, Busy, EmptySlot
<1>2. IInv /\ Timestamps /\ MapInv /\ [Next]_vars => MapInv'
  <2> SUFFICES ASSUME IInv, Timestamps, MapInv, [Next]_vars PROVE MapInv'
    OBVIOUS
  <2> USE DEF MapInv, stamps, stations, table, regfile
  <2>1. ASSUME NEW line \in Lines, ReadInst(line) PROVE MapInv'
    <3>1. EmptyAbove'
      BY <2>1, SizeAssumption DEF ReadInst, EmptyAbove, IInv, TypeOK, IDs
    <3>2. DoneWhenExecuted'
      BY <2>1 DEF ReadInst, DoneWhenExecuted, Busy
    <3> QED
      BY <3>1, <3>2
  <2>2. CASE ReadEnd \/ Terminated \/ UNCHANGED vars \/ Tick \/ Commit \/ Refresh
    BY <2>2 DEF ReadEnd, Terminated, vars, Tick, Commit, Refresh, DoneWhenExecuted,
       EmptyAbove, Busy
  <2>3. CASE Writeback
    BY <2>3 DEF Writeback, DoneWhenExecuted, EmptyAbove, Busy, Finished, IInv, TypeOK
  <2>4. CASE Complete
    <3>1. ASSUME NEW s \in Stations, Busy(s), s \notin Finishing
          PROVE  execute'[inst_ptr[s]] = execute[inst_ptr[s]]
      BY <2>4, <3>1, StampTypes DEF Complete, Finishing
    <3>2. \A s \in Stations : Busy(s)' <=> Busy(s)
      BY <2>4 DEF Complete, Busy, Finishing
    <3> QED
      BY <2>4, <3>1, <3>2 DEF Complete, DoneWhenExecuted, EmptyAbove
  <2>5. CASE Start
    BY <2>5 DEF Start, DoneWhenExecuted, EmptyAbove, Busy
  <2>6. CASE Issue
    <3>1. EmptyAbove' /\ execute' = execute
      BY <2>6 DEF Issue, EmptyAbove
    <3>2. CASE NoIssue
      BY <2>6, <3>1, <3>2 DEF NoIssue, DoneWhenExecuted, Busy
    <3>3. ASSUME NEW new, CanIssue, Place(new) PROVE DoneWhenExecuted'
      <4>1. PICK p \in IDs, s \in Stations :
              /\ p = program_counter /\ s = FirstIdle(inst[p].type)
        BY <3>3, SizeAssumption, FirstIdleIsIdle DEF CanIssue, IInv, TypeOK, IDs
      <4>2. /\ \A t \in Stations : t # s => state'[t] = state[t] /\ inst_ptr'[t] = inst_ptr[t]
            /\ inst_ptr'[s] = p
        BY <3>3, <4>1 DEF Place, IInv, TypeOK
      <4>3. execute[p] = VALUE_EMPTY
        BY <4>1, SizeAssumption DEF IInv, Bookkeeping, TypeOK, Timestamps
      <4> QED
        BY <3>1, <4>2, <4>3 DEF DoneWhenExecuted, Busy
    <3> QED
      BY <2>6, <3>1, <3>2, <3>3 DEF Issue, set_idle_load, set_idle_store, set_idle_alu
  <2> QED
    BY <2>1, <2>2, <2>3, <2>4, <2>5, <2>6 DEF Next, Cycle
<1> QED
  BY <1>1, <1>2, Invariance, StampsInOrder, PTL DEF Spec

-----------------------------------------------------------------------------
(* Steps.                                                                  *)

Program == [i \in IDs |-> UnitOf(inst[i].type)]
Stage == [i \in IDs |-> StageOf(i)]

\* A step that keeps the stamps keeps the stages.
LEMMA SameStage == UNCHANGED stamps => \A i : StageOf(i)' = StageOf(i)
BY DEF stamps, StageOf, Issued, WroteBack, Committed

\* The unit of an instruction is a matter of the program.
LEMMA SameProgram == UNCHANGED inst => \A i : UnitOf(inst[i].type)' = UnitOf(inst[i].type)
BY DEF UnitOf

\* A pass that stamps nothing is not seen.
LEMMA Stutters ==
  ASSUME UNCHANGED <<inst, inst_count, stamps>>, (phase' = "Done") <=> (phase = "Done")
  PROVE  UNCHANGED Core!avars
BY SameStage, SameProgram DEF Core!avars

\* Reading a line is a Fetch.
LEMMA ReadIsFetch ==
  ASSUME IInv, Timestamps, NEW line \in Lines, ReadInst(line)
  PROVE  Core!ANext
<1> DEFINE u == UnitOf(Decode(line).type)
<1>1. u \in Classes
  BY DecodeType, UnitFacts
<1>2. \A i \in IDs : StageOf(i) = "waiting"
  BY StageFacts DEF ReadInst, IInv, Bookkeeping, IDs
<1>3. Program' = [Program EXCEPT ![inst_count] = u]
  <2>1. inst' = [inst EXCEPT ![inst_count] = Decode(line)]
    BY DEF ReadInst
  <2> QED
    BY <2>1 DEF Program, UnitOf, IInv, TypeOK
<1>4. \A i : StageOf(i)' = StageOf(i)
  BY SameStage DEF ReadInst
<1>5. Core!Fetch
  <2> HIDE DEF u
  <2> QED
    BY <1>1, <1>2, <1>3, <1>4 DEF Core!Fetch, Core!Slots, ReadInst, Program, Classes, IDs
<1> QED
  BY <1>5 DEF Core!ANext, ReadInst

\* commit retires the oldest instruction, or does nothing.
LEMMA CommitIsRetire ==
  ASSUME IInv, Timestamps, Commit
  PROVE  [Core!ANext]_(Core!avars)
<1>1. CASE ~Committable
  BY <1>1, Stutters DEF Commit, table, stamps
<1>2. CASE Committable
  <2>1. PICK c \in IDs : c = commit_count
    BY SizeAssumption DEF Commit, IInv, CommitInRange, TypeOK, IDs
  <2>2. /\ WroteBack(c) /\ ~Committed(c)
        /\ commit' = [commit EXCEPT ![c] = cycle_counter]
        /\ UNCHANGED <<inst, inst_count, issue, execute, writeback>>
        /\ phase # "Done" /\ phase' # "Done"
    BY <1>2, <2>1 DEF Commit, Committable, WroteBack, Committed, table
  <2>3. \A i \in IDs : Committed(i)' <=> Committed(i) \/ i = c
    BY <2>2, StampTypes DEF Committed, VALUE_EMPTY, IInv, TypeOK
  <2>4. \A i \in IDs : StageOf(i)' = IF i = c THEN "committed" ELSE StageOf(i)
    <3>1. ASSUME NEW i \in IDs, i # c PROVE StageOf(i)' = StageOf(i)
      BY <2>2, <2>3, <3>1 DEF StageOf, Issued, WroteBack
    <3>2. StageOf(c)' = "committed"
      <4>1. Committed(c)' /\ WroteBack(c)' /\ execute'[c] # VALUE_EMPTY
        BY <2>2, <2>3 DEF WroteBack, Timestamps
      <4> QED
        BY <4>1 DEF StageOf
    <3> QED
      BY <3>1, <3>2
  <2>5. \A j \in 0..(c - 1) : j \in IDs /\ Committed(j)
    BY <2>1, SizeAssumption DEF IInv, Bookkeeping, IDs
  <2>6. Core!Retire(c)
    <3>1. Stage' = [Stage EXCEPT ![c] = "committed"]
      BY <2>4 DEF Stage
    <3>2. StageOf(c) = "written" /\ \A j \in 0..(c - 1) : StageOf(j) = "committed"
      BY <2>2, <2>5, StageFacts
    <3> QED
      BY <2>2, <2>5, <3>1, <3>2, SameProgram DEF Core!Retire, Stage
  <2> QED
    BY <2>2, <2>6 DEF Core!ANext, Core!Slots, IDs
<1> QED
  BY <1>1, <1>2

\* writeback broadcasts whatever has completed.
LEMMA WritebackIsBroadcast ==
  ASSUME IInv, TimeInv, MapInv, Writeback
  PROVE  Core!ANext
<1>1. /\ UNCHANGED <<inst, inst_count, issue, execute, commit>>
      /\ phase # "Done" /\ phase' # "Done"
  BY DEF Writeback, table
<1>2. \A i \in IDs : WroteBack(i)' <=> (WroteBack(i) \/ \E s \in Finished : inst_ptr[s] = i)
  BY StampTypes DEF Writeback, WroteBack, VALUE_EMPTY, IInv, Bookkeeping
<1>3. ASSUME NEW i \in IDs
      PROVE  (\E s \in Finished : inst_ptr[s] = i) <=> execute[i] # VALUE_EMPTY /\ ~WroteBack(i)
  <2>1. ASSUME NEW s \in Finished, inst_ptr[s] = i
        PROVE  execute[i] # VALUE_EMPTY /\ ~WroteBack(i)
    BY <2>1, StampTypes DEF Finished, Busy, TimeInv, TimersKept
  <2>2. ASSUME execute[i] # VALUE_EMPTY, ~WroteBack(i)
        PROVE  \E s \in Finished : inst_ptr[s] = i
    <3>1. i \in 0..(program_counter - 1)
      BY <2>2, SizeAssumption DEF TimeInv, Timestamps, IInv, Bookkeeping, TypeOK, IDs
    <3>2. PICK s \in Stations : inst_ptr[s] = i
      BY <2>2, <3>1 DEF IInv, StationOwnership
    <3>3. Busy(s)
      BY <3>1, <3>2 DEF IInv, StationOwnership, VALUE_EMPTY
    <3> QED
      BY <2>2, <3>2, <3>3 DEF MapInv, DoneWhenExecuted, Finished
  <2> QED
    BY <2>1, <2>2
<1>4. \A i \in IDs : StageOf(i)' = IF StageOf(i) = "completed" THEN "written" ELSE StageOf(i)
  <2> SUFFICES ASSUME NEW i \in IDs
               PROVE  StageOf(i)' = IF StageOf(i) = "completed" THEN "written" ELSE StageOf(i)
    OBVIOUS
  <2>1. /\ Issued(i)' <=> Issued(i)
        /\ Committed(i)' <=> Committed(i)
        /\ execute'[i] = execute[i]
        /\ WroteBack(i)' <=> execute[i] # VALUE_EMPTY
    BY <1>1, <1>2, <1>3 DEF Issued, Committed, TimeInv, Timestamps
  <2>2. /\ Committed(i) => WroteBack(i)
        /\ WroteBack(i) => execute[i] # VALUE_EMPTY
        /\ execute[i] # VALUE_EMPTY => Issued(i)
    BY DEF TimeInv, Timestamps
  <2>3. CASE StageOf(i) = "completed"
    <3>1. execute[i] # VALUE_EMPTY /\ ~WroteBack(i)
      BY <2>3, StageFacts DEF TimeInv
    <3> QED
      BY <2>1, <2>2, <2>3, <3>1 DEF StageOf
  <2>4. CASE StageOf(i) # "completed"
    <3>1. execute[i] = VALUE_EMPTY \/ WroteBack(i)
      BY <2>4, StageFacts DEF TimeInv
    <3>2. WroteBack(i)' <=> WroteBack(i)
      BY <2>1, <2>2, <3>1
    <3> QED
      BY <2>1, <2>4, <3>2 DEF StageOf
  <2> QED
    BY <2>3, <2>4
<1>5. Core!Broadcast
  BY <1>1, <1>4, SameProgram DEF Core!Broadcast, Core!Slots, IDs
<1> QED
  BY <1>1, <1>5 DEF Core!ANext

\* The completion pass finishes the instructions whose timers have run out.
LEMMA CompleteIsFinish ==
  ASSUME IInv, TimeInv, MapInv, Complete
  PROVE  Core!ANext
<1> DEFINE S == {i \in IDs : \E s \in Finishing : inst_ptr[s] = i}
<1>1. /\ UNCHANGED <<inst, inst_count, issue, writeback, commit>>
      /\ phase # "Done" /\ phase' # "Done"
  BY DEF Complete, table
<1>2. \A i \in IDs : execute'[i] = IF i \in S THEN cycle_counter ELSE execute[i]
  BY DEF Complete
<1>3. ASSUME NEW i \in S
      PROVE  i \in IDs /\ StageOf(i) = "issued"
  <2>1. PICK s \in Finishing : inst_ptr[s] = i
    OBVIOUS
  <2>2. s \in Stations /\ Busy(s) /\ state[s] = "exec"
    BY <2>1 DEF Finishing, Busy
  <2>3. execute[i] = VALUE_EMPTY /\ Issued(i)
    BY <2>1, <2>2, StampTypes DEF MapInv, DoneWhenExecuted
  <2> QED
    BY <2>3, StageFacts DEF TimeInv
<1>4. ASSUME NEW i \in IDs
      PROVE  StageOf(i)' = IF i \in S THEN "completed" ELSE StageOf(i)
  <2>1. /\ Issued(i)' <=> Issued(i)
        /\ Committed(i)' <=> Committed(i)
        /\ WroteBack(i)' <=> WroteBack(i)
    BY <1>1 DEF Issued, Committed, WroteBack
  <2>2. CASE i \in S
    <3>1. execute'[i] # VALUE_EMPTY
      BY <1>2, <2>2, StampTypes DEF VALUE_EMPTY
    <3>2. ~WroteBack(i) /\ ~Committed(i) /\ Issued(i)
      <4>1. execute[i] = VALUE_EMPTY /\ Issued(i)
        BY <1>3, <2>2, StageFacts DEF TimeInv
      <4> QED
        BY <4>1 DEF TimeInv, Timestamps
    <3> QED
      BY <2>1, <2>2, <3>1, <3>2 DEF StageOf
  <2>3. CASE i \notin S
    BY <1>2, <2>1, <2>3 DEF StageOf
  <2> QED
    BY <2>2, <2>3
<1> HIDE DEF S
<1>5. Core!Finish
  <2>1. S \in SUBSET {i \in IDs : [j \in IDs |-> StageOf(j)][i] = "issued"}
    BY <1>3
  <2>2. Stage' = [i \in IDs |-> IF i \in S THEN "completed" ELSE StageOf(i)]
    BY <1>4 DEF Stage
  <2> QED
    BY <1>1, <2>1, <2>2, SameProgram DEF Core!Finish, Core!Slots, Stage, IDs
<1> QED
  BY <1>1, <1>5 DEF Core!ANext

\* An idle station of the class leaves room for the instruction: those in flight
\* that need the class are in its other stations.
LEMMA RoomToDispatch ==
  ASSUME IInv, TimeInv, NEW p \in 0..(inst_count - 1), Idle(inst[p].type) # {}
  PROVE  Cardinality({i \in IDs : Program[i] = Program[p] /\ Stage[i] \in {"issued", "completed"}})
           < CapacityOf(Program[p])
<1> DEFINE type == inst[p].type
           u == Program[p]
           Flying == {i \in IDs : Program[i] = u /\ Stage[i] \in {"issued", "completed"}}
           s == FirstIdle(type)
           Others == StationsOf(type) \ {s}
           holder == [i \in Flying |-> CHOOSE t \in Stations : inst_ptr[t] = i]
<1>1. p \in IDs /\ type \in Types /\ u = UnitOf(type)
  BY SizeAssumption DEF IInv, TypeOK, Decoded, IDs, Program
<1>2. s \in StationsOf(type) /\ state[s] = "unused"
  BY FirstIdleIsIdle
<1>3. ASSUME NEW i \in Flying
      PROVE  /\ holder[i] \in Others
             /\ inst_ptr[holder[i]] = i
  <2>1. Issued(i) /\ ~WroteBack(i)
    BY StageFacts DEF Stage, TimeInv, Timestamps
  <2>2. i \in 0..(program_counter - 1) /\ i # VALUE_EMPTY
    BY <2>1, SizeAssumption DEF IInv, Bookkeeping, TypeOK, IDs, VALUE_EMPTY
  <2>3. \E t \in Stations : inst_ptr[t] = i
    BY <2>1, <2>2 DEF IInv, StationOwnership
  <2>4. holder[i] \in Stations /\ inst_ptr[holder[i]] = i
    BY <2>3
  <2>5. Busy(holder[i])
    BY <2>2, <2>4 DEF IInv, StationOwnership
  <2>6. holder[i] \in StationsOf(inst[i].type)
    BY <2>4, <2>5 DEF IInv, StationOwnership
  <2>7. inst[i].type \in Types /\ UnitOf(inst[i].type) = UnitOf(type)
    <3>1. i \in 0..(inst_count - 1)
      BY <2>2, SizeAssumption DEF IInv, TypeOK
    <3> QED
      BY <1>1, <3>1 DEF IInv, Decoded, Program
  <2>8. StationsOf(inst[i].type) = StationsOf(type)
    BY <1>1, <2>7, UnitFacts
  <2> QED
    BY <1>2, <2>4, <2>5, <2>6, <2>8 DEF Busy
<1>4. holder \in Injection(Flying, Others)
  <2> HIDE DEF Flying, Others, s
  <2>1. holder \in [Flying -> Others]
    BY <1>3
  <2>2. \A i, j \in Flying : holder[i] = holder[j] => i = j
    <3> HIDE DEF holder
    <3> QED BY <1>3
  <2> QED
    BY <2>1, <2>2 DEF Injection, IsInjective
<1>5. /\ IsFiniteSet(Others)
      /\ Cardinality(Others) = CapacityOf(u) - 1 /\ CapacityOf(u) \in Nat
  <2>1. IsFiniteSet(StationsOf(type)) /\ Cardinality(StationsOf(type)) = CapacityOf(u)
    BY <1>1, StationsCount
  <2>2. Cardinality(Others) = Cardinality(StationsOf(type)) - 1 /\ IsFiniteSet(Others)
    BY <1>2, <2>1, FS_RemoveElement
  <2>3. CapacityOf(u) \in Nat
    BY <2>1, FS_CardinalityType
  <2> QED
    BY <2>1, <2>2, <2>3
<1>6. /\ IsFiniteSet(Flying)
      /\ Cardinality(Flying) <= Cardinality(Others)
  BY <1>4, <1>5, FS_Injection
<1>7. Cardinality(Flying) \in Nat
  BY <1>6, FS_CardinalityType
<1> HIDE DEF Flying, Others, u
<1>8. Cardinality(Flying) < CapacityOf(u)
  BY <1>5, <1>6, <1>7
<1> QED
  BY <1>8 DEF Flying, u

\* An issue dispatches the next instruction.
LEMMA IssueIsDispatch ==
  ASSUME IInv, TimeInv, Issue
  PROVE  [Core!ANext]_(Core!avars)
<1>1. CASE NoIssue
  BY <1>1, Stutters DEF Issue, NoIssue, table, stamps
<1>2. ASSUME NEW new, CanIssue, Place(new)
      PROVE  Core!ANext
  <2>1. PICK p \in IDs : p = program_counter /\ p \in 0..(inst_count - 1)
    BY <1>2, SizeAssumption DEF CanIssue, IInv, TypeOK, IDs
  <2>2. /\ issue' = [issue EXCEPT ![p] = cycle_counter]
        /\ UNCHANGED <<inst, inst_count, execute, writeback, commit>>
        /\ phase # "Done" /\ phase' # "Done"
    BY <1>2, <2>1 DEF Place, Issue, table
  <2>3. ~Issued(p) /\ \A j \in 0..(p - 1) : j \in IDs /\ Issued(j)
    BY <2>1, SizeAssumption DEF IInv, Bookkeeping, IDs
  <2>4. \A i \in IDs : StageOf(i)' = IF i = p THEN "issued" ELSE StageOf(i)
    <3>1. ASSUME NEW i \in IDs, i # p PROVE StageOf(i)' = StageOf(i)
      BY <2>2, <3>1 DEF StageOf, Issued, WroteBack, Committed, IInv, TypeOK
    <3>2. StageOf(p)' = "issued"
      <4>1. execute[p] = VALUE_EMPTY /\ ~WroteBack(p) /\ ~Committed(p)
        BY <2>3 DEF TimeInv, Timestamps
      <4>2. Issued(p)'
        BY <2>2, StampTypes DEF Issued, VALUE_EMPTY, IInv, TypeOK
      <4> QED
        BY <2>2, <4>1, <4>2 DEF StageOf, WroteBack, Committed
    <3> QED
      BY <3>1, <3>2
  <2>5. Core!Dispatch(p)
    <3>1. Stage' = [Stage EXCEPT ![p] = "issued"]
      BY <2>4 DEF Stage
    <3>2. StageOf(p) = "waiting" /\ \A j \in 0..(p - 1) : StageOf(j) # "waiting"
      BY <2>3, StageFacts DEF TimeInv
    <3>3. Cardinality({i \in IDs : Program[i] = Program[p] /\ Stage[i] \in {"issued", "completed"}})
            < CapacityOf(Program[p])
      BY <1>2, <2>1, RoomToDispatch DEF CanIssue
    <3>4. Program[p] \in Classes
      BY <2>1, UnitFacts DEF Program, IInv, Decoded
    <3>5. p < inst_count
      BY <2>1, SizeAssumption DEF IInv, TypeOK
    <3>6. Core!InFlight(Program[p]) =
            {i \in IDs : Program[i] = Program[p] /\ Stage[i] \in {"issued", "completed"}}
      BY DEF Core!InFlight, Core!Slots, Stage, Program, IDs
    <3>7. [u \in {"load", "store", "adder", "multiplier"} |->
             CASE u = "load" -> NUM_LOAD_RS [] u = "store" -> NUM_STORE_RS
               [] u = "adder" -> NUM_ADD_SUB_RS [] OTHER -> NUM_MUL_DIV_RS][Program[p]]
            = CapacityOf(Program[p])
      BY <3>4 DEF CapacityOf, Classes
    <3>8. Program' = Program /\ Stage[p] = "waiting"
          /\ \A j \in 0..(p - 1) : Stage[j] # "waiting"
      BY <2>1, <2>2, <2>3, <3>2, SameProgram DEF Program, Stage
    <3>9. Cardinality(Core!InFlight(Program[p])) <
            [u \in {"load", "store", "adder", "multiplier"} |->
               CASE u = "load" -> NUM_LOAD_RS [] u = "store" -> NUM_STORE_RS
                 [] u = "adder" -> NUM_ADD_SUB_RS [] OTHER -> NUM_MUL_DIV_RS][Program[p]]
      BY <3>3, <3>6, <3>7
    <3>10. UNCHANGED <<Program, inst_count, phase = "Done">>
      BY <2>2, <3>8
    <3>11. \A S : Core!Cardinality(S) = Cardinality(S)
      BY DEF Core!Cardinality, Cardinality
    <3> QED
      BY <3>1, <3>5, <3>8, <3>9, <3>10, <3>11 DEF Core!Dispatch, Stage, Program
  <2> QED
    BY <2>2, <2>5 DEF Core!ANext, Core!Slots, IDs
<1> QED
  BY <1>1, <1>2 DEF Issue, set_idle_load, set_idle_store, set_idle_alu

\* The loop of main halts when everything has committed.
LEMMA StartIsHalt ==
  ASSUME IInv, TimeInv, Start
  PROVE  [Core!ANext]_(Core!avars)
<1>1. CASE ~check_finish
  BY <1>1, Stutters DEF Start, table
<1>2. CASE check_finish
  <2>1. /\ UNCHANGED <<inst, inst_count, stamps>>
        /\ phase # "Done" /\ phase' = "Done"
    BY <1>2 DEF Start, table
  <2>2. \A i \in 0..(inst_count - 1) : i \in IDs /\ StageOf(i) = "committed"
    <3>1. \A i \in 0..(inst_count - 1) : i \in IDs
      BY SizeAssumption DEF IInv, TypeOK, IDs
    <3> QED
      BY <1>2, <3>1, StageFacts DEF check_finish, Committed, TimeInv
  <2>3. Core!Halt
    BY <2>1, <2>2, SameStage, SameProgram DEF Core!Halt
  <2> QED
    BY <2>1, <2>3 DEF Core!ANext
<1> QED
  BY <1>1, <1>2

\* The simulator issues and commits in program order, never overfills a class of
\* stations, broadcasts everything that has completed, and stops only when
\* all has committed.
THEOREM ImplementsCore == Spec => CoreSpec
<1>1. Init => Core!AInit
  <2> SUFFICES ASSUME Init PROVE Core!AInit
    OBVIOUS
  <2>1. \A i \in IDs : StageOf(i) = "waiting"
    BY DEF Init, StageOf, Issued, WroteBack, Committed
  <2>2. \A i \in IDs : UnitOf(inst[i].type) = "none"
    BY UnitFacts DEF Init, EmptySlot
  <2> QED
    BY <2>1, <2>2 DEF Init, Core!AInit, Core!Slots, IDs
<1>2. IInv /\ TimeInv /\ MapInv /\ [Next]_vars => [Core!ANext]_(Core!avars)
  <2> SUFFICES ASSUME IInv, TimeInv, MapInv, [Next]_vars PROVE [Core!ANext]_(Core!avars)
    OBVIOUS
  <2>1. ASSUME NEW line \in Lines, ReadInst(line) PROVE Core!ANext
    BY <2>1, ReadIsFetch DEF TimeInv
  <2>2. CASE ReadEnd \/ Tick \/ Refresh \/ Terminated \/ UNCHANGED vars
    <3>1. UNCHANGED <<inst, inst_count, stamps>> /\ ((phase' = "Done") <=> (phase = "Done"))
      BY <2>2 DEF ReadEnd, Tick, Refresh, Terminated, vars, table
    <3> QED
      BY <3>1, Stutters
  <2>3. CASE Commit \/ Writeback \/ Complete \/ Issue \/ Start
    BY <2>3, CommitIsRetire, WritebackIsBroadcast, CompleteIsFinish, IssueIsDispatch,
       StartIsHalt DEF TimeInv
  <2> QED
    BY <2>1, <2>2, <2>3 DEF Next, Cycle
<1> QED
  BY <1>1, <1>2, Invariance, TimeInvariance, MapInvariance, PTL DEF Spec, CoreSpec, Core!ASpec
=============================================================================
