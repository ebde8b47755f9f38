----------------------------- MODULE BpredProofs -----------------------------
(***************************************************************************)
(* For every program, predictor and number of branches in flight, a branch *)
(* of a wrong path trains no table of the branch predictor, the            *)
(* return-address stack follows the right path, the tables are sound, and  *)
(* the sets of the BTB remember the branches that were taken last.         *)
(***************************************************************************)
EXTENDS BpredProperties, ProofFacts, FiniteSetTheorems

-----------------------------------------------------------------------------
(* The invariant.                                                          *)

\* Where a branch in flight is.
Stages == {"fetched", "dispatched", "done"}

\* The fields of a branch in flight; only those that change have a known type.
Branch(Value) ==
    [pc : Value, next_PC : Value, pred_PC : Value, dir_update : Value,
     stack_recover_idx : Value, wrong : BOOLEAN, stage : Stages, recover : BOOLEAN]
\* A branch in flight, whatever its addresses are.
IsBranch(e) == \E Value : e \in Branch(Value)

\* A branch whose misprediction has not been dealt with yet: dispatch will find
\* it, or write-back will recover from it.
Recovers(e) == e.stage = "dispatched" /\ e.recover
\* A misprediction that nobody has dealt with yet.
Pending(e) == (e.stage = "fetched" /\ ~Correct(e)) \/ Recovers(e)

\* The types that the paths need.
FlightTyped ==
    /\ \E S : flight \in Seq(S)
    /\ \A i \in DOMAIN flight : IsBranch(flight[i])
    /\ lost_path \in BOOLEAN /\ spec_mode \in BOOLEAN

\* Branches are dispatched in the order in which they were fetched.
DispatchedInOrder ==
    \A i, j \in DOMAIN flight :
      i < j /\ flight[i].stage = "fetched" => flight[j].stage = "fetched"

\* Whatever is on a wrong path is there because of an older misprediction that
\* has not been dealt with.
WrongHasCause ==
    \A j \in DOMAIN flight :
      flight[j].wrong => \E i \in DOMAIN flight : i < j /\ Pending(flight[i])
\* Fetch is on a wrong path because of a branch in flight.
LostHasCause == lost_path => \E i \in DOMAIN flight : Pending(flight[i])

\* Dispatch is speculative as long as one branch has to be recovered from.
OneRecovers ==
    /\ spec_mode <=> \E i \in DOMAIN flight : Recovers(flight[i])
    /\ \A i, j \in DOMAIN flight : Recovers(flight[i]) /\ Recovers(flight[j]) => i = j

\* Whatever is on a wrong path is there for a reason, and will leave it.
PathInv ==
    FlightTyped /\ DispatchedInOrder /\ WrongHasCause /\ LostHasCause /\ OneRecovers

-----------------------------------------------------------------------------
(* What the steps do to the sequence of branches.                          *)

\* A fetched branch is the last one in flight.
LEMMA AppendBranch ==
  ASSUME NEW S, NEW s \in Seq(S), NEW e
  PROVE  /\ Append(s, e) \in Seq(S \cup {e})
         /\ DOMAIN s = 1 .. Len(s) /\ Len(s) \in Nat
         /\ DOMAIN Append(s, e) = 1 .. Len(s) + 1
         /\ \A k \in 1 .. Len(s) : Append(s, e)[k] = s[k]
         /\ Append(s, e)[Len(s) + 1] = e
<1> DEFINE T == S \cup {e}
<1>1. s \in Seq(T) /\ e \in T
  OBVIOUS
<1>2. /\ Append(s, e) \in Seq(T)
      /\ Len(Append(s, e)) = Len(s) + 1
      /\ \A k \in 1 .. Len(s) : Append(s, e)[k] = s[k]
      /\ Append(s, e)[Len(s) + 1] = e
  <2> HIDE DEF T
  <2> QED
    BY <1>1, AppendProperties
<1>3. DOMAIN Append(s, e) = 1 .. Len(Append(s, e))
  BY <1>2
<1> QED
  BY <1>2, <1>3

\* A recovery keeps the branches up to the one that it recovers from.
LEMMA CutBranches ==
  ASSUME NEW S, NEW s \in Seq(S), NEW i \in DOMAIN s, NEW e,
         NEW t, t = Append(SubSeq(s, 1, i - 1), e)
  PROVE  /\ t \in Seq(S \cup {e})
         /\ DOMAIN t = 1 .. i
         /\ \A k \in 1 .. i - 1 : t[k] = s[k]
         /\ t[i] = e
<1>1. i \in 1 .. Len(s) /\ Len(s) \in Nat
  OBVIOUS
<1> DEFINE p == SubSeq(s, 1, i - 1)
<1>2. \A k \in 1 .. i - 1 : s[k] \in S
  BY <1>1
<1>3. /\ p \in Seq(S) /\ Len(p) = i - 1
      /\ \A k \in 1 .. i - 1 : p[k] = s[k]
  <2>1. i - 1 \in Int /\ 1 \in Int
    BY <1>1
  <2>2. /\ SubSeq(s, 1, i - 1) \in Seq(S)
        /\ Len(SubSeq(s, 1, i - 1)) = IF 1 <= i - 1 THEN i - 1 - 1 + 1 ELSE 0
        /\ \A k \in 1 .. i - 1 - 1 + 1 : SubSeq(s, 1, i - 1)[k] = s[1 + k - 1]
    BY <2>1, <1>2, SubSeqProperties
  <2>3. i - 1 - 1 + 1 = i - 1 /\ \A k \in 1 .. i - 1 : 1 + k - 1 = k
    BY <1>1
  <2> QED
    BY <2>2, <2>3, <1>1
<1> HIDE DEF p
<1>4. /\ Append(p, e) \in Seq(S \cup {e})
      /\ DOMAIN Append(p, e) = 1 .. Len(p) + 1
      /\ \A k \in 1 .. Len(p) : Append(p, e)[k] = p[k]
      /\ Append(p, e)[Len(p) + 1] = e
  <2>1. p \in Seq(S)
    BY <1>3
  <2> QED
    BY <2>1, AppendBranch
<1>5. Len(p) + 1 = i
  BY <1>1, <1>3
<1>6. /\ Append(p, e) \in Seq(S \cup {e})
      /\ DOMAIN Append(p, e) = 1 .. i
      /\ \A k \in 1 .. i - 1 : Append(p, e)[k] = s[k]
      /\ Append(p, e)[i] = e
  BY <1>3, <1>4, <1>5
<1> QED
  BY <1>6 DEF p

\* A stage changes the branch that it deals with, and no other.
LEMMA ReplaceBranch ==
  ASSUME NEW S, NEW s \in Seq(S), NEW i \in DOMAIN s, NEW e,
         NEW t, t = [s EXCEPT ![i] = e]
  PROVE  /\ \E T : t \in Seq(T)
         /\ DOMAIN t = DOMAIN s
         /\ \A k \in DOMAIN s : k # i => t[k] = s[k]
         /\ t[i] = e
<1> DEFINE T == S \cup {e}
<1>1. s \in Seq(T) /\ e \in T
  OBVIOUS
<1>2. t \in Seq(T)
  <2> HIDE DEF T
  <2> QED
    BY <1>1, ExceptSeq
<1> QED
  BY <1>2

\* Commit drops the oldest branch.
LEMMA DropBranch ==
  ASSUME NEW S, NEW s \in Seq(S), s # <<>>
  PROVE  /\ \E T : Tail(s) \in Seq(T)
         /\ 1 \in DOMAIN s /\ DOMAIN s = 1 .. Len(s) /\ Len(s) \in Nat
         /\ DOMAIN Tail(s) = 1 .. Len(s) - 1
         /\ \A k \in 1 .. Len(s) - 1 : Tail(s)[k] = s[k + 1]
<1>1. /\ Tail(s) \in Seq(S)
      /\ Len(Tail(s)) = Len(s) - 1
      /\ \A k \in 1 .. Len(Tail(s)) : Tail(s)[k] = s[k + 1]
  BY HeadTailProperties
<1>2. Len(s) \in Nat /\ Len(s) # 0
  BY EmptySeq
<1> QED
  BY <1>1, <1>2

-----------------------------------------------------------------------------
(* The invariant holds.                                                    *)

\* Nothing is in flight at the start.
LEMMA InitPath == Init => PathInv
<1> SUFFICES ASSUME Init PROVE PathInv
  OBVIOUS
<1>1. flight = <<>> /\ lost_path = FALSE /\ spec_mode = FALSE
  BY DEF Init
<1>2. DOMAIN flight = {} /\ flight \in Seq({})
  BY <1>1
<1> QED
  BY <1>1, <1>2 DEF PathInv, FlightTyped, DispatchedInOrder, WrongHasCause,
                    LostHasCause, OneRecovers

\* A new branch is on a wrong path if fetch is, and may itself be mispredicted.
LEMMA FetchPath ==
  ASSUME PathInv, NEW pc, NEW next_PC, ruu_fetch(pc, next_PC)
  PROVE  PathInv'
<1> USE DEF PathInv
<1> DEFINE n == Len(flight)
           e == [pc |-> pc, next_PC |-> next_PC, pred_PC |-> pred_PC(pc),
                 dir_update |-> [DirUpdate(pc) EXCEPT !.ras = UsesRAS(pc)],
                 stack_recover_idx |-> RecoverIndex(pc),
                 wrong |-> lost_path, stage |-> "fetched", recover |-> FALSE]
<1>1. /\ flight' = Append(flight, e)
      /\ lost_path' = (lost_path \/ pred_PC(pc) # next_PC)
      /\ spec_mode' = spec_mode
  BY DEF ruu_fetch
<1>2. PICK S : flight \in Seq(S)
  BY DEF FlightTyped
<1>3. /\ IsBranch(e) /\ e.stage = "fetched" /\ ~Recovers(e)
      /\ e.wrong = lost_path
      /\ Pending(e) <=> pred_PC(pc) # next_PC
  <2>1. e \in Branch({pc, next_PC, e.pred_PC, e.dir_update, e.stack_recover_idx})
    BY DEF Branch, Stages, FlightTyped
  <2> QED
    BY <2>1 DEF IsBranch, Recovers, Pending, Correct
<1> HIDE DEF e
<1>4. /\ \E T : flight' \in Seq(T)
      /\ DOMAIN flight = 1 .. n /\ n \in Nat
      /\ DOMAIN flight' = 1 .. n + 1
      /\ \A k \in 1 .. n : flight'[k] = flight[k]
      /\ flight'[n + 1] = e
  <2>1. /\ Append(flight, e) \in Seq(S \cup {e})
        /\ DOMAIN flight = 1 .. Len(flight) /\ Len(flight) \in Nat
        /\ DOMAIN Append(flight, e) = 1 .. Len(flight) + 1
        /\ \A k \in 1 .. Len(flight) : Append(flight, e)[k] = flight[k]
        /\ Append(flight, e)[Len(flight) + 1] = e
    BY <1>2, AppendBranch
  <2> QED
    BY <1>1, <2>1, Zenon
<1> HIDE DEF n
<1>5. DOMAIN flight' = DOMAIN flight \cup {n + 1} /\ \A k \in DOMAIN flight : k < n + 1
  BY <1>4
<1>6. FlightTyped'
  BY <1>1, <1>3, <1>4, <1>5 DEF FlightTyped, IsBranch, Branch
<1>7. DispatchedInOrder'
  BY <1>3, <1>4, <1>5 DEF DispatchedInOrder
<1>8. WrongHasCause'
  <2> SUFFICES ASSUME NEW j \in DOMAIN flight', flight'[j].wrong
               PROVE  \E i \in DOMAIN flight' : i < j /\ Pending(flight'[i])
    BY DEF WrongHasCause, Pending, Correct, Recovers
  <2>1. CASE j \in DOMAIN flight
    BY <2>1, <1>4, <1>5 DEF WrongHasCause
  <2>2. CASE j = n + 1
    BY <2>2, <1>3, <1>4, <1>5 DEF LostHasCause
  <2> QED
    BY <2>1, <2>2, <1>5
<1>9. LostHasCause'
  <2> SUFFICES ASSUME lost_path'
               PROVE  \E i \in DOMAIN flight' : Pending(flight'[i])
    BY DEF LostHasCause, Pending, Correct, Recovers
  <2> QED
    BY <1>1, <1>3, <1>4, <1>5 DEF LostHasCause
<1>10. OneRecovers'
  <2>1. \A i \in DOMAIN flight' :
          Recovers(flight'[i]) <=> i \in DOMAIN flight /\ Recovers(flight[i])
    BY <1>3, <1>4, <1>5
  <2> QED
    BY <1>1, <1>5, <2>1 DEF OneRecovers, Recovers
<1> QED
  BY <1>6, <1>7, <1>8, <1>9, <1>10

\* The first branch that has not been dispatched is not on a wrong path if
\* dispatch is not.
LEMMA RightWhenSure ==
  ASSUME PathInv, NEW i \in DOMAIN flight, ~spec_mode,
         \A j \in 1 .. i - 1 : flight[j].stage # "fetched"
  PROVE  ~flight[i].wrong
<1> SUFFICES ASSUME flight[i].wrong PROVE FALSE
  OBVIOUS
<1>1. PICK k \in DOMAIN flight : k < i /\ Pending(flight[k])
  BY DEF PathInv, WrongHasCause
<1>2. PICK S : flight \in Seq(S)
  BY DEF PathInv, FlightTyped
<1>3. DOMAIN flight = 1 .. Len(flight) /\ Len(flight) \in Nat
  BY <1>2
<1>4. k \in 1 .. i - 1
  BY <1>1, <1>3
<1>5. Recovers(flight[k])
  BY <1>1, <1>4 DEF Pending
<1> QED
  BY <1>5 DEF PathInv, OneRecovers

\* After a cut, what is left keeps its order and its causes.
LEMMA CutPath ==
  ASSUME PathInv, NEW i \in DOMAIN flight, NEW d,
         IsBranch(d), d.stage # "fetched", d.wrong = flight[i].wrong,
         flight' = Append(SubSeq(flight, 1, i - 1), d),
         lost_path' \in BOOLEAN, spec_mode' \in BOOLEAN,
         \A j \in 1 .. i - 1 : flight[j].stage # "fetched"
  PROVE  /\ FlightTyped' /\ DispatchedInOrder' /\ WrongHasCause'
         /\ DOMAIN flight' = 1 .. i /\ i \in Nat /\ i \in DOMAIN flight'
         /\ \A k \in 1 .. i - 1 : k \in DOMAIN flight /\ flight'[k] = flight[k]
         /\ flight'[i] = d
<1> USE DEF PathInv
<1>1. PICK S : flight \in Seq(S)
  BY DEF FlightTyped
<1>2. DOMAIN flight = 1 .. Len(flight) /\ Len(flight) \in Nat
  BY <1>1
<1>3. /\ \E T : flight' \in Seq(T)
      /\ DOMAIN flight' = 1 .. i
      /\ \A k \in 1 .. i - 1 : flight'[k] = flight[k]
      /\ flight'[i] = d
  <2>1. flight' \in Seq(S \cup {d})
    BY <1>1, CutBranches
  <2>2. /\ DOMAIN flight' = 1 .. i
        /\ \A k \in 1 .. i - 1 : flight'[k] = flight[k]
        /\ flight'[i] = d
    BY <1>1, CutBranches
  <2> QED
    BY <2>1, <2>2
<1>4. /\ i \in Nat /\ i \in DOMAIN flight'
      /\ \A k \in 1 .. i - 1 : k \in DOMAIN flight /\ k < i
      /\ \A k \in DOMAIN flight' : k = i \/ k \in 1 .. i - 1
  BY <1>2, <1>3
<1>5. FlightTyped'
  BY <1>3, <1>4 DEF FlightTyped, IsBranch, Branch
<1>6. DispatchedInOrder'
  BY <1>3, <1>4 DEF DispatchedInOrder
<1>7. WrongHasCause'
  <2> SUFFICES ASSUME NEW j \in DOMAIN flight', flight'[j].wrong
               PROVE  \E k \in DOMAIN flight' : k < j /\ Pending(flight'[k])
    BY DEF WrongHasCause, Pending, Correct, Recovers
  <2>1. j \in DOMAIN flight /\ flight[j].wrong
    BY <1>3, <1>4
  <2>2. PICK k \in DOMAIN flight : k < j /\ Pending(flight[k])
    BY <2>1 DEF WrongHasCause
  <2>3. k \in 1 .. i - 1 /\ k \in DOMAIN flight'
    BY <1>2, <1>3, <1>4, <2>2
  <2> QED
    BY <1>3, <2>2, <2>3
<1> QED
  BY <1>3, <1>4, <1>5, <1>6, <1>7

\* A redirected fetch leaves the path the branch is on.
LEMMA RedirectPath ==
  ASSUME PathInv, NEW i \in DOMAIN flight, ruu_dispatch(i), Redirects(flight[i])
  PROVE  PathInv'
<1> USE DEF PathInv
<1> DEFINE e == flight[i]
           d == [e EXCEPT !.stage = "dispatched", !.recover = FALSE]
<1>1. /\ e.stage = "fetched" /\ \A j \in 1 .. i - 1 : flight[j].stage # "fetched"
      /\ flight' = Append(SubSeq(flight, 1, i - 1), d)
      /\ lost_path' = e.wrong /\ spec_mode' = spec_mode
  BY DEF ruu_dispatch, Mispredicted, FlightTyped
<1>2. /\ IsBranch(e) /\ IsBranch(d) /\ d.stage = "dispatched" /\ d.recover = FALSE
      /\ d.wrong = e.wrong
  <2>1. PICK Value : e \in Branch(Value)
    BY DEF FlightTyped, IsBranch
  <2>2. /\ d \in Branch(Value) /\ d.stage = "dispatched" /\ d.recover = FALSE
        /\ d.wrong = e.wrong
    BY <2>1 DEF Branch, Stages
  <2> QED
    BY <2>1, <2>2 DEF IsBranch
<1> HIDE DEF d
<1>3. lost_path' \in BOOLEAN /\ spec_mode' \in BOOLEAN
  BY <1>1, <1>2 DEF FlightTyped, IsBranch, Branch
<1>4. /\ FlightTyped' /\ DispatchedInOrder' /\ WrongHasCause'
      /\ DOMAIN flight' = 1 .. i /\ i \in Nat /\ i \in DOMAIN flight'
      /\ \A k \in 1 .. i - 1 : k \in DOMAIN flight /\ flight'[k] = flight[k]
      /\ flight'[i] = d
  BY <1>1, <1>2, <1>3, CutPath
<1>5. LostHasCause'
  <2> SUFFICES ASSUME lost_path'
               PROVE  \E k \in DOMAIN flight' : Pending(flight'[k])
    BY DEF LostHasCause, Pending, Correct, Recovers
  <2> QED
    BY <1>1, <1>2, <1>4 DEF WrongHasCause
<1>6. OneRecovers'
  <2>1. PICK S : flight \in Seq(S)
    BY DEF FlightTyped
  <2>2. DOMAIN flight = 1 .. Len(flight) /\ Len(flight) \in Nat
    BY <2>1
  <2>3. \A k \in DOMAIN flight : Recovers(flight[k]) => k \in 1 .. i - 1
    BY <1>1, <1>4, <2>2 DEF DispatchedInOrder, Recovers
  <2>4. \A k \in DOMAIN flight' :
          Recovers(flight'[k]) <=> k \in 1 .. i - 1 /\ Recovers(flight[k])
    BY <1>2, <1>4 DEF Recovers
  <2>5. 1 .. i - 1 \subseteq DOMAIN flight'
    BY <1>4
  <2> QED
    BY <1>1, <1>4, <2>3, <2>4, <2>5 DEF OneRecovers, Recovers
<1> QED
  BY <1>4, <1>5, <1>6

\* The write-back of a mispredicted branch ends every wrong path.
LEMMA RecoverPath ==
  ASSUME PathInv, NEW i \in DOMAIN flight, ruu_writeback(i), flight[i].recover
  PROVE  PathInv'
<1> USE DEF PathInv
<1> DEFINE e == flight[i]
           d == [e EXCEPT !.stage = "done"]
<1>1. /\ e.stage = "dispatched" /\ Recovers(e)
      /\ flight' = Append(SubSeq(flight, 1, i - 1), d)
      /\ lost_path' = FALSE /\ spec_mode' = FALSE
  BY DEF ruu_writeback, Recovers
<1>2. /\ IsBranch(d) /\ d.stage = "done" /\ d.wrong = e.wrong
  <2>1. PICK Value : e \in Branch(Value)
    BY DEF FlightTyped, IsBranch
  <2>2. d \in Branch(Value) /\ d.stage = "done" /\ d.wrong = e.wrong
    BY <2>1 DEF Branch, Stages
  <2> QED
    BY <2>2 DEF IsBranch
<1> HIDE DEF d
<1>3. PICK S : flight \in Seq(S)
  BY DEF FlightTyped
<1>4. DOMAIN flight = 1 .. Len(flight) /\ Len(flight) \in Nat
  BY <1>3
<1>5. \A j \in 1 .. i - 1 : j \in DOMAIN flight /\ j < i
  BY <1>4
<1>6. \A j \in 1 .. i - 1 : flight[j].stage # "fetched"
  BY <1>1, <1>5 DEF DispatchedInOrder
<1>7. /\ FlightTyped' /\ DispatchedInOrder' /\ WrongHasCause'
      /\ DOMAIN flight' = 1 .. i /\ i \in Nat /\ i \in DOMAIN flight'
      /\ \A k \in 1 .. i - 1 : k \in DOMAIN flight /\ flight'[k] = flight[k]
      /\ flight'[i] = d
  BY <1>1, <1>2, <1>6, CutPath
<1>8. LostHasCause'
  BY <1>1 DEF LostHasCause
<1>9. OneRecovers'
  <2>1. \A k \in DOMAIN flight' : k = i \/ (k \in 1 .. i - 1 /\ k # i)
    BY <1>7
  <2>2. \A k \in DOMAIN flight' : ~Recovers(flight'[k])
    BY <1>1, <1>2, <1>7, <2>1 DEF OneRecovers, Recovers
  <2> QED
    BY <1>1, <2>2 DEF OneRecovers, Recovers
<1> QED
  BY <1>7, <1>8, <1>9

\* A branch found mispredicted becomes the one to recover from; on a wrong path
\* an older one already is.
LEMMA DispatchPath ==
  ASSUME PathInv, NEW i \in DOMAIN flight, ruu_dispatch(i), ~Redirects(flight[i])
  PROVE  PathInv'
<1> USE DEF PathInv
<1> DEFINE e == flight[i]
           missed == Mispredicted(e)
           d == [e EXCEPT !.stage = "dispatched", !.recover = missed]
<1>1. /\ e.stage = "fetched" /\ \A j \in 1 .. i - 1 : flight[j].stage # "fetched"
      /\ flight' = [flight EXCEPT ![i] = d]
      /\ lost_path' = lost_path /\ spec_mode' = (spec_mode \/ missed)
  BY DEF ruu_dispatch
<1>2. /\ missed \in BOOLEAN
      /\ missed <=> ~spec_mode /\ ~Correct(e)
  BY DEF Mispredicted, FlightTyped
<1>3. /\ IsBranch(d) /\ d.stage = "dispatched" /\ d.recover = missed
      /\ d.wrong = e.wrong
  <2> HIDE DEF missed
  <2>1. PICK Value : e \in Branch(Value)
    BY DEF FlightTyped, IsBranch
  <2>2. /\ d \in Branch(Value) /\ d.stage = "dispatched" /\ d.recover = missed
        /\ d.wrong = e.wrong
    BY <2>1, <1>2 DEF Branch, Stages
  <2> QED
    BY <2>2 DEF IsBranch
<1> HIDE DEF d, missed
<1>4. PICK S : flight \in Seq(S)
  BY DEF FlightTyped
<1>5. /\ \E T : flight' \in Seq(T)
      /\ DOMAIN flight' = DOMAIN flight
      /\ \A k \in DOMAIN flight : k # i => flight'[k] = flight[k]
      /\ flight'[i] = d
  BY <1>1, <1>4, ReplaceBranch, Zenon
<1>6. DOMAIN flight = 1 .. Len(flight) /\ Len(flight) \in Nat
  BY <1>4
<1>7. /\ \A k \in DOMAIN flight : k < i => flight[k].stage # "fetched"
      /\ \A k \in DOMAIN flight : Recovers(flight[k]) => k < i
  <2>1. \A k \in DOMAIN flight : k < i => flight[k].stage # "fetched"
    BY <1>1, <1>6
  <2>2. \A k \in DOMAIN flight : i < k => flight[k].stage = "fetched"
    BY <1>1 DEF DispatchedInOrder
  <2> QED
    BY <1>1, <1>6, <2>1, <2>2 DEF Recovers
\* Whoever loses i as the cause finds an older one.
<1>8. \A k \in DOMAIN flight : Pending(flight[k]) =>
        \E h \in DOMAIN flight' : h <= k /\ Pending(flight'[h])
  <2> SUFFICES ASSUME NEW k \in DOMAIN flight, Pending(flight[k])
               PROVE  \E h \in DOMAIN flight' : h <= k /\ Pending(flight'[h])
    OBVIOUS
  <2>1. CASE k # i
    BY <2>1, <1>5, <1>6
  <2>2. CASE k = i /\ missed
    <3>1. Pending(flight'[i])
      BY <2>2, <1>3, <1>5 DEF Pending, Recovers
    <3> QED
      BY <2>2, <3>1, <1>5, <1>6
  <2>3. CASE k = i /\ ~missed
    <3>1. ~Correct(e)
      BY <2>3, <1>1 DEF Pending, Recovers
    <3>2. spec_mode
      BY <3>1, <2>3, <1>2
    <3>3. PICK h \in DOMAIN flight : Recovers(flight[h])
      BY <3>2 DEF OneRecovers
    <3>4. h < i /\ flight'[h] = flight[h]
      BY <3>3, <1>5, <1>6, <1>7
    <3> QED
      BY <3>3, <3>4, <2>3, <1>5, <1>6 DEF Pending
  <2> QED
    BY <2>1, <2>2, <2>3
<1>9. FlightTyped'
  BY <1>1, <1>2, <1>3, <1>5 DEF FlightTyped, IsBranch, Branch
<1>10. DispatchedInOrder'
  BY <1>3, <1>5, <1>7 DEF DispatchedInOrder
<1>11. WrongHasCause'
  <2> SUFFICES ASSUME NEW j \in DOMAIN flight', flight'[j].wrong
               PROVE  \E h \in DOMAIN flight' : h < j /\ Pending(flight'[h])
    BY DEF WrongHasCause, Pending, Correct, Recovers
  <2>1. j \in DOMAIN flight /\ flight[j].wrong
    BY <1>3, <1>5
  <2>2. PICK k \in DOMAIN flight : k < j /\ Pending(flight[k])
    BY <2>1 DEF WrongHasCause
  <2>3. PICK h \in DOMAIN flight' : h <= k /\ Pending(flight'[h])
    BY <2>2, <1>8
  <2>4. h < j
    BY <2>1, <2>2, <2>3, <1>5, <1>6
  <2> QED
    BY <2>3, <2>4
<1>12. LostHasCause'
  <2> SUFFICES ASSUME lost_path'
               PROVE  \E h \in DOMAIN flight' : Pending(flight'[h])
    BY DEF LostHasCause, Pending, Correct, Recovers
  <2> QED
    BY <1>1, <1>8 DEF LostHasCause
<1>13. OneRecovers'
  <2>1. \A k \in DOMAIN flight' :
          Recovers(flight'[k]) <=> (IF k = i THEN missed ELSE Recovers(flight[k]))
    BY <1>3, <1>5 DEF Recovers
  <2>2. ~Recovers(flight[i])
    BY <1>1 DEF Recovers
  <2>3. missed => \A k \in DOMAIN flight : ~Recovers(flight[k])
    BY <1>2 DEF OneRecovers
  <2>4. spec_mode' <=> \E k \in DOMAIN flight' : Recovers(flight'[k])
    BY <1>1, <1>2, <1>5, <2>1, <2>2 DEF OneRecovers
  <2>5. \A h, k \in DOMAIN flight' : Recovers(flight'[h]) /\ Recovers(flight'[k]) => h = k
    BY <1>5, <2>1, <2>3 DEF OneRecovers
  <2> QED
    BY <2>4, <2>5 DEF OneRecovers, Recovers
<1> QED
  BY <1>9, <1>10, <1>11, <1>12, <1>13

\* The write-back of any other branch changes no cause.
LEMMA WritebackPath ==
  ASSUME PathInv, NEW i \in DOMAIN flight, ruu_writeback(i), ~flight[i].recover
  PROVE  PathInv'
<1> USE DEF PathInv
<1> DEFINE e == flight[i]
           d == [e EXCEPT !.stage = "done"]
<1>1. /\ e.stage = "dispatched" /\ ~Pending(e)
      /\ flight' = [flight EXCEPT ![i] = d]
      /\ lost_path' = lost_path /\ spec_mode' = spec_mode
  BY DEF ruu_writeback, Recovers, Pending
<1>2. /\ IsBranch(d) /\ d.stage = "done" /\ d.wrong = e.wrong
  <2>1. PICK Value : e \in Branch(Value)
    BY DEF FlightTyped, IsBranch
  <2>2. d \in Branch(Value) /\ d.stage = "done" /\ d.wrong = e.wrong
    BY <2>1 DEF Branch, Stages
  <2> QED
    BY <2>2 DEF IsBranch
<1> HIDE DEF d
<1>3. PICK S : flight \in Seq(S)
  BY DEF FlightTyped
<1>4. /\ \E T : flight' \in Seq(T)
      /\ DOMAIN flight' = DOMAIN flight
      /\ \A k \in DOMAIN flight : k # i => flight'[k] = flight[k]
      /\ flight'[i] = d
  BY <1>1, <1>3, ReplaceBranch, Zenon
<1>5. \A k \in DOMAIN flight :
        /\ Pending(flight'[k]) <=> Pending(flight[k])
        /\ Recovers(flight'[k]) <=> Recovers(flight[k])
        /\ flight'[k].wrong = flight[k].wrong
        /\ flight'[k].stage = "fetched" <=> flight[k].stage = "fetched"
  BY <1>1, <1>2, <1>4 DEF Pending, Recovers
<1>6. FlightTyped'
  BY <1>1, <1>2, <1>4 DEF FlightTyped, IsBranch, Branch
<1>7. DispatchedInOrder'
  BY <1>4, <1>5 DEF DispatchedInOrder
<1>8. WrongHasCause'
  BY <1>4, <1>5 DEF WrongHasCause, Pending, Recovers, Correct
<1>9. LostHasCause'
  BY <1>1, <1>4, <1>5 DEF LostHasCause, Pending, Recovers, Correct
<1>10. OneRecovers'
  BY <1>1, <1>4, <1>5 DEF OneRecovers, Recovers
<1> QED
  BY <1>6, <1>7, <1>8, <1>9, <1>10

\* The oldest branch is never on a wrong path, and commit takes no cause away.
LEMMA OldestIsRight ==
  ASSUME PathInv, flight # <<>>
  PROVE  ~flight[1].wrong
<1>1. PICK S : flight \in Seq(S)
  BY DEF PathInv, FlightTyped
<1>2. 1 \in DOMAIN flight /\ \A k \in DOMAIN flight : ~(k < 1)
  BY <1>1, DropBranch
<1> QED
  BY <1>2 DEF PathInv, WrongHasCause

\* The branch that commits is on the right path: nothing older could be the
\* cause of its being wrong.
LEMMA CommitPath ==
  ASSUME PathInv, ruu_commit
  PROVE  PathInv'
<1> USE DEF PathInv
<1>1. /\ flight # <<>> /\ flight[1].stage = "done"
      /\ flight' = Tail(flight)
      /\ lost_path' = lost_path /\ spec_mode' = spec_mode
  BY DEF ruu_commit
<1> DEFINE n == Len(flight)
<1>2. PICK S : flight \in Seq(S)
  BY DEF FlightTyped
<1>3. /\ \E T : flight' \in Seq(T)
      /\ 1 \in DOMAIN flight /\ DOMAIN flight = 1 .. n /\ n \in Nat
      /\ DOMAIN flight' = 1 .. n - 1
      /\ \A k \in 1 .. n - 1 : flight'[k] = flight[k + 1]
  BY <1>1, <1>2, DropBranch
<1> HIDE DEF n
<1>4. /\ \A k \in DOMAIN flight' :
           k + 1 \in DOMAIN flight /\ flight'[k] = flight[k + 1] /\ k \in Int
      /\ \A k \in DOMAIN flight : k # 1 =>
           k - 1 \in DOMAIN flight' /\ flight'[k - 1] = flight[k] /\ k \in Int
  BY <1>3
<1>5. ~Pending(flight[1]) /\ ~Recovers(flight[1])
  BY <1>1 DEF Pending, Recovers
<1>6. FlightTyped'
  BY <1>1, <1>3, <1>4 DEF FlightTyped, IsBranch, Branch
<1>7. DispatchedInOrder'
  BY <1>4 DEF DispatchedInOrder
<1>8. WrongHasCause'
  <2> SUFFICES ASSUME NEW j \in DOMAIN flight', flight'[j].wrong
               PROVE  \E h \in DOMAIN flight' : h < j /\ Pending(flight'[h])
    BY DEF WrongHasCause, Pending, Correct, Recovers
  <2>1. PICK k \in DOMAIN flight : k < j + 1 /\ Pending(flight[k])
    BY <1>4 DEF WrongHasCause
  <2>2. k # 1
    BY <2>1, <1>5
  <2>3. k - 1 \in DOMAIN flight' /\ k - 1 < j /\ flight'[k - 1] = flight[k]
    BY <2>1, <2>2, <1>4
  <2> QED
    BY <2>1, <2>3
<1>9. LostHasCause'
  <2> SUFFICES ASSUME lost_path'
               PROVE  \E h \in DOMAIN flight' : Pending(flight'[h])
    BY DEF LostHasCause, Pending, Correct, Recovers
  <2> QED
    BY <1>1, <1>4, <1>5 DEF LostHasCause
<1>10. OneRecovers'
  <2>1. \A k \in DOMAIN flight' : Recovers(flight'[k]) <=> Recovers(flight[k + 1])
    BY <1>4
  <2>2. spec_mode <=> \E k \in DOMAIN flight' : Recovers(flight'[k])
    BY <1>4, <1>5 DEF OneRecovers
  <2>3. \A h, k \in DOMAIN flight' : Recovers(flight'[h]) /\ Recovers(flight'[k]) => h = k
    BY <2>1, <1>4 DEF OneRecovers
  <2> QED
    BY <1>1, <2>2, <2>3 DEF OneRecovers, Recovers
<1> QED
  BY <1>6, <1>7, <1>8, <1>9, <1>10

\* The theorem that the invariant is one.
THEOREM Paths == Spec => []PathInv
<1>1. Init => PathInv
  BY InitPath
<1>2. PathInv /\ [Next]_vars => PathInv'
  <2> SUFFICES ASSUME PathInv, [Next]_vars PROVE PathInv'
    OBVIOUS
  <2>1. ASSUME NEW pc \in PCs, NEW next_PC \in Outcomes(pc), ruu_fetch(pc, next_PC)
        PROVE  PathInv'
    BY <2>1, FetchPath
  <2>2. ASSUME NEW i \in DOMAIN flight, ruu_dispatch(i)
        PROVE  PathInv'
    BY <2>2, RedirectPath, DispatchPath
  <2>3. ASSUME NEW i \in DOMAIN flight, ruu_writeback(i)
        PROVE  PathInv'
    BY <2>3, RecoverPath, WritebackPath
  <2>4. CASE ruu_commit
    BY <2>4, CommitPath
  <2>5. CASE UNCHANGED vars
    BY <2>5 DEF vars, PathInv, FlightTyped, DispatchedInOrder, WrongHasCause,
                LostHasCause, OneRecovers, Pending, Recovers, Correct
  <2> QED
    BY <2>1, <2>2, <2>3, <2>4, <2>5 DEF Next
<1> QED
  BY <1>1, <1>2, PTL DEF Spec

\* Dispatch moves the branch on.
LEMMA DispatchedBranch ==
  ASSUME PathInv, NEW i \in DOMAIN flight, ruu_dispatch(i)
  PROVE  i \in DOMAIN flight' /\ flight'[i].stage = "dispatched"
<1> DEFINE e == flight[i]
           d == [e EXCEPT !.stage = "dispatched", !.recover = Mispredicted(e)]
<1>1. PICK S : flight \in Seq(S)
  BY DEF PathInv, FlightTyped
<1>2. d.stage = "dispatched"
  <2>1. PICK Value : e \in Branch(Value)
    BY DEF PathInv, FlightTyped, IsBranch
  <2> QED
    BY <2>1 DEF Branch
<1>3. flight' = Append(SubSeq(flight, 1, i - 1), d) \/ flight' = [flight EXCEPT ![i] = d]
  BY DEF ruu_dispatch
<1> HIDE DEF d
<1>4. CASE flight' = Append(SubSeq(flight, 1, i - 1), d)
  <2>1. DOMAIN flight' = 1 .. i /\ flight'[i] = d
    BY <1>1, <1>4, CutBranches
  <2>2. DOMAIN flight = 1 .. Len(flight) /\ Len(flight) \in Nat
    BY <1>1
  <2> QED
    BY <2>1, <2>2, <1>2
<1>5. CASE flight' = [flight EXCEPT ![i] = d]
  BY <1>2, <1>5
<1> QED
  BY <1>3, <1>4, <1>5

-----------------------------------------------------------------------------
(* "only non-speculative state is committed into the BTB": bpred_update    *)
(* does not run for a branch of a wrong path, neither at decode nor at      *)
(* commit.                                                                 *)
THEOREM WrongPathsDoNotTrain == Spec => RightPathTrains
<1> DEFINE Step ==
      tables' # tables =>
        CASE config.spec_update = "ID" ->
               \E i \in DOMAIN flight' : /\ flight[i].stage = "fetched" /\ ~flight[i].wrong
                                        /\ flight'[i].stage = "dispatched"
          [] config.spec_update = "CT" -> ~flight[1].wrong
          [] OTHER -> TRUE
<1>1. PathInv /\ [Next]_vars => [Step]_vars
  <2> SUFFICES ASSUME PathInv, Next, tables' # tables PROVE Step
    OBVIOUS
  <2>1. ASSUME NEW pc \in PCs, NEW next_PC \in Outcomes(pc), ruu_fetch(pc, next_PC)
        PROVE  FALSE
    BY <2>1 DEF ruu_fetch
  <2>2. ASSUME NEW i \in DOMAIN flight, ruu_dispatch(i)
        PROVE  Step
    <3>1. ~spec_mode /\ config.spec_update = "ID"
      BY <2>2 DEF ruu_dispatch, TrainsAtDecode, UpdateAt
    <3>2. /\ flight[i].stage = "fetched"
          /\ \A j \in 1 .. i - 1 : flight[j].stage # "fetched"
      BY <2>2 DEF ruu_dispatch
    <3>3. ~flight[i].wrong
      BY <3>1, <3>2, RightWhenSure
    <3>4. i \in DOMAIN flight' /\ flight'[i].stage = "dispatched"
      BY <2>2, DispatchedBranch
    <3> QED
      BY <3>1, <3>2, <3>3, <3>4
  <2>3. ASSUME NEW i \in DOMAIN flight, ruu_writeback(i)
        PROVE  Step
    <3>1. config.spec_update = "WB"
      BY <2>3 DEF ruu_writeback, UpdateAt
    <3> QED
      BY <3>1
  <2>4. CASE ruu_commit
    <3>1. config.spec_update = "CT" /\ flight # <<>>
      BY <2>4 DEF ruu_commit, UpdateAt
    <3> QED
      BY <3>1, OldestIsRight
  <2> QED
    BY <2>1, <2>2, <2>3, <2>4 DEF Next
<1> QED
  BY <1>1, Paths, PTL DEF Spec, RightPathTrains

-----------------------------------------------------------------------------
(* The return stack.                                                       *)

\* The predictor has a return stack.
HasStack == Stateful /\ config.retstack_size # 0
\* The entries of the return stack.
Slots == 0 .. config.retstack_size - 1

\* A misprediction that has not been dealt with has put fetch, and whatever is
\* younger, on a wrong path.
PendingLeads ==
    \A i \in DOMAIN flight : Pending(flight[i]) =>
      lost_path /\ \A j \in DOMAIN flight : i < j => flight[j].wrong
\* A branch goes where the program lets it.
OutcomesKnown ==
    \A i \in DOMAIN flight : flight[i].next_PC \in Outcomes(flight[i].pc)

\* The top of the right path is the top on the right path; on a wrong path it is
\* what the branch that led there has saved, unless it uses the stack itself,
\* and still the top unless a younger branch has used the stack.
TopKept(i) ==
    /\ ~StackUser(flight[i]) => flight[i].stack_recover_idx = top
    /\ flight[i].stage = "fetched"
         /\ (\A j \in DOMAIN flight : i < j => ~StackUser(flight[j])) => tos = top
TopFollowed ==
    HasStack =>
      /\ tos \in Slots
      /\ \A i \in DOMAIN flight : flight[i].stack_recover_idx \in Slots
      /\ disturbed # "top" =>
           /\ ~lost_path => tos = top
           /\ \A i \in DOMAIN flight :
                Pending(flight[i]) /\ ~flight[i].wrong => TopKept(i)

\* The callers lie below the top, the innermost first.
CallersOnStack ==
    /\ HasStack => DOMAIN stack = Slots
    /\ disturbed = "none" =>
         /\ ~HasStack => callers = <<>>
         /\ \E S : callers \in Seq(S)
         /\ HasStack =>
              /\ Len(callers) <= config.retstack_size
              /\ \A d \in DOMAIN callers :
                   stack[(top + config.retstack_size - (d - 1)) % config.retstack_size]
                     = callers[d]

\* The return stack and the branches that have saved its top.
StackInv ==
    /\ config \in Configs
    /\ PendingLeads /\ OutcomesKnown /\ TopFollowed /\ CallersOnStack


-----------------------------------------------------------------------------
(* What the steps do to the branches in flight, as far as the return stack *)
(* is concerned.                                                           *)

\* The branch b is a, but for its stage.
Same(a, b) ==
    /\ b.pc = a.pc /\ b.next_PC = a.next_PC /\ b.pred_PC = a.pred_PC
    /\ b.stack_recover_idx = a.stack_recover_idx /\ b.wrong = a.wrong
    /\ b.dir_update = a.dir_update

\* What fetch does to the branches in flight.
LEMMA FetchFlight ==
  ASSUME PathInv, NEW pc, NEW next_PC, ruu_fetch(pc, next_PC)
  PROVE  \E n \in Nat :
           /\ DOMAIN flight = 1 .. n /\ DOMAIN flight' = 1 .. n + 1
           /\ \A k \in 1 .. n : flight'[k] = flight[k]
           /\ flight'[n + 1].pc = pc /\ flight'[n + 1].next_PC = next_PC
           /\ flight'[n + 1].wrong = lost_path
           /\ flight'[n + 1].stack_recover_idx = RecoverIndex(pc)
           /\ flight'[n + 1].dir_update = [DirUpdate(pc) EXCEPT !.ras = UsesRAS(pc)]
           /\ flight'[n + 1].stage = "fetched"
           /\ Pending(flight'[n + 1]) <=> pred_PC(pc) # next_PC
<1> DEFINE n == Len(flight)
           e == [pc |-> pc, next_PC |-> next_PC, pred_PC |-> pred_PC(pc),
                 dir_update |-> [DirUpdate(pc) EXCEPT !.ras = UsesRAS(pc)],
                 stack_recover_idx |-> RecoverIndex(pc),
                 wrong |-> lost_path, stage |-> "fetched", recover |-> FALSE]
<1>1. flight' = Append(flight, e)
  BY DEF ruu_fetch
<1>2. PICK S : flight \in Seq(S)
  BY DEF PathInv, FlightTyped
<1>3. /\ e.pc = pc /\ e.next_PC = next_PC /\ e.wrong = lost_path
      /\ e.stack_recover_idx = RecoverIndex(pc)
      /\ e.dir_update = [DirUpdate(pc) EXCEPT !.ras = UsesRAS(pc)]
      /\ e.stage = "fetched"
      /\ Pending(e) <=> pred_PC(pc) # next_PC
  BY DEF Pending, Recovers, Correct
<1> HIDE DEF e
<1>4. /\ DOMAIN flight = 1 .. Len(flight) /\ Len(flight) \in Nat
      /\ DOMAIN Append(flight, e) = 1 .. Len(flight) + 1
      /\ \A k \in 1 .. Len(flight) : Append(flight, e)[k] = flight[k]
      /\ Append(flight, e)[Len(flight) + 1] = e
  BY <1>2, AppendBranch
<1>5. /\ n \in Nat
      /\ DOMAIN flight = 1 .. n /\ DOMAIN flight' = 1 .. n + 1
      /\ \A k \in 1 .. n : flight'[k] = flight[k]
      /\ flight'[n + 1] = e
  BY <1>1, <1>4, Zenon
<1> HIDE DEF n
<1> QED
  BY <1>3, <1>5

\* The branch i moves on, and the younger ones are dropped.
LEMMA CutFlight ==
  ASSUME PathInv, NEW i \in DOMAIN flight,
         \/ ruu_dispatch(i) /\ Redirects(flight[i])
         \/ ruu_writeback(i) /\ flight[i].recover
  PROVE  /\ i \in Nat /\ DOMAIN flight' = 1 .. i
         /\ \A k \in 1 .. i - 1 : k \in DOMAIN flight /\ flight'[k] = flight[k]
         /\ Same(flight[i], flight'[i])
         /\ ~Pending(flight'[i])
<1> DEFINE e == flight[i]
           r == [e EXCEPT !.stage = "dispatched", !.recover = FALSE]
           w == [e EXCEPT !.stage = "done"]
<1>1. flight' = Append(SubSeq(flight, 1, i - 1), r) \/ flight' = Append(SubSeq(flight, 1, i - 1), w)
  BY DEF ruu_dispatch, ruu_writeback, Mispredicted, PathInv, FlightTyped
<1>2. PICK S : flight \in Seq(S)
  BY DEF PathInv, FlightTyped
<1>3. Same(e, r) /\ ~Pending(r) /\ Same(e, w) /\ ~Pending(w)
  <2>1. PICK Value : e \in Branch(Value)
    BY DEF PathInv, FlightTyped, IsBranch
  <2> QED
    BY <2>1 DEF Branch, Same, Pending, Recovers
<1> HIDE DEF r, w
<1>4. ASSUME NEW d, flight' = Append(SubSeq(flight, 1, i - 1), d)
      PROVE  /\ DOMAIN flight' = 1 .. i
             /\ \A k \in 1 .. i - 1 : flight'[k] = flight[k]
             /\ flight'[i] = d
  BY <1>2, <1>4, CutBranches
<1>5. DOMAIN flight = 1 .. Len(flight) /\ Len(flight) \in Nat
  BY <1>2
<1>6. i \in Nat /\ \A k \in 1 .. i - 1 : k \in DOMAIN flight
  BY <1>5
<1> QED
  BY <1>1, <1>3, <1>4, <1>6

\* The branch i moves on; it has still to be recovered from only if it was
\* mispredicted before.
LEMMA KeepFlight ==
  ASSUME PathInv, NEW i \in DOMAIN flight,
         \/ ruu_dispatch(i) /\ ~Redirects(flight[i])
         \/ ruu_writeback(i) /\ ~flight[i].recover
  PROVE  /\ DOMAIN flight' = DOMAIN flight
         /\ \A k \in DOMAIN flight : k # i => flight'[k] = flight[k]
         /\ Same(flight[i], flight'[i])
         /\ flight'[i].stage # "fetched"
         /\ Pending(flight'[i]) => Pending(flight[i])
<1> DEFINE e == flight[i]
           r == [e EXCEPT !.stage = "dispatched", !.recover = Mispredicted(e)]
           w == [e EXCEPT !.stage = "done"]
<1>1. \/ e.stage = "fetched" /\ flight' = [flight EXCEPT ![i] = r]
      \/ flight' = [flight EXCEPT ![i] = w]
  BY DEF ruu_dispatch, ruu_writeback
<1>2. /\ Same(e, r) /\ r.stage # "fetched"
      /\ e.stage = "fetched" /\ Pending(r) => Pending(e)
      /\ Same(e, w) /\ w.stage # "fetched" /\ ~Pending(w)
  <2>1. PICK Value : e \in Branch(Value)
    BY DEF PathInv, FlightTyped, IsBranch
  <2>2. Mispredicted(e) \in BOOLEAN /\ (Mispredicted(e) => ~Correct(e))
    BY DEF Mispredicted, PathInv, FlightTyped
  <2> QED
    BY <2>1, <2>2 DEF Branch, Same, Pending, Recovers
<1> HIDE DEF r, w
<1> QED
  BY <1>1, <1>2

\* What commit does to the branches in flight.
LEMMA CommitFlight ==
  ASSUME PathInv, ruu_commit
  PROVE  \E n \in Nat :
           /\ DOMAIN flight = 1 .. n /\ DOMAIN flight' = 1 .. n - 1
           /\ \A k \in 1 .. n - 1 : flight'[k] = flight[k + 1]
<1>1. PICK S : flight \in Seq(S)
  BY DEF PathInv, FlightTyped
<1>2. flight # <<>> /\ flight' = Tail(flight)
  BY DEF ruu_commit
<1> QED
  BY <1>1, <1>2, DropBranch

-----------------------------------------------------------------------------
(* The invariant of the return stack holds.  The options never change, so   *)
(* the next state is described with the definitions of this one.           *)

\* The top of the stack after a step.
LEMMA TopFollowedNext ==
  ASSUME config' = config,
         HasStack =>
           /\ tos' \in Slots
           /\ \A i \in DOMAIN flight' : flight'[i].stack_recover_idx \in Slots
           /\ disturbed' # "top" =>
                /\ ~lost_path' => tos' = top'
                /\ \A i \in DOMAIN flight' :
                     Pending(flight'[i]) /\ ~flight'[i].wrong =>
                       /\ ~StackUser(flight'[i]) => flight'[i].stack_recover_idx = top'
                       /\ flight'[i].stage = "fetched"
                            /\ (\A j \in DOMAIN flight' : i < j => ~StackUser(flight'[j]))
                          => tos' = top'
  PROVE  TopFollowed'
  BY DEF TopFollowed, TopKept, HasStack, Slots, StackUser, UsesRAS, Pushes, Stateful,
         IsReturn, IsCall, Kind, Pending, Recovers, Correct

\* The callers on the stack after a step.
LEMMA CallersOnStackNext ==
  ASSUME config' = config,
         HasStack => DOMAIN stack' = Slots,
         disturbed' = "none" =>
           /\ ~HasStack => callers' = <<>>
           /\ \E S : callers' \in Seq(S)
           /\ HasStack =>
                /\ Len(callers') <= config.retstack_size
                /\ \A d \in DOMAIN callers' :
                     stack'[(top' + config.retstack_size - (d - 1)) % config.retstack_size]
                       = callers'[d]
  PROVE  CallersOnStack'
  BY DEF CallersOnStack, HasStack, Slots, Stateful

\* The stack is empty at the start.
LEMMA InitStack == Init => StackInv
<1> SUFFICES ASSUME Init PROVE StackInv
  OBVIOUS
<1>1. /\ config \in Configs /\ flight = <<>> /\ lost_path = FALSE
      /\ tos = config.retstack_size - 1 /\ top = tos
      /\ stack = [i \in 0 .. config.retstack_size - 1 |-> 0]
      /\ callers = <<>> /\ disturbed = "none"
  BY DEF Init, bpred_create
<1>2. config.retstack_size \in Nat
  BY <1>1, ConfigsAssumption
<1>3. DOMAIN flight = {} /\ DOMAIN callers = {} /\ Len(callers) = 0 /\ callers \in Seq({})
  BY <1>1
<1>4. PendingLeads /\ OutcomesKnown
  BY <1>3 DEF PendingLeads, OutcomesKnown
<1>5. TopFollowed
  BY <1>1, <1>2, <1>3 DEF TopFollowed, HasStack, Slots
<1>6. CallersOnStack
  BY <1>1, <1>2, <1>3 DEF CallersOnStack, HasStack, Slots
<1> QED
  BY <1>1, <1>4, <1>5, <1>6 DEF StackInv

\* The slots next to the top, and what lies below them.
LEMMA StackSlots ==
  ASSUME HasStack, config.retstack_size \in Nat, NEW t \in Slots
  PROVE  LET n == config.retstack_size
         IN /\ Above(t) \in Slots /\ Below(t) \in Slots
            /\ (Above(t) + n) % n = Above(t)
            /\ \A d \in 1 .. n - 1 :
                 /\ (Above(t) + n - d) % n = (t + n - (d - 1)) % n
                 /\ (Above(t) + n - d) % n # Above(t)
                 /\ (Below(t) + n - (d - 1)) % n = (t + n - d) % n
<1> DEFINE n == config.retstack_size
<1>1. n \in Nat \ {0} /\ t \in 0 .. n - 1
  BY DEF HasStack, Slots
<1> HIDE DEF n
<1> DEFINE a == (t + 1) % n
           b == (t + n - 1) % n
<1>2. /\ a = IF t + 1 < n THEN t + 1 ELSE 0
      /\ b = IF t = 0 THEN n - 1 ELSE t - 1
  BY <1>1
<1>3. a \in 0 .. n - 1 /\ b \in 0 .. n - 1
  BY <1>1, <1>2
<1>4. (a + n) % n = a
  <2> HIDE DEF a
  <2> QED
    BY <1>1, <1>3
<1>5. ASSUME NEW d \in 1 .. n - 1
      PROVE  /\ (a + n - d) % n = (t + n - (d - 1)) % n
             /\ (a + n - d) % n # a
             /\ (b + n - (d - 1)) % n = (t + n - d) % n
  <2>1. (a = t + 1 /\ t + 1 < n) \/ (a = 0 /\ t + 1 = n)
    BY <1>1, <1>2
  <2>2. (b = n - 1 /\ t = 0) \/ (b = t - 1 /\ t > 0)
    BY <1>1, <1>2
  <2> HIDE DEF a, b
  <2>3. /\ (a + n - d) % n = IF a + n - d < n THEN a + n - d ELSE a - d
        /\ (t + n - (d - 1)) % n = IF t + n - (d - 1) < n THEN t + n - (d - 1) ELSE t - (d - 1)
    BY <1>1, <1>3
  <2>4. /\ (b + n - (d - 1)) % n = IF b + n - (d - 1) < n THEN b + n - (d - 1) ELSE b - (d - 1)
        /\ (t + n - d) % n = IF t + n - d < n THEN t + n - d ELSE t - d
    BY <1>1, <1>3
  <2> QED
    BY <1>1, <1>3, <2>1, <2>2, <2>3, <2>4
<1>6. Above(t) = a /\ Below(t) = b
  BY DEF Above, Below, n
<1> HIDE DEF a, b
<1> QED
  BY <1>3, <1>4, <1>5, <1>6 DEF n, Slots

\* A fetch on the right path moves the top as it moves the stack; one on a wrong
\* path leaves the top to the branch that led there.
LEMMA FetchTop ==
  ASSUME PathInv, StackInv, NEW pc, NEW next_PC \in Outcomes(pc), ruu_fetch(pc, next_PC)
  PROVE  PendingLeads' /\ OutcomesKnown' /\ TopFollowed'
<1> USE DEF StackInv
<1>1. /\ config' = config /\ tos' = NextTOS(pc)
      /\ lost_path' = (lost_path \/ pred_PC(pc) # next_PC)
      /\ lost_path \in BOOLEAN
      /\ ~lost_path =>
           /\ top' = (IF disturbed = "top" THEN 0 ELSE NextTOS(pc))
           /\ disturbed' = disturbed
      /\ lost_path /\ disturbed' # "top" =>
           /\ top' = top /\ disturbed # "top"
      /\ config.retstack_size \in Nat
  BY ConfigsAssumption DEF ruu_fetch, Lose, PathInv, FlightTyped, history
<1>2. PICK n \in Nat :
        /\ DOMAIN flight = 1 .. n /\ DOMAIN flight' = 1 .. n + 1
        /\ \A k \in 1 .. n : flight'[k] = flight[k]
        /\ flight'[n + 1].pc = pc /\ flight'[n + 1].next_PC = next_PC
        /\ flight'[n + 1].wrong = lost_path
        /\ flight'[n + 1].stack_recover_idx = RecoverIndex(pc)
        /\ flight'[n + 1].stage = "fetched"
        /\ Pending(flight'[n + 1]) <=> pred_PC(pc) # next_PC
  BY FetchFlight
<1>3. /\ DOMAIN flight' = DOMAIN flight \cup {n + 1}
      /\ \A k \in DOMAIN flight : k < n + 1 /\ flight'[k] = flight[k]
  BY <1>2
<1>4. PendingLeads'
  <2>1. \A i \in DOMAIN flight' : Pending(flight'[i]) =>
          lost_path' /\ \A j \in DOMAIN flight' : i < j => flight'[j].wrong
    <3>1. ASSUME NEW i \in DOMAIN flight', Pending(flight'[i])
          PROVE  lost_path' /\ \A j \in DOMAIN flight' : i < j => flight'[j].wrong
      <4>1. CASE i = n + 1
        <5>1. pred_PC(pc) # next_PC
          BY <1>2, <3>1, <4>1
        <5>2. \A j \in DOMAIN flight' : ~(i < j)
          BY <1>2, <4>1
        <5> QED
          BY <1>1, <5>1, <5>2
      <4>2. CASE i \in DOMAIN flight
        <5>1. lost_path /\ \A j \in DOMAIN flight : i < j => flight[j].wrong
          BY <1>3, <3>1, <4>2 DEF PendingLeads
        <5> QED
          BY <1>1, <1>2, <1>3, <5>1
      <4> QED
        BY <1>3, <4>1, <4>2
    <3> QED
      BY <3>1
  <2> QED
    BY <2>1 DEF PendingLeads, Pending, Recovers, Correct
<1>5. OutcomesKnown'
  <2>1. \A i \in DOMAIN flight' : flight'[i].next_PC \in Outcomes(flight'[i].pc)
    BY <1>2, <1>3 DEF OutcomesKnown
  <2> QED
    BY <1>1, <2>1 DEF OutcomesKnown, Outcomes, Cond, Kind
<1>6. TopFollowed'
  <2> SUFFICES
        ASSUME HasStack
        PROVE  /\ tos' \in Slots
               /\ \A i \in DOMAIN flight' : flight'[i].stack_recover_idx \in Slots
               /\ disturbed' # "top" =>
                    /\ ~lost_path' => tos' = top'
                    /\ \A i \in DOMAIN flight' :
                         Pending(flight'[i]) /\ ~flight'[i].wrong =>
                           /\ ~StackUser(flight'[i]) => flight'[i].stack_recover_idx = top'
                           /\ flight'[i].stage = "fetched"
                                /\ (\A j \in DOMAIN flight' : i < j => ~StackUser(flight'[j]))
                              => tos' = top'
    BY <1>1, TopFollowedNext
  <2>1. tos \in Slots /\ RecoverIndex(pc) = tos
    BY DEF TopFollowed, RecoverIndex, HasStack
  <2>2. tos' \in Slots
    BY <1>1, <2>1, StackSlots DEF NextTOS
  <2>3. \A i \in DOMAIN flight' : flight'[i].stack_recover_idx \in Slots
    BY <1>2, <1>3, <2>1 DEF TopFollowed
  <2>4. ~StackUser(flight'[n + 1]) => tos' = tos
    BY <1>1, <1>2 DEF NextTOS, StackUser
  <2>5. ASSUME disturbed' # "top", ~lost_path'
        PROVE  tos' = top'
    BY <1>1, <2>5
  <2>6. ASSUME disturbed' # "top", NEW i \in DOMAIN flight',
               Pending(flight'[i]), ~flight'[i].wrong
        PROVE  /\ ~StackUser(flight'[i]) => flight'[i].stack_recover_idx = top'
               /\ flight'[i].stage = "fetched"
                    /\ (\A j \in DOMAIN flight' : i < j => ~StackUser(flight'[j]))
                  => tos' = top'
    <3>1. CASE i = n + 1
      <4>1. ~lost_path
        BY <1>2, <2>6, <3>1
      <4> QED
        BY <1>1, <1>2, <2>1, <2>4, <2>6, <3>1, <4>1
    <3>2. CASE i \in DOMAIN flight
      <4>1. lost_path /\ top' = top /\ disturbed # "top"
        BY <1>1, <1>3, <2>6, <3>2 DEF PendingLeads
      <4>2. TopKept(i)
        BY <1>3, <2>6, <3>2, <4>1 DEF TopFollowed
      <4> QED
        BY <1>3, <2>4, <3>2, <4>1, <4>2 DEF TopKept
    <3> QED
      BY <1>3, <3>1, <3>2
  <2> QED
    BY <2>2, <2>3, <2>5, <2>6
<1> QED
  BY <1>4, <1>5, <1>6

\* A call that is fetched puts its caller on the stack, a return takes it off.
LEMMA FetchCallers ==
  ASSUME PathInv, StackInv, NEW pc, NEW next_PC, ruu_fetch(pc, next_PC)
  PROVE  CallersOnStack'
<1> USE DEF StackInv
<1> DEFINE n == config.retstack_size
<1>1. /\ config' = config /\ n \in Nat
      /\ stack' = IF Pushes(pc) THEN [stack EXCEPT ![PushSlot] = pc + 1] ELSE stack
      /\ lost_path /\ Pushes(pc) => disturbed' # "none"
      /\ lost_path /\ ~Pushes(pc) =>
           disturbed' = disturbed /\ top' = top /\ callers' = callers
      /\ ~lost_path =>
           /\ disturbed' = disturbed /\ callers' = CallersAfter(pc)
           /\ disturbed = "none" => top' = NextTOS(pc)
  <2>1. config.retstack_size \in Nat
    BY ConfigsAssumption
  <2> QED
    BY <2>1 DEF ruu_fetch, Lose, PathInv, FlightTyped, history
<1>2. HasStack => DOMAIN stack' = Slots
  BY <1>1 DEF CallersOnStack
<1>3. ASSUME disturbed' = "none"
      PROVE  /\ ~HasStack => callers' = <<>>
             /\ \E S : callers' \in Seq(S)
             /\ HasStack =>
                  /\ Len(callers') <= n
                  /\ \A d \in DOMAIN callers' :
                       stack'[(top' + n - (d - 1)) % n] = callers'[d]
  <2>1. disturbed = "none" /\ (lost_path => ~Pushes(pc))
    BY <1>1, <1>3 DEF PathInv, FlightTyped
  <2>2. PICK S : callers \in Seq(S)
    BY <2>1 DEF CallersOnStack
  <2>3. DOMAIN callers = 1 .. Len(callers) /\ Len(callers) \in Nat
    BY <2>2
  <2>4. HasStack =>
          /\ Len(callers) <= n /\ tos \in Slots
          /\ \A d \in 1 .. Len(callers) : stack[(top + n - (d - 1)) % n] = callers[d]
    BY <2>1, <2>3 DEF CallersOnStack, TopFollowed
  <2>5. CASE lost_path
    <3>1. stack' = stack /\ top' = top /\ callers' = callers
      BY <1>1, <2>1, <2>5
    <3> QED
      BY <2>1, <2>2, <2>3, <2>4, <3>1 DEF CallersOnStack
  <2>6. CASE ~lost_path /\ ~HasStack
    <3>1. callers = <<>> /\ callers' = callers
      BY <1>1, <2>1, <2>6 DEF CallersOnStack, CallersAfter, HasStack, Pushes, UsesRAS
    <3> QED
      BY <2>2, <2>6, <3>1
  <2>7. CASE ~lost_path /\ HasStack /\ Pushes(pc)
    <3>1. /\ tos = top /\ top \in Slots /\ top' = Above(top)
          /\ stack' = [stack EXCEPT ![Above(top)] = pc + 1] /\ DOMAIN stack = Slots
          /\ callers' = SubSeq(<<pc + 1>> \o callers, 1,
                          IF Len(callers) < n THEN Len(callers) + 1 ELSE n)
      <4>1. tos = top
        BY <2>1, <2>7 DEF TopFollowed
      <4>2. NextTOS(pc) = Above(tos)
        BY <2>7 DEF NextTOS, Pushes, UsesRAS, IsCall, IsReturn
      <4>3. callers' = SubSeq(<<pc + 1>> \o callers, 1,
                         IF Len(callers) < n THEN Len(callers) + 1 ELSE n)
        <5>1. callers' = CallersAfter(pc) /\ ~UsesRAS(pc)
          BY <1>1, <2>7 DEF Pushes, UsesRAS, IsCall, IsReturn
        <5> QED
          BY <2>1, <2>7, <5>1 DEF CallersAfter
      <4> QED
        BY <1>1, <2>1, <2>4, <2>7, <4>1, <4>2, <4>3 DEF PushSlot, CallersOnStack
    <3> DEFINE m == IF Len(callers) < n THEN Len(callers) + 1 ELSE n
               all == <<pc + 1>> \o callers
    <3>2. /\ m \in Nat /\ m <= n /\ m <= Len(callers) + 1
      BY <1>1, <2>3, <2>4, <2>7
    <3>3. /\ all \in Seq(S \cup {pc + 1}) /\ Len(all) = Len(callers) + 1
          /\ all[1] = pc + 1
          /\ \A d \in 2 .. Len(callers) + 1 : all[d] = callers[d - 1]
      <4>1. <<pc + 1>> \in Seq(S \cup {pc + 1}) /\ callers \in Seq(S \cup {pc + 1})
        BY <2>2
      <4> QED
        BY <2>3, <4>1
    <3> HIDE DEF m, all
    <3>4. /\ callers' \in Seq(S \cup {pc + 1}) /\ Len(callers') = m
          /\ \A d \in 1 .. m : callers'[d] = all[d]
      <4>1. callers' = SubSeq(all, 1, m)
        BY <3>1 DEF m, all
      <4> QED
        BY <2>3, <3>2, <3>3, <4>1
    <3>5. ASSUME NEW d \in 1 .. m
          PROVE  stack'[(top' + n - (d - 1)) % n] = callers'[d]
      <4>1. CASE d = 1
        <5>1. top' + n - (d - 1) = Above(top) + n
          BY <1>1, <3>1, <4>1, <2>7, StackSlots DEF Slots
        <5>2. (top' + n - (d - 1)) % n = Above(top) /\ Above(top) \in Slots
          BY <1>1, <3>1, <5>1, <2>7, StackSlots
        <5> QED
          BY <3>1, <3>2, <3>3, <3>4, <4>1, <5>2
      <4>2. CASE d # 1
        <5>1. d - 1 \in 1 .. n - 1 /\ d - 1 \in 1 .. Len(callers) /\ d \in 2 .. Len(callers) + 1
          BY <1>1, <2>3, <3>2, <4>2
        <5>2. /\ (Above(top) + n - (d - 1)) % n = (top + n - (d - 1 - 1)) % n
              /\ (Above(top) + n - (d - 1)) % n # Above(top)
          BY <1>1, <3>1, <5>1, <2>7, StackSlots
        <5>3. (top + n - (d - 1 - 1)) % n \in DOMAIN stack
          BY <1>1, <2>7, <3>1, <5>1 DEF Slots, HasStack
        <5>4. stack[(top + n - (d - 1 - 1)) % n] = callers[d - 1]
          BY <2>4, <2>7, <5>1
        <5>5. callers'[d] = callers[d - 1]
          BY <3>3, <3>4, <5>1
        <5> QED
          BY <3>1, <5>2, <5>3, <5>4, <5>5
      <4> QED
        BY <4>1, <4>2
    <3> QED
      BY <2>7, <3>2, <3>4, <3>5
  <2>8. CASE ~lost_path /\ HasStack /\ ~Pushes(pc) /\ UsesRAS(pc) /\ callers # <<>>
    <3>1. /\ tos = top /\ top \in Slots /\ top' = Below(top) /\ stack' = stack
          /\ callers' = Tail(callers)
      BY <1>1, <2>1, <2>4, <2>8 DEF TopFollowed, NextTOS, CallersAfter
    <3>2. /\ Len(callers) # 0
          /\ callers' \in Seq(S) /\ Len(callers') = Len(callers) - 1
          /\ \A d \in 1 .. Len(callers) - 1 : callers'[d] = callers[d + 1]
      BY <2>2, <2>8, <3>1, HeadTailProperties, EmptySeq
    <3>3. ASSUME NEW d \in 1 .. Len(callers) - 1
          PROVE  stack'[(top' + n - (d - 1)) % n] = callers'[d]
      <4>1. d \in 1 .. n - 1 /\ d + 1 \in 1 .. Len(callers) /\ d + 1 - 1 = d
        BY <1>1, <2>3, <2>4, <2>8
      <4>2. (Below(top) + n - (d - 1)) % n = (top + n - d) % n
        BY <1>1, <2>8, <3>1, <4>1, StackSlots
      <4>3. stack[(top + n - d) % n] = callers[d + 1]
        BY <2>4, <2>8, <4>1
      <4> QED
        BY <3>1, <3>2, <4>2, <4>3
    <3>4. Len(callers') <= n /\ DOMAIN callers' = 1 .. Len(callers) - 1
      BY <1>1, <2>3, <2>4, <2>8, <3>2
    <3> QED
      BY <2>8, <3>2, <3>3, <3>4
  <2>9. CASE ~lost_path /\ HasStack /\ ~Pushes(pc) /\ ~(UsesRAS(pc) /\ callers # <<>>)
    <3>1. stack' = stack /\ callers' = callers
      BY <1>1, <2>1, <2>9 DEF CallersAfter
    <3>2. CASE ~UsesRAS(pc)
      <4>1. top' = top
        BY <1>1, <2>1, <2>9, <3>2 DEF TopFollowed, NextTOS
      <4> QED
        BY <2>2, <2>3, <2>4, <2>9, <3>1, <4>1
    <3>3. CASE callers = <<>>
      BY <1>1, <2>2, <2>9, <3>1, <3>3
    <3> QED
      BY <2>9, <3>2, <3>3
  <2> QED
    BY <2>5, <2>6, <2>7, <2>8, <2>9
<1> QED
  BY <1>1, <1>2, <1>3, CallersOnStackNext

\* A step that fetches nothing leaves the entries of the stack alone, and forgets
\* the callers or leaves the history alone.
LEMMA CallersKept ==
  ASSUME StackInv, config' = config, stack' = stack,
         UNCHANGED history \/ Lose("top")
  PROVE  CallersOnStack'
<1>1. CASE UNCHANGED history
  BY <1>1 DEF history, StackInv, CallersOnStack, HasStack, Slots, Stateful
<1>2. CASE Lose("top")
  <2>1. disturbed' # "none" /\ (HasStack => DOMAIN stack' = Slots)
    BY <1>2 DEF Lose, StackInv, CallersOnStack
  <2> QED
    BY <2>1, CallersOnStackNext
<1> QED
  BY <1>1, <1>2

\* A redirected fetch is back on the path of the branch; the top is, too, if no
\* call or return is dropped.
LEMMA RedirectStack ==
  ASSUME PathInv, StackInv, NEW i \in DOMAIN flight, ruu_dispatch(i), Redirects(flight[i])
  PROVE  StackInv'
<1> USE DEF StackInv
<1> DEFINE e == flight[i]
<1>1. /\ config' = config /\ tos' = tos /\ stack' = stack
      /\ lost_path' = e.wrong
      /\ e.stage = "fetched" /\ \A j \in 1 .. i - 1 : flight[j].stage # "fetched"
  BY DEF ruu_dispatch, retstack
<1>2. IF \E j \in i + 1 .. Len(flight) : StackUser(flight[j])
      THEN Lose("top") ELSE UNCHANGED history
  BY DEF ruu_dispatch
<1>3. /\ i \in Nat /\ DOMAIN flight' = 1 .. i
      /\ \A k \in 1 .. i - 1 : k \in DOMAIN flight /\ flight'[k] = flight[k]
      /\ Same(flight[i], flight'[i])
      /\ ~Pending(flight'[i])
  BY CutFlight
<1>4. /\ \A k \in DOMAIN flight' :
           k \in DOMAIN flight /\ Same(flight[k], flight'[k])
      /\ \A k \in DOMAIN flight' : Pending(flight'[k]) =>
           k < i /\ flight'[k] = flight[k] /\ flight[k].stage # "fetched"
  <2>1. \A k \in DOMAIN flight' : k = i \/ k \in 1 .. i - 1
    BY <1>3
  <2> QED
    BY <1>1, <1>3, <2>1 DEF Same
<1>5. Pending(e)
  BY <1>1 DEF OutcomesKnown, Outcomes, Redirects, Pending, Correct
<1>6. disturbed' # "top" =>
        /\ disturbed # "top" /\ top' = top
        /\ \A j \in DOMAIN flight : i < j => ~StackUser(flight[j])
  <2>1. PICK S : flight \in Seq(S)
    BY DEF PathInv, FlightTyped
  <2>2. \A j \in DOMAIN flight : i < j => j \in i + 1 .. Len(flight)
    BY <1>3, <2>1
  <2> QED
    BY <1>2, <2>2 DEF Lose, history
<1>7. PendingLeads'
  <2>1. \A k \in DOMAIN flight' : Pending(flight'[k]) =>
          lost_path' /\ \A j \in DOMAIN flight' : k < j => flight'[j].wrong
    BY <1>1, <1>4 DEF PendingLeads, Same
  <2> QED
    BY <2>1 DEF PendingLeads, Pending, Recovers, Correct
<1>8. OutcomesKnown'
  <2>1. \A k \in DOMAIN flight' : flight'[k].next_PC \in Outcomes(flight'[k].pc)
    BY <1>4 DEF OutcomesKnown, Same
  <2> QED
    BY <1>1, <2>1 DEF OutcomesKnown, Outcomes, Cond, Kind
<1>9. TopFollowed'
  <2>1. ASSUME HasStack
        PROVE  /\ tos' \in Slots
               /\ \A k \in DOMAIN flight' : flight'[k].stack_recover_idx \in Slots
    BY <1>1, <1>4, <2>1 DEF TopFollowed, Same
  <2>2. ASSUME HasStack, disturbed' # "top", ~lost_path'
        PROVE  tos' = top'
    <3>1. TopKept(i)
      BY <1>1, <1>5, <1>6, <2>2 DEF TopFollowed
    <3> QED
      BY <1>1, <1>6, <2>2, <3>1 DEF TopKept
  <2>3. ASSUME HasStack, disturbed' # "top", NEW k \in DOMAIN flight',
               Pending(flight'[k]), ~flight'[k].wrong
        PROVE  /\ ~StackUser(flight'[k]) => flight'[k].stack_recover_idx = top'
               /\ flight'[k].stage # "fetched"
    <3>1. TopKept(k)
      BY <1>4, <1>6, <2>3 DEF TopFollowed
    <3> QED
      BY <1>4, <1>6, <2>3, <3>1 DEF TopKept
  <2> QED
    BY <1>1, <2>1, <2>2, <2>3, TopFollowedNext
<1>10. CallersOnStack'
  BY <1>1, <1>2, CallersKept
<1> QED
  BY <1>1, <1>7, <1>8, <1>9, <1>10

\* A recovery puts the top back where the branch found it.
LEMMA RecoverStack ==
  ASSUME PathInv, StackInv, NEW i \in DOMAIN flight, ruu_writeback(i), flight[i].recover
  PROVE  StackInv'
<1> USE DEF StackInv
<1> DEFINE e == flight[i]
<1>1. /\ config' = config /\ stack' = stack /\ lost_path' = FALSE
      /\ tos' = e.stack_recover_idx
      /\ e.stage = "dispatched" /\ Recovers(e)
      /\ IF StackUser(e) THEN Lose("top") ELSE UNCHANGED history
  BY DEF ruu_writeback, bpred_recover, Recovers
<1>2. /\ i \in Nat /\ DOMAIN flight' = 1 .. i
      /\ \A k \in 1 .. i - 1 : k \in DOMAIN flight /\ flight'[k] = flight[k]
      /\ Same(flight[i], flight'[i])
      /\ ~Pending(flight'[i])
  BY CutFlight
<1>3. ASSUME NEW k \in DOMAIN flight, k < i
      PROVE  ~Pending(flight[k])
  <2>1. flight[k].stage # "fetched"
    BY <1>1, <1>3 DEF PathInv, DispatchedInOrder
  <2>2. k # i
    BY <1>2, <1>3
  <2> QED
    BY <1>1, <2>1, <2>2 DEF PathInv, OneRecovers, Pending
<1>4. \A k \in DOMAIN flight' :
        k \in DOMAIN flight /\ Same(flight[k], flight'[k]) /\ ~Pending(flight'[k])
  <2>1. \A k \in DOMAIN flight' : k = i \/ (k \in 1 .. i - 1 /\ k < i)
    BY <1>2
  <2> QED
    BY <1>2, <1>3, <2>1 DEF Same
<1>5. ~e.wrong
  BY <1>3 DEF PathInv, WrongHasCause
<1>6. PendingLeads'
  BY <1>4 DEF PendingLeads, Pending, Recovers, Correct
<1>7. OutcomesKnown'
  <2>1. \A k \in DOMAIN flight' : flight'[k].next_PC \in Outcomes(flight'[k].pc)
    BY <1>4 DEF OutcomesKnown, Same
  <2> QED
    BY <1>1, <2>1 DEF OutcomesKnown, Outcomes, Cond, Kind
<1>8. TopFollowed'
  <2>1. ASSUME HasStack
        PROVE  /\ tos' \in Slots
               /\ \A k \in DOMAIN flight' : flight'[k].stack_recover_idx \in Slots
    BY <1>1, <1>4, <2>1 DEF TopFollowed, Same
  <2>2. ASSUME HasStack, disturbed' # "top"
        PROVE  tos' = top'
    <3>1. disturbed # "top" /\ top' = top /\ ~StackUser(e)
      BY <1>1, <2>2 DEF Lose, history
    <3>2. TopKept(i)
      BY <1>1, <1>5, <2>2, <3>1 DEF TopFollowed, Pending
    <3> QED
      BY <1>1, <3>1, <3>2 DEF TopKept
  <2> QED
    BY <1>1, <1>4, <2>1, <2>2, TopFollowedNext
<1>9. CallersOnStack'
  BY <1>1, CallersKept
<1> QED
  BY <1>1, <1>6, <1>7, <1>8, <1>9

\* Any other dispatch or write-back changes the stage of one branch.
LEMMA KeepStack ==
  ASSUME PathInv, StackInv, NEW i \in DOMAIN flight,
         \/ ruu_dispatch(i) /\ ~Redirects(flight[i])
         \/ ruu_writeback(i) /\ ~flight[i].recover
  PROVE  StackInv'
<1> USE DEF StackInv
<1>1. /\ config' = config /\ tos' = tos /\ stack' = stack /\ lost_path' = lost_path
      /\ top' = top /\ callers' = callers /\ disturbed' = disturbed
  BY DEF ruu_dispatch, ruu_writeback, retstack, history
<1>2. /\ DOMAIN flight' = DOMAIN flight
      /\ \A k \in DOMAIN flight : k # i => flight'[k] = flight[k]
      /\ Same(flight[i], flight'[i])
      /\ flight'[i].stage # "fetched"
      /\ Pending(flight'[i]) => Pending(flight[i])
  BY KeepFlight
<1>3. \A k \in DOMAIN flight :
        /\ Same(flight[k], flight'[k])
        /\ flight'[k].stage = "fetched" => flight[k].stage = "fetched"
        /\ Pending(flight'[k]) => Pending(flight[k])
  BY <1>2 DEF Same
<1>4. PendingLeads'
  <2>1. \A k \in DOMAIN flight' : Pending(flight'[k]) =>
          lost_path' /\ \A j \in DOMAIN flight' : k < j => flight'[j].wrong
    BY <1>1, <1>2, <1>3 DEF PendingLeads, Same
  <2> QED
    BY <2>1 DEF PendingLeads, Pending, Recovers, Correct
<1>5. OutcomesKnown'
  <2>1. \A k \in DOMAIN flight' : flight'[k].next_PC \in Outcomes(flight'[k].pc)
    BY <1>2, <1>3 DEF OutcomesKnown, Same
  <2> QED
    BY <1>1, <2>1 DEF OutcomesKnown, Outcomes, Cond, Kind
<1>6. TopFollowed'
  <2>1. \A k \in DOMAIN flight : StackUser(flight'[k]) <=> StackUser(flight[k])
    BY <1>3 DEF StackUser, Same
  <2>2. ASSUME HasStack
        PROVE  /\ tos' \in Slots
               /\ \A k \in DOMAIN flight' : flight'[k].stack_recover_idx \in Slots
               /\ disturbed' # "top" /\ ~lost_path' => tos' = top'
    BY <1>1, <1>2, <1>3, <2>2 DEF TopFollowed, Same
  <2>3. ASSUME HasStack, disturbed' # "top", NEW k \in DOMAIN flight',
               Pending(flight'[k]), ~flight'[k].wrong
        PROVE  /\ ~StackUser(flight'[k]) => flight'[k].stack_recover_idx = top'
               /\ flight'[k].stage = "fetched"
                    /\ (\A j \in DOMAIN flight' : k < j => ~StackUser(flight'[j]))
                  => tos' = top'
    <3>1. TopKept(k)
      BY <1>1, <1>2, <1>3, <2>3 DEF TopFollowed, Same
    <3> QED
      BY <1>1, <1>2, <1>3, <2>1, <2>3, <3>1 DEF TopKept, Same
  <2> QED
    BY <1>1, <2>2, <2>3, TopFollowedNext
<1>7. CallersOnStack'
  BY <1>1, CallersKept DEF history
<1> QED
  BY <1>1, <1>4, <1>5, <1>6, <1>7

\* The branch that commits is not pending.
LEMMA CommitStack ==
  ASSUME PathInv, StackInv, ruu_commit
  PROVE  StackInv'
<1> USE DEF StackInv
<1>1. /\ config' = config /\ tos' = tos /\ stack' = stack /\ lost_path' = lost_path
      /\ top' = top /\ callers' = callers /\ disturbed' = disturbed
      /\ flight[1].stage = "done"
  BY DEF ruu_commit, retstack, history
<1>2. PICK n \in Nat :
        /\ DOMAIN flight = 1 .. n /\ DOMAIN flight' = 1 .. n - 1
        /\ \A k \in 1 .. n - 1 : flight'[k] = flight[k + 1]
  BY CommitFlight
<1>3. /\ \A k \in DOMAIN flight' :
           k \in Nat /\ k + 1 \in DOMAIN flight /\ flight'[k] = flight[k + 1]
      /\ \A j \in DOMAIN flight : j > 1 =>
           j \in Nat /\ j - 1 \in DOMAIN flight' /\ flight'[j - 1] = flight[j]
  BY <1>2
<1>4. PendingLeads'
  <2>1. ASSUME NEW k \in DOMAIN flight', Pending(flight'[k])
        PROVE  lost_path' /\ \A j \in DOMAIN flight' : k < j => flight'[j].wrong
    <3>1. lost_path /\ \A j \in DOMAIN flight : k + 1 < j => flight[j].wrong
      BY <1>3, <2>1 DEF PendingLeads
    <3> QED
      BY <1>1, <1>3, <3>1
  <2> QED
    BY <2>1 DEF PendingLeads, Pending, Recovers, Correct
<1>5. OutcomesKnown'
  <2>1. \A k \in DOMAIN flight' : flight'[k].next_PC \in Outcomes(flight'[k].pc)
    BY <1>3 DEF OutcomesKnown
  <2> QED
    BY <1>1, <2>1 DEF OutcomesKnown, Outcomes, Cond, Kind
<1>6. TopFollowed'
  <2>1. ASSUME HasStack
        PROVE  /\ tos' \in Slots
               /\ \A k \in DOMAIN flight' : flight'[k].stack_recover_idx \in Slots
               /\ disturbed' # "top" /\ ~lost_path' => tos' = top'
    BY <1>1, <1>3, <2>1 DEF TopFollowed
  <2>2. ASSUME HasStack, disturbed' # "top", NEW k \in DOMAIN flight',
               Pending(flight'[k]), ~flight'[k].wrong
        PROVE  /\ ~StackUser(flight'[k]) => flight'[k].stack_recover_idx = top'
               /\ flight'[k].stage = "fetched"
                    /\ (\A j \in DOMAIN flight' : k < j => ~StackUser(flight'[j]))
                  => tos' = top'
    <3>1. TopKept(k + 1)
      BY <1>1, <1>3, <2>2 DEF TopFollowed
    <3>2. (\A j \in DOMAIN flight' : k < j => ~StackUser(flight'[j]))
            => \A j \in DOMAIN flight : k + 1 < j => ~StackUser(flight[j])
      <4> SUFFICES ASSUME \A j \in DOMAIN flight' : k < j => ~StackUser(flight'[j]),
                          NEW j \in DOMAIN flight, k + 1 < j
                   PROVE  ~StackUser(flight[j])
        OBVIOUS
      <4>1. j - 1 \in DOMAIN flight' /\ k < j - 1 /\ flight'[j - 1] = flight[j]
        BY <1>2
      <4> QED
        BY <4>1
    <3> QED
      BY <1>1, <1>3, <2>2, <3>1, <3>2 DEF TopKept
  <2> QED
    BY <1>1, <2>1, <2>2, TopFollowedNext
<1>7. CallersOnStack'
  BY <1>1, CallersKept DEF history
<1> QED
  BY <1>1, <1>4, <1>5, <1>6, <1>7

\* Every step keeps the stack.
LEMMA StackStep == PathInv /\ StackInv /\ [Next]_vars => StackInv'
<1> SUFFICES ASSUME PathInv, StackInv, [Next]_vars PROVE StackInv'
  OBVIOUS
<1>1. ASSUME NEW pc \in PCs, NEW next_PC \in Outcomes(pc), ruu_fetch(pc, next_PC)
      PROVE  StackInv'
  BY <1>1, FetchTop, FetchCallers DEF StackInv, ruu_fetch
<1>2. ASSUME NEW i \in DOMAIN flight, ruu_dispatch(i)
      PROVE  StackInv'
  BY <1>2, RedirectStack, KeepStack
<1>3. ASSUME NEW i \in DOMAIN flight, ruu_writeback(i)
      PROVE  StackInv'
  BY <1>3, RecoverStack, KeepStack
<1>4. CASE ruu_commit
  BY <1>4, CommitStack
<1>5. CASE UNCHANGED vars
  <2>1. /\ UNCHANGED <<config, flight, tos, stack, lost_path, top, callers, disturbed>>
    BY <1>5 DEF vars, retstack, history
  <2>2. PendingLeads' /\ OutcomesKnown'
    BY <2>1 DEF StackInv, PendingLeads, OutcomesKnown, Pending, Recovers, Correct,
                Outcomes, Cond, Kind
  <2>3. TopFollowed'
    BY <2>1 DEF StackInv, TopFollowed, TopKept, HasStack, Slots, StackUser, UsesRAS,
                Pushes, Stateful, IsReturn, IsCall, Kind, Pending, Recovers, Correct
  <2>4. CallersOnStack'
    BY <2>1 DEF StackInv, CallersOnStack, HasStack, Slots, Stateful
  <2> QED
    BY <2>1, <2>2, <2>3, <2>4 DEF StackInv
<1> QED
  BY <1>1, <1>2, <1>3, <1>4, <1>5 DEF Next

\* The return stack follows the right path.
THEOREM Stacks == Spec => []StackInv
<1> USE DEF Spec
<1> QED
  BY Paths, InitStack, StackStep, PTL

\* A recovery finds the top of the return stack where the right path left it,
\* for every program, size of the stack and number of branches in flight.
THEOREM TopRecovered == Spec => []TOSRecovered
<1>1. StackInv => TOSRecovered
  BY DEF StackInv, TopFollowed, HasStack, TOSRecovered
<1> QED
  BY <1>1, Stacks, PTL

\* As long as no call of a wrong path has overwritten one, the innermost callers
\* of the right path are on the return stack, in their order.
THEOREM CallersReturnedTo == Spec => []ReturnsToCaller
<1>1. StackInv => ReturnsToCaller
  <2> SUFFICES ASSUME StackInv, ~lost_path, disturbed = "none", NEW d \in DOMAIN callers
               PROVE  stack[(tos + config.retstack_size - (d - 1)) % config.retstack_size]
                        = callers[d]
    BY DEF ReturnsToCaller
  <2>1. HasStack
    BY DEF StackInv, CallersOnStack
  <2>2. tos = top
    BY <2>1 DEF StackInv, TopFollowed
  <2> QED
    BY <2>1, <2>2 DEF StackInv, CallersOnStack
<1> QED
  BY <1>1, Stacks, PTL

-----------------------------------------------------------------------------
(* A set of the BTB: n ways, linked in the order in which the branches in   *)
(* them were taken last.                                                   *)

\* What is stored in a way.
Entry(V) == [addr : V, target : V, prev : V, next : V]
IsWays(n, set) == \E V : set \in [0..n-1 -> Entry(V)]

\* f lists the ways.
IsList(n, f) ==
  /\ f \in [0..n-1 -> 0..n-1]
  /\ \A i, j \in 0..n-1 : f[i] = f[j] => i = j
  /\ \A w \in 0..n-1 : \E i \in 0..n-1 : f[i] = w

\* The links follow f.
Thread(n, set, f) ==
  \A i \in 0..n-1 :
    /\ set[f[i]].prev = IF i = 0 THEN NoWay ELSE f[i-1]
    /\ set[f[i]].next = IF i = n-1 THEN NoWay ELSE f[i+1]

\* The first m ways of the list hold a branch.
FullTo(n, set, f, m) == m \in 0..n /\ \A i \in 0..n-1 : set[f[i]].addr # 0 <=> i < m

\* No branch has two entries.
OnceHeld(n, set) ==
  \A v, w \in 0..n-1 : set[v].addr = set[w].addr /\ set[v].addr # 0 => v = w

ListedBy(n, set, f, m) == IsList(n, f) /\ Thread(n, set, f) /\ FullTo(n, set, f, m)

\* The ways of the set are linked in a list, with the branches it holds in front.
SoundSet(n, set) ==
  IsWays(n, set) /\ OnceHeld(n, set) /\ \E f, m : ListedBy(n, set, f, m)

\* The only way without a previous one is the first, the only one without a
\* next one the last.
LEMMA ListEnds ==
  ASSUME NEW n \in Nat \ {0}, NEW set, NEW f, IsList(n, f), Thread(n, set, f)
  PROVE  /\ (CHOOSE w \in 0..n-1 : set[w].prev = NoWay) = f[0]
         /\ (CHOOSE w \in 0..n-1 : set[w].next = NoWay) = f[n-1]
<1>1. \A i \in 0..n-1 : f[i] \in 0..n-1 /\ f[i] # NoWay
  <2>1. \A i \in 0..n-1 : f[i] \in 0..n-1
    BY DEF IsList
  <2>2. \A x \in 0..n-1 : x # NoWay
    BY DEF NoWay
  <2> QED BY <2>1, <2>2
<1>2. ASSUME NEW w \in 0..n-1 PROVE set[w].prev = NoWay <=> w = f[0]
  <2>1. PICK i \in 0..n-1 : f[i] = w
    BY DEF IsList
  <2>2. CASE i = 0
    BY <2>1, <2>2 DEF Thread
  <2>3. CASE i # 0
    <3>1. i - 1 \in 0..n-1 /\ 0 \in 0..n-1
      BY <2>3
    <3>2. set[w].prev = f[i-1] /\ f[i-1] # NoWay
      BY <1>1, <2>1, <2>3, <3>1 DEF Thread
    <3>3. w # f[0]
      BY <2>1, <2>3, <3>1 DEF IsList
    <3> QED BY <3>2, <3>3
  <2> QED BY <2>2, <2>3
<1>3. ASSUME NEW w \in 0..n-1 PROVE set[w].next = NoWay <=> w = f[n-1]
  <2>1. PICK i \in 0..n-1 : f[i] = w
    BY DEF IsList
  <2>2. CASE i = n-1
    BY <2>1, <2>2 DEF Thread
  <2>3. CASE i # n-1
    <3>1. i + 1 \in 0..n-1 /\ n-1 \in 0..n-1
      BY <2>3
    <3>2. set[w].next = f[i+1] /\ f[i+1] # NoWay
      BY <1>1, <2>1, <2>3, <3>1 DEF Thread
    <3>3. w # f[n-1]
      BY <2>1, <2>3, <3>1 DEF IsList
    <3> QED BY <3>2, <3>3
  <2> QED BY <2>2, <2>3
<1>4. f[0] \in 0..n-1 /\ f[n-1] \in 0..n-1
  BY <1>1
<1> QED BY <1>2, <1>3, <1>4

\* The list with the way at place k moved to the front.
MovedUp(n, f, k) ==
  [i \in 0..n-1 |-> IF i = 0 THEN f[k] ELSE IF i <= k THEN f[i-1] ELSE f[i]]

LEMMA MovedUpIsList ==
  ASSUME NEW n \in Nat \ {0}, NEW f, IsList(n, f), NEW k \in 0..n-1
  PROVE  IsList(n, MovedUp(n, f, k))
<1> DEFINE W == 0..n-1
<1> DEFINE g == MovedUp(n, f, k)
<1> DEFINE p(i) == IF i = 0 THEN k ELSE IF i <= k THEN i-1 ELSE i
<1>1. ASSUME NEW i \in W PROVE p(i) \in W /\ g[i] = f[p(i)]
  BY DEF MovedUp
<1>2. ASSUME NEW i \in W, NEW j \in W, p(i) = p(j) PROVE i = j
  BY <1>2
<1>3. ASSUME NEW i \in W PROVE \E j \in W : p(j) = i
  <2>1. CASE i = k
    BY <2>1
  <2>2. CASE i < k
    <3>1. i + 1 \in W /\ p(i + 1) = i
      BY <2>2
    <3> QED BY <3>1
  <2>3. CASE i > k
    BY <2>3
  <2> QED BY <2>1, <2>2, <2>3
<1>4. DOMAIN g = W
  BY DEF MovedUp
<1>5. g \in [W -> W]
  <2>1. \A i \in W : g[i] \in W
    <3> SUFFICES ASSUME NEW i \in W PROVE g[i] \in W
      OBVIOUS
    <3> HIDE DEF p, g
    <3> QED BY <1>1 DEF IsList
  <2> QED BY <2>1 DEF MovedUp
<1> HIDE DEF p, g
<1>6. ASSUME NEW i \in W, NEW j \in W, g[i] = g[j] PROVE i = j
  <2>1. p(i) \in W /\ p(j) \in W /\ f[p(i)] = f[p(j)]
    BY <1>1, <1>6
  <2>2. p(i) = p(j)
    BY <2>1 DEF IsList
  <2> QED BY <1>2, <2>2
<1>7. ASSUME NEW w \in W PROVE \E i \in W : g[i] = w
  <2>1. PICK j \in W : f[j] = w
    BY DEF IsList
  <2>2. PICK i \in W : p(i) = j
    BY <1>3
  <2> QED BY <1>1, <2>1, <2>2
<1> QED BY <1>5, <1>6, <1>7 DEF IsList, g

\* What a splice of the way at place k makes of the links.
IsSpliced(n, set, f, k, new) ==
  \A w \in 0..n-1 :
    /\ new[w].next = IF k = 0 THEN set[w].next
                     ELSE IF w = f[k] THEN f[0]
                     ELSE IF w = f[k-1] THEN set[f[k]].next ELSE set[w].next
    /\ new[w].prev = IF k = 0 THEN set[w].prev
                     ELSE IF w = f[k] THEN NoWay
                     ELSE IF w = f[0] THEN f[k]
                     ELSE IF k < n-1 /\ w = f[k+1] THEN f[k-1] ELSE set[w].prev

LEMMA SplicedThread ==
  ASSUME NEW n \in Nat \ {0}, NEW set, NEW new, NEW f, IsList(n, f), Thread(n, set, f),
         NEW k \in 0..n-1, IsSpliced(n, set, f, k, new)
  PROVE  Thread(n, new, MovedUp(n, f, k))
<1> DEFINE W == 0..n-1
<1> DEFINE g == MovedUp(n, f, k)
<1>1. \A i, j \in W : f[i] = f[j] => i = j
  BY DEF IsList
<1>2. \A i \in W : f[i] \in W
  BY DEF IsList
<1>3. \A i \in W : g[i] = IF i = 0 THEN f[k] ELSE IF i <= k THEN f[i-1] ELSE f[i]
  BY DEF MovedUp
<1> HIDE DEF g
<1> SUFFICES ASSUME NEW i \in W
             PROVE  /\ new[g[i]].prev = IF i = 0 THEN NoWay ELSE g[i-1]
                    /\ new[g[i]].next = IF i = n-1 THEN NoWay ELSE g[i+1]
  BY DEF Thread, g
<1>4. CASE k = 0
  <2>1. g[i] = f[i] /\ (i # 0 => g[i-1] = f[i-1]) /\ (i # n-1 => g[i+1] = f[i+1])
    BY <1>3, <1>4
  <2> QED BY <1>2, <1>4, <2>1 DEF IsSpliced, Thread
<1>5. CASE k # 0 /\ i = 0
  <2>1. g[i] = f[k] /\ f[k] \in W
    BY <1>2, <1>3, <1>5
  <2>2. n - 1 # 0 /\ i # n - 1 /\ g[1] = f[0]
    BY <1>3, <1>5
  <2>3. new[f[k]].prev = NoWay /\ new[f[k]].next = f[0]
    BY <1>5, <2>1 DEF IsSpliced
  <2> QED BY <1>5, <2>1, <2>2, <2>3
<1>6. CASE k # 0 /\ i \in 1..k
  <2>1. i - 1 \in W /\ g[i] = f[i-1] /\ f[i-1] \in W /\ k - 1 \in W /\ i \in W
    BY <1>2, <1>3, <1>6
  <2>2. f[i-1] # f[k]
    BY <1>1, <1>6, <2>1
  <2>3. new[f[i-1]].next = IF i = n-1 THEN NoWay ELSE g[i+1]
    <3>1. CASE i = k
      <4>1. new[f[i-1]].next = set[f[k]].next
        BY <1>6, <2>1, <2>2, <3>1 DEF IsSpliced
      <4>2. set[f[k]].next = IF k = n-1 THEN NoWay ELSE f[k+1]
        BY DEF Thread
      <4>3. k # n-1 => g[k+1] = f[k+1]
        BY <1>3
      <4> QED BY <3>1, <4>1, <4>2, <4>3
    <3>2. CASE i # k
      <4>1. f[i-1] # f[k-1]
        <5>1. i - 1 # k - 1
          BY <3>2
        <5> QED BY <1>1, <2>1, <5>1
      <4>2. new[f[i-1]].next = set[f[i-1]].next
        BY <1>6, <2>1, <2>2, <4>1 DEF IsSpliced
      <4>3. set[f[i-1]].next = f[i]
        <5>1. i - 1 # n - 1 /\ i - 1 + 1 = i
          BY <2>1
        <5> QED BY <2>1, <5>1 DEF Thread
      <4>4. i # n-1 /\ g[i+1] = f[i]
        BY <1>3, <1>6, <3>2
      <4> QED BY <4>2, <4>3, <4>4
    <3> QED BY <3>1, <3>2
  <2>4. new[f[i-1]].prev = g[i-1]
    <3>1. CASE i = 1
      <4>1. new[f[0]].prev = f[k]
        BY <1>6, <2>1, <2>2, <3>1 DEF IsSpliced
      <4>2. g[0] = f[k]
        BY <1>3
      <4> QED BY <3>1, <4>1, <4>2
    <3>2. CASE i # 1
      <4>1. i - 1 # 0 /\ i - 2 \in W /\ (k < n-1 => k + 1 \in W /\ i - 1 # k + 1) /\ 0 \in W
            /\ (i - 1) - 1 = i - 2
        BY <1>6, <2>1, <3>2
      <4>2. f[i-1] # f[0] /\ (k < n-1 => f[i-1] # f[k+1])
        BY <1>1, <2>1, <4>1
      <4>3. new[f[i-1]].prev = set[f[i-1]].prev
        BY <1>6, <2>1, <2>2, <4>2 DEF IsSpliced
      <4>4. set[f[i-1]].prev = f[i-2]
        BY <2>1, <4>1 DEF Thread
      <4>5. g[i-1] = f[i-2]
        BY <1>3, <1>6, <2>1, <4>1
      <4> QED BY <4>3, <4>4, <4>5
    <3> QED BY <3>1, <3>2
  <2> QED BY <1>6, <2>1, <2>3, <2>4
<1>7. CASE k # 0 /\ i \in k+1..n-1
  <2>1. g[i] = f[i] /\ f[i] \in W /\ k - 1 \in W /\ k - 1 # i /\ k # i /\ 0 # i /\ 0 \in W
    BY <1>2, <1>3, <1>7
  <2>2. f[i] # f[k] /\ f[i] # f[k-1] /\ f[i] # f[0]
    BY <1>1, <2>1
  <2>3. new[f[i]].next = IF i = n-1 THEN NoWay ELSE g[i+1]
    <3>1. new[f[i]].next = set[f[i]].next
      BY <1>7, <2>1, <2>2 DEF IsSpliced
    <3>2. i # n-1 => g[i+1] = f[i+1]
      BY <1>3, <1>7
    <3> QED BY <3>1, <3>2 DEF Thread
  <2>4. new[f[i]].prev = g[i-1]
    <3>1. CASE i = k + 1
      <4>1. k < n-1
        BY <1>7, <3>1
      <4>2. new[f[i]].prev = f[k-1]
        BY <1>7, <2>1, <2>2, <3>1, <4>1 DEF IsSpliced
      <4>3. g[i-1] = f[k-1]
        <5>1. i - 1 = k /\ k \in W
          BY <3>1
        <5>2. g[k] = f[k-1]
          BY <1>3, <1>7
        <5> QED BY <5>1, <5>2
      <4> QED BY <4>2, <4>3
    <3>2. CASE i # k + 1
      <4>1. k < n-1 => k + 1 \in W
        OBVIOUS
      <4>2. k < n-1 => f[i] # f[k+1]
        BY <1>1, <3>2, <4>1
      <4>3. new[f[i]].prev = set[f[i]].prev
        BY <1>7, <2>1, <2>2, <4>2 DEF IsSpliced
      <4>4. i - 1 \in W /\ i - 1 # 0 /\ ~(i - 1 <= k)
        BY <1>7, <3>2
      <4>5. g[i-1] = f[i-1]
        BY <1>3, <4>4
      <4> QED BY <2>1, <4>3, <4>5 DEF Thread
    <3> QED BY <3>1, <3>2
  <2> QED BY <1>7, <2>1, <2>3, <2>4
<1> QED BY <1>4, <1>5, <1>6, <1>7

-----------------------------------------------------------------------------
(* What a taken branch does to its set.                                    *)

\* The way at place k becomes the first; what is in the ways stays there.
SplicedInto(n, set, f, k, new) ==
  /\ IsWays(n, new) /\ IsSpliced(n, set, f, k, new)
  /\ \A w \in 0..n-1 : new[w].addr = set[w].addr

LEMMA SplicedWays ==
  ASSUME NEW n \in Nat \ {0}, n = config.btb_assoc, NEW set, NEW f, NEW k \in 0..n-1,
         IsWays(n, set), IsList(n, f), Thread(n, set, f)
  PROVE  SplicedInto(n, set, f, k, Spliced(set, f[k]))
<1> DEFINE W == 0..n-1
<1> DEFINE v == f[k]
<1> DEFINE new == Spliced(set, v)
<1>1. BTBWays = W
  BY DEF BTBWays
<1>2. Head_(set) = f[0]
  BY <1>1, ListEnds DEF Head_
<1>3. PICK V : set \in [W -> Entry(V)]
  BY DEF IsWays
<1>4. \A i, j \in W : f[i] = f[j] => i = j
  BY DEF IsList
<1>5. v \in W /\ 0 \in W /\ f[0] \in W
  <2>1. 0 \in W
    OBVIOUS
  <2>2. \A i \in W : f[i] \in W
    BY DEF IsList
  <2> QED BY <2>1, <2>2
<1>6. CASE k = 0
  <2>1. new = set
    BY <1>2, <1>6 DEF Spliced
  <2> QED BY <1>6, <2>1 DEF IsSpliced, SplicedInto
<1>7. CASE k # 0
  <2>1. k - 1 \in W /\ k - 1 # k
    BY <1>7
  <2>2. v # f[0] /\ f[k-1] # v /\ f[k-1] \in W
    <3>1. f[k-1] \in W
      BY <2>1 DEF IsList
    <3> QED BY <1>4, <1>5, <1>7, <2>1, <3>1
  <2>3. set[v].prev = f[k-1] /\ set[v].next = IF k = n-1 THEN NoWay ELSE f[k+1]
    BY <1>7 DEF Thread
  <2> DEFINE nx(x) == CASE x = v -> f[0] [] x = set[v].prev -> set[v].next [] OTHER -> set[x].next
  <2> DEFINE pv(x) == CASE x = v -> NoWay [] x = f[0] -> v
                        [] x = set[v].next -> set[v].prev [] OTHER -> set[x].prev
  <2>4. new = [x \in W |-> [set[x] EXCEPT !.next = nx(x), !.prev = pv(x)]]
    BY <1>1, <1>2, <2>2 DEF Spliced
  <2>5. k < n-1 => f[k+1] # v /\ f[k+1] # f[0] /\ k # n-1
    <3>1. k < n-1 => k + 1 \in W /\ k + 1 # k /\ k + 1 # 0
      OBVIOUS
    <3> QED BY <1>4, <1>5, <3>1
  <2>6. ASSUME NEW x \in W
        PROVE  /\ nx(x) = IF x = v THEN f[0] ELSE IF x = f[k-1] THEN set[v].next ELSE set[x].next
               /\ pv(x) = IF x = v THEN NoWay ELSE IF x = f[0] THEN v
                          ELSE IF k < n-1 /\ x = f[k+1] THEN f[k-1] ELSE set[x].prev
    <3>1. nx(x) = IF x = v THEN f[0] ELSE IF x = f[k-1] THEN set[v].next ELSE set[x].next
      BY <2>2, <2>3
    <3>2. x = set[v].next <=> k < n-1 /\ x = f[k+1]
      <4>1. x # NoWay
        BY DEF NoWay
      <4>2. k # n-1 <=> k < n-1
        OBVIOUS
      <4> QED BY <2>3, <4>1, <4>2
    <3>3. x = v => x # f[0] /\ ~(k < n-1 /\ x = f[k+1])
      BY <2>2, <2>5
    <3>4. x = f[0] => ~(k < n-1 /\ x = f[k+1])
      BY <2>5
    <3>5. pv(x) = IF x = v THEN NoWay ELSE IF x = f[0] THEN v
                  ELSE IF k < n-1 /\ x = f[k+1] THEN f[k-1] ELSE set[x].prev
      <4>1. CASE x = v
        BY <3>2, <3>3, <4>1
      <4>2. CASE x # v /\ x = f[0]
        BY <3>2, <3>4, <4>2
      <4>3. CASE x # v /\ x # f[0] /\ x = set[v].next
        BY <2>3, <3>2, <4>3
      <4>4. CASE x # v /\ x # f[0] /\ x # set[v].next
        BY <3>2, <4>4
      <4> QED BY <4>1, <4>2, <4>3, <4>4
    <3> QED BY <3>1, <3>5
  <2> HIDE DEF nx, pv
  <2>7. ASSUME NEW x \in W
        PROVE  new[x].next = nx(x) /\ new[x].prev = pv(x) /\ new[x].addr = set[x].addr
    BY <1>3, <2>4 DEF Entry
  <2> DEFINE U == V \cup {nx(x) : x \in W} \cup {pv(x) : x \in W}
  <2>8. new \in [W -> Entry(U)]
    <3>1. ASSUME NEW x \in W PROVE [set[x] EXCEPT !.next = nx(x), !.prev = pv(x)] \in Entry(U)
      <4>1. set[x] \in Entry(U)
        BY <1>3 DEF Entry
      <4>2. nx(x) \in U /\ pv(x) \in U
        OBVIOUS
      <4> HIDE DEF U
      <4> QED BY <4>1, <4>2 DEF Entry
    <3> HIDE DEF U
    <3> QED BY <2>4, <3>1
  <2>9. IsWays(n, new)
    BY <2>8 DEF IsWays
  <2> HIDE DEF new, v
  <2>10. IsSpliced(n, set, f, k, new)
    <3> SUFFICES ASSUME NEW w \in W
                 PROVE  /\ new[w].next = IF w = v THEN f[0]
                             ELSE IF w = f[k-1] THEN set[v].next ELSE set[w].next
                        /\ new[w].prev = IF w = v THEN NoWay ELSE IF w = f[0] THEN v
                             ELSE IF k < n-1 /\ w = f[k+1] THEN f[k-1] ELSE set[w].prev
      BY <1>7 DEF IsSpliced, v
    <3> QED BY <2>6, <2>7
  <2> QED BY <2>7, <2>9, <2>10 DEF new, v, SplicedInto
<1> QED BY <1>6, <1>7

\* The branch pc enters at place k of the list: it is there already, or nowhere
\* and k is the last place.
Enters(n, set, f, m, k, pc) ==
  /\ k \in 0..n-1
  /\ \/ k < m /\ set[f[k]].addr = pc
     \/ k = n-1 /\ \A w \in 0..n-1 : set[w].addr # pc
\* What it leaves.
EnteredAt(n, set, f, k, pc, new) ==
  /\ IsWays(n, new) /\ IsSpliced(n, set, f, k, new)
  /\ \A w \in 0..n-1 : new[w].addr = IF w = f[k] THEN pc ELSE set[w].addr
\* And how many branches are held then.
HeldAfter(n, m, k) == IF k < m THEN m ELSE m + 1

LEMMA EnteredList ==
  ASSUME NEW n \in Nat \ {0}, NEW set, NEW new, NEW f, NEW m, NEW k, NEW pc, pc # 0,
         ListedBy(n, set, f, m), OnceHeld(n, set),
         Enters(n, set, f, m, k, pc), EnteredAt(n, set, f, k, pc, new)
  PROVE  /\ ListedBy(n, new, MovedUp(n, f, k), HeldAfter(n, m, k))
         /\ OnceHeld(n, new)
<1> DEFINE W == 0..n-1
<1> DEFINE g == MovedUp(n, f, k)
<1> DEFINE m2 == HeldAfter(n, m, k)
<1>1. IsList(n, f) /\ Thread(n, set, f) /\ k \in W /\ m \in 0..n
  BY DEF ListedBy, FullTo, Enters
<1>2. IsList(n, g)
  BY <1>1, MovedUpIsList
<1>3. Thread(n, new, g)
  BY <1>1, SplicedThread DEF EnteredAt
<1>4. \A w \in W : new[w].addr = IF w = f[k] THEN pc ELSE set[w].addr
  BY DEF EnteredAt
<1>5. \A w \in W : set[w].addr = pc => w = f[k]
  <2>1. f[k] \in W
    BY <1>1 DEF IsList
  <2> QED BY <2>1 DEF Enters, OnceHeld
<1>6. OnceHeld(n, new)
  BY <1>4, <1>5 DEF OnceHeld
<1>7. \A i \in W : g[i] = IF i = 0 THEN f[k] ELSE IF i <= k THEN f[i-1] ELSE f[i]
  BY DEF MovedUp
<1>8. m2 = (IF k < m THEN m ELSE m + 1) /\ (k < m \/ k = n-1)
  BY DEF HeldAfter, Enters
<1> HIDE DEF g, m2
<1>9. m2 \in 0..n
  BY <1>1, <1>8
<1>10. ASSUME NEW i \in W PROVE new[g[i]].addr # 0 <=> i < m2
  <2>1. \A j \in W : f[j] \in W /\ (set[f[j]].addr # 0 <=> j < m)
    BY <1>1 DEF IsList, ListedBy, FullTo
  <2>2. CASE i = 0
    <3>1. new[g[i]].addr = pc
      BY <1>1, <1>4, <1>7, <2>1, <2>2
    <3>2. i < m2
      BY <1>1, <1>8, <2>2
    <3> QED BY <3>1, <3>2
  <2>3. CASE i # 0 /\ i <= k
    <3>1. i - 1 \in W /\ g[i] = f[i-1] /\ i - 1 # k
      BY <1>1, <1>7, <2>3
    <3>2. f[i-1] # f[k]
      BY <1>1, <3>1 DEF IsList
    <3>3. new[g[i]].addr = set[f[i-1]].addr
      BY <1>4, <2>1, <3>1, <3>2
    <3>4. set[f[i-1]].addr # 0 <=> i - 1 < m
      BY <2>1, <3>1
    <3>5. i - 1 < m <=> i < m2
      BY <1>1, <1>8, <2>3
    <3> QED BY <3>3, <3>4, <3>5
  <2>4. CASE i > k
    <3>1. g[i] = f[i] /\ i # k /\ k < n-1
      BY <1>1, <1>7, <2>4
    <3>2. f[i] # f[k]
      BY <1>1, <3>1 DEF IsList
    <3>3. new[g[i]].addr = set[f[i]].addr
      BY <1>4, <2>1, <3>1, <3>2
    <3>4. m2 = m
      BY <1>1, <1>8, <3>1
    <3> QED BY <2>1, <3>3, <3>4
  <2> QED BY <1>1, <2>2, <2>3, <2>4
<1> QED BY <1>2, <1>3, <1>6, <1>9, <1>10 DEF ListedBy, FullTo, g, m2

\* Every set of the BTB is sound.
WaysInv ==
  /\ DOMAIN btb = 0 .. config.btb_sets - 1
  /\ \A s \in DOMAIN btb : SoundSet(config.btb_assoc, btb[s])

\* A branch is entered in its set, and in no other.
LEMMA EnteredSet ==
  ASSUME NEW n \in Nat \ {0}, n = config.btb_assoc, config.btb_sets \in Nat \ {0},
         WaysInv, NEW e, e.pc \in Nat \ {0},
         NEW new, new = Entered(e)
  PROVE  /\ BTBSet(e.pc) \in DOMAIN btb /\ DOMAIN new = DOMAIN btb
         /\ \A s \in DOMAIN btb : s # BTBSet(e.pc) => new[s] = btb[s]
         /\ \E f, m, k : /\ ListedBy(n, btb[BTBSet(e.pc)], f, m)
                         /\ Enters(n, btb[BTBSet(e.pc)], f, m, k, e.pc)
                         /\ EnteredAt(n, btb[BTBSet(e.pc)], f, k, e.pc, new[BTBSet(e.pc)])
<1> DEFINE W == 0..n-1
<1> DEFINE s == BTBSet(e.pc)
<1> DEFINE set == btb[s]
<1> DEFINE hit == BTBHits(e.pc) # {}
<1> DEFINE w == IF hit THEN CHOOSE x \in BTBHits(e.pc) : TRUE ELSE BTBVictim(e.pc)
<1> DEFINE S == Spliced(set, w)
<1>1. s \in DOMAIN btb
  <2> DEFINE N == config.btb_sets
  <2>1. N \in Nat \ {0} /\ DOMAIN btb = 0..N-1 /\ s = e.pc % N
    BY DEF WaysInv, BTBSet
  <2> HIDE DEF N, s
  <2>2. e.pc % N \in 0..N-1
    BY <2>1
  <2> QED BY <2>1, <2>2
<1>2. /\ IsWays(n, set) /\ OnceHeld(n, set)
      /\ \E f, m : ListedBy(n, set, f, m)
  BY <1>1 DEF WaysInv, SoundSet
<1>3. PICK f, m : ListedBy(n, set, f, m)
  BY <1>2
<1>4. IsList(n, f) /\ Thread(n, set, f) /\ FullTo(n, set, f, m) /\ m \in 0..n
  BY <1>3 DEF ListedBy, FullTo
<1>5. BTBHits(e.pc) = {x \in W : set[x].addr = e.pc}
  BY DEF BTBHits, BTBWays
<1>6. \E k : /\ w = f[k] /\ k \in W
             /\ \/ hit /\ set[f[k]].addr = e.pc
                \/ ~hit /\ k = n-1
  <2>1. CASE hit
    <3>1. w \in W /\ set[w].addr = e.pc
      BY <1>5, <2>1
    <3>2. PICK k \in W : f[k] = w
      BY <1>4, <3>1 DEF IsList
    <3> HIDE DEF w, hit
    <3> QED BY <2>1, <3>1, <3>2
  <2>2. CASE ~hit
    <3>1. w = Last_(set)
      BY <2>2 DEF BTBVictim
    <3>2. w = f[n-1]
      BY <1>4, <3>1, ListEnds DEF Last_, BTBWays
    <3>3. n-1 \in W
      OBVIOUS
    <3> HIDE DEF w, hit
    <3> QED BY <2>2, <3>2, <3>3
  <2> QED BY <2>1, <2>2
<1> HIDE DEF w
<1>7. PICK k \in W : /\ w = f[k]
                     /\ \/ hit /\ set[f[k]].addr = e.pc
                        \/ ~hit /\ k = n-1
  BY <1>6
<1>8. SplicedInto(n, set, f, k, S)
  <2>1. k \in 0..n-1
    OBVIOUS
  <2>2. SplicedInto(n, set, f, k, Spliced(set, f[k]))
    <3> HIDE DEF set
    <3> QED BY <1>2, <1>4, <2>1, SplicedWays
  <2> QED BY <1>7, <2>2
<1> DEFINE t == IF hit /\ Correct(e) THEN S[w].target ELSE e.next_PC
<1> DEFINE S2 == [S EXCEPT ![w].addr = e.pc, ![w].target = t]
<1>9. w \in W /\ \A i \in W : f[i] \in W
  BY <1>4, <1>7 DEF IsList
<1>10. PICK V : S \in [W -> Entry(V)]
  BY <1>8 DEF IsWays, SplicedInto
<1> HIDE DEF S, hit
<1>11. new = [btb EXCEPT ![s] = S2]
  <2>1. new = [btb EXCEPT ![s] = [S EXCEPT ![w].addr = e.pc,
                                    ![w].target = IF hit /\ Correct(e) THEN @ ELSE e.next_PC]]
    BY DEF Entered, S, w, hit
  <2>2. [S EXCEPT ![w].addr = e.pc][w].target = S[w].target
    BY <1>9, <1>10 DEF Entry
  <2> QED BY <2>1, <2>2
<1> HIDE DEF t
<1>12. /\ S2 \in [W -> Entry(V \cup {e.pc, t})]
       /\ \A x \in W : /\ S2[x].addr = IF x = w THEN e.pc ELSE S[x].addr
                       /\ S2[x].next = S[x].next /\ S2[x].prev = S[x].prev
  <2> DEFINE U == V \cup {e.pc, t}
  <2>1. e.pc \in U /\ t \in U
    OBVIOUS
  <2>2. \A x \in W : S[x] \in Entry(U)
    BY <1>10 DEF Entry
  <2>3. S2 = [x \in W |-> IF x = w THEN [S[w] EXCEPT !.addr = e.pc, !.target = t] ELSE S[x]]
    BY <1>9, <1>10
  <2> HIDE DEF U, S2
  <2>4. [S[w] EXCEPT !.addr = e.pc, !.target = t] \in Entry(U)
    BY <1>9, <2>1, <2>2 DEF Entry
  <2>5. S2 \in [W -> Entry(U)]
    BY <2>2, <2>3, <2>4
  <2>6. S2[w] = [S[w] EXCEPT !.addr = e.pc, !.target = t] /\ S[w] \in Entry(U)
    BY <1>9, <2>2, <2>3
  <2>7. S2[w].addr = e.pc /\ S2[w].next = S[w].next /\ S2[w].prev = S[w].prev
    BY <2>6 DEF Entry
  <2>8. \A x \in W : x # w => S2[x] = S[x]
    BY <2>3
  <2> QED BY <2>5, <2>7, <2>8 DEF U
<1> HIDE DEF S2
<1>13. EnteredAt(n, set, f, k, e.pc, S2)
  <2>1. IsWays(n, S2)
    BY <1>12 DEF IsWays
  <2>2. IsSpliced(n, set, f, k, S2)
    BY <1>8, <1>12 DEF IsSpliced, SplicedInto
  <2> QED BY <1>7, <1>8, <1>12, <2>1, <2>2 DEF EnteredAt, SplicedInto
<1>14. Enters(n, set, f, m, k, e.pc)
  <2>1. CASE hit /\ set[f[k]].addr = e.pc
    <3>1. e.pc # 0 => k < m
      BY <1>4, <2>1 DEF FullTo
    <3> QED BY <2>1, <3>1 DEF Enters
  <2>2. CASE ~hit /\ k = n-1
    BY <1>5, <2>2 DEF Enters, hit
  <2> QED BY <1>7, <2>1, <2>2
<1> HIDE DEF set
<1>15. DOMAIN new = DOMAIN btb /\ new[s] = S2
       /\ \A x \in DOMAIN btb : x # s => new[x] = btb[x]
  BY <1>1, <1>11
<1> HIDE DEF s
<1> QED BY <1>1, <1>3, <1>13, <1>14, <1>15 DEF s, set

-----------------------------------------------------------------------------
(* The links of a sound set.                                               *)

NextLinks(n, set) == {<<w, set[w].next>> : w \in 0..n-1} \ ((0..n-1) \X {NoWay})
PrevLinks(n, set) == {<<w, set[w].prev>> : w \in 0..n-1} \ ((0..n-1) \X {NoWay})

\* The steps of the list, in either direction.
Steps(n, f) == {<<f[i-1], f[i]>> : i \in 1..n-1}
BackSteps(n, f) == {<<f[i], f[i-1]>> : i \in 1..n-1}

\* Each link leads from a place of the list to the next one.
LEMMA LinksOfList ==
  ASSUME NEW n \in Nat \ {0}, NEW set, NEW f, IsList(n, f), Thread(n, set, f)
  PROVE  NextLinks(n, set) = Steps(n, f) /\ PrevLinks(n, set) = BackSteps(n, f)
<1> DEFINE W == 0..n-1
<1>1. \A i \in W : f[i] \in W /\ f[i] # NoWay
  <2>1. \A i \in 0..n-1 : f[i] \in 0..n-1
    BY DEF IsList
  <2>2. \A x \in 0..n-1 : x # NoWay
    BY DEF NoWay
  <2> QED BY <2>1, <2>2
<1>2. \A i \in 1..n-1 : /\ i \in W /\ i-1 \in W /\ i-1 # n-1 /\ i-1+1 = i /\ i # 0
  OBVIOUS
<1>3. \A i \in 1..n-1 : set[f[i-1]].next = f[i] /\ set[f[i]].prev = f[i-1]
  BY <1>2 DEF Thread
<1>4. ASSUME NEW w \in W, set[w].next # NoWay
      PROVE  \E i \in 1..n-1 : w = f[i-1] /\ set[w].next = f[i]
  <2>1. PICK j \in W : f[j] = w
    BY DEF IsList
  <2>2. j # n-1
    BY <1>4, <2>1 DEF Thread
  <2>3. j + 1 \in 1..n-1 /\ j + 1 - 1 = j
    BY <2>2
  <2>4. set[w].next = f[j+1]
    BY <2>1, <2>2 DEF Thread
  <2> QED BY <2>1, <2>3, <2>4
<1>5. ASSUME NEW w \in W, set[w].prev # NoWay
      PROVE  \E i \in 1..n-1 : w = f[i] /\ set[w].prev = f[i-1]
  <2>1. PICK j \in W : f[j] = w
    BY DEF IsList
  <2>2. j # 0
    BY <1>5, <2>1 DEF Thread
  <2>3. j \in 1..n-1
    BY <2>2
  <2> QED BY <1>3, <2>1, <2>3
<1>6. NextLinks(n, set) = {<<f[i-1], f[i]>> : i \in 1..n-1}
  <2>1. ASSUME NEW p \in NextLinks(n, set) PROVE p \in {<<f[i-1], f[i]>> : i \in 1..n-1}
    <3>1. PICK w \in W : p = <<w, set[w].next>>
      BY DEF NextLinks
    <3>2. set[w].next # NoWay
      BY <3>1 DEF NextLinks
    <3> QED BY <1>4, <3>1, <3>2
  <2>2. ASSUME NEW i \in 1..n-1 PROVE <<f[i-1], f[i]>> \in NextLinks(n, set)
    BY <1>1, <1>2, <1>3 DEF NextLinks
  <2> QED BY <2>1, <2>2
<1>7. PrevLinks(n, set) = {<<f[i], f[i-1]>> : i \in 1..n-1}
  <2>1. ASSUME NEW p \in PrevLinks(n, set) PROVE p \in {<<f[i], f[i-1]>> : i \in 1..n-1}
    <3>1. PICK w \in W : p = <<w, set[w].prev>>
      BY DEF PrevLinks
    <3>2. set[w].prev # NoWay
      BY <3>1 DEF PrevLinks
    <3> QED BY <1>5, <3>1, <3>2
  <2>2. ASSUME NEW i \in 1..n-1 PROVE <<f[i], f[i-1]>> \in PrevLinks(n, set)
    BY <1>1, <1>2, <1>3 DEF PrevLinks
  <2> QED BY <2>1, <2>2
<1> QED BY <1>6, <1>7 DEF Steps, BackSteps

\* What LinkedWays says of a set.
LEMMA LinkedSet ==
  ASSUME NEW n \in Nat \ {0}, NEW set, NEW f, IsList(n, f), Thread(n, set, f)
  PROVE  /\ Cardinality(NextLinks(n, set)) = n - 1
         /\ PrevLinks(n, set) = {<<p[2], p[1]>> : p \in NextLinks(n, set)}
         /\ \A X \in SUBSET (0..n-1) :
              X # {} /\ (\A p \in NextLinks(n, set) : p[1] \in X => p[2] \in X) => f[n-1] \in X
<1> DEFINE N == NextLinks(n, set)
<1>1. N = Steps(n, f) /\ PrevLinks(n, set) = BackSteps(n, f)
  BY LinksOfList
<1> HIDE DEF N
<1>2. \A i, j \in 0..n-1 : f[i] = f[j] => i = j
  BY DEF IsList
<1>3. Cardinality(N) = n - 1
  <2> DEFINE h == [i \in 1..n-1 |-> <<f[i-1], f[i]>>]
  <2>1. h \in [1..n-1 -> N] /\ \A x \in N : \E i \in 1..n-1 : h[i] = x
    BY <1>1 DEF Steps
  <2>2. ASSUME NEW i \in 1..n-1, NEW j \in 1..n-1, h[i] = h[j] PROVE i = j
    <3>1. f[i] = f[j] /\ i \in 0..n-1 /\ j \in 0..n-1
      BY <2>2
    <3> QED BY <1>2, <3>1
  <2> HIDE DEF h
  <2>3. h \in Bijection(1..n-1, N)
    BY <2>1, <2>2 DEF Bijection, Injection, Surjection, IsInjective
  <2>4. ExistsBijection(1..n-1, N)
    BY <2>3 DEF ExistsBijection
  <2>5. n - 1 \in Nat
    OBVIOUS
  <2> QED BY <2>4, <2>5, FS_CountingElements
<1>4. PrevLinks(n, set) = {<<p[2], p[1]>> : p \in N}
  <2>1. ASSUME NEW p \in N PROVE <<p[2], p[1]>> \in BackSteps(n, f)
    <3>1. PICK i \in 1..n-1 : p = <<f[i-1], f[i]>>
      BY <1>1 DEF Steps
    <3> QED BY <3>1 DEF BackSteps
  <2>2. ASSUME NEW q \in BackSteps(n, f) PROVE \E p \in N : q = <<p[2], p[1]>>
    <3>1. PICK i \in 1..n-1 : q = <<f[i], f[i-1]>>
      BY DEF BackSteps
    <3>2. <<f[i-1], f[i]>> \in N
      BY <1>1 DEF Steps
    <3>3. q = <<<<f[i-1], f[i]>>[2], <<f[i-1], f[i]>>[1]>>
      BY <3>1
    <3> QED BY <3>2, <3>3
  <2> QED BY <1>1, <2>1, <2>2
<1>5. ASSUME NEW X \in SUBSET (0..n-1), X # {}, \A p \in N : p[1] \in X => p[2] \in X
      PROVE  f[n-1] \in X
  <2> DEFINE P == {i \in 0..n-1 : f[i] \in X}
  <2>1. P # {}
    <3>1. PICK w \in X : TRUE
      BY <1>5
    <3>2. PICK i \in 0..n-1 : f[i] = w
      BY <3>1 DEF IsList
    <3> QED BY <3>2
  <2>2. n - 1 \in Nat /\ P \in SUBSET (0..n-1)
    OBVIOUS
  <2> HIDE DEF P
  <2>3. PICK x \in P : \A y \in P : y <= x
    BY <2>1, <2>2, GreatestElement
  <2>4. x \in 0..n-1 /\ f[x] \in X
    BY <2>3 DEF P
  <2>5. CASE x = n-1
    BY <2>4, <2>5
  <2>6. CASE x # n-1
    <3>1. x + 1 \in 1..n-1 /\ x + 1 \in 0..n-1 /\ x + 1 - 1 = x /\ ~(x + 1 <= x)
      BY <2>4, <2>6
    <3>2. <<f[x], f[x+1]>> \in N
      <4> DEFINE j == x + 1
      <4>1. j \in 1..n-1
        BY <3>1
      <4> HIDE DEF j
      <4>2. <<f[j - 1], f[j]>> \in N
        BY <1>1, <4>1 DEF Steps
      <4>3. j - 1 = x
        BY <2>4 DEF j
      <4> QED BY <4>2, <4>3 DEF j
    <3>3. <<f[x], f[x+1]>>[1] \in X => <<f[x], f[x+1]>>[2] \in X
      BY <1>5, <3>2
    <3>4. f[x+1] \in X
      BY <2>4, <3>3
    <3>5. x + 1 \in P
      BY <3>1, <3>4 DEF P
    <3> QED BY <2>3, <3>1, <3>5
  <2> QED BY <2>5, <2>6
<1> QED BY <1>3, <1>4, <1>5 DEF N

\* The links of the BTB are those of a list.
LEMMA SoundIsLinked ==
  ASSUME config \in Configs, WaysInv
  PROVE  LinkedWays
<1> DEFINE n == config.btb_assoc
<1>1. n \in Nat
  BY ConfigsAssumption
<1> SUFFICES ASSUME n > 1, NEW s \in DOMAIN btb
             PROVE  /\ Cardinality(NextWays(btb[s])) = n - 1
                    /\ PrevWays(btb[s]) = {<<p[2], p[1]>> : p \in NextWays(btb[s])}
                    /\ \A X \in SUBSET BTBWays :
                         X # {} /\ (\A p \in NextWays(btb[s]) : p[1] \in X => p[2] \in X) =>
                           Last_(btb[s]) \in X
                    /\ \A v, w \in BTBWays :
                         btb[s][v].addr = btb[s][w].addr /\ btb[s][v].addr # 0 => v = w
  BY DEF LinkedWays
<1> DEFINE set == btb[s]
<1>2. n \in Nat \ {0} /\ SoundSet(n, set)
  BY <1>1 DEF WaysInv
<1>3. PICK f, m : ListedBy(n, set, f, m)
  BY <1>2 DEF SoundSet
<1>4. BTBWays = 0..n-1 /\ NextWays(set) = NextLinks(n, set) /\ PrevWays(set) = PrevLinks(n, set)
      /\ OnceHeld(n, set) /\ IsList(n, f) /\ Thread(n, set, f)
  BY <1>2, <1>3 DEF BTBWays, NextWays, PrevWays, NextLinks, PrevLinks, SoundSet, ListedBy
<1>5. Last_(set) = (CHOOSE w \in 0..n-1 : set[w].next = NoWay)
  BY <1>4 DEF Last_
<1> HIDE DEF n, set
<1>6. /\ Cardinality(NextLinks(n, set)) = n - 1
      /\ PrevLinks(n, set) = {<<p[2], p[1]>> : p \in NextLinks(n, set)}
      /\ \A X \in SUBSET (0..n-1) :
           X # {} /\ (\A p \in NextLinks(n, set) : p[1] \in X => p[2] \in X) => f[n-1] \in X
  BY <1>2, <1>4, LinkedSet
<1>7. Last_(set) = f[n-1]
  BY <1>2, <1>4, <1>5, ListEnds
<1> QED BY <1>4, <1>6, <1>7 DEF OnceHeld, set

-----------------------------------------------------------------------------
(* The counters, the history registers and the update records.             *)

CounterMax == IF config.class = "Comb" THEN 7 ELSE 3

CountersTyped ==
  /\ DOMAIN counters = Components
  /\ \A d \in Components : counters[d] \in [0 .. Size(d) - 1 -> 0 .. CounterMax]

HistoriesOf(d) == [0 .. Dir(d).l1size - 1 -> 0 .. 2 ^ Dir(d).shift_width - 1]
ShiftsTyped ==
  /\ DOMAIN shiftregs = TwoLevels
  /\ \A d \in TwoLevels : shiftregs[d] \in HistoriesOf(d)

\* Only a combination has a counter that chooses.
RecordTyped(u) ==
  u.pdir1 \in Pointers /\ u.pdir2 \in Pointers /\ (u.pmeta # NULL => config.class = "Comb")

BranchesTyped ==
  \A i \in DOMAIN flight :
    /\ flight[i].pc \in PCs /\ flight[i].stack_recover_idx \in -1 .. config.retstack_size
    /\ RecordTyped(flight[i].dir_update)

TablesTyped ==
  /\ CountersTyped /\ ShiftsTyped /\ BranchesTyped /\ WaysInv
  /\ entered \in {0} \cup PCs
  /\ tos \in -1 .. config.retstack_size

\* The options of a predictor.
LEMMA Options ==
  ASSUME config \in Configs
  PROVE  /\ DOMAIN config.dir = DirNames(config.class)
         /\ \A d \in Components : IsDir(Dir(d)) /\ Size(d) \in Nat \ {0}
         /\ \A d \in TwoLevels : /\ d \in Components /\ Dir(d).l1size \in Nat \ {0}
                                 /\ 2 ^ Dir(d).shift_width \in Nat \ {0}
         /\ config.retstack_size \in Nat /\ config.btb_sets \in Nat /\ config.btb_assoc \in Nat
         /\ Stateful => config.btb_sets # 0 /\ config.btb_assoc # 0
         /\ \A pc \in PCs : pc \in Nat \ {0}
<1>1. /\ DOMAIN config.dir = DirNames(config.class)
      /\ \A d \in Components : IsDir(Dir(d))
  BY ConfigsAssumption DEF Components, Dir
<1>2. \A d \in Components : Size(d) \in Nat \ {0}
  BY <1>1 DEF IsDir, Size
<1>3. ASSUME NEW d \in TwoLevels
      PROVE  /\ d \in Components /\ Dir(d).l1size \in Nat \ {0}
             /\ 2 ^ Dir(d).shift_width \in Nat \ {0}
  <2>1. d \in Components /\ Dir(d).l1size \in Nat \ {0} /\ Dir(d).shift_width \in 1 .. 30
    BY <1>1 DEF TwoLevels, IsDir
  <2> QED BY <2>1, RegistersAssumption
<1>4. /\ config.retstack_size \in Nat /\ config.btb_sets \in Nat /\ config.btb_assoc \in Nat
      /\ Stateful => config.btb_sets # 0 /\ config.btb_assoc # 0
      /\ \A pc \in PCs : pc \in Nat \ {0}
  BY ConfigsAssumption DEF Stateful, PCs
<1> QED BY <1>1, <1>2, <1>3, <1>4

\* What is looked up is a counter.
LEMMA LookupPointer ==
  ASSUME config \in Configs, ShiftsTyped, NEW d \in Components, NEW pc \in PCs
  PROVE  bpred_dir_lookup(d, pc) \in Pointers
<1>1. pc \in Nat /\ Size(d) \in Nat \ {0} /\ IsDir(Dir(d))
  BY Options
<1>2. ASSUME NEW i \in 0 .. Size(d) - 1 PROVE <<d, i>> \in Pointers
  BY DEF Pointers
<1>3. CASE Dir(d).class = "2Level"
  <2>1. d \in TwoLevels
    BY <1>3 DEF TwoLevels
  <2> DEFINE l1 == Dir(d).l1size
  <2> DEFINE l2 == Dir(d).l2size
  <2> DEFINE p == 2 ^ Dir(d).shift_width
  <2>2. l1 \in Nat \ {0} /\ p \in Nat \ {0} /\ Size(d) = l2
    BY <1>3, <2>1, Options DEF Size
  <2>3. l2 \in Nat \ {0}
    BY <1>1, <2>2
  <2> DEFINE x == L1Index(d, pc)
  <2> DEFINE hist == shiftregs[d][x]
  <2>4. shiftregs[d] \in [0 .. l1 - 1 -> 0 .. p - 1]
    BY <2>1 DEF ShiftsTyped, HistoriesOf
  <2>5. x = pc % l1
    BY DEF L1Index
  <2> DEFINE v == IF Dir(d).xor THEN hist ELSE hist + pc * p
  <2>6. L2Index(d, pc) = v % l2
    BY DEF L2Index
  <2> HIDE DEF p, l1, l2, x
  <2>7. x \in 0 .. l1 - 1
    BY <1>1, <2>2, <2>5
  <2>8. hist \in Nat
    <3>1. hist \in 0 .. p - 1
      BY <2>4, <2>7
    <3> QED BY <2>2, <3>1
  <2> HIDE DEF hist
  <2>9. pc * p \in Nat
    BY <1>1, <2>2
  <2>10. v \in Nat
    <3>1. hist + pc * p \in Nat
      BY <2>8, <2>9
    <3> QED BY <2>8, <3>1
  <2> HIDE DEF v
  <2>11. v % l2 \in 0 .. l2 - 1
    BY <2>3, <2>10
  <2> QED BY <1>2, <1>3, <2>2, <2>6, <2>11 DEF bpred_dir_lookup
<1>4. CASE Dir(d).class # "2Level"
  <2> DEFINE n == Size(d)
  <2>1. n \in Nat \ {0} /\ n = Dir(d).size
    BY <1>1, <1>4 DEF Size
  <2> HIDE DEF n
  <2>2. pc % n \in 0 .. n - 1
    BY <1>1, <2>1
  <2>3. <<d, pc % n>> \in Pointers
    BY <1>2, <2>2 DEF n
  <2> QED BY <1>4, <2>1, <2>3 DEF bpred_dir_lookup
<1> QED BY <1>3, <1>4

\* The update record names counters of the predictor.
LEMMA LookupRecord ==
  ASSUME config \in Configs, ShiftsTyped, NEW pc \in PCs
  PROVE  RecordTyped([DirUpdate(pc) EXCEPT !.ras = UsesRAS(pc)])
<1> DEFINE u == DirUpdate(pc)
<1>1. NULL \in Pointers
  BY DEF Pointers
<1>2. /\ DOMAIN u = {"pdir1", "pdir2", "pmeta", "ras", "bimod", "twolev"}
      /\ u.pdir1 \in Pointers /\ u.pdir2 \in Pointers
      /\ u.pmeta # NULL => config.class = "Comb"
  <2>1. CASE ~Cond(pc) \/ ~Stateful
    <3>1. u = NoUpdate
      BY <2>1 DEF DirUpdate
    <3> QED BY <1>1, <3>1 DEF NoUpdate
  <2>2. CASE Cond(pc) /\ Stateful /\ config.class # "Comb"
    <3> DEFINE d == IF config.class = "2Level" THEN "twolev" ELSE "bimod"
    <3>1. d \in Components
      BY <2>2, Options, ConfigsAssumption DEF Components, DirNames, Stateful
    <3>2. u = [NoUpdate EXCEPT !.pdir1 = bpred_dir_lookup(d, pc)]
      BY <2>2 DEF DirUpdate
    <3> HIDE DEF d
    <3>3. bpred_dir_lookup(d, pc) \in Pointers
      BY <3>1, LookupPointer
    <3> HIDE DEF u
    <3> QED BY <1>1, <3>2, <3>3 DEF NoUpdate
  <2>3. CASE Cond(pc) /\ Stateful /\ config.class = "Comb"
    <3> DEFINE b == bpred_dir_lookup("bimod", pc)
    <3> DEFINE t == bpred_dir_lookup("twolev", pc)
    <3> DEFINE m == bpred_dir_lookup("meta", pc)
    <3>1. {"bimod", "twolev", "meta"} \subseteq Components
      BY <2>3, Options DEF Components, DirNames
    <3>2. b \in Pointers /\ t \in Pointers
      BY <3>1, LookupPointer
    <3>3. u = [NoUpdate EXCEPT
                 !.pmeta = m, !.bimod = Counter(b) >= 2, !.twolev = Counter(t) >= 4,
                 !.pdir1 = IF MetaTwolev(m) THEN t ELSE b,
                 !.pdir2 = IF MetaTwolev(m) THEN b ELSE t]
      BY <2>3 DEF DirUpdate
    <3> HIDE DEF u, b, t, m
    <3> QED BY <2>3, <3>2, <3>3 DEF NoUpdate
  <2> QED BY <2>1, <2>2, <2>3
<1> HIDE DEF u
<1>3. /\ [u EXCEPT !.ras = UsesRAS(pc)].pdir1 = u.pdir1
      /\ [u EXCEPT !.ras = UsesRAS(pc)].pdir2 = u.pdir2
      /\ [u EXCEPT !.ras = UsesRAS(pc)].pmeta = u.pmeta
  BY <1>2
<1> HIDE DEF Pointers
<1> QED BY <1>2, <1>3 DEF RecordTyped, u

\* A counter stays in its range, whatever has moved the one that chooses.
LEMMA CountedTyped ==
  ASSUME config \in Configs, CountersTyped, NEW e, RecordTyped(e.dir_update),
         NEW new, new = Counted(e)
  PROVE  /\ DOMAIN new = Components
         /\ \A d \in Components : new[d] \in [0 .. Size(d) - 1 -> 0 .. CounterMax]
<1>1. ASSUME NEW d \in Components, NEW i \in 0 .. Size(d) - 1
      PROVE  new[d][i] \in 0 .. CounterMax
  <2> DEFINE p == <<d, i>>
  <2> DEFINE c == counters[d][i]
  <2>1. c \in 0 .. CounterMax
    BY DEF CountersTyped
  <2>2. DOMAIN counters[d] = 0 .. Size(d) - 1
    BY DEF CountersTyped
  <2>3. new[d][i] = IF p \in {e.dir_update.pdir1, e.dir_update.pdir2}
                    THEN Trained(c, Taken(e), Limit(e, p))
                    ELSE IF p = e.dir_update.pmeta THEN Voted(e, c) ELSE c
    BY <2>2 DEF Counted
  <2>4. /\ CounterMax \in {3, 7} /\ Limit(e, p) \in {3, 7}
        /\ Limit(e, p) = 7 => CounterMax = 7
    BY DEF CounterMax, Limit, RecordTyped
  <2>5. p # NULL
    BY DEF NULL
  <2>6. p = e.dir_update.pmeta => CounterMax = 7
    BY <2>5 DEF RecordTyped, CounterMax
  <2> HIDE DEF p, c
  <2>7. ASSUME NEW taken, NEW limit \in {3, 7}, limit = 7 => CounterMax = 7
        PROVE  Trained(c, taken, limit) \in 0 .. CounterMax
    BY <2>1, <2>4, <2>7 DEF Trained
  <2>8. CounterMax = 7 => Voted(e, c) \in 0 .. CounterMax
    BY <2>1, <2>7 DEF Voted
  <2> QED BY <2>1, <2>3, <2>4, <2>6, <2>7, <2>8
<1>2. DOMAIN new = Components
  BY DEF Counted
<1>3. ASSUME NEW d \in Components PROVE new[d] = [i \in 0 .. Size(d) - 1 |-> new[d][i]]
  <2>1. DOMAIN counters[d] = 0 .. Size(d) - 1
    BY DEF CountersTyped
  <2> QED BY <2>1 DEF Counted
<1> QED BY <1>1, <1>2, <1>3

\* A history register keeps its width.
LEMMA ShiftedTyped ==
  ASSUME config \in Configs, ShiftsTyped, NEW e, NEW new, new = Shifted(e)
  PROVE  DOMAIN new = TwoLevels /\ \A d \in TwoLevels : new[d] \in HistoriesOf(d)
<1>1. DOMAIN new = TwoLevels
  BY DEF Shifted
<1>2. ASSUME NEW d \in TwoLevels PROVE new[d] \in HistoriesOf(d)
  <2> DEFINE p == 2 ^ Dir(d).shift_width
  <2> DEFINE l1 == Dir(d).l1size
  <2> DEFINE x == L1Index(d, e.pc)
  <2> DEFINE r == shiftregs[d]
  <2> DEFINE bit == IF Taken(e) THEN 1 ELSE 0
  <2>1. r \in [0 .. l1 - 1 -> 0 .. p - 1] /\ p \in Nat \ {0}
    BY Options DEF ShiftsTyped, HistoriesOf
  <2>2. new[d] = [r EXCEPT ![x] = (2 * r[x] + bit) % p]
    BY DEF Shifted
  <2>3. bit \in {0, 1}
    OBVIOUS
  <2> HIDE DEF p, x, r, bit
  <2>4. CASE x \in 0 .. l1 - 1
    <3> DEFINE h == r[x]
    <3>1. h \in Nat
      <4>1. h \in 0 .. p - 1
        BY <2>1, <2>4
      <4> QED BY <2>1, <4>1
    <3> HIDE DEF h
    <3>2. 2 * h + bit \in Nat
      BY <2>3, <3>1
    <3>3. (2 * h + bit) % p \in 0 .. p - 1
      <4> DEFINE y == 2 * h + bit
      <4>1. y \in Nat
        BY <3>2
      <4> HIDE DEF y
      <4>2. y % p \in 0 .. p - 1
        BY <2>1, <4>1
      <4> QED BY <4>2 DEF y
    <3>4. new[d] \in [0 .. l1 - 1 -> 0 .. p - 1]
      BY <2>1, <2>2, <2>4, <3>3 DEF h
    <3> QED BY <3>4 DEF HistoriesOf, p, l1
  <2>5. CASE x \notin 0 .. l1 - 1
    <3>1. new[d] = r
      BY <2>1, <2>2, <2>5
    <3> QED BY <2>1, <3>1 DEF HistoriesOf, p, l1
  <2> QED BY <2>4, <2>5
<1> QED BY <1>1, <1>2

-----------------------------------------------------------------------------
(* The tables stay sound.  The options never change, so the next state is   *)
(* described with the definitions of this one.                             *)

LEMMA TypedNext ==
  ASSUME config' = config
  PROVE  /\ (/\ DOMAIN counters' = Components
             /\ \A d \in Components : counters'[d] \in [0 .. Size(d) - 1 -> 0 .. CounterMax])
              => CountersTyped'
         /\ (DOMAIN shiftregs' = TwoLevels /\ \A d \in TwoLevels : shiftregs'[d] \in HistoriesOf(d))
              => ShiftsTyped'
         /\ (\A i \in DOMAIN flight' :
               /\ flight'[i].pc \in PCs
               /\ flight'[i].stack_recover_idx \in -1 .. config.retstack_size
               /\ RecordTyped(flight'[i].dir_update))
              => BranchesTyped'
         /\ (/\ DOMAIN btb' = 0 .. config.btb_sets - 1
             /\ \A s \in DOMAIN btb' : SoundSet(config.btb_assoc, btb'[s]))
              => WaysInv'
<1>1. /\ Components' = Components /\ TwoLevels' = TwoLevels /\ CounterMax' = CounterMax
      /\ PCs' = PCs
  BY DEF Components, TwoLevels, CounterMax, PCs, Dir
<1>2. \A d : Size(d)' = Size(d) /\ HistoriesOf(d)' = HistoriesOf(d)
  BY DEF Size, HistoriesOf, Dir
<1>3. Pointers' = Pointers
  BY <1>1, <1>2 DEF Pointers
<1>4. \A u : RecordTyped(u)' <=> RecordTyped(u)
  BY <1>3 DEF RecordTyped
<1>5. (/\ DOMAIN counters' = Components
       /\ \A d \in Components : counters'[d] \in [0 .. Size(d) - 1 -> 0 .. CounterMax])
        => CountersTyped'
  BY <1>1, <1>2 DEF CountersTyped
<1>6. (DOMAIN shiftregs' = TwoLevels /\ \A d \in TwoLevels : shiftregs'[d] \in HistoriesOf(d))
        => ShiftsTyped'
  BY <1>1, <1>2 DEF ShiftsTyped
<1>7. (\A i \in DOMAIN flight' :
         /\ flight'[i].pc \in PCs
         /\ flight'[i].stack_recover_idx \in -1 .. config.retstack_size
         /\ RecordTyped(flight'[i].dir_update))
        => BranchesTyped'
  <2> HIDE DEF RecordTyped
  <2> QED BY <1>1, <1>4 DEF BranchesTyped, RecordTyped
<1>8. (/\ DOMAIN btb' = 0 .. config.btb_sets - 1
       /\ \A s \in DOMAIN btb' : SoundSet(config.btb_assoc, btb'[s]))
        => WaysInv'
  BY DEF WaysInv
<1> QED BY <1>5, <1>6, <1>7, <1>8

\* The branch e trains the tables.
LEMMA UpdateTables ==
  ASSUME config \in Configs, config' = config, CountersTyped, ShiftsTyped, WaysInv,
         NEW e, e.pc \in PCs, RecordTyped(e.dir_update), bpred_update(e)
  PROVE  CountersTyped' /\ ShiftsTyped' /\ WaysInv'
<1>1. CASE e.dir_update.ras \/ ~Stateful
  <2>1. counters' = counters /\ shiftregs' = shiftregs /\ btb' = btb
    BY <1>1 DEF bpred_update, tables
  <2> QED BY <2>1, TypedNext DEF CountersTyped, ShiftsTyped, WaysInv
<1>2. CASE ~(e.dir_update.ras \/ ~Stateful)
  <2>1. /\ counters' = Counted(e)
        /\ shiftregs' = (IF Cond(e.pc) THEN Shifted(e) ELSE shiftregs)
        /\ btb' = (IF Taken(e) THEN Entered(e) ELSE btb)
    BY <1>2 DEF bpred_update
  <2>2. CountersTyped'
    BY <2>1, CountedTyped, TypedNext
  <2>3. ShiftsTyped'
    <3>1. CASE Cond(e.pc)
      BY <2>1, <3>1, ShiftedTyped, TypedNext
    <3>2. CASE ~Cond(e.pc)
      BY <2>1, <3>2, TypedNext DEF ShiftsTyped
    <3> QED BY <3>1, <3>2
  <2>4. WaysInv'
    <3>1. CASE ~Taken(e)
      BY <2>1, <3>1, TypedNext DEF WaysInv
    <3>2. CASE Taken(e)
      <4> DEFINE n == config.btb_assoc
      <4> DEFINE s == BTBSet(e.pc)
      <4> DEFINE new == btb'
      <4>1. n \in Nat \ {0} /\ config.btb_sets \in Nat \ {0} /\ e.pc \in Nat \ {0}
        BY <1>2, Options
      <4>2. new = Entered(e)
        BY <2>1, <3>2
      <4> HIDE DEF n, new
      <4>3. /\ s \in DOMAIN btb /\ DOMAIN new = DOMAIN btb
            /\ \A x \in DOMAIN btb : x # s => new[x] = btb[x]
            /\ \E f, m, k : /\ ListedBy(n, btb[s], f, m)
                            /\ Enters(n, btb[s], f, m, k, e.pc)
                            /\ EnteredAt(n, btb[s], f, k, e.pc, new[s])
        <5>1. n = config.btb_assoc
          BY DEF n
        <5> HIDE DEF s
        <5> QED BY <4>1, <4>2, <5>1, EnteredSet DEF s
      <4>4. SoundSet(n, new[s])
        <5> DEFINE set == btb[s]
        <5> DEFINE set2 == new[s]
        <5>1. PICK f, m, k : /\ ListedBy(n, set, f, m)
                             /\ Enters(n, set, f, m, k, e.pc)
                             /\ EnteredAt(n, set, f, k, e.pc, set2)
          BY <4>3
        <5>2. OnceHeld(n, set)
          BY <4>3 DEF WaysInv, SoundSet, n
        <5> HIDE DEF set, set2
        <5>3. /\ ListedBy(n, set2, MovedUp(n, f, k), HeldAfter(n, m, k))
              /\ OnceHeld(n, set2)
          BY <4>1, <5>1, <5>2, EnteredList
        <5> QED BY <5>1, <5>3 DEF SoundSet, EnteredAt, set2
      <4>5. \A x \in DOMAIN new : SoundSet(n, new[x])
        BY <4>3, <4>4 DEF WaysInv, n
      <4>6. DOMAIN new = 0 .. config.btb_sets - 1
        BY <4>3 DEF WaysInv
      <4> QED BY <4>5, <4>6, TypedNext DEF new, n
    <3> QED BY <3>1, <3>2
  <2> QED BY <2>2, <2>3, <2>4
<1> QED BY <1>1, <1>2

\* Whatever is in flight after a step was there before, or has been fetched.
LEMMA FlightOrigin ==
  ASSUME PathInv, [Next]_vars, NEW k \in DOMAIN flight'
  PROVE  \/ \E j \in DOMAIN flight :
              /\ flight'[k].pc = flight[j].pc
              /\ flight'[k].stack_recover_idx = flight[j].stack_recover_idx
              /\ flight'[k].dir_update = flight[j].dir_update
         \/ \E pc \in PCs :
              /\ flight'[k].pc = pc /\ flight'[k].stack_recover_idx = RecoverIndex(pc)
              /\ flight'[k].dir_update = [DirUpdate(pc) EXCEPT !.ras = UsesRAS(pc)]
<1>1. ASSUME NEW pc \in PCs, NEW next_PC \in Outcomes(pc), ruu_fetch(pc, next_PC)
      PROVE  \/ (k \in DOMAIN flight /\ flight'[k] = flight[k])
             \/ /\ flight'[k].pc = pc /\ flight'[k].stack_recover_idx = RecoverIndex(pc)
                /\ flight'[k].dir_update = [DirUpdate(pc) EXCEPT !.ras = UsesRAS(pc)]
  <2>1. PICK n \in Nat :
           /\ DOMAIN flight = 1 .. n /\ DOMAIN flight' = 1 .. n + 1
           /\ \A i \in 1 .. n : flight'[i] = flight[i]
           /\ flight'[n + 1].pc = pc
           /\ flight'[n + 1].stack_recover_idx = RecoverIndex(pc)
           /\ flight'[n + 1].dir_update = [DirUpdate(pc) EXCEPT !.ras = UsesRAS(pc)]
    BY <1>1, FetchFlight
  <2> QED BY <2>1
<1>2. ASSUME NEW i \in DOMAIN flight, ruu_dispatch(i) \/ ruu_writeback(i)
      PROVE  \E j \in DOMAIN flight : flight'[k] = flight[j] \/ Same(flight[j], flight'[k])
  <2>1. CASE \/ ruu_dispatch(i) /\ Redirects(flight[i])
             \/ ruu_writeback(i) /\ flight[i].recover
    <3>1. /\ i \in Nat /\ DOMAIN flight' = 1 .. i
          /\ \A h \in 1 .. i - 1 : h \in DOMAIN flight /\ flight'[h] = flight[h]
          /\ Same(flight[i], flight'[i])
      BY <2>1, CutFlight
    <3> QED BY <3>1
  <2>2. CASE \/ ruu_dispatch(i) /\ ~Redirects(flight[i])
             \/ ruu_writeback(i) /\ ~flight[i].recover
    <3>1. /\ DOMAIN flight' = DOMAIN flight
          /\ \A h \in DOMAIN flight : h # i => flight'[h] = flight[h]
          /\ Same(flight[i], flight'[i])
      BY <2>2, KeepFlight
    <3> QED BY <3>1
  <2> QED BY <1>2, <2>1, <2>2
<1>3. CASE ruu_commit
  <2>1. PICK n \in Nat :
           /\ DOMAIN flight = 1 .. n /\ DOMAIN flight' = 1 .. n - 1
           /\ \A i \in 1 .. n - 1 : flight'[i] = flight[i + 1]
    BY <1>3, CommitFlight
  <2>2. k + 1 \in DOMAIN flight /\ flight'[k] = flight[k + 1]
    BY <2>1
  <2> QED BY <2>2
<1>4. CASE UNCHANGED vars
  BY <1>4 DEF vars
<1> QED BY <1>1, <1>2, <1>3, <1>4 DEF Next, Same

\* The tables change when a branch in flight trains them.
LEMMA TrainedBy ==
  ASSUME PathInv, [Next]_vars
  PROVE  \/ UNCHANGED tables
         \/ \E i \in DOMAIN flight : bpred_update(flight[i])
<1>1. CASE ruu_commit
  <2>1. 1 \in DOMAIN flight
    <3>1. PICK n \in Nat : DOMAIN flight = 1 .. n
      BY <1>1, CommitFlight
    <3>2. n # 0
      <4>1. flight # <<>>
        BY <1>1 DEF ruu_commit
      <4>2. PICK S : flight \in Seq(S)
        BY DEF PathInv, FlightTyped
      <4>3. 1 \in DOMAIN flight
        BY <4>1, <4>2, DropBranch
      <4> QED BY <3>1, <4>3
    <3> QED BY <3>1, <3>2
  <2> QED BY <1>1, <2>1 DEF ruu_commit, UpdateAt
<1> QED BY <1>1 DEF Next, vars, ruu_fetch, ruu_dispatch, ruu_writeback, UpdateAt

\* Every step keeps the tables.
LEMMA TablesStep ==
  PathInv /\ StackInv /\ TablesTyped /\ [Next]_vars => TablesTyped'
<1> SUFFICES ASSUME PathInv, StackInv, TablesTyped, [Next]_vars PROVE TablesTyped'
  OBVIOUS
<1>1. config' = config /\ config \in Configs
  BY DEF Next, vars, ruu_fetch, ruu_dispatch, ruu_writeback, ruu_commit, StackInv
<1>2. BranchesTyped'
  <2>1. ASSUME NEW pc \in PCs PROVE RecoverIndex(pc) \in -1 .. config.retstack_size
    BY <1>1, Options DEF RecoverIndex, TablesTyped
  <2>2. ASSUME NEW k \in DOMAIN flight'
        PROVE  /\ flight'[k].pc \in PCs
               /\ flight'[k].stack_recover_idx \in -1 .. config.retstack_size
               /\ RecordTyped(flight'[k].dir_update)
    <3>1. CASE \E j \in DOMAIN flight :
                 /\ flight'[k].pc = flight[j].pc
                 /\ flight'[k].stack_recover_idx = flight[j].stack_recover_idx
                 /\ flight'[k].dir_update = flight[j].dir_update
      BY <3>1 DEF TablesTyped, BranchesTyped
    <3>2. CASE \E pc \in PCs :
                 /\ flight'[k].pc = pc /\ flight'[k].stack_recover_idx = RecoverIndex(pc)
                 /\ flight'[k].dir_update = [DirUpdate(pc) EXCEPT !.ras = UsesRAS(pc)]
      BY <1>1, <2>1, <3>2, LookupRecord DEF TablesTyped
    <3> QED BY <3>1, <3>2, FlightOrigin
  <2> QED BY <1>1, <2>2, TypedNext
<1>3. tos' \in -1 .. config.retstack_size
  <2> DEFINE n == config.retstack_size
  <2>1. n \in Nat /\ tos \in -1 .. n
    BY <1>1, Options DEF TablesTyped
  <2>2. ASSUME NEW pc \in PCs, NEW next_PC \in Outcomes(pc), ruu_fetch(pc, next_PC)
        PROVE  tos' \in -1 .. n
    <3>1. CASE UsesRAS(pc)
      <4>1. tos' = Below(tos) /\ n # 0
        <5>1. NextTOS(pc) = Below(tos)
          <6>1. ~(UsesRAS(pc) /\ Pushes(pc))
            BY DEF UsesRAS, Pushes, IsReturn, IsCall
          <6> QED BY <3>1, <6>1 DEF NextTOS
        <5>2. n # 0
          BY <3>1 DEF UsesRAS
        <5> QED BY <2>2, <5>1, <5>2 DEF ruu_fetch
      <4>2. tos + n - 1 \in Int /\ n \in Nat \ {0}
        BY <2>1, <4>1
      <4> DEFINE x == tos + n - 1
      <4>3. tos' = x % n
        BY <4>1 DEF Below
      <4> HIDE DEF x
      <4>4. x % n \in 0 .. n - 1
        BY <4>2 DEF x
      <4> QED BY <2>1, <4>3, <4>4
    <3>2. CASE ~UsesRAS(pc) /\ Pushes(pc)
      <4>1. tos' = Above(tos) /\ n # 0
        <5>1. NextTOS(pc) = Above(tos)
          BY <3>2 DEF NextTOS
        <5>2. n # 0
          BY <3>2 DEF Pushes
        <5> QED BY <2>2, <5>1, <5>2 DEF ruu_fetch
      <4> DEFINE x == tos + 1
      <4>2. x \in Int /\ n \in Nat \ {0} /\ tos' = x % n
        BY <2>1, <4>1 DEF Above
      <4> HIDE DEF x
      <4>3. x % n \in 0 .. n - 1
        BY <4>2
      <4> QED BY <2>1, <4>2, <4>3
    <3>3. CASE ~UsesRAS(pc) /\ ~Pushes(pc)
      BY <2>1, <2>2, <3>3 DEF ruu_fetch, NextTOS
    <3> QED BY <3>1, <3>2, <3>3
  <2>3. ASSUME NEW i \in DOMAIN flight, ruu_writeback(i) PROVE tos' \in -1 .. n
    BY <2>1, <2>3 DEF ruu_writeback, bpred_recover, TablesTyped, BranchesTyped
  <2>4. CASE ruu_commit \/ UNCHANGED vars \/ \E i \in DOMAIN flight : ruu_dispatch(i)
    BY <2>1, <2>4 DEF ruu_commit, ruu_dispatch, vars, retstack
  <2> QED BY <2>2, <2>3, <2>4 DEF Next
<1>4. \/ UNCHANGED tables
      \/ \E i \in DOMAIN flight : bpred_update(flight[i])
  BY TrainedBy
<1>5. CountersTyped' /\ ShiftsTyped' /\ WaysInv' /\ entered' \in {0} \cup PCs
  <2>1. CASE UNCHANGED tables
    BY <1>1, <2>1, TypedNext DEF tables, TablesTyped, CountersTyped, ShiftsTyped, WaysInv
  <2>2. ASSUME NEW i \in DOMAIN flight, bpred_update(flight[i])
        PROVE  CountersTyped' /\ ShiftsTyped' /\ WaysInv' /\ entered' \in {0} \cup PCs
    <3>1. flight[i].pc \in PCs /\ RecordTyped(flight[i].dir_update)
      BY DEF TablesTyped, BranchesTyped
    <3>2. entered' \in {0} \cup PCs
      BY <2>2, <3>1 DEF bpred_update, tables, TablesTyped
    <3> QED BY <1>1, <2>2, <3>1, <3>2, UpdateTables DEF TablesTyped
  <2> QED BY <1>4, <2>1, <2>2
<1>6. PCs' = PCs
  BY <1>1 DEF PCs
<1> QED BY <1>1, <1>2, <1>3, <1>5, <1>6 DEF TablesTyped

\* The counters are weakly taken or not, the histories are empty and the ways of
\* every set are listed in the order of their numbers, with nothing in them.
LEMMA InitTables == Init => TablesTyped
<1> SUFFICES ASSUME Init PROVE TablesTyped
  OBVIOUS
<1> DEFINE n == config.btb_assoc
<1>1. /\ config \in Configs
      /\ counters = [d \in Components |-> [i \in 0 .. Size(d) - 1 |-> 1 + (i % 2)]]
      /\ shiftregs = [d \in TwoLevels |-> [i \in 0 .. Dir(d).l1size - 1 |-> 0]]
      /\ btb = [s \in 0 .. config.btb_sets - 1 |-> [w \in 0 .. n - 1 |->
                  [addr |-> 0, target |-> 0, prev |-> w - 1,
                   next |-> IF w = n - 1 THEN NoWay ELSE w + 1]]]
      /\ tos = config.retstack_size - 1 /\ flight = <<>> /\ entered = 0
  BY DEF Init, bpred_create
<1> HIDE DEF Init
<1>2. CountersTyped
  <2>1. ASSUME NEW d \in Components PROVE counters[d] \in [0 .. Size(d) - 1 -> 0 .. CounterMax]
    <3>1. ASSUME NEW i \in 0 .. Size(d) - 1 PROVE 1 + (i % 2) \in 0 .. CounterMax
      <4>1. Size(d) \in Nat
        BY <1>1, Options
      <4>2. i \in Nat
        BY <4>1
      <4>3. i % 2 \in {0, 1}
        BY <4>2
      <4> QED BY <4>3 DEF CounterMax
    <3> QED BY <1>1, <3>1
  <2> QED BY <1>1, <2>1 DEF CountersTyped
<1>3. ShiftsTyped
  <2>1. ASSUME NEW d \in TwoLevels PROVE shiftregs[d] \in HistoriesOf(d)
    <3>1. 2 ^ Dir(d).shift_width \in Nat \ {0}
      BY <1>1, Options
    <3> DEFINE p == 2 ^ Dir(d).shift_width
    <3>2. 0 \in 0 .. p - 1
      <4>1. p \in Nat \ {0}
        BY <3>1
      <4> HIDE DEF p
      <4> QED BY <4>1
    <3> HIDE DEF p
    <3>3. shiftregs[d] = [i \in 0 .. Dir(d).l1size - 1 |-> 0]
      BY <1>1
    <3>4. shiftregs[d] \in [0 .. Dir(d).l1size - 1 -> 0 .. p - 1]
      BY <3>2, <3>3
    <3> QED BY <3>4 DEF HistoriesOf, p
  <2> QED BY <1>1, <2>1 DEF ShiftsTyped
<1>4. BranchesTyped
  BY <1>1 DEF BranchesTyped
<1>5. tos \in -1 .. config.retstack_size
  BY <1>1, Options
<1>6. WaysInv
  <2> SUFFICES ASSUME NEW s \in 0 .. config.btb_sets - 1 PROVE SoundSet(n, btb[s])
    BY <1>1 DEF WaysInv
  <2> DEFINE W == 0 .. n - 1
  <2> DEFINE set == btb[s]
  <2> DEFINE f == [i \in W |-> i]
  <2> DEFINE nx(w) == IF w = n - 1 THEN NoWay ELSE w + 1
  <2>1. n \in Nat
    BY <1>1, Options
  <2>2. set = [w \in W |-> [addr |-> 0, target |-> 0, prev |-> w - 1, next |-> nx(w)]]
    BY <1>1
  <2> HIDE DEF n, set
  <2>3. IsWays(n, set)
    <3> DEFINE V == Int
    <3>1. \A w \in W : w - 1 \in V /\ nx(w) \in V /\ 0 \in V
      BY <2>1 DEF NoWay
    <3> HIDE DEF V, nx
    <3>2. \A w \in W : [addr |-> 0, target |-> 0, prev |-> w - 1, next |-> nx(w)] \in Entry(V)
      BY <3>1 DEF Entry
    <3>3. set \in [W -> Entry(V)]
      BY <2>2, <3>2
    <3> QED BY <3>3 DEF IsWays
  <2>4. IsList(n, f)
    BY DEF IsList
  <2>5. Thread(n, set, f)
    <3>1. ASSUME NEW i \in W
          PROVE  /\ set[f[i]].prev = IF i = 0 THEN NoWay ELSE f[i-1]
                 /\ set[f[i]].next = IF i = n-1 THEN NoWay ELSE f[i+1]
      <4>1. f[i] = i /\ (i # 0 => f[i-1] = i - 1) /\ (i # n-1 => f[i+1] = i + 1)
        BY <2>1
      <4>2. set[i].prev = i - 1 /\ set[i].next = nx(i)
        BY <2>2
      <4> QED BY <2>1, <4>1, <4>2 DEF NoWay
    <3> QED BY <3>1 DEF Thread
  <2>6. \A w \in W : set[w].addr = 0
    BY <2>2
  <2>7. FullTo(n, set, f, 0)
    <3>1. \A i \in W : set[f[i]].addr = 0 /\ ~(i < 0)
      BY <2>1, <2>6
    <3> QED BY <2>1, <3>1 DEF FullTo
  <2>8. OnceHeld(n, set)
    BY <2>6 DEF OnceHeld
  <2>9. ListedBy(n, set, f, 0)
    BY <2>4, <2>5, <2>7 DEF ListedBy
  <2> QED BY <2>3, <2>8, <2>9 DEF SoundSet, set
<1> QED BY <1>1, <1>2, <1>3, <1>4, <1>5, <1>6 DEF TablesTyped

\* What the tables hold.
LEMMA TypesKept ==
  ASSUME PathInv, config \in Configs, TablesTyped
  PROVE  TypeOK
<1>1. ASSUME NEW d \in Components, NEW i \in 0 .. Size(d) - 1
      PROVE  counters[d][i] \in 0 .. (IF config.class = "Comb" THEN 7 ELSE 3)
  BY DEF TablesTyped, CountersTyped, CounterMax
<1>2. ASSUME NEW d \in TwoLevels, NEW i \in DOMAIN shiftregs[d]
      PROVE  shiftregs[d][i] \in 0 .. 2 ^ Dir(d).shift_width - 1
  BY DEF TablesTyped, ShiftsTyped, HistoriesOf
<1>3. /\ tos \in -1 .. config.retstack_size /\ {spec_mode, lost_path} \subseteq BOOLEAN
      /\ entered \in {0} \cup PCs
  BY DEF TablesTyped, PathInv, FlightTyped
<1>4. ASSUME NEW i \in DOMAIN flight
      PROVE  /\ flight[i].dir_update.pdir1 \in Pointers /\ flight[i].dir_update.pdir2 \in Pointers
             /\ flight[i].pc \in PCs /\ flight[i].stage \in {"fetched", "dispatched", "done"}
  <2>1. PICK Value : flight[i] \in Branch(Value)
    BY DEF PathInv, FlightTyped, IsBranch
  <2>2. flight[i].stage \in {"fetched", "dispatched", "done"}
    BY <2>1 DEF Branch, Stages
  <2> QED BY <2>2 DEF TablesTyped, BranchesTyped, RecordTyped
<1> QED BY <1>1, <1>2, <1>3, <1>4 DEF TypeOK

\* The invariant of the tables, with what it rests on.
TablesInv == PathInv /\ StackInv /\ TablesTyped

\* The tables of the predictor are sound, whatever is in flight.
THEOREM Tables == Spec => []TablesInv
<1>1. Init => TablesTyped
  BY InitTables
<1>2. PathInv /\ StackInv /\ TablesTyped /\ [Next]_vars => TablesTyped'
  BY TablesStep
<1> QED BY <1>1, <1>2, Paths, Stacks, PTL DEF Spec, TablesInv

\* The counters stay in their range, the histories in their width and the top of
\* the return stack in the stack, the links of every set of the BTB are those of
\* a list of all its ways, and no branch has two entries: for every predictor.
THEOREM TablesAreSound == Spec => []TablesSound
<1>1. TablesInv => TablesSound
  BY TypesKept, SoundIsLinked DEF TablesInv, TablesSound, TablesTyped, StackInv
<1> QED BY <1>1, Tables, PTL

-----------------------------------------------------------------------------
(* The branches of a set, in the order in which they were taken last.      *)

HeldIn(n, set) == {w \in 0..n-1 : set[w].addr # 0}
FollowedBy(n, set) ==
  LET after[i \in 0..n-1] ==
        IF i = 0 THEN CHOOSE w \in 0..n-1 : set[w].prev = NoWay ELSE set[after[i-1]].next
  IN after
OrderIn(n, set) == [i \in 1..Cardinality(HeldIn(n, set)) |-> set[FollowedBy(n, set)[i-1]].addr]
Addresses(set, f, m) == [i \in 1..m |-> set[f[i-1]].addr]

\* The links lead through the list.
LEMMA FollowedIsList ==
  ASSUME NEW n \in Nat \ {0}, NEW set, NEW f, IsList(n, f), Thread(n, set, f)
  PROVE  \A i \in 0..n-1 : FollowedBy(n, set)[i] = f[i]
<1> DEFINE head == CHOOSE w \in 0..n-1 : set[w].prev = NoWay
<1> DEFINE Is(g) == g = [i \in 0..n-1 |-> IF i = 0 THEN head ELSE set[g[i-1]].next]
<1> DEFINE g == CHOOSE h : Is(h)
<1>1. FollowedBy(n, set) = g
  BY Zenon DEF FollowedBy
<1>2. head = f[0]
  BY ListEnds
<1> HIDE DEF head
<1>3. Is(f)
  <2>1. f = [i \in 0..n-1 |-> f[i]]
    BY DEF IsList
  <2>2. ASSUME NEW i \in 0..n-1 PROVE f[i] = IF i = 0 THEN head ELSE set[f[i-1]].next
    <3>1. CASE i = 0
      BY <1>2, <3>1
    <3>2. CASE i # 0
      <4>1. i - 1 \in 0..n-1 /\ i - 1 # n-1 /\ (i - 1) + 1 = i
        BY <3>2
      <4> QED BY <3>2, <4>1 DEF Thread
    <3> QED BY <3>1, <3>2
  <2> QED BY <2>1, <2>2
<1> HIDE DEF Is
<1>4. Is(g)
  BY <1>3
<1> HIDE DEF g
<1>5. \A i \in 0..n-1 : g[i] = IF i = 0 THEN head ELSE set[g[i-1]].next
  BY <1>4 DEF Is
<1>6. \A i \in 0..n-1 : f[i] = IF i = 0 THEN head ELSE set[f[i-1]].next
  BY <1>3 DEF Is
<1> DEFINE P == {i \in 0..n-1 : g[i] = f[i]}
<1>7. 0 \in P
  BY <1>5, <1>6
<1>8. ASSUME NEW i \in 1..n-1, i - 1 \in P PROVE i \in P
  <2>1. i \in 0..n-1 /\ i # 0 /\ g[i-1] = f[i-1]
    BY <1>8
  <2> QED BY <1>5, <1>6, <2>1
<1>9. n-1 \in Nat /\ P \in SUBSET (0..n-1)
  OBVIOUS
<1> HIDE DEF P
<1>10. P = 0..n-1
  <2> DEFINE N == n-1
  <2>1. N \in Nat /\ P \in SUBSET (0..N) /\ \A i \in 1..N : i - 1 \in P => i \in P
    BY <1>8, <1>9
  <2> HIDE DEF N
  <2>2. P = 0..N
    BY <1>7, <2>1, Iteration
  <2> QED BY <2>2 DEF N
<1> QED BY <1>1, <1>10 DEF P

\* And the order is that of the branches in the list.
LEMMA ListedOrder ==
  ASSUME NEW n \in Nat \ {0}, NEW set, NEW f, NEW m, ListedBy(n, set, f, m)
  PROVE  OrderIn(n, set) = Addresses(set, f, m)
<1>1. IsList(n, f) /\ Thread(n, set, f) /\ FullTo(n, set, f, m)
  BY DEF ListedBy
<1>2. m \in 0..n /\ \A i \in 0..n-1 : f[i] \in 0..n-1 /\ (set[f[i]].addr # 0 <=> i < m)
  BY <1>1 DEF FullTo, IsList
<1>3. \A i \in 1..m : i-1 \in 0..n-1 /\ i-1 < m
  BY <1>2
<1> DEFINE H == HeldIn(n, set)
<1>4. Cardinality(H) = m
  <2> DEFINE h == [i \in 1..m |-> f[i-1]]
  <2>1. ASSUME NEW i \in 1..m PROVE h[i] \in H
    BY <1>2, <1>3 DEF HeldIn
  <2>2. ASSUME NEW i \in 1..m, NEW j \in 1..m, h[i] = h[j] PROVE i = j
    <3>1. i - 1 \in 0..n-1 /\ j - 1 \in 0..n-1 /\ f[i-1] = f[j-1]
      BY <1>3, <2>2
    <3>2. i - 1 = j - 1
      BY <1>1, <3>1 DEF IsList
    <3> QED BY <1>2, <3>2
  <2>3. ASSUME NEW w \in H PROVE \E i \in 1..m : h[i] = w
    <3>1. w \in 0..n-1 /\ set[w].addr # 0
      BY DEF HeldIn
    <3>2. PICK j \in 0..n-1 : f[j] = w
      BY <1>1, <3>1 DEF IsList
    <3>3. j < m /\ j + 1 \in 1..m /\ (j + 1) - 1 = j
      BY <1>2, <3>1, <3>2
    <3> QED BY <3>2, <3>3
  <2>4. h \in [1..m -> H]
    BY <2>1
  <2> HIDE DEF h, H
  <2>5. h \in Bijection(1..m, H)
    BY <2>2, <2>3, <2>4 DEF Bijection, Injection, Surjection, IsInjective
  <2>6. ExistsBijection(1..m, H) /\ m \in Nat
    BY <1>2, <2>5 DEF ExistsBijection
  <2> QED BY <2>6, FS_CountingElements
<1>5. \A i \in 0..n-1 : FollowedBy(n, set)[i] = f[i]
  BY <1>1, FollowedIsList
<1> QED BY <1>3, <1>4, <1>5 DEF OrderIn, Addresses

\* The branch pc comes to the front of q, which holds at most n branches.
ToFront(n, q, pc, q2) ==
  LET rest == Buffer!RemoveFirst(q, pc)
  IN /\ q2 # <<>> /\ q2[1] = pc
     /\ q2 = SubSeq(<<pc>> \o rest, 1, IF Len(rest) + 1 < n THEN Len(rest) + 1 ELSE n)

\* A branch that is in the list once is taken out of it.
OnceAt(q, pc, j) ==
  j \in 1..Len(q) /\ q[j] = pc /\ \A i \in 1..Len(q) : q[i] = pc => i = j

LEMMA BranchTakenOut ==
  ASSUME NEW S, NEW q \in Seq(S), NEW pc, NEW j, OnceAt(q, pc, j)
  PROVE  Buffer!RemoveFirst(q, pc) \in Seq(S) /\ LessPlace(q, j, Buffer!RemoveFirst(q, pc))
<1>1. j \in 1..Len(q) /\ q[j] = pc /\ \A i \in 1..Len(q) : q[i] = pc => i = j
  BY DEF OnceAt
<1> DEFINE I == {i \in 1..Len(q) : q[i] = pc}
<1>2. I = {j} /\ DOMAIN q = 1..Len(q)
  BY <1>1, LenProperties
<1>3. Buffer!Min(I) = j
  BY <1>1, <1>2 DEF Buffer!Min
<1>4. Buffer!SelectInSeq(q, LAMBDA v : v = pc) = j
  BY <1>2, <1>3 DEF Buffer!SelectInSeq
<1>5. Buffer!RemoveFirst(q, pc) = Buffer!RemoveAt(q, j)
  BY <1>1, <1>2, <1>4 DEF Buffer!RemoveFirst
<1>6. Buffer!RemoveFirst(q, pc) = Cut(q, j)
  BY <1>5 DEF Buffer!RemoveAt, Cut
<1> QED BY <1>1, <1>6, PlaceCut

\* A branch that is not there is not taken out.
LEMMA BranchNotThere ==
  ASSUME NEW q, NEW pc, \A i \in 1..Len(q) : q[i] # pc
  PROVE  Buffer!RemoveFirst(q, pc) = q
BY DEF Buffer!RemoveFirst

\* A taken branch comes to the front of its set; if the set is full and the
\* branch is not there, the one taken longest ago gives way.
LEMMA EnteredOrder ==
  ASSUME NEW n \in Nat \ {0}, NEW set, NEW new, NEW f, NEW m, NEW k, NEW pc, pc # 0,
         ListedBy(n, set, f, m), OnceHeld(n, set),
         Enters(n, set, f, m, k, pc), EnteredAt(n, set, f, k, pc, new)
  PROVE  ToFront(n, OrderIn(n, set), pc, OrderIn(n, new))
<1> DEFINE W == 0..n-1
<1> DEFINE g == MovedUp(n, f, k)
<1> DEFINE m2 == HeldAfter(n, m, k)
<1> DEFINE q == Addresses(set, f, m)
<1> DEFINE q2 == Addresses(new, g, m2)
<1> DEFINE S == {set[w].addr : w \in W} \cup {pc}
<1>1. /\ OrderIn(n, set) = q /\ OrderIn(n, new) = q2
      /\ IsList(n, f) /\ k \in W /\ m \in 0..n
  <2>1. ListedBy(n, new, g, m2)
    BY EnteredList
  <2> HIDE DEF g, m2
  <2> QED BY <2>1, ListedOrder DEF ListedBy, FullTo, Enters
<1>2. \A i \in W : f[i] \in W
  BY <1>1 DEF IsList
<1>3. \A i, j \in W : f[i] = f[j] => i = j
  BY <1>1 DEF IsList
<1>4. \A w \in W : new[w].addr = IF w = f[k] THEN pc ELSE set[w].addr
  BY DEF EnteredAt
<1>5. \A i \in W : g[i] = IF i = 0 THEN f[k] ELSE IF i <= k THEN f[i-1] ELSE f[i]
  BY DEF MovedUp
<1>6. m2 = (IF k < m THEN m ELSE m + 1) /\ (k < m \/ k = n-1)
  BY DEF HeldAfter, Enters
<1>7. \A i \in 1..m : i - 1 \in W
  BY <1>1
<1>8. /\ q \in Seq(S) /\ Len(q) = m /\ m \in Nat
      /\ \A i \in 1..m : q[i] = set[f[i-1]].addr
  <2>1. \A i \in 1..m : set[f[i-1]].addr \in S
    BY <1>2, <1>7
  <2> HIDE DEF S
  <2> QED BY <1>1, <2>1 DEF Addresses
<1>9. \A i \in 1..m2 : q2[i] = new[g[i-1]].addr
  BY DEF Addresses
<1>10. m2 \in 1..n /\ q2 = [i \in 1..m2 |-> q2[i]]
  BY <1>1, <1>6 DEF Addresses
<1> HIDE DEF g, m2, q, q2
<1>11. ASSUME NEW i \in 1..m2
       PROVE  q2[i] = IF i = 1 THEN pc ELSE IF i <= k + 1 THEN q[i-1] ELSE q[i]
  <2>1. i - 1 \in W
    BY <1>10
  <2>2. CASE i = 1
    <3>1. i - 1 = 0
      BY <2>2
    <3> QED BY <1>1, <1>2, <1>4, <1>5, <1>9, <2>1, <2>2, <3>1
  <2>3. CASE i # 1 /\ i <= k + 1
    <3>1. i - 1 # 0 /\ i - 1 <= k /\ (i - 1) - 1 \in W /\ (i - 1) - 1 # k /\ i - 1 \in 1..m
      BY <1>1, <1>6, <1>10, <2>3
    <3>2. g[i-1] = f[(i-1)-1]
      BY <1>5, <2>1, <3>1
    <3>3. f[(i-1)-1] # f[k]
      BY <1>1, <1>3, <3>1
    <3>4. new[g[i-1]].addr = set[f[(i-1)-1]].addr
      BY <1>2, <1>4, <3>1, <3>2, <3>3
    <3> QED BY <1>8, <1>9, <2>3, <3>1, <3>4
  <2>4. CASE ~(i <= k + 1)
    <3>1. i - 1 # 0 /\ ~(i - 1 <= k) /\ i - 1 # k /\ i # 1 /\ i \in 1..m
      BY <1>1, <1>6, <1>10, <2>4
    <3>2. g[i-1] = f[i-1]
      BY <1>5, <2>1, <3>1
    <3>3. f[i-1] # f[k]
      BY <1>1, <1>3, <2>1, <3>1
    <3>4. new[g[i-1]].addr = set[f[i-1]].addr
      BY <1>2, <1>4, <2>1, <3>2, <3>3
    <3> QED BY <1>8, <1>9, <2>4, <3>1, <3>4
  <2> QED BY <2>2, <2>3, <2>4
<1> DEFINE u == Buffer!RemoveFirst(q, pc)
<1> DEFINE L == IF Len(u) + 1 < n THEN Len(u) + 1 ELSE n
<1>12. /\ u \in Seq(S) /\ L = m2 /\ m2 <= Len(u) + 1
       /\ \A i \in 2..m2 : q2[i] = u[i-1]
  <2>1. CASE k < m /\ set[f[k]].addr = pc
    <3> DEFINE j == k + 1
    <3>1. j \in 1..m /\ j - 1 = k
      BY <1>1, <2>1
    <3>2. q[j] = pc
      BY <1>8, <2>1, <3>1
    <3>3. ASSUME NEW i \in 1..m, q[i] = pc PROVE i = j
      <4>1. i - 1 \in W /\ f[i-1] \in W /\ f[k] \in W /\ set[f[i-1]].addr = set[f[k]].addr
        BY <1>1, <1>2, <1>7, <1>8, <2>1, <3>3
      <4>2. f[i-1] = f[k]
        BY <2>1, <4>1 DEF OnceHeld
      <4>3. i - 1 = k
        BY <1>1, <1>3, <4>1, <4>2
      <4> QED BY <4>3
    <3>4. OnceAt(q, pc, j)
      BY <1>8, <3>1, <3>2, <3>3 DEF OnceAt
    <3> HIDE DEF j, S
    <3>5. u \in Seq(S) /\ LessPlace(q, j, u)
      BY <1>8, <3>4, BranchTakenOut
    <3> HIDE DEF u
    <3>6. Len(u) = m - 1 /\ \A i \in 1..m - 1 : u[i] = IF i < k + 1 THEN q[i] ELSE q[i + 1]
      BY <1>8, <3>5 DEF LessPlace, j
    <3>7. m2 = m
      BY <1>6, <2>1
    <3>8. L = m
      BY <1>1, <3>6
    <3>9. ASSUME NEW i \in 2..m2 PROVE q2[i] = u[i-1]
      <4>1. i - 1 \in 1..m - 1 /\ i \in 1..m2 /\ i # 1 /\ (i - 1) + 1 = i
            /\ (i <= k + 1 <=> i - 1 < k + 1)
        BY <1>1, <3>7
      <4> QED BY <1>11, <3>6, <4>1
    <3> QED BY <1>8, <3>5, <3>6, <3>7, <3>8, <3>9
  <2>2. CASE k = n-1 /\ \A w \in W : set[w].addr # pc
    <3>1. \A i \in 1..Len(q) : q[i] # pc
      BY <1>2, <1>7, <1>8, <2>2
    <3>2. u = q
      BY <3>1, BranchNotThere
    <3> HIDE DEF u
    <3>3. L = m2 /\ m2 <= m + 1
      BY <1>1, <1>6, <1>8, <2>2, <3>2
    <3>4. ASSUME NEW i \in 2..m2 PROVE q2[i] = u[i-1]
      <4>1. i \in 1..m2 /\ i # 1 /\ i <= k + 1
        BY <1>10, <2>2
      <4> QED BY <1>11, <3>2, <4>1
    <3> QED BY <1>8, <3>2, <3>3, <3>4
  <2> QED BY <2>1, <2>2 DEF Enters
<1> HIDE DEF u, S
<1>13. Len(u) \in Nat /\ pc \in S
  BY <1>12, LenProperties DEF S
<1> DEFINE F == <<pc>> \o u
<1>14. /\ F \in Seq(S) /\ Len(F) = Len(u) + 1 /\ F[1] = pc
       /\ \A i \in 2..Len(u) + 1 : F[i] = u[i - 1]
  BY <1>12, <1>13, PutInFront
<1> HIDE DEF F, L
<1> DEFINE G == SubSeq(F, 1, m2)
<1>15. G \in Seq(S) /\ Len(G) = m2 /\ \A i \in 1..m2 : G[i] = F[i]
  <2>1. \A i \in 1..m2 : F[i] \in S
    BY <1>10, <1>12, <1>13, <1>14, ElementOfSeq
  <2>2. 1 \in Int /\ m2 \in Nat
    BY <1>10
  <2> QED BY <2>1, <2>2, SubSeqProperties
<1> HIDE DEF G
<1>16. ASSUME NEW i \in 1..m2 PROVE q2[i] = G[i]
  <2>1. CASE i = 1
    BY <1>11, <1>14, <1>15, <2>1
  <2>2. CASE i # 1
    <3>1. i \in 2..m2 /\ i \in 2..Len(u) + 1
      BY <1>10, <1>12, <1>13, <2>2
    <3> QED BY <1>12, <1>14, <1>15, <3>1
  <2> QED BY <2>1, <2>2
<1>17. q2 \in Seq(S) /\ Len(q2) = m2
  <2>1. \A i \in 1..m2 : q2[i] \in S
    BY <1>15, <1>16, ElementOfSeq
  <2>2. m2 \in Nat
    BY <1>10
  <2> QED BY <1>10, <2>1, <2>2
<1>18. q2 = G
  BY <1>15, <1>16, <1>17, SeqEqual
<1>19. q2 # <<>> /\ q2[1] = pc
  BY <1>10, <1>11, <1>17
<1> QED BY <1>1, <1>12, <1>18, <1>19 DEF ToFront, u, L, F, G

\* What every set remembers.
Recent == [s \in DOMAIN btb |-> OrderIn(config.btb_assoc, btb[s])]

\* The sets of the buffer are the orders of the sets of the BTB.
LEMMA RecentIsOrder ==
  /\ Recent = [s \in DOMAIN btb |-> Order(btb[s])]
  /\ Recent' = [s \in DOMAIN btb |-> Order(btb[s])]'
<1>1. Recent = [s \in DOMAIN btb |-> Order(btb[s])]
  BY DEF Recent, OrderIn, HeldIn, FollowedBy, Order, Held, After, Head_, BTBWays
<1>2. Recent' = [s \in DOMAIN btb |-> Order(btb[s])]'
  BY DEF Recent, OrderIn, HeldIn, FollowedBy, Order, Held, After, Head_, BTBWays
<1> QED BY <1>1, <1>2

\* Nothing is remembered at the start.
LEMMA InitBuffer == Init => Buffer!Init
<1> SUFFICES ASSUME Init PROVE Buffer!Init
  OBVIOUS
<1>1. /\ config \in Configs /\ \A s \in DOMAIN btb : \A w \in BTBWays : btb[s][w].addr = 0
      /\ entered = 0
  BY DEF Init, bpred_create, BTBWays
<1> HIDE DEF Init
<1>2. config.btb_assoc \in Nat
  BY <1>1, Options
<1>3. ASSUME NEW s \in DOMAIN btb PROVE Order(btb[s]) = <<>>
  <2> DEFINE n == config.btb_assoc
  <2>1. HeldIn(n, btb[s]) = {}
    BY <1>1 DEF HeldIn, BTBWays
  <2>2. Cardinality(HeldIn(n, btb[s])) = 0
    BY <2>1, FS_EmptySet
  <2>3. OrderIn(n, btb[s]) = <<>>
    BY <2>2 DEF OrderIn
  <2>4. OrderIn(n, btb[s]) = Order(btb[s])
    BY DEF OrderIn, HeldIn, FollowedBy, Order, Held, After, Head_, BTBWays
  <2> QED BY <2>3, <2>4
<1> QED BY <1>1, <1>2, <1>3 DEF Buffer!Init, LastTaken

\* The set of a branch that trains and was taken has that branch in front; the others
\* keep what they have.
LEMMA BufferStep == TablesInv /\ [Next]_vars => [Buffer!Next]_(Buffer!rvars)
<1> SUFFICES ASSUME TablesInv, [Next]_vars PROVE [Buffer!Next]_(Buffer!rvars)
  OBVIOUS
<1> DEFINE n == config.btb_assoc
<1>1. /\ config' = config /\ config \in Configs
      /\ TablesTyped /\ WaysInv
  BY DEF Next, vars, ruu_fetch, ruu_dispatch, ruu_writeback, ruu_commit, StackInv, TablesInv,
         TablesTyped
<1>2. ASSUME btb' = btb, entered' = entered PROVE [Buffer!Next]_(Buffer!rvars)
  <2>1. Recent' = Recent
    BY <1>1, <1>2 DEF Recent
  <2>2. LastTaken' = LastTaken
    BY <1>1, <1>2 DEF LastTaken, BTBSet
  <2> QED BY <1>1, <2>1, <2>2, RecentIsOrder DEF Buffer!rvars, LastTaken
<1>3. ASSUME NEW e, e.pc \in PCs, Stateful, btb' = Entered(e), entered' = e.pc
      PROVE  [Buffer!Next]_(Buffer!rvars)
  <2> DEFINE s == BTBSet(e.pc)
  <2> DEFINE new == btb'
  <2>1. /\ n \in Nat \ {0} /\ config.btb_sets \in Nat \ {0} /\ e.pc \in Nat \ {0}
        /\ n = config.btb_assoc
    BY <1>1, <1>3, Options
  <2> HIDE DEF n, new
  <2>2. /\ s \in DOMAIN btb /\ DOMAIN new = DOMAIN btb
        /\ \A x \in DOMAIN btb : x # s => new[x] = btb[x]
        /\ \E f, m, k : /\ ListedBy(n, btb[s], f, m)
                        /\ Enters(n, btb[s], f, m, k, e.pc)
                        /\ EnteredAt(n, btb[s], f, k, e.pc, new[s])
    <3>1. new = Entered(e)
      BY <1>3 DEF new
    <3> HIDE DEF s
    <3> QED BY <1>1, <2>1, <3>1, EnteredSet DEF s
  <2>3. ToFront(n, OrderIn(n, btb[s]), e.pc, OrderIn(n, new[s]))
    <3> DEFINE set == btb[s]
    <3> DEFINE set2 == new[s]
    <3>1. PICK f, m, k : /\ ListedBy(n, set, f, m)
                         /\ Enters(n, set, f, m, k, e.pc)
                         /\ EnteredAt(n, set, f, k, e.pc, set2)
      BY <2>2
    <3>2. OnceHeld(n, set)
      BY <1>1, <2>1, <2>2 DEF WaysInv, SoundSet
    <3> DEFINE pc == e.pc
    <3>3. pc # 0
      BY <2>1
    <3> HIDE DEF set, set2, pc
    <3>4. ToFront(n, OrderIn(n, set), pc, OrderIn(n, set2))
      BY <2>1, <3>1, <3>2, <3>3, EnteredOrder DEF pc
    <3> QED BY <3>4 DEF set, set2, pc
  <2> DEFINE recent == Recent
  <2> DEFINE recent2 == Recent'
  <2>4. recent = [x \in DOMAIN btb |-> OrderIn(n, btb[x])]
    BY <2>1 DEF Recent
  <2>5. recent2 = [x \in DOMAIN btb |-> OrderIn(n, new[x])]
    <3>1. recent2 = [x \in DOMAIN btb' |-> OrderIn(config'.btb_assoc, btb'[x])]
      BY DEF Recent
    <3> QED BY <1>1, <2>1, <2>2, <3>1 DEF new
  <2>6. s \in DOMAIN recent /\ recent2 = [recent EXCEPT ![s] = recent2[s]]
    BY <2>2, <2>4, <2>5
  <2>7. ToFront(n, recent[s], e.pc, recent2[s])
    BY <2>2, <2>3, <2>4, <2>5
  <2> DEFINE rest == Buffer!RemoveFirst(recent[s], e.pc)
  <2>8. /\ recent2[s] # <<>> /\ recent2[s][1] = e.pc
        /\ recent2[s] = SubSeq(<<e.pc>> \o rest, 1,
                               IF Len(rest) + 1 < n THEN Len(rest) + 1 ELSE n)
    BY <2>7 DEF ToFront
  <2>12. LastTaken' = <<s, e.pc>>
    BY <1>1, <1>3, <2>1 DEF LastTaken, BTBSet
  <2> HIDE DEF s, recent, recent2
  <2>9. /\ recent = [x \in DOMAIN btb |-> Order(btb[x])]
        /\ recent2 = [x \in DOMAIN btb |-> Order(btb[x])]'
    BY RecentIsOrder DEF recent, recent2
  <2>10. Buffer!TakenBranch(s, e.pc)
    BY <2>1, <2>6, <2>8, <2>9 DEF Buffer!TakenBranch, Buffer!Others
  <2>11. Buffer!Next
    BY <1>1, <2>6, <2>9, <2>10, <2>12 DEF Buffer!Next, LastTaken
  <2> QED BY <2>11
<1>4. \/ btb' = btb /\ entered' = entered
      \/ \E i \in DOMAIN flight :
           Stateful /\ btb' = Entered(flight[i]) /\ entered' = flight[i].pc
  <2>1. \/ UNCHANGED tables
        \/ \E i \in DOMAIN flight : bpred_update(flight[i])
    BY TrainedBy DEF TablesInv
  <2> QED BY <2>1 DEF tables, bpred_update
<1>5. \A i \in DOMAIN flight : flight[i].pc \in PCs
  BY <1>1 DEF TablesTyped, BranchesTyped
<1> QED BY <1>2, <1>3, <1>4, <1>5

\* Every set of the BTB remembers the branches taken last, in their order: a branch
\* that is taken and trains comes to the front of its set, replaces the one that was
\* taken longest ago when it is not there and the set is full, and nothing else moves
\* (bpred.c:809-863, 934-953), whatever wrong paths do to the branches in flight.
THEOREM RemembersTaken == Spec => TakenLast
<1>1. Init => Buffer!Init
  BY InitBuffer
<1>2. TablesInv /\ [Next]_vars => [Buffer!Next]_(Buffer!rvars)
  BY BufferStep
<1> QED BY <1>1, <1>2, Tables, PTL DEF Spec, TakenLast, Buffer!Spec
=============================================================================
