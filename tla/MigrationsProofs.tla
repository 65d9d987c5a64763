-------------------------- MODULE MigrationsProofs ---------------------------
(***************************************************************************)
(* Proofs about Migrations, for any processes, list and number of faults.  *)
(* The inductive invariant follows the one process that has the lock       *)
(* through the list.                                                       *)
(***************************************************************************)
EXTENDS Migrations, FiniteSetTheorems, TLAPS

\* What a process knows at its place.
Placed(p) ==
  /\ Working(p) => lock = p /\ 1 .. at[p] - 1 \subseteq recorded
  /\ pc[p] \in {"lock", "create"} => at[p] = 1
  /\ pc[p] \in {"run", "insert"} => at[p] \in Migration
  /\ pc[p] = "insert" => runs[at[p]] > 0
  /\ pc[p] \in {"finish", "serve"} => recorded = Migration

\* What holds of the database.
Sound == RecordedIsApplied /\ InOrder

IInv == TypeOK /\ Sound /\ \A p \in Process : Placed(p)

\* No process is at a place it did not reach by its own step.
LEMMA OthersStay ==
  ASSUME TypeOK, NEW p \in Process, Step(p) \/ Trouble(p), NEW q \in Process, q # p
  PROVE  pc'[q] = pc[q] /\ at'[q] = at[q]
BY DEF TypeOK, Step, Trouble, Goto, Start, Lock, CreateTable, Recorded, Unrecorded,
       RunSql, Record, UpToDate, Finish, LockTimesOut, QueryFails, GiveUp, Die

\* Rows stay, and what has run has run.
LEMMA HistoryStays ==
  ASSUME TypeOK, Next
  PROVE  /\ recorded \subseteq recorded'
         /\ \A i \in Migration : runs[i] > 0 => runs'[i] > 0
<1>1. recorded \subseteq recorded'
  BY DEF Next, Step, Trouble, database, Start, Lock, CreateTable, Recorded, Unrecorded,
         RunSql, Record, UpToDate, Finish, LockTimesOut, QueryFails, GiveUp, Die,
         SessionEnds
<1>2. ASSUME NEW p \in Process, RunSql(p)
      PROVE \A i \in Migration : runs[i] > 0 => runs'[i] > 0
  BY <1>2 DEF RunSql, TypeOK
<1>3. ASSUME NEW p \in Process, Step(p), ~RunSql(p) PROVE UNCHANGED runs
  BY <1>3 DEF Step, database, Start, Lock, CreateTable, Recorded, Unrecorded, Record,
              UpToDate, Finish
<1>4. ASSUME NEW p \in Process, Trouble(p) PROVE UNCHANGED runs
  BY <1>4 DEF Trouble, database, LockTimesOut, QueryFails, GiveUp, Die
<1>5. CASE SessionEnds
  BY <1>1, <1>5 DEF SessionEnds, database
<1> QED
  BY <1>1, <1>2, <1>3, <1>4, <1>5 DEF Next

\* A process keeps its lock while others step, and what it knows stays true.
LEMMA OthersPlaced ==
  ASSUME IInv, TypeOK', NEW p \in Process, Step(p) \/ Trouble(p),
         NEW q \in Process, q # p
  PROVE  Placed(q)'
<1>1. pc'[q] = pc[q] /\ at'[q] = at[q]
  BY OthersStay DEF IInv
<1>2. recorded \subseteq recorded' /\ \A i \in Migration : runs[i] > 0 => runs'[i] > 0
  BY HistoryStays DEF IInv, Next
<1>3. lock = q => lock' = q
  BY ProcessAssumption
     DEF Step, Trouble, Start, Lock, CreateTable, Recorded, Unrecorded, RunSql, Record,
         UpToDate, Finish, LockTimesOut, QueryFails, GiveUp, Die
<1>4. recorded = Migration => recorded' = Migration
  BY <1>2 DEF TypeOK
<1> QED
  BY <1>1, <1>2, <1>3, <1>4 DEF IInv, Placed, Working

\* Types are kept, given where the processes are.
LEMMA TypeInductive == IInv /\ [Next]_vars => TypeOK'
<1> SUFFICES ASSUME IInv, [Next]_vars PROVE TypeOK'
  OBVIOUS
<1>0. TypeOK
  BY DEF IInv
<1> USE <1>0, ProcessAssumption, BoundAssumption
    DEF TypeOK, Place, Migration, database, Goto
<1>1. ASSUME NEW p \in Process, Step(p) PROVE TypeOK'
  <2>1. CASE Start(p)
    BY <2>1 DEF Start
  <2>2. CASE Lock(p)
    BY <2>2 DEF Lock
  <2>3. CASE CreateTable(p)
    BY <2>3 DEF CreateTable
  <2>4. CASE Recorded(p)
    BY <2>4 DEF Recorded
  <2>5. CASE Unrecorded(p)
    BY <2>5 DEF Unrecorded
  <2>6. CASE RunSql(p)
    <3>1. at[p] \in 1 .. N
      BY <2>6 DEF RunSql, IInv, Placed
    <3>2. runs' \in [1 .. N -> Nat]
      BY <3>1, <2>6 DEF RunSql
    <3> QED
      BY <3>2, <2>6 DEF RunSql
  <2>7. CASE Record(p)
    <3>1. at[p] \in 1 .. N
      BY <2>7 DEF Record, IInv, Placed
    <3>2. at' \in [Process -> 1 .. N + 1]
      BY <3>1, <2>7 DEF Record
    <3>3. pc' \in [Process -> Place]
      BY <2>7 DEF Record
    <3> QED
      BY <3>1, <3>2, <3>3, <2>7 DEF Record
  <2>8. CASE UpToDate(p)
    BY <2>8 DEF UpToDate
  <2>9. CASE Finish(p)
    BY <2>9 DEF Finish
  <2> QED
    BY <1>1, <2>1, <2>2, <2>3, <2>4, <2>5, <2>6, <2>7, <2>8, <2>9 DEF Step
<1>2. ASSUME NEW p \in Process, Trouble(p) PROVE TypeOK'
  <2>1. CASE LockTimesOut(p)
    BY <2>1 DEF LockTimesOut
  <2>2. CASE QueryFails(p)
    BY <2>2 DEF QueryFails
  <2>3. CASE GiveUp(p)
    BY <2>3 DEF GiveUp
  <2>4. CASE Die(p)
    BY <2>4 DEF Die
  <2> QED
    BY <1>2, <2>1, <2>2, <2>3, <2>4 DEF Trouble
<1>3. CASE SessionEnds
  BY <1>3 DEF SessionEnds
<1>4. CASE UNCHANGED vars
  BY <1>4 DEF vars
<1> QED
  BY <1>1, <1>2, <1>3, <1>4 DEF Next

-----------------------------------------------------------------------------
\* The steps of a process of its own.
LEMMA OwnPlaced ==
  ASSUME IInv, TypeOK', NEW p \in Process, Step(p) \/ Trouble(p)
  PROVE  Placed(p)' /\ Sound'
<1>0. /\ TypeOK /\ Placed(p) /\ Sound /\ pc'[p] \in Place
      /\ at[p] \in 1 .. N + 1 /\ N \in Nat
  BY BoundAssumption DEF IInv, TypeOK
<1> USE DEF Goto, Working, Placed
<1>1. CASE Start(p)
  BY <1>0, <1>1 DEF Start, TypeOK, Sound, RecordedIsApplied, InOrder, Applied, database
<1>2. CASE Lock(p)
  BY <1>0, <1>2 DEF Lock, TypeOK, Sound, RecordedIsApplied, InOrder, Applied, database
<1>3. CASE CreateTable(p)
  BY <1>0, <1>3 DEF CreateTable, TypeOK, Sound, RecordedIsApplied, InOrder, Applied
<1>4. CASE Recorded(p)
  <2>1. 1 .. at'[p] - 1 \subseteq recorded
    BY <1>0, <1>4 DEF Recorded, TypeOK, Migration
  <2> QED
    BY <1>0, <1>4, <2>1
       DEF Recorded, TypeOK, Sound, RecordedIsApplied, InOrder, Applied, database
<1>5. CASE Unrecorded(p)
  BY <1>0, <1>5
     DEF Unrecorded, TypeOK, Sound, RecordedIsApplied, InOrder, Applied, database
<1>6. CASE RunSql(p)
  <2>1. at[p] \in Migration /\ 1 .. at[p] - 1 \subseteq Applied
    BY <1>0, <1>6 DEF RunSql, Sound, RecordedIsApplied
  <2>2. Applied' = Applied \cup {at[p]} /\ runs'[at[p]] > 0
    BY <1>0, <1>6, <2>1 DEF RunSql, Applied, TypeOK
  <2>3. InOrder'
    <3> SUFFICES ASSUME NEW j \in Applied' PROVE 1 .. j \subseteq Applied'
      BY DEF InOrder
    <3>1. CASE j \in Applied
      BY <1>0, <2>2, <3>1 DEF Sound, InOrder
    <3>2. CASE j = at[p]
      BY <1>0, <2>1, <2>2, <3>2
    <3> QED
      BY <2>2, <3>1, <3>2
  <2>4. RecordedIsApplied'
    BY <1>0, <1>6, <2>2 DEF RunSql, Sound, RecordedIsApplied
  <2>5. Placed(p)'
    BY <1>0, <1>6, <2>1, <2>2 DEF RunSql, TypeOK
  <2> QED
    BY <2>3, <2>4, <2>5 DEF Sound
<1>7. CASE Record(p)
  <2>1. at[p] \in Migration /\ at[p] \in Applied
    BY <1>0, <1>7 DEF Record, Applied
  <2>2. RecordedIsApplied' /\ InOrder'
    BY <1>0, <1>7, <2>1 DEF Record, Sound, RecordedIsApplied, InOrder, Applied
  <2>3. CASE at[p] \in recorded
    BY <1>0, <1>7, <2>2, <2>3 DEF Record, TypeOK, Sound
  <2>4. CASE at[p] \notin recorded
    <3>1. 1 .. at'[p] - 1 \subseteq recorded'
      BY <1>0, <1>7, <2>1, <2>4 DEF Record, TypeOK, Migration
    <3> QED
      BY <1>0, <1>7, <2>2, <2>4, <3>1 DEF Record, TypeOK, Sound
  <2> QED
    BY <2>3, <2>4
<1>8. CASE UpToDate(p)
  <2>1. 1 .. at[p] - 1 \subseteq recorded /\ at[p] = N + 1
    BY <1>0, <1>8 DEF UpToDate
  <2>2. Migration \subseteq recorded
    BY <1>0, <2>1 DEF Migration
  <2>3. recorded = Migration
    BY <1>0, <2>2 DEF TypeOK
  <2> QED
    BY <1>0, <1>8, <2>3
       DEF UpToDate, TypeOK, Sound, RecordedIsApplied, InOrder, Applied, database
<1>9. CASE Finish(p)
  BY <1>0, <1>9 DEF Finish, TypeOK, Sound, RecordedIsApplied, InOrder, Applied, database
<1>10. CASE Trouble(p)
  <2>1. pc'[p] \in {"giveUp", "down"} /\ UNCHANGED <<runs, recorded>>
    BY <1>0, <1>10
       DEF Trouble, LockTimesOut, QueryFails, GiveUp, Die, TypeOK, database
  <2> QED
    BY <1>0, <2>1 DEF Sound, RecordedIsApplied, InOrder, Applied
<1> QED
  BY <1>1, <1>2, <1>3, <1>4, <1>5, <1>6, <1>7, <1>8, <1>9, <1>10 DEF Step

\* IInv is inductive.
LEMMA IInvInductive == IInv /\ [Next]_vars => IInv'
<1> SUFFICES ASSUME IInv, [Next]_vars PROVE IInv'
  OBVIOUS
<1>1. TypeOK'
  BY TypeInductive
<1>2. ASSUME NEW p \in Process, Step(p) \/ Trouble(p) PROVE IInv'
  BY <1>1, <1>2, OwnPlaced, OthersPlaced DEF IInv
<1>3. CASE SessionEnds
  <2>1. \A p \in Process : lock # p
    BY <1>3, ProcessAssumption DEF SessionEnds
  <2>2. UNCHANGED <<pc, at, runs, recorded>>
    BY <1>3 DEF SessionEnds, database
  <2> QED
    BY <1>1, <2>1, <2>2
       DEF IInv, Placed, Working, Sound, RecordedIsApplied, InOrder, Applied
<1>4. CASE UNCHANGED vars
  BY <1>1, <1>4
     DEF vars, database, IInv, Placed, Working, Sound, RecordedIsApplied, InOrder, Applied
<1> QED
  BY <1>2, <1>3, <1>4 DEF Next

LEMMA IInvInitial == Init => IInv
<1> SUFFICES ASSUME Init PROVE IInv
  OBVIOUS
<1>1. TypeOK
  <2>1. 1 \in 1 .. N + 1 /\ faults \in 0 .. MaxFaults
    BY BoundAssumption DEF Init
  <2>2. pc \in [Process -> Place] /\ at \in [Process -> 1 .. N + 1]
    BY <2>1 DEF Init, Place
  <2>3. runs \in [Migration -> Nat]
    BY DEF Init
  <2> QED
    BY <2>1, <2>2, <2>3 DEF Init, TypeOK
<1>2. Applied = {}
  BY BoundAssumption DEF Init, Applied, Migration
<1>3. \A p \in Process : pc[p] = "down"
  BY DEF Init
<1> QED
  BY <1>1, <1>2, <1>3
     DEF Init, IInv, Placed, Working, Sound, RecordedIsApplied, InOrder

LEMMA IInvAlways == Spec => []IInv
BY IInvInitial, IInvInductive, PTL DEF Spec

\* TypeOK for any constants.
THEOREM TypeCorrect == Spec => []TypeOK
<1>1. IInv => TypeOK
  BY DEF IInv
<1> QED
  BY <1>1, IInvAlways, PTL

\* OneMigrates for any constants: whoever works has the lock.
THEOREM MigrationsExclude == Spec => []OneMigrates
<1>1. IInv => OneMigrates
  BY DEF IInv, Placed, OneMigrates
<1> QED
  BY <1>1, IInvAlways, PTL

\* RecordedIsApplied for any constants.
THEOREM RecordsAreTrue == Spec => []RecordedIsApplied
<1>1. IInv => RecordedIsApplied
  BY DEF IInv, Sound
<1> QED
  BY <1>1, IInvAlways, PTL

\* ServesMigrated for any constants.
THEOREM ServersAreMigrated == Spec => []ServesMigrated
<1>1. IInv => ServesMigrated
  BY DEF IInv, Placed, ServesMigrated
<1> QED
  BY <1>1, IInvAlways, PTL

\* InOrder for any constants.
THEOREM SchemaGrowsInOrder == Spec => []InOrder
<1>1. IInv => InOrder
  BY DEF IInv, Sound
<1> QED
  BY <1>1, IInvAlways, PTL
-----------------------------------------------------------------------------
(* Every run but the first one has its fault *)

\* Migrations whose SQL has run, without a row or a process about to insert it.
Dangling ==
  {i \in Applied \ recorded : \A p \in Process : ~(pc[p] = "insert" /\ at[p] = i)}

\* A fault between SQL and row pays for one further run, now or later.
Paid ==
  /\ IsFiniteSet(Reruns) /\ IsFiniteSet(Dangling)
  /\ Cardinality(Reruns) + Cardinality(Dangling) <= faults
  /\ \A p \in Process : pc[p] \in {"run", "insert"} => at[p] \notin recorded

LEMMA PaidInitial == Init => Paid
<1> SUFFICES ASSUME Init PROVE Paid
  OBVIOUS
<1>1. Reruns = {} /\ Dangling = {}
  BY DEF Init, Reruns, Dangling, Applied
<1> QED
  BY <1>1, FS_EmptySet DEF Init, Paid

\* When Reruns and Dangling stay as they are.
LEMMA PaidKept ==
  ASSUME IInv, Paid, UNCHANGED <<runs, recorded, faults>>,
         \A i \in Migration :
           (\E p \in Process : pc'[p] = "insert" /\ at'[p] = i)
             <=> (\E p \in Process : pc[p] = "insert" /\ at[p] = i),
         \A p \in Process : pc'[p] \in {"run", "insert"} => at'[p] \notin recorded
  PROVE  Paid'
<1>1. Reruns' = Reruns /\ Dangling' = Dangling
  BY DEF Reruns, Dangling, Applied
<1> QED
  BY <1>1 DEF Paid

\* RunSql turns the migration of a failed attempt into a rerun, if it is one.
LEMMA PaidRun ==
  ASSUME IInv, Paid, NEW p \in Process, RunSql(p)
  PROVE  Paid'
<1>1. /\ at[p] \in Migration /\ pc[p] = "run" /\ at[p] \notin recorded
      /\ runs \in [Migration -> Nat] /\ TypeOK
  BY DEF IInv, Placed, RunSql, Goto, Paid, TypeOK
<1>2. /\ \A q \in Process : pc'[q] = IF q = p THEN "insert" ELSE pc[q]
      /\ \A i \in Migration : runs'[i] = IF i = at[p] THEN runs[i] + 1 ELSE runs[i]
      /\ UNCHANGED <<at, recorded, faults>>
  BY <1>1 DEF RunSql, Goto, TypeOK
<1>3. \A q \in Process : pc[q] # "insert"
  BY <1>1 DEF IInv, Placed, Working
<1>4. \A q \in Process : pc'[q] \in {"run", "insert"} => at'[q] \notin recorded'
  BY <1>1, <1>2 DEF Paid
<1>5. Dangling = Applied \ recorded
  BY <1>3 DEF Dangling
<1>6. Applied' = Applied \cup {at[p]}
  BY <1>1, <1>2 DEF Applied
<1>7. Dangling' = Dangling \ {at[p]}
  <2>1. \A q \in Process : pc'[q] = "insert" => at'[q] = at[p]
    BY <1>2, <1>3
  <2> QED
    BY <1>1, <1>2, <1>5, <1>6, <2>1 DEF Dangling
<1>8. CASE runs[at[p]] = 0
  <2>1. at[p] \notin Dangling
    BY <1>8 DEF Dangling, Applied
  <2>2. \A i \in Migration : 2 .. runs'[i] = 2 .. runs[i]
    BY <1>1, <1>2, <1>8
  <2>3. Reruns' = Reruns
    BY <2>2 DEF Reruns
  <2>4. Dangling' = Dangling
    BY <1>7, <2>1
  <2> QED
    BY <1>2, <1>4, <2>3, <2>4 DEF Paid
<1>9. CASE runs[at[p]] # 0
  <2> DEFINE x == <<at[p], runs[at[p]] + 1>>
  <2>1. at[p] \in Dangling
    BY <1>1, <1>5, <1>9 DEF Applied
  <2>2. /\ 2 .. runs'[at[p]] = (2 .. runs[at[p]]) \cup {runs[at[p]] + 1}
        /\ \A i \in Migration : i # at[p] => 2 .. runs'[i] = 2 .. runs[i]
    <3>1. runs[at[p]] \in Nat \ {0} /\ runs'[at[p]] = runs[at[p]] + 1
      BY <1>1, <1>2, <1>9
    <3> QED
      BY <1>2, <3>1
  <2>3. Reruns' = Reruns \cup {x} /\ x \notin Reruns
    <3>1. \A y : y \in Reruns <=>
            \E i \in Migration : \E k \in 2 .. runs[i] : y = <<i, k>>
      BY DEF Reruns
    <3>2. \A y : y \in Reruns' <=>
            \E i \in Migration : \E k \in 2 .. runs'[i] : y = <<i, k>>
      BY DEF Reruns
    <3>3. x \notin Reruns
      <4>1. runs[at[p]] + 1 \notin 2 .. runs[at[p]]
        BY <1>1
      <4> QED
        BY <3>1, <4>1
    <3>4. \A y : y \in Reruns' <=> y \in Reruns \/ y = x
      BY <1>1, <2>2, <3>1, <3>2
    <3> QED
      BY <3>3, <3>4
  <2>4. /\ IsFiniteSet(Reruns') /\ IsFiniteSet(Dangling')
        /\ Cardinality(Reruns') = Cardinality(Reruns) + 1
        /\ Cardinality(Dangling') = Cardinality(Dangling) - 1
    BY <1>7, <2>1, <2>3, FS_AddElement, FS_RemoveElement DEF Paid
  <2>5. Cardinality(Reruns) \in Nat /\ Cardinality(Dangling) \in Nat /\ faults \in Nat
    BY FS_CardinalityType, BoundAssumption, <1>1 DEF Paid, TypeOK
  <2> QED
    BY <1>2, <1>4, <2>4, <2>5 DEF Paid
<1> QED
  BY <1>8, <1>9

\* The row takes a migration out of its process's hands and into the table.
LEMMA PaidRecord ==
  ASSUME IInv, Paid, NEW p \in Process, Record(p)
  PROVE  Paid'
<1>1. at[p] \in Migration /\ pc[p] = "insert" /\ at[p] \notin recorded /\ TypeOK
  BY DEF IInv, Placed, Record, Goto, Paid
<1>2. /\ \A q \in Process : pc'[q] = IF q = p THEN "check" ELSE pc[q]
      /\ recorded' = recorded \cup {at[p]} /\ UNCHANGED <<runs, faults>>
      /\ \A q \in Process : q # p => at'[q] = at[q]
  BY <1>1 DEF Record, Goto, TypeOK
<1>3. \A q \in Process : pc'[q] \notin {"run", "insert"}
  BY <1>1, <1>2 DEF IInv, Placed, Working
<1>4. \A q \in Process : q # p => pc[q] # "insert"
  BY <1>1 DEF IInv, Placed, Working
<1>5. Dangling' = Dangling /\ Reruns' = Reruns
  BY <1>1, <1>2, <1>3, <1>4 DEF Dangling, Applied, Reruns
<1> QED
  BY <1>2, <1>3, <1>5 DEF Paid

\* A fault leaves at most one migration without its row.
LEMMA PaidFault ==
  ASSUME IInv, Paid, NEW p \in Process, QueryFails(p) \/ Die(p)
  PROVE  Paid'
<1>1. /\ \A q \in Process : q # p => pc'[q] = pc[q]
      /\ pc'[p] \in {"giveUp", "down"} /\ faults' = faults + 1
      /\ UNCHANGED <<at, runs, recorded>>
  BY DEF QueryFails, Die, database, IInv, TypeOK
<1>2. Reruns' = Reruns /\ Applied' = Applied
  BY <1>1 DEF Reruns, Applied
<1>3. /\ IsFiniteSet(Dangling \cup {at[p]})
      /\ Cardinality(Dangling \cup {at[p]}) <= Cardinality(Dangling) + 1
  <2>1. IsFiniteSet(Dangling)
    BY DEF Paid
  <2>2. Cardinality(Dangling) \in Nat
    BY <2>1, FS_CardinalityType
  <2>3. /\ IsFiniteSet(Dangling \cup {at[p]})
        /\ Cardinality(Dangling \cup {at[p]}) =
             IF at[p] \in Dangling THEN Cardinality(Dangling) ELSE Cardinality(Dangling) + 1
    BY <2>1, FS_AddElement
  <2> QED
    BY <2>2, <2>3
<1>4. Dangling' \subseteq Dangling \cup {at[p]}
  <2> SUFFICES ASSUME NEW i \in Dangling', i # at[p] PROVE i \in Dangling
    OBVIOUS
  <2>1. i \in Applied \ recorded
    BY <1>1, <1>2 DEF Dangling
  <2>2. \A q \in Process : ~(pc[q] = "insert" /\ at[q] = i)
    BY <1>1 DEF Dangling
  <2> QED
    BY <2>1, <2>2 DEF Dangling
<1>5. IsFiniteSet(Dangling') /\ Cardinality(Dangling') <= Cardinality(Dangling \cup {at[p]})
  BY <1>3, <1>4, FS_Subset
<1>6. /\ Cardinality(Reruns) \in Nat /\ Cardinality(Dangling) \in Nat
      /\ Cardinality(Dangling') \in Nat /\ Cardinality(Dangling \cup {at[p]}) \in Nat
      /\ faults \in Nat
  BY <1>3, <1>5, FS_CardinalityType, BoundAssumption DEF Paid, IInv, TypeOK
<1>7. \A q \in Process : pc'[q] \in {"run", "insert"} => at'[q] \notin recorded'
  BY <1>1 DEF Paid
<1> QED
  BY <1>1, <1>2, <1>3, <1>5, <1>6, <1>7 DEF Paid

LEMMA PaidInductive == IInv /\ Paid /\ [Next]_vars => Paid'
<1> SUFFICES ASSUME IInv, Paid, [Next]_vars PROVE Paid'
  OBVIOUS
<1>0. TypeOK
  BY DEF IInv
<1>1. ASSUME NEW p \in Process, \/ Start(p) \/ Lock(p) \/ CreateTable(p) \/ Recorded(p)
                                \/ Unrecorded(p) \/ UpToDate(p) \/ Finish(p)
                                \/ LockTimesOut(p) \/ GiveUp(p)
      PROVE  Paid'
  <2>1. UNCHANGED <<runs, recorded, faults>>
    BY <1>1 DEF Start, Lock, CreateTable, Recorded, Unrecorded, UpToDate, Finish,
                LockTimesOut, GiveUp, database
  <2>2. pc[p] # "insert" /\ pc'[p] # "insert" /\ (pc'[p] = "run" => at'[p] \notin recorded)
    BY <1>0, <1>1 DEF Start, Lock, CreateTable, Recorded, Unrecorded, UpToDate, Finish,
                LockTimesOut, GiveUp, Goto, TypeOK
  <2>3. \A q \in Process : q # p => pc'[q] = pc[q] /\ at'[q] = at[q]
    BY <1>0, <1>1, OthersStay DEF Step, Trouble
  <2> QED
    BY <2>1, <2>2, <2>3, PaidKept DEF Paid
<1>2. CASE SessionEnds \/ UNCHANGED vars
  BY <1>2, PaidKept DEF SessionEnds, vars, database, Paid
<1> QED
  BY <1>1, <1>2, PaidRun, PaidRecord, PaidFault DEF Next, Step, Trouble

\* RunsExplained for any constants: no schedule, lock time-out or restart makes
\* a migration's SQL run twice without a fault that left it unrecorded.
THEOREM RerunsArePaid == Spec => []RunsExplained
<1>1. ASSUME IInv, Paid PROVE RunsExplained
  <2>1. Cardinality(Reruns) \in Nat /\ Cardinality(Dangling) \in Nat /\ faults \in Nat
    BY <1>1, FS_CardinalityType, BoundAssumption DEF Paid, IInv, TypeOK
  <2> QED
    BY <1>1, <2>1 DEF Paid, RunsExplained
<1> QED
  BY <1>1, IInvAlways, PaidInitial, PaidInductive, PTL DEF Spec
=============================================================================
