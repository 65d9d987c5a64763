-------------------------- MODULE LeaderboardProofs --------------------------
(***************************************************************************)
(* Proofs about Leaderboard, for any users, matches and job slots.         *)
(***************************************************************************)
EXTENDS Leaderboard, FiniteSetTheorems, TLAPS

\* What a snapshot is: a function on some of the users.
LEMMA SnapshotEntries ==
  ASSUME NEW S, IsSnapshot(S), NEW u \in DOMAIN S
  PROVE  u \in User /\ S[u].score \in Int /\ S[u].change \in Nat
BY DEF IsSnapshot

LEMMA TopSnapshot ==
  ASSUME TypeOK
  PROVE  IsSnapshot([u \in Top |-> [score |-> global[u], change |-> changes[u]]])
<1>1. Top \in SUBSET User
  BY DEF Top, TypeOK
<1>2. [u \in Top |-> [score |-> global[u], change |-> changes[u]]]
        \in [Top -> [score : Int, change : Nat]]
  BY <1>1 DEF TypeOK
<1> QED
  BY <1>1, <1>2 DEF IsSnapshot

LEMMA IdleSnapshot == IsSnapshot(Idle) /\ DOMAIN Idle = {}
BY DEF IsSnapshot, Idle

\* The types of Leaderboard hold in every behaviour.
LEMMA TypeInductive == TypeOK /\ [Next]_vars => TypeOK'
<1> SUFFICES ASSUME TypeOK, [Next]_vars PROVE TypeOK'
  OBVIOUS
<1> USE ScoreAssumption
<1>1. ASSUME NEW m \in Match PROVE /\ Player(m) \in User /\ Delta(m) \in Int
                                   /\ result[m].region \in Region
  BY DEF TypeOK, Player, Delta
<1>2. ASSUME NEW m \in Match, ScoreGlobal(m) PROVE TypeOK'
  BY <1>1, <1>2 DEF ScoreGlobal, Advance, TypeOK, Row, tableVars, Done
<1>3. ASSUME NEW m \in Match, ScoreRegional(m) PROVE TypeOK'
  <2>1. regional' \in [Region -> [User -> Int]]
    BY <1>1, <1>3 DEF ScoreRegional, TypeOK
  <2> QED
    BY <2>1, <1>3 DEF ScoreRegional, Advance, TypeOK, Row, tableVars, Done
<1>4. ASSUME NEW m \in Match, CountResult(m) PROVE TypeOK'
  <2>1. \A u \in User : /\ [row[u] EXCEPT !.wins = @ + 1] \in Row
                         /\ [row[u] EXCEPT !.losses = @ + 1] \in Row
    <3> SUFFICES ASSUME NEW u \in User
                 PROVE  /\ [row[u] EXCEPT !.wins = @ + 1] \in Row
                        /\ [row[u] EXCEPT !.losses = @ + 1] \in Row
      OBVIOUS
    <3>1. row[u] \in Row
      BY DEF TypeOK
    <3> QED
      BY <3>1 DEF Row
  <2>2. \/ row' = [row EXCEPT ![Player(m)].wins = @ + 1]
        \/ row' = [row EXCEPT ![Player(m)].losses = @ + 1]
    BY <1>4 DEF CountResult
  <2>3. row \in [User -> Row] /\ Player(m) \in User
    BY <1>1 DEF TypeOK
  <2>4. row' \in [User -> Row]
    BY <2>1, <2>2, <2>3
  <2> QED
    BY <2>4, <1>4 DEF CountResult, Advance, TypeOK, redisVars, Done
<1>5. ASSUME NEW m \in Match, Rate(m) PROVE TypeOK'
  BY <1>1, <1>5 DEF Rate, Advance, TypeOK, Row, redisVars, Done
<1>6. ASSUME NEW j \in Job, ReadTop(j) PROVE TypeOK'
  <2>1. snapshot' = [i \in Job |-> snapshot'[i]] /\ \A i \in Job : IsSnapshot(snapshot'[i])
    BY <1>6, TopSnapshot DEF ReadTop, TypeOK
  <2> QED
    BY <2>1, <1>6 DEF ReadTop, TypeOK, redisVars, tableVars
<1>7. ASSUME NEW j \in Job, Commit(j) PROVE TypeOK'
  <2>1. \A u \in DOMAIN snapshot[j] :
          snapshot[j][u].score \in Int /\ snapshot[j][u].change \in Nat
    BY SnapshotEntries DEF TypeOK
  <2>2. row' \in [User -> Row]
    <3>1. row \in [User -> Row]
      BY DEF TypeOK
    <3>2. ASSUME NEW u \in User, u \in DOMAIN snapshot[j]
          PROVE  [row[u] EXCEPT !.score = snapshot[j][u].score] \in Row
      <4>1. row[u] \in Row /\ snapshot[j][u].score \in Int
        BY <2>1, <3>1, <3>2
      <4> QED
        BY <4>1 DEF Row
    <3> QED
      BY <3>1, <3>2, <1>7 DEF Commit
  <2>3. persisted' \in [User -> Nat]
    BY <2>1, <1>7 DEF Commit, TypeOK
  <2>4. snapshot' = [i \in Job |-> snapshot'[i]] /\ \A i \in Job : IsSnapshot(snapshot'[i])
    BY <1>7, IdleSnapshot DEF Commit, TypeOK
  <2> QED
    BY <2>2, <2>3, <2>4, <1>7 DEF Commit, TypeOK, redisVars
<1>8. ASSUME NEW j \in Job, Rollback(j) PROVE TypeOK'
  <2>1. snapshot' = [i \in Job |-> snapshot'[i]] /\ \A i \in Job : IsSnapshot(snapshot'[i])
    BY <1>8, IdleSnapshot DEF Rollback, TypeOK
  <2> QED
    BY <2>1, <1>8 DEF Rollback, TypeOK, redisVars, tableVars
<1>9. CASE UNCHANGED vars
  BY <1>9 DEF vars, redisVars, tableVars, TypeOK
<1> QED
  BY <1>2, <1>3, <1>4, <1>5, <1>6, <1>7, <1>8, <1>9 DEF Next, RecordStep, JobStep

LEMMA TypeInitial == Init => TypeOK
  BY IdleSnapshot DEF Init, TypeOK, Row, Done

\* TypeOK for any constants.
THEOREM TypeCorrect == Spec => []TypeOK
<1> QED
  BY TypeInitial, TypeInductive, PTL DEF Spec

-----------------------------------------------------------------------------
\* One job at a time, with a snapshot no older than the table and no newer than
\* Redis.
IInv ==
  /\ TypeOK
  /\ \A i, j \in Busy : i = j
  /\ \A u \in User : persisted[u] <= changes[u]
  /\ \A j \in Job : \A u \in DOMAIN snapshot[j] :
       persisted[u] <= snapshot[j][u].change /\ snapshot[j][u].change <= changes[u]

\* A slot that takes a snapshot is the only one that has one.
LEMMA ReadAlone ==
  ASSUME NEW j \in Job, ReadTop(j)
  PROVE Busy = {}
<1>1. IsFiniteSet(Busy)
  BY JobAssumption, FS_Subset DEF Busy
<1>2. Cardinality(Busy) = 0
  BY <1>1, FS_CardinalityType DEF ReadTop, Concurrency
<1> QED
  BY <1>1, <1>2, FS_EmptySet

\* IInv is inductive.
LEMMA IInvInductive == IInv /\ [Next]_vars => IInv'
<1> SUFFICES ASSUME IInv, [Next]_vars PROVE IInv'
  OBVIOUS
<1>0. TypeOK /\ TypeOK'
  BY TypeInductive DEF IInv
<1>1. ASSUME NEW m \in Match, RecordStep(m) PROVE IInv'
  <2>1. UNCHANGED <<snapshot, persisted>>
    BY <1>1 DEF RecordStep, ScoreGlobal, ScoreRegional, CountResult, Rate, tableVars
  <2>2. \A u \in User : changes[u] <= changes'[u]
    <3>1. CASE ScoreGlobal(m)
      BY <3>1, <1>0 DEF ScoreGlobal, TypeOK
    <3>2. CASE ~ScoreGlobal(m)
      BY <3>2, <1>1, <1>0
         DEF RecordStep, ScoreRegional, CountResult, Rate, redisVars, TypeOK
    <3> QED
      BY <3>1, <3>2
  <2>3. Busy' = Busy
    BY <2>1 DEF Busy
  <2>4. \A u \in User : persisted'[u] <= changes'[u]
    BY <2>1, <2>2, <1>0 DEF IInv, TypeOK
  <2>5. \A j \in Job : \A u \in DOMAIN snapshot[j] :
          /\ u \in User /\ snapshot[j][u].change \in Nat
          /\ persisted[u] <= snapshot[j][u].change /\ snapshot[j][u].change <= changes[u]
    BY <1>0, SnapshotEntries DEF IInv, TypeOK
  <2>6. \A j \in Job : \A u \in DOMAIN snapshot'[j] :
          /\ persisted'[u] <= snapshot'[j][u].change
          /\ snapshot'[j][u].change <= changes'[u]
    BY <2>1, <2>2, <2>5, <1>0 DEF TypeOK
  <2> QED
    BY <1>0, <2>3, <2>4, <2>6 DEF IInv
<1>2. ASSUME NEW j \in Job, ReadTop(j) PROVE IInv'
  <2>1. \A i \in Job : i # j => snapshot'[i] = snapshot[i]
    BY <1>0, <1>2 DEF ReadTop, TypeOK
  <2>2. \A i \in Busy' : i = j
    BY <2>1, ReadAlone, <1>2 DEF Busy
  <2>3. UNCHANGED <<changes, persisted>>
    BY <1>2 DEF ReadTop, redisVars, tableVars
  <2>4. \A u \in User : /\ persisted[u] <= changes[u]
                       /\ persisted[u] \in Nat /\ changes[u] \in Nat
    BY <1>0 DEF IInv, TypeOK
  <2>5. \A u \in DOMAIN snapshot'[j] :
          /\ persisted[u] <= snapshot'[j][u].change
          /\ snapshot'[j][u].change <= changes[u]
    <3>1. snapshot'[j] = [u \in Top |-> [score |-> global[u], change |-> changes[u]]]
      BY <1>0, <1>2 DEF ReadTop, TypeOK
    <3>2. Top \subseteq User
      BY <1>0 DEF Top, TypeOK
    <3> QED
      BY <2>4, <3>1, <3>2
  <2>6. \A i \in Job : \A u \in DOMAIN snapshot'[i] :
          /\ persisted'[u] <= snapshot'[i][u].change
          /\ snapshot'[i][u].change <= changes'[u]
    BY <2>1, <2>3, <2>5 DEF IInv
  <2>7. \A h, i \in Busy' : h = i
    BY <2>2
  <2> QED
    BY <1>0, <2>3, <2>6, <2>7 DEF IInv
<1>3. ASSUME NEW j \in Job, Commit(j) PROVE IInv'
  <2>1. \A i \in Job : DOMAIN snapshot'[i] = {}
    BY <1>0, <1>3, IdleSnapshot DEF Commit, IInv, Busy, TypeOK
  <2>2. Busy' \subseteq Busy
    BY <1>0, <1>3 DEF Commit, Busy, TypeOK
  <2>3. \A u \in User : persisted'[u] <= changes'[u]
    BY <1>3 DEF Commit, IInv, redisVars
  <2> QED
    BY <1>0, <2>1, <2>2, <2>3 DEF IInv
<1>4. ASSUME NEW j \in Job, Rollback(j) PROVE IInv'
  <2>1. \A i \in Job : snapshot'[i] = snapshot[i] \/ DOMAIN snapshot'[i] = {}
    BY <1>0, <1>4, IdleSnapshot DEF Rollback, TypeOK
  <2>2. Busy' \subseteq Busy
    BY <1>0, <1>4 DEF Rollback, Busy, TypeOK
  <2> QED
    BY <1>0, <1>4, <2>1, <2>2 DEF Rollback, IInv, redisVars, tableVars
<1>5. CASE UNCHANGED vars
  BY <1>0, <1>5 DEF IInv, Busy, vars, redisVars, tableVars
<1> QED
  BY <1>1, <1>2, <1>3, <1>4, <1>5 DEF Next, JobStep

LEMMA IInvInitial == Init => IInv
<1> SUFFICES ASSUME Init PROVE IInv
  OBVIOUS
<1>1. TypeOK
  BY TypeInitial
<1>2. \A j \in Job : snapshot[j] = Idle
  BY DEF Init
<1> QED
  BY <1>1, <1>2, IdleSnapshot DEF IInv, Init, Busy

\* NeverBack for any constants: syncs of the one worker put ever newer scores
\* into the table.
THEOREM TableNeverGoesBack == Spec => NeverBack
<1>1. IInv /\ [Next]_vars => [\A u \in User : persisted'[u] >= persisted[u]]_vars
  <2> SUFFICES ASSUME IInv, Next PROVE \A u \in User : persisted'[u] >= persisted[u]
    OBVIOUS
  <2>1. \A u \in User : persisted[u] \in Nat
    BY DEF IInv, TypeOK
  <2>2. ASSUME NEW j \in Job, Commit(j)
        PROVE \A u \in User : persisted'[u] >= persisted[u]
    <3>1. \A u \in DOMAIN snapshot[j] : snapshot[j][u].change \in Nat
      BY SnapshotEntries DEF IInv, TypeOK
    <3> QED
      BY <2>1, <2>2, <3>1 DEF Commit, IInv
  <2>3. CASE UNCHANGED persisted
    BY <2>1, <2>3
  <2> QED
    BY <2>2, <2>3
       DEF Next, RecordStep, JobStep, ScoreGlobal, ScoreRegional, CountResult, Rate,
           ReadTop, Rollback, tableVars
<1> QED
  BY <1>1, IInvInitial, IInvInductive, PTL DEF Spec, NeverBack
-----------------------------------------------------------------------------
(* The counts of the table *)

\* Matches whose win, or whose loss, the table has counted.
WinsIn(u) == {m \in Won(u) : step[m] > 5}
LossesIn(u) == {m \in Lost(u) : step[m] > 6}

Counted == \A u \in User : /\ row[u].wins = Cardinality(WinsIn(u))
                           /\ row[u].losses = Cardinality(LossesIn(u))

LEMMA CountedInit == Init => Counted
<1> SUFFICES ASSUME Init, NEW u \in User
             PROVE  /\ row[u].wins = Cardinality(WinsIn(u))
                    /\ row[u].losses = Cardinality(LossesIn(u))
  BY DEF Counted
<1>1. WinsIn(u) = {} /\ LossesIn(u) = {}
  BY DEF Init, WinsIn, LossesIn, Won, Lost
<1>2. row[u].wins = 0 /\ row[u].losses = 0
  BY DEF Init
<1> QED
  BY <1>1, <1>2, FS_EmptySet

\* A write counts a result when it makes the step past it, and only then.
LEMMA CountedStep == TypeOK /\ Counted /\ [Next]_vars => Counted'
<1> SUFFICES ASSUME TypeOK, Counted, [Next]_vars PROVE Counted'
  OBVIOUS
<1>1. \A u \in User : IsFiniteSet(WinsIn(u)) /\ IsFiniteSet(LossesIn(u))
  BY MatchAssumption, FS_Subset DEF WinsIn, LossesIn, Won, Lost
<1>2. row \in [User -> Row] /\ step \in [Match -> 1 .. Done]
  BY DEF TypeOK
<1>3. ASSUME UNCHANGED <<result, step>>,
             \A u \in User : /\ row'[u].wins = row[u].wins
                             /\ row'[u].losses = row[u].losses
      PROVE  Counted'
  BY <1>3 DEF Counted, WinsIn, LossesIn, Won, Lost
<1>4. ASSUME NEW m \in Match, ScoreGlobal(m) \/ ScoreRegional(m) \/ Rate(m)
      PROVE  Counted'
  <2>1. row' = row /\ result' = result /\ step[m] \notin {5, 6}
    BY <1>4 DEF ScoreGlobal, ScoreRegional, Rate, tableVars
  <2>2. \A n \in Match : step'[n] = IF n = m THEN step[n] + 1 ELSE step[n]
    BY <1>2, <1>4 DEF ScoreGlobal, ScoreRegional, Rate, Advance
  <2>3. \A n \in Match : /\ step'[n] > 5 <=> step[n] > 5
                         /\ step'[n] > 6 <=> step[n] > 6
    BY <1>2, <2>1, <2>2
  <2>4. \A u \in User : WinsIn(u)' = WinsIn(u) /\ LossesIn(u)' = LossesIn(u)
    BY <2>1, <2>3 DEF WinsIn, LossesIn, Won, Lost
  <2> QED
    BY <2>1, <2>4 DEF Counted
<1>5. ASSUME NEW m \in Match, CountResult(m) PROVE Counted'
  <2>1. /\ result' = result /\ step[m] \in {5, 6}
        /\ result[m].winner \in User /\ result[m].loser \in User
    BY <1>5 DEF CountResult, TypeOK
  <2>2. \A n \in Match : step'[n] = IF n = m THEN step[n] + 1 ELSE step[n]
    BY <1>2, <1>5 DEF CountResult, Advance
  <2>3. CASE step[m] = 5
    <3>1. \A u \in User : /\ row'[u].losses = row[u].losses
                          /\ row'[u].wins = IF u = result[m].winner
                                            THEN row[u].wins + 1 ELSE row[u].wins
      BY <1>2, <1>5, <2>1, <2>3 DEF CountResult, OfWinner, Player, Row
    <3>2. \A u \in User : LossesIn(u)' = LossesIn(u)
      BY <1>2, <2>1, <2>2, <2>3 DEF LossesIn, Lost
    <3>3. \A u \in User : u # result[m].winner => WinsIn(u)' = WinsIn(u)
      BY <1>2, <2>1, <2>2, <2>3 DEF WinsIn, Won
    <3>4. /\ WinsIn(result[m].winner)' = WinsIn(result[m].winner) \cup {m}
          /\ m \notin WinsIn(result[m].winner)
      BY <1>2, <2>1, <2>2, <2>3 DEF WinsIn, Won
    <3>5. Cardinality(WinsIn(result[m].winner)') = Cardinality(WinsIn(result[m].winner)) + 1
      BY <1>1, <2>1, <3>4, FS_AddElement
    <3> QED
      BY <2>1, <3>1, <3>2, <3>3, <3>5 DEF Counted
  <2>4. CASE step[m] = 6
    <3>1. \A u \in User : /\ row'[u].wins = row[u].wins
                          /\ row'[u].losses = IF u = result[m].loser
                                              THEN row[u].losses + 1 ELSE row[u].losses
      BY <1>2, <1>5, <2>1, <2>4 DEF CountResult, OfWinner, Player, Row
    <3>2. \A u \in User : WinsIn(u)' = WinsIn(u)
      BY <1>2, <2>1, <2>2, <2>4 DEF WinsIn, Won
    <3>3. \A u \in User : u # result[m].loser => LossesIn(u)' = LossesIn(u)
      BY <1>2, <2>1, <2>2, <2>4 DEF LossesIn, Lost
    <3>4. /\ LossesIn(result[m].loser)' = LossesIn(result[m].loser) \cup {m}
          /\ m \notin LossesIn(result[m].loser)
      BY <1>2, <2>1, <2>2, <2>4 DEF LossesIn, Lost
    <3>5. Cardinality(LossesIn(result[m].loser)') = Cardinality(LossesIn(result[m].loser)) + 1
      BY <1>1, <2>1, <3>4, FS_AddElement
    <3> QED
      BY <2>1, <3>1, <3>2, <3>3, <3>5 DEF Counted
  <2> QED
    BY <2>1, <2>3, <2>4
<1>6. ASSUME NEW j \in Job, JobStep(j) PROVE Counted'
  <2>1. UNCHANGED <<result, step>>
    BY <1>6 DEF JobStep, ReadTop, Commit, Rollback
  <2>2. CASE Commit(j)
    <3>1. \A u \in User : /\ row'[u].wins = row[u].wins
                          /\ row'[u].losses = row[u].losses
      BY <1>2, <2>2 DEF Commit, Row
    <3> QED
      BY <1>3, <2>1, <3>1
  <2>3. CASE ~Commit(j)
    BY <1>3, <1>6, <2>1, <2>3 DEF JobStep, ReadTop, Rollback, tableVars
  <2> QED
    BY <2>2, <2>3
<1>7. CASE UNCHANGED vars
  BY <1>3, <1>7 DEF vars, tableVars
<1> QED
  BY <1>4, <1>5, <1>6, <1>7 DEF Next, RecordStep

\* ResultsCounted for any constants: overlapping recordings and syncs neither
\* lose nor double a win or a loss in the table.
THEOREM EveryResultCounted == Spec => []ResultsCounted
<1>1. ASSUME TypeOK, Counted PROVE ResultsCounted
  <2>1. SUFFICES ASSUME NEW u \in User
        PROVE  /\ row[u].wins \in Cardinality({m \in Won(u) : step[m] = Done}) ..
                                    Cardinality({m \in Won(u) : step[m] > 4})
               /\ row[u].losses \in Cardinality({m \in Lost(u) : step[m] = Done}) ..
                                      Cardinality({m \in Lost(u) : step[m] > 4})
    BY DEF ResultsCounted
  <2>2. step \in [Match -> 1 .. Done]
    BY <1>1 DEF TypeOK
  <2>3. /\ {m \in Won(u) : step[m] = Done} \subseteq WinsIn(u)
        /\ WinsIn(u) \subseteq {m \in Won(u) : step[m] > 4}
    BY <2>2 DEF WinsIn, Won, Done
  <2>4. /\ {m \in Lost(u) : step[m] = Done} \subseteq LossesIn(u)
        /\ LossesIn(u) \subseteq {m \in Lost(u) : step[m] > 4}
    BY <2>2 DEF LossesIn, Lost, Done
  <2>5. IsFiniteSet({m \in Won(u) : step[m] > 4}) /\ IsFiniteSet({m \in Lost(u) : step[m] > 4})
    BY MatchAssumption, FS_Subset DEF Won, Lost
  <2>6. IsFiniteSet(WinsIn(u)) /\ IsFiniteSet(LossesIn(u))
    BY <2>3, <2>4, <2>5, FS_Subset
  <2>7. /\ Cardinality({m \in Won(u) : step[m] = Done}) <= Cardinality(WinsIn(u))
        /\ Cardinality(WinsIn(u)) <= Cardinality({m \in Won(u) : step[m] > 4})
    BY <2>3, <2>5, <2>6, FS_Subset
  <2>8. /\ Cardinality({m \in Lost(u) : step[m] = Done}) <= Cardinality(LossesIn(u))
        /\ Cardinality(LossesIn(u)) <= Cardinality({m \in Lost(u) : step[m] > 4})
    BY <2>4, <2>5, <2>6, FS_Subset
  <2>9. /\ IsFiniteSet({m \in Won(u) : step[m] = Done})
        /\ IsFiniteSet({m \in Lost(u) : step[m] = Done})
    BY <2>3, <2>4, <2>6, FS_Subset
  <2>10. /\ Cardinality({m \in Won(u) : step[m] = Done}) \in Nat
         /\ Cardinality({m \in Won(u) : step[m] > 4}) \in Nat
         /\ Cardinality({m \in Lost(u) : step[m] = Done}) \in Nat
         /\ Cardinality({m \in Lost(u) : step[m] > 4}) \in Nat
         /\ Cardinality(WinsIn(u)) \in Nat /\ Cardinality(LossesIn(u)) \in Nat
    BY <2>5, <2>6, <2>9, FS_CardinalityType
  <2>11. row[u].wins = Cardinality(WinsIn(u)) /\ row[u].losses = Cardinality(LossesIn(u))
    BY <1>1 DEF Counted
  <2> QED
    BY <2>7, <2>8, <2>10, <2>11
<1> QED
  BY <1>1, TypeInitial, TypeInductive, CountedInit, CountedStep, PTL DEF Spec
-----------------------------------------------------------------------------
(* The figures of the stores *)

\* What some matches give a player whose wins count past step i and whose
\* losses count past step j.
WonPast(u, M, i) == {m \in Won(u) \cap M : step[m] > i}
LostPast(u, M, j) == {m \in Lost(u) \cap M : step[m] > j}

Scored(u, M, i, j) ==
  WinScore * Cardinality(WonPast(u, M, i)) + LoseScore * Cardinality(LostPast(u, M, j))

\* Every store counts the matches that are past its own two steps.
Exact ==
  \A u \in User :
    /\ global[u] = Scored(u, Match, 1, 3)
    /\ rating[u] = Scored(u, Match, 7, 8)
    /\ \A r \in Region : regional[r][u] = Scored(u, Played(r), 2, 4)

LEMMA FinitePast ==
  ASSUME NEW u, NEW M, NEW i
  PROVE  /\ IsFiniteSet(WonPast(u, M, i)) /\ Cardinality(WonPast(u, M, i)) \in Nat
         /\ IsFiniteSet(LostPast(u, M, i)) /\ Cardinality(LostPast(u, M, i)) \in Nat
<1>1. WonPast(u, M, i) \subseteq Match /\ LostPast(u, M, i) \subseteq Match
  BY DEF WonPast, LostPast, Won, Lost
<1> QED
  BY <1>1, MatchAssumption, FS_Subset, FS_CardinalityType

LEMMA ScoredType ==
  ASSUME NEW u, NEW M, NEW i, NEW j
  PROVE  Scored(u, M, i, j) \in Int
BY FinitePast, ScoreAssumption DEF Scored

\* One more match counts once more.
LEMMA Product ==
  ASSUME NEW w \in Int, NEW c \in Nat
  PROVE  w * (c + 1) = w * c + w
OBVIOUS

\* A match that makes its step s adds a win to whom it is the step of, and a
\* loss likewise, and changes nobody else's figures.
LEMMA ScoredMoves ==
  ASSUME TypeOK, NEW m \in Match, result' = result, Advance(m), step[m] < Done,
         NEW u \in User, NEW M, M' = M, NEW i \in 1 .. 8, NEW j \in 1 .. 8
  PROVE  Scored(u, M, i, j)' = Scored(u, M, i, j)
           + (IF m \in M /\ result[m].winner = u /\ step[m] = i THEN WinScore ELSE 0)
           + (IF m \in M /\ result[m].loser = u /\ step[m] = j THEN LoseScore ELSE 0)
<1>1. /\ \A n \in Match : step'[n] = IF n = m THEN step[n] + 1 ELSE step[n]
      /\ \A n \in Match : step[n] \in Nat
  <2>1. step \in [Match -> 1 .. 9]
    BY DEF TypeOK, Done
  <2> QED
    BY <2>1 DEF Advance
<1> DEFINE won == IF m \in M /\ result[m].winner = u /\ step[m] = i THEN 1 ELSE 0
           lost == IF m \in M /\ result[m].loser = u /\ step[m] = j THEN 1 ELSE 0
<1>3. Cardinality(WonPast(u, M, i)') = Cardinality(WonPast(u, M, i)) + won
  <2>1. CASE m \in M /\ result[m].winner = u /\ step[m] = i
    <3>1. WonPast(u, M, i)' = WonPast(u, M, i) \cup {m} /\ m \notin WonPast(u, M, i)
      BY <1>1, <2>1 DEF WonPast, Won
    <3>2. Cardinality(WonPast(u, M, i) \cup {m}) = Cardinality(WonPast(u, M, i)) + 1
      BY <3>1, FinitePast, FS_AddElement
    <3> QED
      BY <2>1, <3>1, <3>2
  <2>2. CASE ~(m \in M /\ result[m].winner = u /\ step[m] = i)
    <3>1. WonPast(u, M, i)' = WonPast(u, M, i)
      BY <1>1, <2>2 DEF WonPast, Won
    <3> QED
      BY <2>2, <3>1, FinitePast
  <2> QED
    BY <2>1, <2>2
<1>4. Cardinality(LostPast(u, M, j)') = Cardinality(LostPast(u, M, j)) + lost
  <2>1. CASE m \in M /\ result[m].loser = u /\ step[m] = j
    <3>1. LostPast(u, M, j)' = LostPast(u, M, j) \cup {m} /\ m \notin LostPast(u, M, j)
      BY <1>1, <2>1 DEF LostPast, Lost
    <3>2. Cardinality(LostPast(u, M, j) \cup {m}) = Cardinality(LostPast(u, M, j)) + 1
      BY <3>1, FinitePast, FS_AddElement
    <3> QED
      BY <2>1, <3>1, <3>2
  <2>2. CASE ~(m \in M /\ result[m].loser = u /\ step[m] = j)
    <3>1. LostPast(u, M, j)' = LostPast(u, M, j)
      BY <1>1, <2>2 DEF LostPast, Lost
    <3> QED
      BY <2>2, <3>1, FinitePast
  <2> QED
    BY <2>1, <2>2
<1>5. /\ WinScore \in Int /\ LoseScore \in Int
      /\ Cardinality(WonPast(u, M, i)) \in Nat /\ Cardinality(LostPast(u, M, j)) \in Nat
  BY FinitePast, ScoreAssumption
<1>6. WinScore * Cardinality(WonPast(u, M, i)')
        = WinScore * Cardinality(WonPast(u, M, i)) + (IF won = 1 THEN WinScore ELSE 0)
  BY <1>3, <1>5, Product
<1>7. LoseScore * Cardinality(LostPast(u, M, j)')
        = LoseScore * Cardinality(LostPast(u, M, j)) + (IF lost = 1 THEN LoseScore ELSE 0)
  BY <1>4, <1>5, Product
<1> HIDE DEF won, lost
<1>8. Scored(u, M, i, j)' = Scored(u, M, i, j) + (IF won = 1 THEN WinScore ELSE 0)
                              + (IF lost = 1 THEN LoseScore ELSE 0)
  BY <1>5, <1>6, <1>7 DEF Scored
<1> QED
  BY <1>8 DEF won, lost

LEMMA ExactInit == Init => Exact
<1> SUFFICES ASSUME Init PROVE Exact
  OBVIOUS
<1>1. ASSUME NEW u, NEW M, NEW i \in 1 .. 8, NEW j \in 1 .. 8 PROVE Scored(u, M, i, j) = 0
  <2>1. WonPast(u, M, i) = {} /\ LostPast(u, M, j) = {}
    BY DEF Init, WonPast, LostPast, Won, Lost
  <2> QED
    BY <2>1, FS_EmptySet, ScoreAssumption DEF Scored
<1> QED
  BY <1>1 DEF Init, Exact

\* Each write moves the figure of its store, and no other.
LEMMA ExactStep == TypeOK /\ Exact /\ [Next]_vars => Exact'
<1> SUFFICES ASSUME TypeOK, Exact, [Next]_vars PROVE Exact'
  OBVIOUS
<1>0. /\ global \in [User -> Int] /\ rating \in [User -> Int]
      /\ regional \in [Region -> [User -> Int]]
      /\ WinScore \in Int /\ LoseScore \in Int
  BY ScoreAssumption DEF TypeOK
<1>1. ASSUME UNCHANGED <<global, rating, regional, result, step>> PROVE Exact'
  <2>1. \A u, M, i : WonPast(u, M, i)' = WonPast(u, M, i) /\ LostPast(u, M, i)' = LostPast(u, M, i)
    BY <1>1 DEF WonPast, LostPast, Won, Lost
  <2>2. \A u, M, i, j : Scored(u, M, i, j)' = Scored(u, M, i, j)
    BY <2>1 DEF Scored
  <2>3. \A r : Played(r)' = Played(r)
    BY <1>1 DEF Played
  <2> QED
    BY <1>1, <2>2, <2>3 DEF Exact
<1>2. ASSUME NEW m \in Match, RecordStep(m) PROVE Exact'
  <2>1. result' = result /\ Advance(m) /\ step[m] \in 1 .. 8 /\ step[m] < Done
    BY <1>2 DEF RecordStep, ScoreGlobal, ScoreRegional, CountResult, Rate, Done
  <2>2. /\ result[m].winner \in User /\ result[m].loser \in User
        /\ result[m].region \in Region
    BY DEF TypeOK
  <2> DEFINE Moved(u, i, j) ==
               (IF result[m].winner = u /\ step[m] = i THEN WinScore ELSE 0)
               + (IF result[m].loser = u /\ step[m] = j THEN LoseScore ELSE 0)
  <2>3. \A u \in User : /\ Scored(u, Match, 1, 3)' = Scored(u, Match, 1, 3) + Moved(u, 1, 3)
                        /\ Scored(u, Match, 7, 8)' = Scored(u, Match, 7, 8) + Moved(u, 7, 8)
    <3> SUFFICES ASSUME NEW u \in User, NEW i \in 1 .. 8, NEW j \in 1 .. 8
                 PROVE  Scored(u, Match, i, j)' = Scored(u, Match, i, j) + Moved(u, i, j)
      OBVIOUS
    <3>1. Scored(u, Match, i, j)' = Scored(u, Match, i, j)
            + (IF m \in Match /\ result[m].winner = u /\ step[m] = i THEN WinScore ELSE 0)
            + (IF m \in Match /\ result[m].loser = u /\ step[m] = j THEN LoseScore ELSE 0)
      BY <2>1, ScoredMoves
    <3>2. Scored(u, Match, i, j) \in Int
      BY ScoredType
    <3> QED
      BY <1>0, <3>1, <3>2
  <2>4. \A r \in Region, u \in User :
          Scored(u, Played(r), 2, 4)' = Scored(u, Played(r), 2, 4)
            + (IF result[m].region = r THEN Moved(u, 2, 4) ELSE 0)
    <3> SUFFICES ASSUME NEW r \in Region, NEW u \in User
                 PROVE  Scored(u, Played(r), 2, 4)' = Scored(u, Played(r), 2, 4)
                          + (IF result[m].region = r THEN Moved(u, 2, 4) ELSE 0)
      OBVIOUS
    <3>1. Played(r)' = Played(r) /\ (m \in Played(r) <=> result[m].region = r)
      BY <2>1 DEF Played
    <3>2. Scored(u, Played(r), 2, 4)' = Scored(u, Played(r), 2, 4)
            + (IF m \in Played(r) /\ result[m].winner = u /\ step[m] = 2 THEN WinScore ELSE 0)
            + (IF m \in Played(r) /\ result[m].loser = u /\ step[m] = 4 THEN LoseScore ELSE 0)
      BY <2>1, <3>1, ScoredMoves
    <3>3. Scored(u, Played(r), 2, 4) \in Int
      BY ScoredType
    <3> QED
      BY <1>0, <3>1, <3>2, <3>3
  <2> SUFFICES ASSUME NEW u \in User
               PROVE  /\ global'[u] = Scored(u, Match, 1, 3)'
                      /\ rating'[u] = Scored(u, Match, 7, 8)'
                      /\ \A r \in Region : regional'[r][u] = Scored(u, Played(r), 2, 4)'
    BY DEF Exact
  <2>5. /\ global[u] = Scored(u, Match, 1, 3) /\ rating[u] = Scored(u, Match, 7, 8)
        /\ \A r \in Region : regional[r][u] = Scored(u, Played(r), 2, 4)
    BY DEF Exact
  <2>6. /\ global'[u] = global[u] + Moved(u, 1, 3)
        /\ rating'[u] = rating[u] + Moved(u, 7, 8)
        /\ \A r \in Region : regional'[r][u]
             = regional[r][u] + (IF result[m].region = r THEN Moved(u, 2, 4) ELSE 0)
    <3>0. /\ global[u] \in Int /\ rating[u] \in Int
          /\ \A r \in Region : regional[r][u] \in Int
      BY <1>0
    <3>1. CASE ScoreGlobal(m)
      BY <1>0, <2>2, <3>0, <3>1 DEF ScoreGlobal, Player, OfWinner, Delta, tableVars
    <3>2. CASE ScoreRegional(m)
      <4>1. /\ Player(m) = IF step[m] = 2 THEN result[m].winner ELSE result[m].loser
            /\ Delta(m) = IF step[m] = 2 THEN WinScore ELSE LoseScore
            /\ step[m] \in {2, 4} /\ UNCHANGED <<global, rating>>
        BY <3>2 DEF ScoreRegional, Player, OfWinner, Delta, tableVars
      <4>2. \A r \in Region : regional'[r][u]
              = IF r = result[m].region /\ u = Player(m) THEN regional[r][u] + Delta(m)
                ELSE regional[r][u]
        BY <1>0, <2>2, <3>2, <4>1 DEF ScoreRegional
      <4>3. /\ global'[u] = global[u] /\ Moved(u, 1, 3) = 0 /\ Moved(u, 7, 8) = 0
            /\ rating'[u] = rating[u]
        BY <4>1
      <4>4. Moved(u, 2, 4) = IF u = Player(m) THEN Delta(m) ELSE 0
        BY <1>0, <4>1
      <4> HIDE DEF Moved
      <4> QED
        BY <3>0, <4>2, <4>3, <4>4
    <3>3. CASE CountResult(m)
      BY <1>0, <3>0, <3>3 DEF CountResult, redisVars
    <3>4. CASE Rate(m)
      BY <1>0, <2>2, <3>0, <3>4 DEF Rate, Player, OfWinner, Delta, redisVars
    <3> QED
      BY <1>2, <3>1, <3>2, <3>3, <3>4 DEF RecordStep
  <2> HIDE DEF Moved
  <2> QED
    BY <2>3, <2>4, <2>5, <2>6
<1>3. ASSUME NEW j \in Job, JobStep(j) PROVE Exact'
  BY <1>1, <1>3 DEF JobStep, ReadTop, Commit, Rollback, redisVars, tableVars
<1>4. CASE UNCHANGED vars
  BY <1>1, <1>4 DEF vars, redisVars, tableVars
<1> QED
  BY <1>2, <1>3, <1>4 DEF Next

\* More wins give no less, and more losses no more.
LEMMA Monotone ==
  ASSUME NEW w \in Int, NEW c \in Nat, NEW d \in Nat, c <= d
  PROVE  /\ w >= 0 => w * c <= w * d
         /\ w <= 0 => w * d <= w * c
<1>1. d - c \in Nat /\ w * d = w * c + w * (d - c)
  OBVIOUS
<1>2. w >= 0 => w * (d - c) >= 0
  BY <1>1
<1>3. w <= 0 => w * (d - c) <= 0
  BY <1>1
<1> QED
  BY <1>1, <1>2, <1>3

LEMMA ScoredBetween ==
  ASSUME TypeOK, NEW u \in User, NEW M, NEW i \in 1 .. 8, NEW j \in 1 .. 8
  PROVE  Scored(u, M, i, j) \in Least(u, M) .. Most(u, M)
<1> DEFINE wr == Won(u) \cap M \cap Recorded
           wb == Won(u) \cap M \cap Begun
           lr == Lost(u) \cap M \cap Recorded
           lb == Lost(u) \cap M \cap Begun
           w == WonPast(u, M, i)
           l == LostPast(u, M, j)
<1>1. wr \subseteq w /\ w \subseteq wb /\ lr \subseteq l /\ l \subseteq lb
  <2>1. \A m \in Match : step[m] \in 1 .. 9
    BY DEF TypeOK, Done
  <2> QED
    BY <2>1 DEF WonPast, LostPast, Won, Lost, Recorded, Begun, Done
<1>2. IsFiniteSet(wb) /\ IsFiniteSet(lb)
  BY MatchAssumption, FS_Subset DEF Won, Lost
<1>3. IsFiniteSet(w) /\ IsFiniteSet(l)
  BY FinitePast
<1>4. IsFiniteSet(wr) /\ IsFiniteSet(lr)
  BY <1>1, <1>3, FS_Subset
<1> HIDE DEF wr, wb, lr, lb, w, l
<1>5. /\ Cardinality(wr) <= Cardinality(w) /\ Cardinality(w) <= Cardinality(wb)
      /\ Cardinality(lr) <= Cardinality(l) /\ Cardinality(l) <= Cardinality(lb)
  BY <1>1, <1>2, <1>3, FS_Subset
<1>6. /\ Cardinality(wr) \in Nat /\ Cardinality(w) \in Nat /\ Cardinality(wb) \in Nat
      /\ Cardinality(lr) \in Nat /\ Cardinality(l) \in Nat /\ Cardinality(lb) \in Nat
  BY <1>2, <1>3, <1>4, FS_CardinalityType
<1>7. WinScore \in Int /\ WinScore >= 0 /\ LoseScore \in Int /\ LoseScore <= 0
  BY ScoreAssumption
<1>8. /\ WinScore * Cardinality(wr) <= WinScore * Cardinality(w)
      /\ WinScore * Cardinality(w) <= WinScore * Cardinality(wb)
      /\ LoseScore * Cardinality(lb) <= LoseScore * Cardinality(l)
      /\ LoseScore * Cardinality(l) <= LoseScore * Cardinality(lr)
  BY <1>5, <1>6, <1>7, Monotone
<1>9. /\ WinScore * Cardinality(wr) \in Int /\ WinScore * Cardinality(w) \in Int
      /\ WinScore * Cardinality(wb) \in Int /\ LoseScore * Cardinality(lr) \in Int
      /\ LoseScore * Cardinality(l) \in Int /\ LoseScore * Cardinality(lb) \in Int
  BY <1>6, <1>7
<1>10. /\ Scored(u, M, i, j) = WinScore * Cardinality(w) + LoseScore * Cardinality(l)
       /\ Least(u, M) = WinScore * Cardinality(wr) + LoseScore * Cardinality(lb)
       /\ Most(u, M) = WinScore * Cardinality(wb) + LoseScore * Cardinality(lr)
  BY DEF Scored, Least, Most, wr, wb, lr, lb, w, l
<1> QED
  BY <1>8, <1>9, <1>10

\* DriftBounded for any constants: the stores of a player's figures differ by
\* no more than his half-recorded matches, whatever the interleaving.
THEOREM DriftIsBounded == Spec => []DriftBounded
<1>1. ASSUME TypeOK, Counted, Exact PROVE DriftBounded
  <2> SUFFICES ASSUME NEW u \in User
               PROVE  /\ \A f \in Figures(u) : f \in Least(u, Match) .. Most(u, Match)
                      /\ \A r \in Region :
                           regional[r][u] \in Least(u, Played(r)) .. Most(u, Played(r))
    BY DEF DriftBounded
  <2>1. WonPast(u, Match, 5) = WinsIn(u) /\ LostPast(u, Match, 6) = LossesIn(u)
    BY DEF WonPast, LostPast, WinsIn, LossesIn, Won, Lost
  <2>2. WinScore * row[u].wins + LoseScore * row[u].losses = Scored(u, Match, 5, 6)
    BY <1>1, <2>1 DEF Counted, Scored
  <2>3. /\ \A f \in Figures(u) : \/ f = Scored(u, Match, 1, 3)
                                 \/ f = Scored(u, Match, 5, 6)
                                 \/ f = Scored(u, Match, 7, 8)
        /\ \A r \in Region : regional[r][u] = Scored(u, Played(r), 2, 4)
    BY <1>1, <2>2 DEF Figures, Exact
  <2> QED
    BY <1>1, <2>3, ScoredBetween
<1> QED
  BY <1>1, TypeInitial, TypeInductive, CountedInit, CountedStep, ExactInit, ExactStep,
     PTL DEF Spec
=============================================================================
