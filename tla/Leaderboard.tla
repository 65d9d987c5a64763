---------------------------- MODULE Leaderboard -----------------------------
(***************************************************************************)
(* src/leaderboard/leaderboardService.ts: the scores of the players in     *)
(* Redis, their records in PostgreSQL, and the job that copies scores from *)
(* the one to the other.                                                   *)
(*                                                                         *)
(* recordMatchResult is a row of awaited writes without a transaction, one *)
(* step each.  Nothing makes an execution take its next step: one whose    *)
(* query is refused or whose server dies stays where it is for good.  The  *)
(* names stored for display and the reading routes are left out.           *)
(***************************************************************************)
EXTENDS Integers, FiniteSets

CONSTANTS User,      \* user ids, in their order
          Region,
          Match,     \* executions of recordMatchResult
          Job,       \* slots of the worker service
          Limit,     \* players a sync copies, 1000
          WinScore,  \* 25
          LoseScore  \* -15

ASSUME UserAssumption == User \subseteq Nat
ASSUME JobAssumption == IsFiniteSet(Job)
ASSUME MatchAssumption == IsFiniteSet(Match)
ASSUME ScoreAssumption ==
  /\ WinScore \in Nat /\ LoseScore \in Int /\ LoseScore <= 0
  /\ Limit \in Nat \ {0}

VARIABLES global,    \* the scores of leaderboard:global
          ranked,    \* its members
          regional,  \* the scores of leaderboard:<region>
          row,       \* the rows of the table leaderboard
          rating,    \* users.rating, as the difference to the initial one
          result,    \* what each match reports
          step,      \* the write that each match does next
          snapshot,  \* what a running job has read; empty for an idle slot
          changes,   \* history: how often a player's global score has changed
          persisted  \* history: the change that his row's score comes from

redisVars == <<global, ranked, regional, changes>>
tableVars == <<row, rating, persisted>>
vars == <<redisVars, tableVars, result, step, snapshot>>

Done == 9
Idle == [u \in {} |-> 0]

\* signup has given every user a row and a rating, and nobody a score.
Init ==
  /\ global = [u \in User |-> 0]
  /\ ranked = {}
  /\ regional = [r \in Region |-> [u \in User |-> 0]]
  /\ row = [u \in User |-> [score |-> 0, wins |-> 0, losses |-> 0]]
  /\ rating = [u \in User |-> 0]
  /\ result \in [Match -> {r \in [winner : User, loser : User, region : Region] :
                             r.winner # r.loser}]
  /\ step = [m \in Match |-> 1]
  /\ snapshot = [j \in Job |-> Idle]
  /\ changes = [u \in User |-> 0]
  /\ persisted = [u \in User |-> 0]
-----------------------------------------------------------------------------
\* Steps 1 and 2 score the winner, 3 and 4 the loser; 5 and 6 count the result
\* of either; 7 and 8 rate either.
OfWinner(m) == step[m] \in {1, 2, 5, 7}
Player(m) == IF OfWinner(m) THEN result[m].winner ELSE result[m].loser
Delta(m) == IF OfWinner(m) THEN WinScore ELSE LoseScore
Advance(m) == step' = [step EXCEPT ![m] = @ + 1]

\* updateScore: ZINCRBY of the global key inserts a member that is not there.
ScoreGlobal(m) ==
  LET u == Player(m)
  IN /\ step[m] \in {1, 3}
     /\ global' = [global EXCEPT ![u] = @ + Delta(m)]
     /\ ranked' = ranked \cup {u}
     /\ changes' = [changes EXCEPT ![u] = @ + 1]
     /\ Advance(m)
     /\ UNCHANGED <<regional, tableVars, result, snapshot>>

\* Mutant of ScoreRegional: ZADD, which sets a score.
ScoreRegionalSet(m) ==
  /\ step[m] \in {2, 4}
  /\ regional' = [regional EXCEPT ![result[m].region][Player(m)] = Delta(m)]
  /\ Advance(m)
  /\ UNCHANGED <<global, ranked, changes, tableVars, result, snapshot>>

\* updateScore: ZINCRBY of the region's key.
ScoreRegional(m) ==
  /\ step[m] \in {2, 4}
  /\ regional' = [regional EXCEPT ![result[m].region][Player(m)] = @ + Delta(m)]
  /\ Advance(m)
  /\ UNCHANGED <<global, ranked, changes, tableVars, result, snapshot>>

\* Mutant of CountResult: both players are counted a win.
CountWins(m) ==
  /\ step[m] \in {5, 6}
  /\ row' = [row EXCEPT ![Player(m)].wins = @ + 1]
  /\ Advance(m)
  /\ UNCHANGED <<redisVars, rating, persisted, result, snapshot>>

CountResult(m) ==
  /\ step[m] \in {5, 6}
  /\ row' = IF OfWinner(m) THEN [row EXCEPT ![Player(m)].wins = @ + 1]
                           ELSE [row EXCEPT ![Player(m)].losses = @ + 1]
  /\ Advance(m)
  /\ UNCHANGED <<redisVars, rating, persisted, result, snapshot>>

Rate(m) ==
  /\ step[m] \in {7, 8}
  /\ rating' = [rating EXCEPT ![Player(m)] = @ + Delta(m)]
  /\ Advance(m)
  /\ UNCHANGED <<redisVars, row, persisted, result, snapshot>>
-----------------------------------------------------------------------------
\* ZREVRANGE goes from high scores to low, and among equals from the last id.
Above(u, v) == \/ global[u] > global[v]
               \/ global[u] = global[v] /\ u > v

\* Mutant of Top: the index of the last element taken for a length.
TopShort ==
  {u \in ranked : Cardinality({v \in ranked : Above(v, u)}) < Limit - 1}

\* getTopPlayers
Top == {u \in ranked : Cardinality({v \in ranked : Above(v, u)}) < Limit}

\* Mutant of Concurrency: that of the match-history worker.
ConcurrencyOfHistory == 5

\* Of the leaderboard worker, which is one process.
Concurrency == 1

Busy == {j \in Job : snapshot[j] # Idle}

\* persistLeaderboard reads; with nobody ranked it returns.
ReadTop(j) ==
  /\ snapshot[j] = Idle /\ Cardinality(Busy) < Concurrency
  /\ snapshot' = [snapshot EXCEPT ![j] =
                    [u \in Top |-> [score |-> global[u], change |-> changes[u]]]]
  /\ UNCHANGED <<redisVars, tableVars, result, step>>

\* The transaction's UPDATEs lock their rows until COMMIT, so that other
\* writers of a row come before or after all of them.
Commit(j) ==
  LET S == snapshot[j]
  IN /\ S # Idle
     /\ row' = [u \in User |->
          IF u \in DOMAIN S THEN [row[u] EXCEPT !.score = S[u].score] ELSE row[u]]
     /\ persisted' = [u \in User |->
          IF u \in DOMAIN S THEN S[u].change ELSE persisted[u]]
     /\ snapshot' = [snapshot EXCEPT ![j] = Idle]
     /\ UNCHANGED <<redisVars, rating, result, step>>

\* A query is refused, or the worker dies; the next repetition reads anew.
Rollback(j) ==
  /\ snapshot[j] # Idle
  /\ snapshot' = [snapshot EXCEPT ![j] = Idle]
  /\ UNCHANGED <<redisVars, tableVars, result, step>>

RecordStep(m) ==
  ScoreGlobal(m) \/ ScoreRegional(m) \/ CountResult(m) \/ Rate(m)

JobStep(j) == ReadTop(j) \/ Commit(j) \/ Rollback(j)

Next == (\E m \in Match : RecordStep(m)) \/ (\E j \in Job : JobStep(j))

Spec == Init /\ [][Next]_vars

\* The job repeats every five minutes, and does not fail for ever.
Fairness == /\ WF_vars(\E j \in Job : ReadTop(j))
            /\ SF_vars(\E j \in Job : Commit(j))

LiveSpec == Spec /\ Fairness
-----------------------------------------------------------------------------
Row == [score : Int, wins : Nat, losses : Nat]
IsSnapshot(s) == \E S \in SUBSET User : s \in [S -> [score : Int, change : Nat]]

\* Types of the variables; a match does eight writes and then none.
TypeOK ==
  /\ global \in [User -> Int] /\ ranked \subseteq User
  /\ regional \in [Region -> [User -> Int]]
  /\ row \in [User -> Row] /\ rating \in [User -> Int]
  /\ result \in [Match -> [winner : User, loser : User, region : Region]]
  /\ step \in [Match -> 1 .. Done]
  /\ changes \in [User -> Nat] /\ persisted \in [User -> Nat]
  /\ snapshot = [j \in Job |-> snapshot[j]] /\ \A j \in Job : IsSnapshot(snapshot[j])

Won(u) == {m \in Match : result[m].winner = u}
Lost(u) == {m \in Match : result[m].loser = u}
Played(r) == {m \in Match : result[m].region = r}
Begun == {m \in Match : step[m] > 1}
Recorded == {m \in Match : step[m] = Done}

\* The least and the most that a player can have from some matches: a win may
\* be scored when its match has begun and must be when it is recorded.
Least(u, M) == WinScore * Cardinality(Won(u) \cap M \cap Recorded)
                 + LoseScore * Cardinality(Lost(u) \cap M \cap Begun)
Most(u, M) == WinScore * Cardinality(Won(u) \cap M \cap Begun)
                + LoseScore * Cardinality(Lost(u) \cap M \cap Recorded)

\* What the stores say of a player's matches of all regions.
Figures(u) ==
  {global[u], WinScore * row[u].wins + LoseScore * row[u].losses, rating[u]}

\* The scores, counts and rating of a player are what his matches give, those
\* that are half recorded counted or not, and his score in a region is what
\* those of the region give: the stores agree when none is half recorded, and
\* no interleaving of two recordMatchResult, and no sync, loses or doubles a
\* write or puts it into another region.
DriftBounded ==
  \A u \in User :
    /\ \A f \in Figures(u) : f \in Least(u, Match) .. Most(u, Match)
    /\ \A r \in Region : regional[r][u] \in Least(u, Played(r)) .. Most(u, Played(r))

\* A win or loss is counted for every match recorded to the end, and for none
\* that has not yet scored its players.
ResultsCounted ==
  \A u \in User :
    /\ row[u].wins \in Cardinality({m \in Won(u) : step[m] = Done}) ..
                         Cardinality({m \in Won(u) : step[m] > 4})
    /\ row[u].losses \in Cardinality({m \in Lost(u) : step[m] = Done}) ..
                           Cardinality({m \in Lost(u) : step[m] > 4})

\* With the one worker, a sync never puts a score into the table that is older
\* than the one there, whatever the matches do between its read and its commit.
NeverBack == [][\A u \in User : persisted'[u] >= persisted[u]]_vars

\* Players whom fewer than Limit others can precede end up with the score in the
\* table that Redis has, however syncs failed and matches overlapped them.
Converges ==
  <>[](\A u \in ranked :
         Cardinality({v \in ranked \ {u} : global[v] >= global[u]}) < Limit
           => row[u].score = global[u])
=============================================================================
