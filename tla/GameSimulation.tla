--------------------------- MODULE GameSimulation ---------------------------
(***************************************************************************)
(* src/game/gameSimulation.ts: the match of two players, played in ticks.  *)
(*                                                                         *)
(* Every call is synchronous, so an action is a whole call.  A call of     *)
(* processAction that returns false changes nothing and is no action.  The *)
(* arena is the line of the x coordinate; what y adds to the distance is   *)
(* left out.  The log of events, which the simulation only writes, is left *)
(* out too.                                                                *)
(***************************************************************************)
EXTENDS Integers, FiniteSets

CONSTANTS Player,     \* the keys of state.players
          Rank,       \* their insertion order
          ArenaSize, AttackRange, MaxMoveSpeed,
          FullHealth, AttackDamage, KillBonus, AttackCooldown,
          EventScore, \* score of an event that names no points
          MaxTick,    \* 600
          Delta,      \* moves that clients ask for
          Points,     \* what clients put for the points of an event, which nothing
                      \* checks: 0 where they put none
          Text,       \* a value that is no number, as points or as a score
          MaxClaims   \* bound of the model: score events

ASSUME PlayerAssumption ==
  \E a, b \in Player : a # b /\ Player = {a, b} /\ Rank[a] = 1 /\ Rank[b] = 2
ASSUME RuleAssumption ==
  /\ {FullHealth, AttackDamage, KillBonus, AttackCooldown, MaxTick} \subseteq Nat \ {0}
  /\ {ArenaSize, AttackRange, MaxMoveSpeed, EventScore, MaxClaims} \subseteq Nat
  /\ Delta \subseteq Int /\ Points \subseteq Int \cup {Text} /\ Text \notin Int

VARIABLES status, tick, x, health, score, alive,
          lastAttack, \* lastAttackTick, 0 for a player without an entry
          claimed,    \* history: the points that events gave to each player
          claims      \* counter of the bound: score events

claimVars == <<claimed, claims>>
bodyVars == <<x, health, score, alive, lastAttack, claimVars>>
vars == <<status, tick, bodyVars>>

Init ==
  /\ status = "waiting" /\ tick = 0
  /\ x \in [Player -> 0 .. ArenaSize]
  /\ health = [p \in Player |-> FullHealth]
  /\ score = [p \in Player |-> 0]
  /\ alive = [p \in Player |-> TRUE]
  /\ lastAttack = [p \in Player |-> 0]
  /\ claimed = [p \in Player |-> 0]
  /\ claims = 0

Least(a, b) == IF a <= b THEN a ELSE b
Most(a, b) == IF a >= b THEN a ELSE b

\* Math.max(low, Math.min(high, v))
Clamp(low, v, high) == Most(low, Least(high, v))

\* What is added to a text is appended to it, and a text stays one.
Plus(s, n) == IF s = Text \/ n = Text THEN Text ELSE s + n

Distance(p, q) == IF x[p] >= x[q] THEN x[p] - x[q] ELSE x[q] - x[p]
-----------------------------------------------------------------------------
Start == /\ status = "waiting"
         /\ status' = "active"
         /\ UNCHANGED <<tick, bodyVars>>

\* The server stops the match of a player who has left.
Stop == /\ status = "active"
        /\ status' = "finished"
        /\ UNCHANGED <<tick, bodyVars>>

\* Mutant of GameOver: the last tick is played beyond.
GameOverLate(t) == Cardinality({p \in Player : alive[p]}) <= 1 \/ t > MaxTick

\* checkGameEnd
GameOver(t) == Cardinality({p \in Player : alive[p]}) <= 1 \/ t >= MaxTick

\* The interval runs from start to stop.
Tick == /\ status = "active"
        /\ tick' = tick + 1
        /\ status' = IF GameOver(tick + 1) THEN "finished" ELSE "active"
        /\ UNCHANGED bodyVars

\* What processAction asks of every action.
MayAct(p) == alive[p] /\ status = "active"

Move(p, dx) ==
  /\ MayAct(p)
  /\ x' = [x EXCEPT ![p] = Clamp(0, @ + Clamp(-MaxMoveSpeed, dx, MaxMoveSpeed), ArenaSize)]
  /\ UNCHANGED <<status, tick, health, score, alive, lastAttack, claimVars>>

\* Mutant of MayAttack: a player may be his own target.
MayAttackSelf(p, q) ==
  /\ MayAct(p)
  /\ tick - lastAttack[p] >= AttackCooldown
  /\ alive[q]

MayAttack(p, q) ==
  /\ MayAct(p)
  /\ tick - lastAttack[p] >= AttackCooldown
  /\ q # p /\ alive[q]

Damaged(h) == Most(0, h - AttackDamage)

\* Mutants of Hit: the tick of the blow is not kept; a deadly blow scores the
\* bonus in place of the damage.
HitUntimed(p, q) ==
  LET left == Damaged(health[q]) IN
  /\ MayAttack(p, q) /\ Distance(p, q) <= AttackRange
  /\ health' = [health EXCEPT ![q] = left]
  /\ alive' = [alive EXCEPT ![q] = left > 0]
  /\ score' = [score EXCEPT ![p] =
                 Plus(@, AttackDamage + IF left > 0 THEN 0 ELSE KillBonus)]
  /\ UNCHANGED <<status, tick, x, lastAttack, claimVars>>

HitBonusOnly(p, q) ==
  LET left == Damaged(health[q]) IN
  /\ MayAttack(p, q) /\ Distance(p, q) <= AttackRange
  /\ health' = [health EXCEPT ![q] = left]
  /\ alive' = [alive EXCEPT ![q] = left > 0]
  /\ score' = [score EXCEPT ![p] = Plus(@, IF left > 0 THEN AttackDamage ELSE KillBonus)]
  /\ lastAttack' = [lastAttack EXCEPT ![p] = tick]
  /\ UNCHANGED <<status, tick, x, claimVars>>

\* An attack out of range is logged and changes nothing: it costs no cooldown.
Hit(p, q) ==
  LET left == Damaged(health[q]) IN
  /\ MayAttack(p, q) /\ Distance(p, q) <= AttackRange
  /\ health' = [health EXCEPT ![q] = left]
  /\ alive' = [alive EXCEPT ![q] = left > 0]
  /\ score' = [score EXCEPT ![p] =
                 Plus(@, AttackDamage + IF left > 0 THEN 0 ELSE KillBonus)]
  /\ lastAttack' = [lastAttack EXCEPT ![p] = tick]
  /\ UNCHANGED <<status, tick, x, claimVars>>

\* What the cast of points to a number lets through: 0 is falsy, and the rest
\* is added as it is.
Claim(points) == IF points = 0 THEN EventScore ELSE points

ScoreEvent(p, points) ==
  /\ MayAct(p) /\ claims < MaxClaims
  /\ score' = [score EXCEPT ![p] = Plus(@, Claim(points))]
  /\ claimed' = [claimed EXCEPT ![p] = Plus(@, Claim(points))]
  /\ claims' = claims + 1
  /\ UNCHANGED <<status, tick, x, health, alive, lastAttack>>
-----------------------------------------------------------------------------
\* JavaScript's comparison of two scores: false as soon as one of them is a
\* text that does not read as a number.  Two texts, which it compares by their
\* letters, are taken to be the same one.
Above(p, q) == score[p] # Text /\ score[q] # Text /\ score[p] > score[q]

\* The loops of getWinner and getLoser keep the first player unless the second
\* beats him.
Winner == CHOOSE p \in Player : \A q \in Player \ {p} :
            IF Rank[p] < Rank[q] THEN ~Above(q, p) ELSE Above(p, q)

\* Mutant of Loser: its loop keeps the last player of an even score.
LoserLast == CHOOSE p \in Player : \A q \in Player \ {p} :
               IF Rank[p] < Rank[q] THEN Above(q, p) ELSE ~Above(p, q)

Loser == CHOOSE p \in Player : \A q \in Player \ {p} :
           IF Rank[p] < Rank[q] THEN ~Above(p, q) ELSE Above(q, p)

Next ==
  \/ Start \/ Stop \/ Tick
  \/ \E p \in Player :
       \/ \E dx \in Delta : Move(p, dx)
       \/ \E q \in Player : Hit(p, q)
       \/ \E points \in Points : ScoreEvent(p, points)

Spec == Init /\ [][Next]_vars

\* The interval's timer fires as long as it is set.
LiveSpec == Spec /\ WF_vars(Start) /\ WF_vars(Tick)
-----------------------------------------------------------------------------
TypeOK ==
  /\ status \in {"waiting", "active", "finished"} /\ tick \in 0 .. MaxTick
  /\ x \in [Player -> 0 .. ArenaSize]
  /\ health \in [Player -> 0 .. FullHealth]
  /\ score \in [Player -> Int \cup {Text}]
  /\ alive \in [Player -> BOOLEAN]
  /\ lastAttack \in [Player -> 0 .. MaxTick]
  /\ claimed \in [Player -> Int \cup {Text}]
  /\ claims \in 0 .. MaxClaims

\* The cooldown bounds the damage over the whole match: a player has lost at
\* most one blow per full cooldown since the first tick, so that nobody can
\* fall before AttackCooldown ticks for each blow he stands.
DamageRate ==
  \A q \in Player :
    FullHealth - health[q] <= AttackDamage * (tick \div AttackCooldown)

\* A match always has a survivor: the two never kill each other, even in the
\* ticks between a deadly blow and the check that ends the match.
Survivor == \E p \in Player : alive[p]

\* Health and score tell one story: beside what events claimed, which may be
\* negative, a player has scored what his opponent lost, the bonus if he fell,
\* and at most what the last blow dealt beyond the health it met.
BlowsScored ==
  \A p, q \in Player : p # q =>
    /\ alive[q] <=> health[q] > 0
    /\ score[p] = Text <=> claimed[p] = Text
    /\ score[p] # Text =>
         LET lost == FullHealth - health[q]
             bonus == IF alive[q] THEN 0 ELSE KillBonus
             beyond == score[p] - claimed[p] - lost - bonus
         IN  beyond \in 0 .. IF alive[q] THEN 0 ELSE AttackDamage - 1

\* handleMatchEnd records a result when winner and loser differ: they do
\* unless no score is above the other, because the two are even or one is a
\* text, although both loops may keep the first player.
ResultUnlessEven ==
  (Winner = Loser) <=> \A p, q \in Player : ~Above(p, q)

\* The match ends, at the tick after a player fell or at the last tick and not
\* beyond it.
MatchEnds == <>(status = "finished" /\ tick <= MaxTick)
=============================================================================
