------------------------ MODULE GameSimulationProofs ------------------------
(***************************************************************************)
(* Proofs about GameSimulation, for any arena, rules and moves.            *)
(***************************************************************************)
EXTENDS GameSimulation, FiniteSetTheorems, TLAPS

\* There are two players.
LEMMA Pair ==
  ASSUME NEW p \in Player, NEW q \in Player, p # q, NEW r \in Player
  PROVE  r = p \/ r = q
BY PlayerAssumption

LEMMA RuleTypes ==
  /\ FullHealth \in Nat \ {0} /\ AttackDamage \in Nat \ {0}
  /\ KillBonus \in Nat \ {0} /\ AttackCooldown \in Nat \ {0}
  /\ MaxTick \in Nat \ {0}
  /\ ArenaSize \in Nat /\ AttackRange \in Nat /\ MaxMoveSpeed \in Nat
  /\ EventScore \in Nat /\ MaxClaims \in Nat
  /\ Delta \subseteq Int /\ Points \subseteq Int \cup {Text} /\ Text \notin Int
BY RuleAssumption

\* The match is over before its ticks are used up.
InTime == status # "finished" => tick < MaxTick

LEMMA ClampBounds ==
  ASSUME NEW low \in Int, NEW high \in Int, low <= high, NEW v \in Int
  PROVE  Clamp(low, v, high) \in low .. high
BY DEF Clamp, Most, Least

LEMMA DamagedBounds ==
  ASSUME NEW h \in 0 .. FullHealth
  PROVE  /\ Damaged(h) \in 0 .. FullHealth
         /\ Damaged(h) >= h - AttackDamage
BY RuleTypes DEF Damaged, Most

LEMMA PlusType ==
  ASSUME NEW s \in Int \cup {Text}, NEW n \in Int \cup {Text}
  PROVE  Plus(s, n) \in Int \cup {Text}
BY RuleTypes DEF Plus

LEMMA TypeInit == Init => TypeOK /\ InTime
BY RuleTypes DEF Init, TypeOK, InTime

LEMMA TypeStep == TypeOK /\ InTime /\ [Next]_vars => TypeOK' /\ InTime'
<1> SUFFICES ASSUME TypeOK, InTime, [Next]_vars PROVE TypeOK' /\ InTime'
  OBVIOUS
<1> USE RuleTypes
<1>1. CASE Start
  BY <1>1 DEF Start, TypeOK, InTime, bodyVars, claimVars
<1>2. CASE Stop
  BY <1>2 DEF Stop, TypeOK, InTime, bodyVars, claimVars
<1>3. CASE Tick
  <2>1. GameOver(tick + 1) \in BOOLEAN /\ (~GameOver(tick + 1) => tick + 1 < MaxTick)
    BY DEF GameOver, TypeOK
  <2> QED
    BY <1>3, <2>1 DEF Tick, TypeOK, InTime, bodyVars, claimVars
<1>4. ASSUME NEW p \in Player, NEW dx \in Delta, Move(p, dx) PROVE TypeOK' /\ InTime'
  <2> DEFINE d == Clamp(-MaxMoveSpeed, dx, MaxMoveSpeed)
  <2>1. d \in Int
    <3>1. /\ dx \in Int /\ -MaxMoveSpeed \in Int /\ MaxMoveSpeed \in Int
          /\ -MaxMoveSpeed <= MaxMoveSpeed
      OBVIOUS
    <3>2. d \in -MaxMoveSpeed .. MaxMoveSpeed
      BY <3>1, ClampBounds
    <3> QED
      BY <3>1, <3>2
  <2> HIDE DEF d
  <2>2. Clamp(0, x[p] + d, ArenaSize) \in 0 .. ArenaSize
    <3>1. x[p] + d \in Int /\ 0 <= ArenaSize /\ 0 \in Int /\ ArenaSize \in Int
      BY <2>1 DEF TypeOK
    <3> QED
      BY <3>1, ClampBounds
  <2>3. x' = [x EXCEPT ![p] = Clamp(0, x[p] + d, ArenaSize)]
    BY <1>4 DEF Move, d, TypeOK
  <2> QED
    BY <1>4, <2>2, <2>3 DEF Move, TypeOK, InTime, claimVars
<1>5. ASSUME NEW p \in Player, NEW q \in Player, Hit(p, q) PROVE TypeOK' /\ InTime'
  <2>1. Damaged(health[q]) \in 0 .. FullHealth
    BY DamagedBounds DEF TypeOK
  <2>2. score' \in [Player -> Int \cup {Text}]
    <3>1. Plus(score[p], AttackDamage + IF Damaged(health[q]) > 0 THEN 0 ELSE KillBonus)
            \in Int \cup {Text}
      <4>1. AttackDamage + (IF Damaged(health[q]) > 0 THEN 0 ELSE KillBonus) \in Int
        BY RuleTypes
      <4>2. score[p] \in Int \cup {Text}
        BY DEF TypeOK
      <4> QED
        BY <4>1, <4>2, PlusType
    <3> QED
      BY <1>5, <3>1 DEF Hit, TypeOK
  <2> QED
    BY <1>5, <2>1, <2>2 DEF Hit, TypeOK, InTime, claimVars
<1>7. ASSUME NEW p \in Player, NEW points \in Points, ScoreEvent(p, points)
      PROVE  TypeOK' /\ InTime'
  <2>1. Claim(points) \in Int \cup {Text}
    BY DEF Claim
  <2>2. Plus(score[p], Claim(points)) \in Int \cup {Text}
    BY <2>1, PlusType DEF TypeOK
  <2>3. Plus(claimed[p], Claim(points)) \in Int \cup {Text}
    BY <2>1, PlusType DEF TypeOK
  <2> QED
    BY <1>7, <2>2, <2>3 DEF ScoreEvent, TypeOK, InTime
<1>8. CASE UNCHANGED vars
  BY <1>8 DEF vars, bodyVars, claimVars, TypeOK, InTime
<1> QED
  BY <1>1, <1>2, <1>3, <1>4, <1>5, <1>7, <1>8 DEF Next

\* The types of GameSimulation hold in every behaviour; no tick is beyond the
\* last one.
THEOREM TypeCorrect == Spec => [](TypeOK /\ InTime)
BY TypeInit, TypeStep, PTL DEF Spec
-----------------------------------------------------------------------------
\* A step either leaves health, score, lives, claims and blows alone, or adds
\* a claim to a score, or is a blow.
LEMMA Steps ==
  ASSUME TypeOK, [Next]_vars
  PROVE  \/ UNCHANGED <<health, score, alive, lastAttack, claimed>>
         \/ \E p \in Player, points \in Points : ScoreEvent(p, points)
         \/ \E p, q \in Player : Hit(p, q)
BY DEF Next, vars, bodyVars, claimVars, Start, Stop, Tick, Move

\* Nobody falls to a player who has fallen, nor to himself.
THEOREM SomeoneSurvives == Spec => []Survivor
<1>1. Init => Survivor
  BY PlayerAssumption DEF Init, Survivor
<1>2. TypeOK /\ Survivor /\ [Next]_vars => Survivor'
  <2> SUFFICES ASSUME TypeOK, Survivor, [Next]_vars PROVE Survivor'
    OBVIOUS
  <2>1. ASSUME NEW p \in Player, NEW q \in Player, Hit(p, q) PROVE Survivor'
    BY <2>1 DEF Hit, MayAttack, MayAct, Survivor, TypeOK
  <2> QED
    BY <2>1, Steps DEF Survivor, ScoreEvent
<1> QED
  BY <1>1, <1>2, TypeCorrect, PTL DEF Spec

\* What the score of p holds beside his claims and what q lost.
Beyond(p, q) ==
  score[p] - claimed[p] - (FullHealth - health[q]) - IF alive[q] THEN 0 ELSE KillBonus

\* BlowsScored for one pair.
Told(p, q) ==
  /\ alive[q] <=> health[q] > 0
  /\ score[p] = Text <=> claimed[p] = Text
  /\ score[p] # Text =>
       Beyond(p, q) \in 0 .. IF alive[q] THEN 0 ELSE AttackDamage - 1

LEMMA ToldIsBlowsScored ==
  /\ BlowsScored <=> \A p, q \in Player : p # q => Told(p, q)
  /\ BlowsScored' <=> \A p, q \in Player : p # q => Told(p, q)'
BY DEF BlowsScored, Told, Beyond

\* A claim is added to a score as it is.
LEMMA ClaimTold ==
  ASSUME TypeOK, NEW p \in Player, NEW points \in Points, ScoreEvent(p, points),
         NEW a \in Player, NEW b \in Player, a # b, Told(a, b)
  PROVE  Told(a, b)'
<1> DEFINE c == Claim(points)
<1>1. c \in Int \cup {Text}
  BY RuleTypes DEF Claim
<1>2. /\ score' = [score EXCEPT ![p] = Plus(@, c)]
      /\ claimed' = [claimed EXCEPT ![p] = Plus(@, c)]
      /\ UNCHANGED <<health, alive>>
  BY DEF ScoreEvent
<1> HIDE DEF c
<1>3. CASE a # p
  BY <1>2, <1>3 DEF Told, Beyond, TypeOK
<1>4. CASE a = p
  <2>1. /\ score'[a] = Plus(score[a], c) /\ claimed'[a] = Plus(claimed[a], c)
        /\ score[a] \in Int \cup {Text} /\ claimed[a] \in Int \cup {Text}
        /\ health[b] \in Int
    BY <1>2, <1>4 DEF TypeOK
  <2>2. CASE c = Text \/ score[a] = Text
    <3>1. score'[a] = Text /\ claimed'[a] = Text
      BY <2>1, <2>2 DEF Plus, Told
    <3> QED
      BY <1>2, <3>1 DEF Told
  <2>3. CASE c # Text /\ score[a] # Text
    <3>1. /\ claimed[a] # Text
          /\ c \in Int /\ score[a] \in Int /\ claimed[a] \in Int
      BY <1>1, <2>1, <2>3 DEF Told
    <3>2. score'[a] = score[a] + c /\ claimed'[a] = claimed[a] + c
      BY <2>1, <3>1, RuleTypes DEF Plus
    <3>3. score'[a] # Text /\ claimed'[a] # Text
      BY <3>1, <3>2, RuleTypes
    <3>4. Beyond(a, b)' = Beyond(a, b)
      <4> DEFINE k == IF alive[b] THEN 0 ELSE KillBonus
      <4>1. k \in Int
        BY RuleTypes
      <4>2. /\ Beyond(a, b) = score[a] - claimed[a] - (FullHealth - health[b]) - k
            /\ Beyond(a, b)' = score'[a] - claimed'[a] - (FullHealth - health[b]) - k
        BY <1>2 DEF Beyond
      <4> HIDE DEF k
      <4> QED
        BY <2>1, <3>1, <3>2, <4>1, <4>2, RuleTypes
    <3> QED
      BY <1>2, <2>3, <3>3, <3>4 DEF Told
  <2> QED
    BY <2>2, <2>3
<1> QED
  BY <1>3, <1>4

\* A blow adds its damage, and the bonus if it was the last.
LEMMA HitTold ==
  ASSUME TypeOK, NEW p \in Player, NEW q \in Player, Hit(p, q),
         NEW a \in Player, NEW b \in Player, a # b, Told(a, b)
  PROVE  Told(a, b)'
<1> DEFINE left == Damaged(health[q])
           gain == AttackDamage + IF left > 0 THEN 0 ELSE KillBonus
<1>1. /\ left \in 0 .. FullHealth
      /\ left = IF health[q] >= AttackDamage THEN health[q] - AttackDamage ELSE 0
  BY RuleTypes DEF TypeOK, Damaged, Most
<1>2. /\ q # p /\ alive[p] /\ alive[q]
      /\ health' = [health EXCEPT ![q] = left]
      /\ alive' = [alive EXCEPT ![q] = left > 0]
      /\ score' = [score EXCEPT ![p] = Plus(@, gain)]
      /\ claimed' = claimed
  BY DEF Hit, MayAttack, MayAct, claimVars
<1>3. gain \in Int
  BY RuleTypes
<1>4. (a = p /\ b = q) \/ (a = q /\ b = p)
  BY <1>2, Pair
<1> HIDE DEF left, gain
<1>5. CASE a = q /\ b = p
  <2>1. /\ health'[p] = health[p] /\ alive'[p] = alive[p]
        /\ score'[q] = score[q] /\ claimed'[q] = claimed[q]
    BY <1>2 DEF TypeOK
  <2> QED
    BY <1>5, <2>1 DEF Told, Beyond
<1>6. CASE a = p /\ b = q
  <2>1. /\ health'[q] = left /\ alive'[q] = (left > 0)
        /\ score'[p] = Plus(score[p], gain) /\ claimed'[p] = claimed[p]
        /\ score[p] \in Int \cup {Text} /\ claimed[p] \in Int \cup {Text}
        /\ health[q] \in 0 .. FullHealth
    BY <1>2 DEF TypeOK
  <2>2. alive'[q] <=> health'[q] > 0
    BY <2>1
  <2>3. CASE score[p] = Text
    <3>1. score'[p] = Text /\ claimed'[p] = Text
      BY <1>6, <2>1, <2>3 DEF Plus, Told
    <3> QED
      BY <1>6, <2>2, <3>1 DEF Told
  <2>4. CASE score[p] # Text
    <3>1. /\ score[p] \in Int /\ claimed[p] \in Int /\ claimed[p] # Text
          /\ score'[p] = score[p] + gain /\ score'[p] # Text
      BY <1>3, <1>6, <2>1, <2>4, RuleTypes DEF Plus, Told
    <3>2. score[p] - claimed[p] = FullHealth - health[q]
      <4>1. score[p] - claimed[p] - (FullHealth - health[q]) - 0 \in 0 .. 0
        BY <1>2, <1>6, <2>4 DEF Told, Beyond
      <4> QED
        BY <2>1, <3>1, <4>1, RuleTypes
    <3>3. CASE left > 0
      <4>1. gain = AttackDamage /\ left = health[q] - AttackDamage /\ alive'[q]
        <5>1. alive'[q]
          BY <2>1, <3>3
        <5>2. gain = AttackDamage + 0
          BY <3>3 DEF gain
        <5>3. left = health[q] - AttackDamage
          BY <1>1, <3>3
        <5> QED
          BY <5>1, <5>2, <5>3, RuleTypes
      <4>2. Beyond(a, b)' = score'[p] - claimed'[p] - (FullHealth - left) - 0
        BY <1>6, <2>1, <4>1 DEF Beyond
      <4>3. Beyond(a, b)' = 0
        BY <2>1, <3>1, <3>2, <4>1, <4>2, RuleTypes
      <4> QED
        <5>1. score'[p] # Text /\ claimed'[p] # Text /\ (IF alive'[q] THEN 0 ELSE AttackDamage - 1) = 0
          BY <2>1, <3>1, <4>1
        <5> QED
          BY <1>6, <2>2, <4>3, <5>1 DEF Told
    <3>4. CASE ~(left > 0)
      <4>1. gain = AttackDamage + KillBonus /\ left = 0 /\ ~alive'[q]
        <5>1. ~alive'[q]
          BY <2>1, <3>4
        <5>2. gain = AttackDamage + KillBonus
          BY <3>4 DEF gain
        <5>3. left = 0
          BY <1>1, <3>4, RuleTypes
        <5> QED
          BY <5>1, <5>2, <5>3
      <4>2. Beyond(a, b)' = score'[p] - claimed'[p] - (FullHealth - 0) - KillBonus
        BY <1>6, <2>1, <4>1 DEF Beyond
      <4>3. health[q] > 0 /\ health[q] <= AttackDamage
        BY <1>1, <1>2, <1>6, <2>1, <4>1, RuleTypes DEF Told
      <4>4. Beyond(a, b)' = AttackDamage - health[q]
        BY <2>1, <3>1, <3>2, <4>1, <4>2, RuleTypes
      <4>5. Beyond(a, b)' \in 0 .. AttackDamage - 1
        BY <2>1, <4>3, <4>4, RuleTypes
      <4> QED
        <5>1. score'[p] # Text /\ claimed'[p] # Text
          BY <2>1, <3>1
        <5>2. (IF alive'[q] THEN 0 ELSE AttackDamage - 1) = AttackDamage - 1
          BY <4>1
        <5> QED
          BY <1>6, <2>2, <4>5, <5>1, <5>2 DEF Told
    <3> QED
      BY <3>3, <3>4
  <2> QED
    BY <2>3, <2>4
<1> QED
  BY <1>4, <1>5, <1>6

\* Health, life and score of the two agree after every step, whatever points
\* clients claim.
THEOREM HealthMatchesScore == Spec => []BlowsScored
<1>1. Init => BlowsScored
  BY RuleTypes DEF Init, BlowsScored
<1>2. TypeOK /\ BlowsScored /\ [Next]_vars => BlowsScored'
  <2> SUFFICES ASSUME TypeOK, BlowsScored, [Next]_vars,
                      NEW a \in Player, NEW b \in Player, a # b
               PROVE  Told(a, b)'
    BY ToldIsBlowsScored
  <2>1. Told(a, b)
    BY ToldIsBlowsScored
  <2>2. CASE UNCHANGED <<health, score, alive, lastAttack, claimed>>
    BY <2>1, <2>2 DEF Told, Beyond
  <2>3. ASSUME NEW p \in Player, NEW points \in Points, ScoreEvent(p, points)
        PROVE  Told(a, b)'
    BY <2>1, <2>3, ClaimTold
  <2>4. ASSUME NEW p \in Player, NEW q \in Player, Hit(p, q) PROVE Told(a, b)'
    BY <2>1, <2>4, HitTold
  <2> QED
    BY <2>2, <2>3, <2>4, Steps
<1> QED
  BY <1>1, <1>2, TypeCorrect, PTL DEF Spec
-----------------------------------------------------------------------------
\* What a player has lost is n blows at most, and his opponent's last attack
\* was no sooner than n cooldowns after the start.
Paced == \A p, q \in Player : p # q =>
  /\ lastAttack[p] <= tick
  /\ \E n \in Nat : /\ FullHealth - health[q] <= AttackDamage * n
                    /\ n * AttackCooldown <= lastAttack[p]

LEMMA DivBound ==
  ASSUME NEW n \in Nat, NEW t \in Nat, NEW c \in Nat \ {0}, n * c <= t
  PROVE  n <= t \div c
OBVIOUS

LEMMA Monotone ==
  ASSUME NEW d \in Nat, NEW m \in Nat, NEW n \in Nat, m <= n
  PROVE  d * m <= d * n
OBVIOUS

LEMMA PacedStep ==
  ASSUME TypeOK, TypeOK', Paced, [Next]_vars
  PROVE  Paced'
<1> USE RuleTypes
<1>1. tick <= tick'
  <2>1. tick' = tick \/ tick' = tick + 1
    <3>1. ASSUME NEW p \in Player, NEW dx \in Delta, Move(p, dx) PROVE tick' = tick
      BY <3>1 DEF Move
    <3>2. ASSUME NEW p \in Player, NEW q \in Player, Hit(p, q) PROVE tick' = tick
      BY <3>2 DEF Hit
    <3>3. ASSUME NEW p \in Player, NEW points \in Points, ScoreEvent(p, points)
          PROVE  tick' = tick
      BY <3>3 DEF ScoreEvent
    <3> QED
      BY <3>1, <3>2, <3>3 DEF Next, vars, Start, Stop, Tick
  <2> QED
    BY <2>1 DEF TypeOK
<1>2. CASE UNCHANGED <<health, lastAttack>>
  <2> SUFFICES ASSUME NEW a \in Player, NEW b \in Player, a # b
               PROVE  /\ lastAttack'[a] <= tick'
                      /\ \E n \in Nat : /\ FullHealth - health'[b] <= AttackDamage * n
                                        /\ n * AttackCooldown <= lastAttack'[a]
    BY DEF Paced
  <2>1. lastAttack' = lastAttack /\ health' = health
    BY <1>2
  <2>2. lastAttack[a] <= tick /\ lastAttack[a] \in Nat /\ tick \in Nat /\ tick' \in Nat
    BY DEF Paced, TypeOK
  <2>3. lastAttack[a] <= tick'
    BY <1>1, <2>2
  <2>4. \E n \in Nat : /\ FullHealth - health[b] <= AttackDamage * n
                       /\ n * AttackCooldown <= lastAttack[a]
    BY Zenon DEF Paced
  <2> QED
    BY <2>1, <2>3, <2>4, Zenon
<1>3. ASSUME NEW p \in Player, NEW q \in Player, Hit(p, q) PROVE Paced'
  <2> DEFINE left == Damaged(health[q])
  <2>1. left \in 0 .. FullHealth /\ left >= health[q] - AttackDamage
    BY DamagedBounds DEF TypeOK
  <2>2. /\ q # p /\ tick - lastAttack[p] >= AttackCooldown /\ tick' = tick
        /\ health' = [health EXCEPT ![q] = left]
        /\ lastAttack' = [lastAttack EXCEPT ![p] = tick]
    BY <1>3 DEF Hit, MayAttack
  <2> HIDE DEF left
  <2> SUFFICES ASSUME NEW a \in Player, NEW b \in Player, a # b
               PROVE  /\ lastAttack'[a] <= tick'
                      /\ \E n \in Nat : /\ FullHealth - health'[b] <= AttackDamage * n
                                        /\ n * AttackCooldown <= lastAttack'[a]
    BY DEF Paced
  <2>3. (a = p /\ b = q) \/ (a = q /\ b = p)
    BY <2>2, Pair
  <2>4. CASE a = q /\ b = p
    BY <2>2, <2>4 DEF Paced, TypeOK
  <2>5. CASE a = p /\ b = q
    <3>1. PICK n \in Nat : /\ FullHealth - health[q] <= AttackDamage * n
                           /\ n * AttackCooldown <= lastAttack[p]
      BY <2>2 DEF Paced
    <3>2. lastAttack'[p] = tick /\ health'[q] = left
      BY <2>2 DEF TypeOK
    <3>3. health[q] \in Nat /\ lastAttack[p] \in Nat /\ tick \in Nat
      BY DEF TypeOK
    <3>4. /\ AttackDamage * (n + 1) = AttackDamage * n + AttackDamage
          /\ (n + 1) * AttackCooldown = n * AttackCooldown + AttackCooldown
          /\ AttackDamage * n \in Nat /\ n * AttackCooldown \in Nat
      OBVIOUS
    <3>5. FullHealth - left <= AttackDamage * (n + 1)
      BY <2>1, <3>1, <3>3, <3>4
    <3>6. (n + 1) * AttackCooldown <= tick
      BY <2>2, <3>1, <3>3, <3>4
    <3>7. /\ FullHealth - health'[b] <= AttackDamage * (n + 1)
          /\ (n + 1) * AttackCooldown <= lastAttack'[a]
      BY <2>5, <3>2, <3>5, <3>6
    <3>8. lastAttack'[a] <= tick'
      BY <2>2, <2>5, <3>2, <3>3
    <3>9. n + 1 \in Nat
      OBVIOUS
    <3> QED
      BY <3>7, <3>8, <3>9
  <2> QED
    BY <2>3, <2>4, <2>5
<1> QED
  BY <1>2, <1>3, Steps DEF ScoreEvent

\* The cooldown limits the damage of the whole match.
THEOREM CooldownLimitsDamage == Spec => []DamageRate
<1> USE RuleTypes
<1>1. Init => Paced
  <2> SUFFICES ASSUME Init, NEW p \in Player, NEW q \in Player, p # q
               PROVE  /\ lastAttack[p] <= tick
                      /\ \E n \in Nat : /\ FullHealth - health[q] <= AttackDamage * n
                                        /\ n * AttackCooldown <= lastAttack[p]
    BY DEF Paced
  <2>1. AttackDamage * 0 = 0 /\ 0 * AttackCooldown = 0
    OBVIOUS
  <2> QED
    BY <2>1 DEF Init
<1>2. TypeOK /\ TypeOK' /\ Paced /\ [Next]_vars => Paced'
  BY PacedStep
<1>3. TypeOK /\ Paced => DamageRate
  <2> SUFFICES ASSUME TypeOK, Paced, NEW q \in Player
               PROVE  FullHealth - health[q] <= AttackDamage * (tick \div AttackCooldown)
    BY DEF DamageRate
  <2>1. PICK p \in Player : p # q
    BY PlayerAssumption
  <2>2. PICK n \in Nat : /\ FullHealth - health[q] <= AttackDamage * n
                         /\ n * AttackCooldown <= lastAttack[p]
    BY <2>1 DEF Paced
  <2>3. lastAttack[p] \in Nat /\ tick \in Nat /\ health[q] \in Nat
    BY DEF TypeOK
  <2>4. lastAttack[p] <= tick
    BY <2>1 DEF Paced
  <2>5. n * AttackCooldown <= tick /\ n * AttackCooldown \in Nat
    BY <2>2, <2>3, <2>4
  <2>6. n <= tick \div AttackCooldown /\ tick \div AttackCooldown \in Nat
    BY <2>3, <2>5, DivBound
  <2>7. AttackDamage * n <= AttackDamage * (tick \div AttackCooldown)
    BY <2>6, Monotone
  <2> DEFINE k == tick \div AttackCooldown
  <2>8. AttackDamage * n \in Nat /\ AttackDamage * k \in Nat
    BY <2>6
  <2> HIDE DEF k
  <2> QED
    BY <2>2, <2>3, <2>7, <2>8 DEF k
<1> QED
  BY <1>1, <1>2, <1>3, TypeCorrect, PTL DEF Spec
-----------------------------------------------------------------------------
\* Winner and loser differ unless neither score is above the other.
THEOREM ResultMeansLead == Spec => []ResultUnlessEven
<1>1. TypeOK => ResultUnlessEven
  <2> SUFFICES ASSUME TypeOK PROVE ResultUnlessEven
    OBVIOUS
  <2>1. PICK a, b \in Player : a # b /\ Player = {a, b} /\ Rank[a] = 1 /\ Rank[b] = 2
    BY PlayerAssumption
  <2>2. /\ ~(Above(a, b) /\ Above(b, a)) /\ ~Above(a, a) /\ ~Above(b, b)
        /\ Above(a, b) \in BOOLEAN /\ Above(b, a) \in BOOLEAN
    <3>1. ASSUME NEW p \in Player, NEW q \in Player, Above(p, q)
          PROVE  score[p] \in Int /\ score[q] \in Int /\ score[p] > score[q]
      BY <3>1 DEF Above, TypeOK
    <3>2. \A p, q \in Player : Above(p, q) \in BOOLEAN
      BY DEF Above
    <3> QED
      BY <2>1, <3>1, <3>2
  <2>3. /\ Player \ {a} = {b} /\ Player \ {b} = {a}
        /\ Rank[a] < Rank[b] /\ ~(Rank[b] < Rank[a])
    BY <2>1
  <2>4. Winner = IF Above(b, a) THEN b ELSE a
    <3>1. \A p \in Player : (\A q \in Player \ {p} :
             IF Rank[p] < Rank[q] THEN ~Above(q, p) ELSE Above(p, q))
               <=> p = (IF Above(b, a) THEN b ELSE a)
      BY <2>1, <2>2, <2>3
    <3> QED
      BY <2>1, <3>1 DEF Winner
  <2>5. Loser = IF Above(a, b) THEN b ELSE a
    <3>1. \A p \in Player : (\A q \in Player \ {p} :
             IF Rank[p] < Rank[q] THEN ~Above(p, q) ELSE Above(q, p))
               <=> p = (IF Above(a, b) THEN b ELSE a)
      BY <2>1, <2>2, <2>3
    <3> QED
      BY <2>1, <3>1 DEF Loser
  <2> QED
    BY <2>1, <2>2, <2>4, <2>5 DEF ResultUnlessEven
<1> QED
  BY <1>1, TypeCorrect, PTL DEF Spec
=============================================================================
