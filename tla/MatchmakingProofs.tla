-------------------------- MODULE MatchmakingProofs --------------------------
(***************************************************************************)
(* Proofs about Matchmaking for any players, ratings, ranges, concurrent   *)
(* calls and bounds.                                                       *)
(***************************************************************************)
EXTENDS Matchmaking, WellFoundedInduction, FiniteSetTheorems, TLAPS

USE PlayersAssumption, RatingAssumption, NobodyAssumption, NumberAssumption,
    NullAssumption

-----------------------------------------------------------------------------
(* The scan of neighbours.                                                   *)

LEMMA LeastNatural ==
  ASSUME NEW T, T \subseteq Nat, T # {}
  PROVE  \E x \in T : \A y \in T : x <= y
<1> DEFINE R == OpToRel(<, Nat)
<1>1. PICK x \in T : \A y \in T : ~ (<<y, x>> \in R)
  BY NatLessThanWellFounded, WFMin, Zenon
<1>2. ASSUME NEW y \in T, y < x PROVE FALSE
  <2>1. <<y, x>> \in Nat \X Nat /\ <<y, x>>[1] < <<y, x>>[2]
    BY <1>2
  <2>2. <<y, x>> \in R
    BY <2>1, Zenon DEF OpToRel
  <2> QED BY <1>1, <2>2
<1> QED BY <1>2

LEMMA GreatestNatural ==
  ASSUME NEW T, T \subseteq Nat, T # {}, NEW b \in Nat, \A x \in T : x <= b
  PROVE  \E x \in T : \A y \in T : x >= y
<1> DEFINE D == {d \in Nat : \E x \in T : d + x = b}
<1>1. PICK d \in D : \A c \in D : d <= c
  <2>1. PICK x \in T : TRUE
    OBVIOUS
  <2>2. b - x \in Nat /\ (b - x) + x = b
    OBVIOUS
  <2>3. D # {}
    BY <2>2
  <2> QED BY <2>3, LeastNatural
<1>2. PICK x \in T : d + x = b
  OBVIOUS
<1>3. ASSUME NEW y \in T PROVE x >= y
  <2>1. b - y \in Nat /\ (b - y) + y = b
    OBVIOUS
  <2>2. b - y \in D
    BY <2>1
  <2> QED BY <1>1, <1>2, <2>1, <2>2
<1> QED BY <1>3

LEMMA EntryFields ==
  ASSUME NEW e \in Entry
  PROVE  e.player \in Player /\ e.player \in Nat /\ e.joinedAt \in Nat
         /\ Rating[e.player] \in Nat
<1>1. e.player \in Player /\ e.joinedAt \in 0 .. MaxTime
  BY DEF Entry
<1>2. Rating[e.player] \in Nat
  BY <1>1
<1>3. e.player \in Nat
  BY <1>1 DEF Player
<1>4. e.joinedAt \in Nat
  BY <1>1
<1> QED BY <1>1, <1>2, <1>3, <1>4

LEMMA EntryEqual ==
  ASSUME NEW e \in Entry, NEW f \in Entry,
         e.player = f.player, e.joinedAt = f.joinedAt
  PROVE  e = f
BY DEF Entry

\* A non-empty set of entries has a first one in the order of the sorted set.
LEMMA FirstEntry ==
  ASSUME NEW S, S \subseteq Entry, S # {}
  PROVE  \E e \in S : \A f \in S : f = e \/ Before(e, f)
<1> DEFINE Ratings == {Rating[e.player] : e \in S}
<1>1. PICK r \in Ratings : \A s \in Ratings : r <= s
  <2>1. Ratings \subseteq Nat /\ Ratings # {}
    BY EntryFields
  <2> QED BY <2>1, LeastNatural
<1> DEFINE A == {e \in S : Rating[e.player] = r}
           Ids == {e.player : e \in A}
<1>2. PICK p \in Ids : \A q \in Ids : p <= q
  <2>1. Ids \subseteq Nat /\ Ids # {}
    BY EntryFields
  <2> QED BY <2>1, LeastNatural
<1> DEFINE B == {e \in A : e.player = p}
           Times == {e.joinedAt : e \in B}
<1>3. PICK t \in Times : \A u \in Times : t <= u
  <2>1. Times \subseteq Nat /\ Times # {}
    BY DEF Entry
  <2> QED BY <2>1, LeastNatural
<1>4. PICK e \in B : e.joinedAt = t
  OBVIOUS
<1>5. ASSUME NEW f \in S PROVE f = e \/ Before(e, f)
  <2>1. e \in Entry /\ f \in Entry /\ Rating[e.player] <= Rating[f.player]
    BY <1>1
  <2>2. CASE Rating[f.player] # r
    BY <2>1, <2>2, EntryFields DEF Before
  <2>3. CASE f \in A /\ f.player # p
    <3>1. p <= f.player
      BY <1>2, <2>3
    <3> QED BY <2>1, <2>3, <3>1, EntryFields DEF Before
  <2>4. CASE f \in B
    <3>1. t <= f.joinedAt
      BY <1>3, <2>4
    <3> QED BY <1>4, <2>1, <2>4, <3>1, EntryFields, EntryEqual DEF Before
  <2> QED BY <2>2, <2>3, <2>4
<1> QED BY <1>5

\* A non-empty set of entries that lie before an entry has a last one.
LEMMA LastEntry ==
  ASSUME NEW S, S \subseteq Entry, S # {},
         NEW top \in Entry, \A f \in S : Before(f, top)
  PROVE  \E e \in S : \A f \in S : f = e \/ Before(f, e)
<1> DEFINE Ratings == {Rating[e.player] : e \in S}
<1>1. PICK r \in Ratings : \A s \in Ratings : r >= s
  <2>1. Ratings \subseteq Nat /\ Ratings # {}
    BY EntryFields
  <2>2. \A s \in Ratings : s <= Rating[top.player]
    BY EntryFields DEF Before
  <2> QED BY <2>1, <2>2, GreatestNatural, EntryFields
<1> DEFINE A == {e \in S : Rating[e.player] = r}
           Ids == {e.player : e \in A}
<1>2. PICK p \in Ids : \A q \in Ids : p >= q
  <2>1. Ids \subseteq Nat /\ Ids # {}
    BY EntryFields
  <2>2. \A q \in Ids : q <= Players
    BY EntryFields DEF Player
  <2> QED BY <2>1, <2>2, GreatestNatural
<1> DEFINE B == {e \in A : e.player = p}
           Times == {e.joinedAt : e \in B}
<1>3. PICK t \in Times : \A u \in Times : t >= u
  <2>1. Times \subseteq Nat /\ Times # {} /\ \A u \in Times : u <= MaxTime
    BY DEF Entry
  <2> QED BY <2>1, GreatestNatural
<1>4. PICK e \in B : e.joinedAt = t
  OBVIOUS
<1>5. ASSUME NEW f \in S PROVE f = e \/ Before(f, e)
  <2>1. e \in Entry /\ f \in Entry /\ Rating[e.player] >= Rating[f.player]
    BY <1>1
  <2>2. CASE Rating[f.player] # r
    BY <2>1, <2>2, EntryFields DEF Before
  <2>3. CASE f \in A /\ f.player # p
    <3>1. p >= f.player
      BY <1>2, <2>3
    <3> QED BY <2>1, <2>3, <3>1, EntryFields DEF Before
  <2>4. CASE f \in B
    <3>1. t >= f.joinedAt
      BY <1>3, <2>4
    <3> QED BY <1>4, <2>1, <2>4, <3>1, EntryFields, EntryEqual DEF Before
  <2> QED BY <2>2, <2>3, <2>4
<1> QED BY <1>5

LEMMA BeforeIsOrder ==
  ASSUME NEW e \in Entry, NEW f \in Entry, NEW g \in Entry
  PROVE  /\ ~Before(e, e)
         /\ Before(e, f) /\ Before(f, g) => Before(e, g)
         /\ Before(e, f) => Rating[e.player] <= Rating[f.player]
         /\ e = f \/ Before(e, f) \/ Before(f, e)
BY EntryFields, EntryEqual DEF Before

LEMMA Successor ==
  ASSUME NEW S, S \subseteq Entry, NEW e \in S, NEW f \in S, Before(e, f)
  PROVE  \E g \in S : Adjacent(S, e, g) /\ (g = f \/ Before(g, f))
<1> DEFINE Above == {g \in S : Before(e, g)}
<1>1. PICK g \in Above : \A h \in Above : h = g \/ Before(g, h)
  BY FirstEntry
<1>2. ~ \E h \in S : Before(e, h) /\ Before(h, g)
  BY <1>1, BeforeIsOrder
<1> QED BY <1>1, <1>2 DEF Adjacent

LEMMA Predecessor ==
  ASSUME NEW S, S \subseteq Entry, NEW e \in S, NEW f \in S, Before(e, f)
  PROVE  \E g \in S : Adjacent(S, g, f) /\ (g = e \/ Before(e, g))
<1> DEFINE Below == {g \in S : Before(g, f)}
<1>1. PICK g \in Below : \A h \in Below : h = g \/ Before(h, g)
  BY LastEntry
<1>2. ~ \E h \in S : Before(g, h) /\ Before(h, f)
  BY <1>1, BeforeIsOrder
<1> QED BY <1>1, <1>2 DEF Adjacent

LEMMA MulMonotone ==
  ASSUME NEW a \in Nat, NEW b \in Nat, NEW c \in Nat, a <= b
  PROVE  c * a <= c * b
OBVIOUS

\* The argument of ScanComplete: of two entries in range of each other, the
\* one that waited longer is also in range of its neighbour towards the other.
LEMMA NeighbourInRange ==
  ASSUME NEW S, S \subseteq Entry, NEW t \in Nat,
         \A g \in S : g.joinedAt <= t,
         NEW e \in S, NEW f \in S, Before(e, f), InRange(e, f, t)
  PROVE  \E g, h \in S : Candidate(S, g, h, t)
<1> DEFINE W(g) == t - g.joinedAt
<1>1. \A g \in S : W(g) \in Nat
  BY EntryFields
<1>2. CASE W(e) >= W(f)
  <2>1. PICK g \in S : Adjacent(S, e, g) /\ (g = f \/ Before(g, f))
    BY Successor
  <2>2. Gap(e, g) <= Gap(e, f)
    BY <2>1, BeforeIsOrder, EntryFields DEF Gap, Adjacent
  <2>3. RangeStep * W(e) <= RangeStep * Larger(W(e), W(g))
    <3>1. Larger(W(e), W(g)) \in Nat /\ W(e) <= Larger(W(e), W(g))
      BY <1>1 DEF Larger
    <3> QED BY <1>1, <3>1, MulMonotone
  <2>4. Gap(e, f) <= RatingRange + RangeStep * W(e)
    BY <1>2 DEF InRange, Larger
  <2>5. InRange(e, g, t)
    <3> DEFINE x == RangeStep * W(e)
               y == RangeStep * Larger(W(e), W(g))
    <3>1. x \in Int /\ y \in Int
      BY <1>1 DEF Larger
    <3>2. Gap(e, g) \in Int /\ Gap(e, f) \in Int
      BY EntryFields DEF Gap
    <3>3. Gap(e, g) <= RatingRange + y
      BY <2>2, <2>3, <2>4, <3>1, <3>2
    <3> QED BY <3>3 DEF InRange
  <2> QED BY <2>1, <2>5 DEF Candidate
<1>3. CASE W(f) > W(e)
  <2>1. PICK g \in S : Adjacent(S, g, f) /\ (g = e \/ Before(e, g))
    BY Predecessor
  <2>2. Gap(g, f) <= Gap(e, f)
    BY <2>1, BeforeIsOrder, EntryFields DEF Gap, Adjacent
  <2>3. RangeStep * W(f) <= RangeStep * Larger(W(g), W(f))
    <3>1. Larger(W(g), W(f)) \in Nat /\ W(f) <= Larger(W(g), W(f))
      BY <1>1 DEF Larger
    <3> QED BY <1>1, <3>1, MulMonotone
  <2>4. Gap(e, f) <= RatingRange + RangeStep * W(f)
    BY <1>1, <1>3 DEF InRange, Larger
  <2>5. InRange(g, f, t)
    <3> DEFINE x == RangeStep * W(f)
               y == RangeStep * Larger(W(g), W(f))
    <3>1. x \in Int /\ y \in Int
      BY <1>1 DEF Larger
    <3>2. Gap(g, f) \in Int /\ Gap(e, f) \in Int
      BY EntryFields DEF Gap
    <3>3. Gap(g, f) <= RatingRange + y
      BY <2>2, <2>3, <2>4, <3>1, <3>2
    <3> QED BY <3>3 DEF InRange
  <2> QED BY <2>1, <2>5 DEF Candidate
<1> QED BY <1>1, <1>2, <1>3

-----------------------------------------------------------------------------
(* Invariants of the specification.                                          *)

LEMMA ChosenType ==
  ASSUME TypeOK, NEW m \in Matcher
  PROVE  Chosen(m) \subseteq Entry
BY DEF TypeOK, Chosen

LEMMA TallyType ==
  ASSUME NEW h \in [Entry -> Nat], NEW S
  PROVE  Tally(h, S) \in [Entry -> Nat]
BY DEF Tally

LEMMA StampType ==
  ASSUME TypeOK, NEW p \in Player
  PROVE  /\ [player |-> p, joinedAt |-> clock] \in Entry
         /\ PlayerOnly(p) \in Entry
BY DEF TypeOK, Entry, PlayerOnly

LEMMA TypeStep == TypeOK /\ [Next]_vars => TypeOK'
<1> SUFFICES ASSUME TypeOK, [Next]_vars PROVE TypeOK'
  OBVIOUS
<1> USE DEF TypeOK, TaskPC, MatcherPC, taskVars, matcherVars, history
<1>1. CASE Tick
  BY <1>1 DEF Tick
<1>2. CASE Lapse \/ Overrun
  BY <1>2 DEF Lapse, Overrun
<1>3. ASSUME NEW t \in Task, TaskStep(t) PROVE TypeOK'
  <2> USE DEF GoTo, Done
  <2>1. ASSUME NEW p \in Player, JoinAllowed(t, p) PROVE TypeOK'
    BY <2>1, StampType DEF JoinAllowed
  <2>2. ASSUME NEW p \in Player, LeaveFound(t, p) PROVE TypeOK'
    BY <2>2 DEF LeaveFound, OfPlayer
  <2>3. ASSUME NEW p \in Player, LeaveMissing(t, p) PROVE TypeOK'
    BY <2>3, StampType DEF LeaveMissing
  <2>4. CASE JoinAdd(t)
    <3>1. arg[t] \in Entry /\ PlayerOnly(arg[t].player) \in Entry
      BY <2>4, StampType, EntryFields DEF JoinAdd
    <3>2. adds' \in [Entry -> Nat]
      BY <2>4 DEF JoinAdd
    <3> QED BY <2>4, <3>1, <3>2 DEF JoinAdd
  <2>5. CASE JoinKey(t)
    BY <2>5, EntryFields DEF JoinKey
  <2>6. CASE LeaveRemove(t)
    <3>1. arg[t] \in Entry /\ PlayerOnly(arg[t].player) \in Entry
      BY <2>6, StampType, EntryFields DEF LeaveRemove
    <3>2. left' \in [Entry -> Nat]
      BY <2>6 DEF LeaveRemove
    <3> QED BY <2>6, <3>1, <3>2 DEF LeaveRemove
  <2>7. CASE LeaveKey(t)
    BY <2>7, EntryFields DEF LeaveKey
  <2>8. CASE TaskDies(t)
    BY <2>8 DEF TaskDies
  <2> QED BY <1>3, <2>1, <2>2, <2>3, <2>4, <2>5, <2>6, <2>7, <2>8 DEF TaskStep
<1>4. ASSUME NEW m \in Matcher, Cycle(m) \/ MatcherDies(m) PROVE TypeOK'
  <2> USE DEF Advance
  <2>1. CASE AcquireLock(m)
    BY <2>1 DEF AcquireLock
  <2>2. CASE Count(m)
    BY <2>2 DEF Count
  <2>3. CASE ScanFound(m)
    BY <2>3 DEF ScanFound
  <2>4. CASE ScanNone(m)
    BY <2>4 DEF ScanNone
  <2>5. CASE Remove(m)
    BY <2>5 DEF Remove
  <2>6. CASE DeleteKey(m, "del1", 1, "del2")
    BY <2>6 DEF DeleteKey
  <2>7. CASE DeleteKey(m, "del2", 2, "release")
    BY <2>7 DEF DeleteKey
  <2>8. CASE ReleaseLock(m)
    BY <2>8, TallyType DEF ReleaseLock
  <2>9. CASE MatcherDies(m)
    BY <2>9, TallyType DEF MatcherDies
  <2> QED BY <1>4, <2>1, <2>2, <2>3, <2>4, <2>5, <2>6, <2>7, <2>8, <2>9 DEF Cycle
<1>5. CASE UNCHANGED vars
  BY <1>5 DEF vars
<1> QED BY <1>1, <1>2, <1>3, <1>4, <1>5 DEF Next

\* Every state of the service has the types of TypeOK.
THEOREM TypeCorrect == Spec => []TypeOK
<1>1. Init => TypeOK
  BY DEF Init, TypeOK, TaskPC, MatcherPC
<1> QED BY <1>1, TypeStep, PTL DEF Spec

\* No entry is younger than the clock.
Stamped == /\ \A e \in queue : e.joinedAt <= clock
           /\ \A t \in Task : tpc[t] = "joinAdd" => arg[t].joinedAt <= clock

LEMMA StampedStep == TypeOK /\ Stamped /\ [Next]_vars => Stamped'
<1> SUFFICES ASSUME TypeOK, Stamped, [Next]_vars PROVE Stamped'
  OBVIOUS
<1> USE DEF TypeOK, Stamped, taskVars, matcherVars, history
<1>1. CASE Tick
  BY <1>1, EntryFields DEF Tick
<1>2. CASE Lapse \/ Overrun
  BY <1>2 DEF Lapse, Overrun
<1>3. ASSUME NEW t \in Task, TaskStep(t) PROVE Stamped'
  BY <1>3 DEF TaskStep, GoTo, Done, JoinAllowed, LeaveFound, LeaveMissing, JoinAdd,
              JoinKey, LeaveRemove, LeaveKey, TaskDies
<1>4. ASSUME NEW m \in Matcher, Cycle(m) \/ MatcherDies(m) PROVE Stamped'
  BY <1>4 DEF Cycle, MatcherDies, AcquireLock, Count, ScanFound, ScanNone, Remove,
              DeleteKey, ReleaseLock
<1>5. CASE UNCHANGED vars
  BY <1>5 DEF vars
<1> QED BY <1>1, <1>2, <1>3, <1>4, <1>5 DEF Next

\* The scan of neighbours finds a pair whenever two entries are in range.
THEOREM ScanMissesNobody == Spec => []ScanComplete
<1>1. Init => Stamped
  BY DEF Init, Stamped
<1>2. TypeOK /\ Stamped => ScanComplete
  <2> SUFFICES ASSUME TypeOK, Stamped,
                      NEW e \in queue, NEW f \in queue,
                      Before(e, f), InRange(e, f, clock)
               PROVE  \E g, h \in queue : Candidate(queue, g, h, clock)
    BY DEF ScanComplete
  <2> QED BY NeighbourInRange DEF TypeOK, Stamped
<1> QED BY <1>1, <1>2, TypeCorrect, StampedStep, PTL DEF Spec

-----------------------------------------------------------------------------
(* Who has which entries in hand, whether or not cycles keep inside their     *)
(* leases.                                                                    *)

\* A pair is two entries, the first before the second.
PairsOrdered == \A m \in Matcher : pair[m] # NoPair => Before(pair[m][1], pair[m][2])

LEMMA PairsOrderedStep == TypeOK /\ PairsOrdered /\ [Next]_vars => PairsOrdered'
<1> SUFFICES ASSUME TypeOK, PairsOrdered, [Next]_vars PROVE PairsOrdered'
  OBVIOUS
<1> USE DEF PairsOrdered, taskVars, matcherVars, history
<1>1. CASE UNCHANGED pair
  BY <1>1 DEF Before
<1>2. ASSUME NEW m \in Matcher, ScanFound(m) PROVE PairsOrdered'
  <2>1. PICK e \in queue, f \in queue : Before(e, f) /\ pair' = [pair EXCEPT ![m] = <<e, f>>]
    BY <1>2 DEF ScanFound, FirstCandidate, Candidate, Adjacent
  <2>2. \A n \in Matcher : pair'[n] = IF n = m THEN <<e, f>> ELSE pair[n]
    BY <2>1 DEF TypeOK
  <2> QED BY <2>1, <2>2 DEF Before
<1>3. ASSUME NEW m \in Matcher, ReleaseLock(m) \/ MatcherDies(m) PROVE PairsOrdered'
  <2>1. \A n \in Matcher : pair'[n] = IF n = m THEN NoPair ELSE pair[n]
    BY <1>3 DEF ReleaseLock, MatcherDies, TypeOK
  <2> QED BY <2>1 DEF Before
<1>4. ASSUME NEW m \in Matcher, Cycle(m) \/ MatcherDies(m)
      PROVE  UNCHANGED pair \/ ScanFound(m) \/ ReleaseLock(m) \/ MatcherDies(m)
  BY <1>4 DEF Cycle, AcquireLock, Count, ScanNone, Remove, DeleteKey
<1>5. ASSUME NEW t \in Task, TaskStep(t) PROVE UNCHANGED pair
  BY <1>5 DEF TaskStep, JoinAllowed, LeaveFound, LeaveMissing, JoinAdd, JoinKey,
              LeaveRemove, LeaveKey, TaskDies
<1>6. Tick \/ Lapse \/ Overrun \/ UNCHANGED vars => UNCHANGED pair
  BY DEF Tick, Lapse, Overrun, vars
<1> QED BY <1>1, <1>2, <1>3, <1>4, <1>5, <1>6 DEF Next

\* A cycle comes to hold, or holds no longer, the entries of S.
HeldMore(m, S) == \A e \in Entry :
  /\ Holding(e)' = IF e \in S THEN Holding(e) \cup {m} ELSE Holding(e)
  /\ e \in S => m \notin Holding(e)
HeldLess(m, S) == \A e \in Entry :
  /\ Holding(e)' = IF e \in S THEN Holding(e) \ {m} ELSE Holding(e)
  /\ e \in S => m \in Holding(e)

\* What the cycles other than m have chosen and removed is theirs.
LEMMA OthersKeep ==
  ASSUME TypeOK, NEW m \in Matcher, Cycle(m) \/ MatcherDies(m)
  PROVE  /\ \A n \in Matcher : n # m => mpc'[n] = mpc[n] /\ pair'[n] = pair[n]
         /\ \A n \in Matcher : n # m => Chosen(n)' = Chosen(n) /\ Removed(n)' = Removed(n)
         /\ Removed(m) = {} => HeldMore(m, Removed(m)')
         /\ Removed(m)' = {} => HeldLess(m, Removed(m))
         /\ Removed(m)' = Removed(m) => \A e \in Entry : Holding(e)' = Holding(e)
<1> USE DEF TypeOK, Advance
<1>1. \A n \in Matcher : n # m => mpc'[n] = mpc[n] /\ pair'[n] = pair[n]
  BY DEF Cycle, AcquireLock, Count, ScanFound, ScanNone, Remove, DeleteKey, ReleaseLock,
         MatcherDies
<1>2. \A n \in Matcher : n # m => Chosen(n)' = Chosen(n) /\ Removed(n)' = Removed(n)
  BY <1>1 DEF Removed, Chosen
<1>3. ASSUME NEW e \in Entry
      PROVE  /\ e \in Removed(m)' => Holding(e)' = Holding(e) \cup {m}
             /\ e \notin Removed(m)' => Holding(e)' = Holding(e) \ {m}
             /\ m \in Holding(e) <=> e \in Removed(m)
  BY <1>2 DEF Holding
<1>4. ASSUME Removed(m) = {} PROVE HeldMore(m, Removed(m)')
  <2>1. ASSUME NEW e \in Entry
        PROVE  /\ Holding(e)' = IF e \in Removed(m)' THEN Holding(e) \cup {m} ELSE Holding(e)
               /\ e \in Removed(m)' => m \notin Holding(e)
    <3>1. m \notin Holding(e)
      BY <1>3, <1>4
    <3> HIDE DEF TypeOK, Advance
    <3> QED BY <1>3, <3>1
  <2> QED BY <2>1 DEF HeldMore
<1>5. ASSUME Removed(m)' = {} PROVE HeldLess(m, Removed(m))
  <2>1. ASSUME NEW e \in Entry
        PROVE  /\ Holding(e)' = IF e \in Removed(m) THEN Holding(e) \ {m} ELSE Holding(e)
               /\ e \in Removed(m) => m \in Holding(e)
    <3>1. Holding(e)' = Holding(e) \ {m}
      BY <1>3, <1>5
    <3> HIDE DEF TypeOK, Advance
    <3> QED BY <1>3, <3>1
  <2> QED BY <2>1 DEF HeldLess
<1>6. ASSUME Removed(m)' = Removed(m), NEW e \in Entry PROVE Holding(e)' = Holding(e)
  <2> HIDE DEF TypeOK, Advance
  <2>1. CASE e \in Removed(m)
    <3>1. Holding(e)' = Holding(e) \cup {m} /\ m \in Holding(e)
      BY <1>3, <1>6, <2>1
    <3> QED BY <3>1
  <2>2. CASE e \notin Removed(m)
    <3>1. Holding(e)' = Holding(e) \ {m} /\ m \notin Holding(e)
      BY <1>3, <1>6, <2>2
    <3> QED BY <3>1
  <2> QED BY <2>1, <2>2
<1> QED BY <1>1, <1>2, <1>4, <1>5, <1>6

LEMMA ReservedIs ==
  ASSUME TypeOK
  PROVE  Reserved = IF owner \in Matcher /\ mpc[owner] = "rem" THEN Chosen(owner) ELSE {}
BY DEF Reserved

\* Reservations and strays after a step of a cycle that does not take or give
\* back the lock.
LEMMA HandsNext ==
  ASSUME TypeOK, NEW m \in Matcher, Cycle(m) \/ MatcherDies(m), owner' = owner
  PROVE  /\ owner # m => Reserved' = Reserved
         /\ owner = m => Reserved' = IF mpc'[m] = "rem" THEN Chosen(m)' ELSE {}
         /\ owner = m => Strays' = Strays /\ m \notin Strays
         /\ owner # m => /\ m \in Strays <=> mpc[m] \in {"count", "scan", "rem"}
                         /\ Strays' = IF mpc'[m] \in {"count", "scan", "rem"}
                                      THEN Strays \cup {m} ELSE Strays \ {m}
<1>1. /\ \A n \in Matcher : n # m => mpc'[n] = mpc[n] /\ pair'[n] = pair[n]
      /\ \A n \in Matcher : n # m => Chosen(n)' = Chosen(n)
  BY OthersKeep
<1>2. owner # m => Reserved' = Reserved
  BY <1>1 DEF Reserved
<1>3. owner = m => Reserved' = IF mpc'[m] = "rem" THEN Chosen(m)' ELSE {}
  BY <1>1 DEF Reserved
<1>4. owner = m => Strays' = Strays /\ m \notin Strays
  BY <1>1 DEF Strays
<1>5. owner # m => /\ m \in Strays <=> mpc[m] \in {"count", "scan", "rem"}
                   /\ Strays' = IF mpc'[m] \in {"count", "scan", "rem"}
                                THEN Strays \cup {m} ELSE Strays \ {m}
  BY <1>1 DEF Strays
<1> QED BY <1>2, <1>3, <1>4, <1>5

\* A step of a cycle, by what it does to the entries in hand: nothing, except
\* that a stray may end; a reservation; a take; a take by a stray; a match
\* returned or lost; a reservation given up.
LEMMA MatcherStep ==
  ASSUME TypeOK, PairsOrdered, NEW m \in Matcher, Cycle(m) \/ MatcherDies(m)
  PROVE  /\ UNCHANGED <<adds, left, overruns>>
         /\ \/ /\ UNCHANGED <<queue, hits, lost, Reserved>>
               /\ \A e \in Entry : Holding(e)' = Holding(e)
               /\ Strays' = Strays \/ (m \in Strays /\ Strays' = Strays \ {m})
            \/ /\ UNCHANGED <<queue, hits, lost, Strays>> /\ Reserved = {}
               /\ \A e \in Entry : Holding(e)' = Holding(e)
               /\ \E e, f \in queue : Before(e, f) /\ Reserved' = {e, f}
            \/ /\ UNCHANGED <<hits, lost, Strays>>
               /\ queue' = queue \ Reserved /\ HeldMore(m, Reserved)
               /\ Reserved # {} /\ Reserved' = {}
            \/ /\ UNCHANGED <<hits, lost, Reserved>>
               /\ m \in Strays /\ Strays' = Strays \ {m}
               /\ \E e, f \in Entry :
                    Before(e, f) /\ queue' = queue \ {e, f} /\ HeldMore(m, {e, f})
            \/ /\ UNCHANGED <<queue, Reserved, Strays>>
               /\ \E S \in SUBSET Entry :
                    /\ HeldLess(m, S)
                    /\ \/ hits' = Tally(hits, S) /\ lost' = lost
                       \/ lost' = Tally(lost, S) /\ hits' = hits
            \/ /\ UNCHANGED <<queue, hits, lost, Strays>>
               /\ \A e \in Entry : Holding(e)' = Holding(e)
               /\ Reserved # {} /\ Reserved' = {}
<1> USE DEF TypeOK, Advance, taskVars, matcherVars, history
<1>r. Reserved = IF owner \in Matcher /\ mpc[owner] = "rem" THEN Chosen(owner) ELSE {}
  BY ReservedIs
<1>1. CASE AcquireLock(m)
  <2>1. \A n \in Matcher : n # m => mpc'[n] = mpc[n]
    BY OthersKeep
  <2>2. Reserved = {} /\ Reserved' = {}
    BY <1>1, <1>r, <2>1 DEF AcquireLock, Reserved
  <2>3. Strays' = Strays
    BY <1>1, <2>1 DEF AcquireLock, Strays
  <2>4. Removed(m) = {} /\ Removed(m)' = {}
    BY <1>1 DEF AcquireLock, Removed, Chosen
  <2>5. \A e \in Entry : Holding(e)' = Holding(e)
    BY <2>4, OthersKeep
  <2> QED BY <1>1, <2>2, <2>3, <2>5 DEF AcquireLock
<1>2. CASE Count(m) \/ ScanNone(m)
  <2>1. Removed(m) = {} /\ Removed(m)' = {}
    BY <1>2 DEF Count, ScanNone, Removed, Chosen
  <2>2. \A e \in Entry : Holding(e)' = Holding(e)
    BY <2>1, OthersKeep
  <2>3. /\ owner' = owner /\ mpc'[m] # "rem" /\ mpc[m] \in {"count", "scan"}
        /\ UNCHANGED <<queue, hits, lost, adds, left, overruns>>
    BY <1>2 DEF Count, ScanNone
  <2>4. Reserved' = Reserved
    BY <1>r, <2>3, HandsNext
  <2>5. Strays' = Strays \/ (m \in Strays /\ Strays' = Strays \ {m})
    <3>1. CASE owner = m
      BY <2>3, <3>1, HandsNext
    <3>2. CASE owner # m
      <4>1. /\ m \in Strays
            /\ Strays' = Strays \cup {m} \/ Strays' = Strays \ {m}
        BY <2>3, <3>2, HandsNext
      <4> HIDE DEF TypeOK, Advance
      <4> QED BY <4>1
    <3> QED BY <3>1, <3>2
  <2> QED BY <2>2, <2>3, <2>4, <2>5
<1>3. CASE ScanFound(m)
  <2>1. PICK e \in queue, f \in queue : Before(e, f) /\ pair' = [pair EXCEPT ![m] = <<e, f>>]
    BY <1>3 DEF ScanFound, FirstCandidate, Candidate, Adjacent
  <2>2. Chosen(m)' = {e, f}
    BY <2>1 DEF Chosen
  <2>3. Removed(m) = {} /\ Removed(m)' = {}
    BY <1>3 DEF ScanFound, Removed, Chosen
  <2>4. \A g \in Entry : Holding(g)' = Holding(g)
    BY <2>3, OthersKeep
  <2>5. /\ owner' = owner /\ mpc'[m] = "rem" /\ mpc[m] = "scan"
        /\ UNCHANGED <<queue, hits, lost, adds, left, overruns>>
    BY <1>3 DEF ScanFound
  <2>6. CASE owner = m
    <3>1. Reserved = {} /\ Reserved' = {e, f} /\ Strays' = Strays
      BY <1>r, <2>2, <2>5, <2>6, HandsNext
    <3> QED BY <2>1, <2>4, <2>5, <3>1
  <2>7. CASE owner # m
    <3>1. Reserved' = Reserved /\ m \in Strays /\ Strays' = Strays \cup {m}
      BY <2>5, <2>7, HandsNext
    <3>2. Strays' = Strays
      <4> HIDE DEF TypeOK, Advance
      <4> QED BY <3>1
    <3> QED BY <2>4, <2>5, <3>1, <3>2
  <2> QED BY <2>6, <2>7
<1>4. CASE Remove(m)
  <2>1. /\ owner' = owner /\ mpc'[m] = "del1" /\ mpc[m] = "rem"
        /\ UNCHANGED <<hits, lost, adds, left, overruns>> /\ queue' = queue \ Chosen(m)
        /\ pair' = pair /\ pair[m] # NoPair
    BY <1>4 DEF Remove
  <2>2. Removed(m) = {} /\ Removed(m)' = Chosen(m)
    BY <2>1 DEF Removed, Chosen
  <2>3. HeldMore(m, Chosen(m))
    BY <2>2, OthersKeep
  <2>4. Chosen(m) = {pair[m][1], pair[m][2]} /\ Before(pair[m][1], pair[m][2])
    BY <2>1 DEF Chosen, PairsOrdered
  <2>5. CASE owner = m
    <3>1. Reserved = Chosen(m) /\ Reserved' = {} /\ Strays' = Strays
      BY <1>r, <2>1, <2>5, HandsNext
    <3> QED BY <2>1, <2>3, <2>4, <3>1
  <2>6. CASE owner # m
    <3>1. Reserved' = Reserved /\ m \in Strays /\ Strays' = Strays \ {m}
      BY <2>1, <2>6, HandsNext
    <3>2. pair[m][1] \in Entry /\ pair[m][2] \in Entry
      BY <2>1
    <3>3. \E e, f \in Entry :
            Before(e, f) /\ queue' = queue \ {e, f} /\ HeldMore(m, {e, f})
      <4> HIDE DEF TypeOK, Advance
      <4> QED BY <2>1, <2>3, <2>4, <3>2
    <3> HIDE DEF TypeOK, Advance
    <3> QED BY <2>1, <3>1, <3>3
  <2> QED BY <2>5, <2>6
<1>5. CASE DeleteKey(m, "del1", 1, "del2") \/ DeleteKey(m, "del2", 2, "release")
  <2>1. /\ owner' = owner /\ mpc[m] \in {"del1", "del2"} /\ mpc'[m] \in {"del2", "release"}
        /\ UNCHANGED <<queue, hits, lost, adds, left, overruns, pair>>
    BY <1>5 DEF DeleteKey
  <2>2. Removed(m)' = Removed(m)
    BY <2>1 DEF Removed, Chosen
  <2>3. Reserved' = Reserved /\ Strays' = Strays
    <3>1. CASE owner = m
      BY <1>r, <2>1, <3>1, HandsNext
    <3>2. CASE owner # m
      <4>1. Reserved' = Reserved /\ m \notin Strays /\ Strays' = Strays \ {m}
        BY <2>1, <3>2, HandsNext
      <4> HIDE DEF TypeOK, Advance
      <4> QED BY <4>1
    <3> QED BY <3>1, <3>2
  <2>4. \A e \in Entry : Holding(e)' = Holding(e)
    BY <2>2, OthersKeep
  <2> HIDE DEF TypeOK, Advance
  <2> QED BY <2>1, <2>3, <2>4
<1>6. CASE ReleaseLock(m)
  <2>1. \A n \in Matcher : n # m => mpc'[n] = mpc[n] /\ Chosen(n)' = Chosen(n)
    BY OthersKeep
  <2>2. /\ mpc[m] = "release" /\ mpc'[m] = "idle"
        /\ owner' = IF owner = m THEN Nobody ELSE owner
        /\ UNCHANGED <<queue, lost, adds, left, overruns>> /\ hits' = Tally(hits, Chosen(m))
    BY <1>6 DEF ReleaseLock
  <2>3. Reserved' = Reserved
    BY <2>1, <2>2 DEF Reserved
  <2>4. Strays' = Strays
    BY <2>1, <2>2 DEF Strays
  <2>5. Removed(m) = Chosen(m) /\ Removed(m)' = {}
    BY <2>2 DEF Removed, Chosen
  <2>6. HeldLess(m, Chosen(m))
    BY <2>5, OthersKeep
  <2>7. Chosen(m) \in SUBSET Entry
    BY ChosenType
  <2> QED BY <2>2, <2>3, <2>4, <2>6, <2>7
<1>7. CASE MatcherDies(m)
  <2>1. /\ owner' = owner /\ mpc'[m] = "idle" /\ lost' = Tally(lost, Removed(m))
        /\ UNCHANGED <<queue, hits, adds, left, overruns>>
    BY <1>7 DEF MatcherDies
  <2>2. Removed(m)' = {}
    BY <2>1 DEF Removed, Chosen
  <2>3. HeldLess(m, Removed(m)) /\ Removed(m) \in SUBSET Entry
    BY <2>2, OthersKeep, ChosenType DEF Removed, Chosen
  <2>4. CASE mpc[m] \in {"count", "scan", "rem"}
    <3>1. Removed(m) = {}
      BY <2>4 DEF Removed, Chosen
    <3>2. lost' = lost /\ \A e \in Entry : Holding(e)' = Holding(e)
      BY <2>1, <2>2, <3>1, OthersKeep DEF Tally
    <3>3. CASE owner = m
      <4>1. Reserved' = {} /\ Strays' = Strays
        BY <2>1, <3>3, HandsNext
      <4> QED BY <2>1, <3>2, <4>1
    <3>4. CASE owner # m
      <4>1. Reserved' = Reserved /\ m \in Strays /\ Strays' = Strays \ {m}
        BY <2>1, <2>4, <3>4, HandsNext
      <4> HIDE DEF TypeOK, Advance
      <4> QED BY <2>1, <3>2, <4>1
    <3> QED BY <3>3, <3>4
  <2>5. CASE mpc[m] \notin {"count", "scan", "rem"}
    <3>1. Reserved' = Reserved /\ Strays' = Strays
      <4>1. CASE owner = m
        BY <1>r, <2>1, <2>5, <4>1, HandsNext
      <4>2. CASE owner # m
        <5>1. Reserved' = Reserved /\ m \notin Strays /\ Strays' = Strays \ {m}
          BY <2>1, <2>5, <4>2, HandsNext
        <5> HIDE DEF TypeOK, Advance
        <5> QED BY <5>1
      <4> QED BY <4>1, <4>2
    <3> QED BY <2>1, <2>3, <3>1
  <2> QED BY <2>4, <2>5
<1> QED BY <1>1, <1>2, <1>3, <1>4, <1>5, <1>6, <1>7 DEF Cycle

\* A lease that ends under a running cycle: it loses its reservation and may go
\* astray.
LEMMA OverrunStep ==
  ASSUME TypeOK, Overrun
  PROVE  /\ UNCHANGED <<queue, adds, left, hits, lost>> /\ overruns' = overruns + 1
         /\ \A e \in Entry : Holding(e)' = Holding(e)
         /\ \/ UNCHANGED <<Reserved, Strays>>
            \/ /\ Reserved' = {}
               /\ \E m \in Matcher \ Strays : Strays' = Strays \cup {m}
<1> USE DEF TypeOK, taskVars, matcherVars, history
<1>1. \A n \in Matcher : mpc'[n] = mpc[n] /\ Chosen(n)' = Chosen(n) /\ Removed(n)' = Removed(n)
  BY DEF Overrun, Chosen, Removed, Chosen
<1>2. \A e \in Entry : Holding(e)' = Holding(e)
  BY <1>1 DEF Holding
<1>3. owner \in Matcher /\ owner' = Nobody
  BY DEF Overrun
<1>4. Reserved' = {}
  BY <1>3 DEF Reserved
<1>5. CASE mpc[owner] \in {"count", "scan", "rem"}
  <2>1. owner \notin Strays /\ Strays' = Strays \cup {owner}
    BY <1>1, <1>3, <1>5 DEF Strays
  <2> QED BY <1>2, <1>3, <1>4, <2>1 DEF Overrun
<1>6. CASE mpc[owner] \notin {"count", "scan", "rem"}
  <2>1. Strays' = Strays
    BY <1>1, <1>3, <1>6 DEF Strays
  <2>2. Reserved = {}
    BY <1>6, ReservedIs
  <2> QED BY <1>2, <1>4, <2>1, <2>2 DEF Overrun
<1> QED BY <1>5, <1>6

LEMMA SameHands ==
  ASSUME UNCHANGED <<owner, matcherVars>>
  PROVE  UNCHANGED <<Reserved, Strays>> /\ \A e \in Entry : Holding(e)' = Holding(e)
BY DEF matcherVars, Reserved, Strays, Holding, Removed, Chosen

\* Every other step, by what it does to the queue.
LEMMA OtherStep ==
  ASSUME TypeOK, Tick \/ Lapse \/ (\E t \in Task : TaskStep(t)) \/ UNCHANGED vars
  PROVE  /\ UNCHANGED <<hits, lost, Reserved, Strays, overruns>>
         /\ \A e \in Entry : Holding(e)' = Holding(e)
         /\ \/ UNCHANGED <<queue, adds, left>>
            \/ /\ UNCHANGED left
               /\ \E e \in Entry :
                    /\ queue' = queue \cup {e}
                    /\ adds' = [adds EXCEPT ![e] = IF e \in queue THEN @ ELSE @ + 1]
            \/ /\ UNCHANGED adds
               /\ \E e \in Entry :
                    /\ queue' = queue \ {e}
                    /\ left' = [left EXCEPT ![e] = IF e \in queue THEN @ + 1 ELSE @]
<1> USE DEF TypeOK, taskVars, matcherVars, history
<1>1. CASE Tick \/ UNCHANGED vars
  BY <1>1, SameHands DEF Tick, vars
<1>0. CASE Lapse
  <2>1. Reserved' = Reserved /\ Strays' = Strays
    BY <1>0 DEF Lapse, Reserved, Strays, Chosen
  <2>2. \A e \in Entry : Holding(e)' = Holding(e)
    BY <1>0 DEF Lapse, Holding, Removed, Chosen
  <2> QED BY <1>0, <2>1, <2>2 DEF Lapse
<1>2. ASSUME NEW t \in Task, TaskStep(t)
      PROVE  /\ UNCHANGED <<hits, lost, Reserved, Strays, overruns>>
             /\ \A e \in Entry : Holding(e)' = Holding(e)
  <2>1. UNCHANGED <<hits, lost, overruns, owner, matcherVars>>
    BY <1>2 DEF TaskStep, JoinAllowed, LeaveFound, LeaveMissing, JoinAdd,
       JoinKey, LeaveRemove, LeaveKey, TaskDies
  <2> QED BY <2>1, SameHands
<1>3. ASSUME NEW t \in Task, TaskStep(t), ~JoinAdd(t), ~LeaveRemove(t)
      PROVE  UNCHANGED <<queue, adds, left>>
  BY <1>3 DEF TaskStep, JoinAllowed, LeaveFound, LeaveMissing, JoinKey, LeaveKey, TaskDies
<1>4. ASSUME NEW t \in Task, JoinAdd(t)
      PROVE  /\ UNCHANGED left
             /\ arg[t] \in Entry /\ queue' = queue \cup {arg[t]}
             /\ adds' = [adds EXCEPT ![arg[t]] = IF arg[t] \in queue THEN @ ELSE @ + 1]
  BY <1>4 DEF JoinAdd
<1>5. ASSUME NEW t \in Task, LeaveRemove(t)
      PROVE  /\ UNCHANGED adds
             /\ arg[t] \in Entry /\ queue' = queue \ {arg[t]}
             /\ left' = [left EXCEPT ![arg[t]] = IF arg[t] \in queue THEN @ + 1 ELSE @]
  BY <1>5 DEF LeaveRemove
<1>6. ASSUME NEW t \in Task, TaskStep(t)
      PROVE  \/ UNCHANGED <<queue, adds, left>>
             \/ /\ UNCHANGED left
                /\ \E e \in Entry :
                     /\ queue' = queue \cup {e}
                     /\ adds' = [adds EXCEPT ![e] = IF e \in queue THEN @ ELSE @ + 1]
             \/ /\ UNCHANGED adds
                /\ \E e \in Entry :
                     /\ queue' = queue \ {e}
                     /\ left' = [left EXCEPT ![e] = IF e \in queue THEN @ + 1 ELSE @]
  <2>1. CASE JoinAdd(t)
    BY <1>4, <2>1
  <2>2. CASE LeaveRemove(t)
    BY <1>5, <2>2
  <2> QED BY <1>3, <1>6, <2>1, <2>2
<1> QED BY <1>0, <1>1, <1>2, <1>6

\* The strengthening of NoDoubleMatch: a stray may still take any entry.
StraysCounted ==
  /\ IsFiniteSet(Strays)
  /\ \A e \in Entry :
       /\ IsFiniteSet(Holding(e))
       /\ hits[e] + lost[e] + Cardinality(Holding(e)) + One(e \in queue \cup Reserved)
            + Cardinality(Strays) <= adds[e] + overruns

LEMMA StraysCountedStep ==
  ASSUME TypeOK, PairsOrdered, StraysCounted, [Next]_vars
  PROVE  StraysCounted'
<1> DEFINE Left(e) == hits[e] + lost[e] + Cardinality(Holding(e))
                        + One(e \in queue \cup Reserved) + Cardinality(Strays)
           s == Cardinality(Strays)
<1>1. IsFiniteSet(Strays) /\ s \in Nat /\ overruns \in Nat
  BY FS_CardinalityType DEF StraysCounted, TypeOK
<1>2. \A m \in Matcher :
        /\ m \in Strays => IsFiniteSet(Strays \ {m}) /\ Cardinality(Strays \ {m}) = s - 1
        /\ m \notin Strays => IsFiniteSet(Strays \cup {m}) /\ Cardinality(Strays \cup {m}) = s + 1
  BY <1>1, FS_AddElement, FS_RemoveElement
<1>3. IsFiniteSet(Strays')
  <2>1. ASSUME NEW m \in Matcher, Cycle(m) \/ MatcherDies(m) PROVE IsFiniteSet(Strays')
    BY <1>1, <1>2, <2>1, MatcherStep
  <2>2. CASE Overrun
    BY <1>1, <1>2, <2>2, OverrunStep
  <2>3. CASE Tick \/ Lapse \/ (\E t \in Task : TaskStep(t)) \/ UNCHANGED vars
    BY <1>1, <2>3, OtherStep
  <2> QED BY <2>1, <2>2, <2>3 DEF Next
<1>4. ASSUME NEW e \in Entry
      PROVE  /\ IsFiniteSet(Holding(e)')
             /\ hits'[e] + lost'[e] + Cardinality(Holding(e)') + One(e \in queue' \cup Reserved')
                  + Cardinality(Strays') <= adds'[e] + overruns'
  <2> DEFINE h == Cardinality(Holding(e))
             Goal == /\ IsFiniteSet(Holding(e)')
                     /\ hits'[e] + lost'[e] + Cardinality(Holding(e)')
                          + One(e \in queue' \cup Reserved') + Cardinality(Strays')
                            <= adds'[e] + overruns'
  <2>1. IsFiniteSet(Holding(e)) /\ h \in Nat
    BY FS_CardinalityType DEF StraysCounted
  <2>2. hits[e] + lost[e] + h + One(e \in queue \cup Reserved) + s <= adds[e] + overruns
    BY DEF StraysCounted
  <2>3. hits[e] \in Nat /\ lost[e] \in Nat /\ adds[e] \in Nat
    BY DEF TypeOK
  <2>4. \A m \in Matcher :
          /\ m \in Holding(e) => /\ IsFiniteSet(Holding(e) \ {m})
                                 /\ Cardinality(Holding(e) \ {m}) = h - 1
          /\ m \notin Holding(e) => /\ IsFiniteSet(Holding(e) \cup {m})
                                    /\ Cardinality(Holding(e) \cup {m}) = h + 1
    BY <2>1, FS_AddElement, FS_RemoveElement
  <2> HIDE DEF h
  <2>5. ASSUME NEW m \in Matcher, Cycle(m) \/ MatcherDies(m) PROVE Goal
    <3>0. UNCHANGED <<adds, left, overruns>>
      BY <2>5, MatcherStep
    <3>1. CASE /\ UNCHANGED <<queue, hits, lost, Reserved>>
               /\ \A f \in Entry : Holding(f)' = Holding(f)
               /\ Strays' = Strays \/ (m \in Strays /\ Strays' = Strays \ {m})
      <4>1. Cardinality(Strays') <= s /\ Cardinality(Strays') \in Int
        <5>1. CASE Strays' = Strays
          <6>1. Cardinality(Strays') = s
            BY <5>1
          <6> QED BY <1>1, <6>1
        <5>2. CASE m \in Strays /\ Strays' = Strays \ {m}
          <6>1. Cardinality(Strays') = s - 1
            BY <1>2, <5>2
          <6> QED BY <1>1, <6>1
        <5> QED BY <3>1, <5>1, <5>2
      <4>2. /\ One(e \in queue' \cup Reserved') = One(e \in queue \cup Reserved)
            /\ One(e \in queue \cup Reserved) \in Nat
        BY <3>1 DEF One
      <4>3. IsFiniteSet(Holding(e)') /\ Cardinality(Holding(e)') = h
        BY <2>1, <3>1 DEF h
      <4> QED BY <1>1, <2>1, <2>2, <2>3, <3>0, <3>1, <4>1, <4>2, <4>3
    <3>2. CASE /\ UNCHANGED <<queue, hits, lost, Strays>> /\ Reserved = {}
               /\ \A f \in Entry : Holding(f)' = Holding(f)
               /\ \E f, g \in queue : Before(f, g) /\ Reserved' = {f, g}
      <4>1. One(e \in queue' \cup Reserved') = One(e \in queue \cup Reserved)
        BY <3>2 DEF One
      <4> QED BY <1>1, <2>1, <2>2, <2>3, <3>0, <3>2, <4>1 DEF h
    <3>3. CASE /\ UNCHANGED <<hits, lost, Strays>>
               /\ queue' = queue \ Reserved /\ HeldMore(m, Reserved)
               /\ Reserved # {} /\ Reserved' = {}
      <4>1. CASE e \in Reserved
        <5>1. Holding(e)' = Holding(e) \cup {m} /\ m \notin Holding(e)
          BY <3>3, <4>1 DEF HeldMore
        <5>2. One(e \in queue' \cup Reserved') = 0 /\ One(e \in queue \cup Reserved) = 1
          BY <3>3, <4>1 DEF One
        <5> QED BY <1>1, <2>1, <2>2, <2>3, <2>4, <3>0, <3>3, <5>1, <5>2
      <4>2. CASE e \notin Reserved
        <5>1. Holding(e)' = Holding(e)
          BY <3>3, <4>2 DEF HeldMore
        <5>2. One(e \in queue' \cup Reserved') = One(e \in queue \cup Reserved)
          BY <3>3, <4>2 DEF One
        <5> QED BY <1>1, <2>1, <2>2, <2>3, <3>0, <3>3, <5>1, <5>2 DEF h
      <4> QED BY <4>1, <4>2
    <3>4. CASE /\ UNCHANGED <<hits, lost, Reserved>>
               /\ m \in Strays /\ Strays' = Strays \ {m}
               /\ \E f, g \in Entry :
                    Before(f, g) /\ queue' = queue \ {f, g} /\ HeldMore(m, {f, g})
      <4>1. PICK f \in Entry, g \in Entry : queue' = queue \ {f, g} /\ HeldMore(m, {f, g})
        BY <3>4
      <4>2. One(e \in queue' \cup Reserved') <= One(e \in queue \cup Reserved)
        BY <3>4, <4>1 DEF One
      <4>3. One(e \in queue' \cup Reserved') \in Nat /\ One(e \in queue \cup Reserved) \in Nat
        BY DEF One
      <4>4. \/ Holding(e)' = Holding(e)
            \/ Holding(e)' = Holding(e) \cup {m} /\ m \notin Holding(e)
        BY <4>1 DEF HeldMore
      <4>5. IsFiniteSet(Holding(e)') /\ Cardinality(Holding(e)') \in {h, h + 1}
        BY <2>1, <2>4, <4>4 DEF h
      <4>6. Cardinality(Strays') = s - 1
        BY <1>2, <3>4
      <4> QED BY <1>1, <2>1, <2>2, <2>3, <3>0, <3>4, <4>2, <4>3, <4>5, <4>6
    <3>5. CASE /\ UNCHANGED <<queue, Reserved, Strays>>
               /\ \E S \in SUBSET Entry :
                    /\ HeldLess(m, S)
                    /\ \/ hits' = Tally(hits, S) /\ lost' = lost
                       \/ lost' = Tally(lost, S) /\ hits' = hits
      <4>1. PICK S \in SUBSET Entry :
               /\ HeldLess(m, S)
               /\ \/ hits' = Tally(hits, S) /\ lost' = lost
                  \/ lost' = Tally(lost, S) /\ hits' = hits
        BY <3>5
      <4>2. CASE e \in S
        <5>1. Holding(e)' = Holding(e) \ {m} /\ m \in Holding(e)
          BY <4>1, <4>2 DEF HeldLess
        <5>2. hits'[e] + lost'[e] = hits[e] + lost[e] + 1
          BY <2>3, <4>1, <4>2 DEF Tally
        <5>3. hits'[e] \in Nat /\ lost'[e] \in Nat
          BY <2>3, <4>1 DEF Tally
        <5>4. One(e \in queue' \cup Reserved') \in Nat
              /\ One(e \in queue' \cup Reserved') = One(e \in queue \cup Reserved)
          BY <3>5 DEF One
        <5>5. IsFiniteSet(Holding(e)') /\ Cardinality(Holding(e)') = h - 1
          BY <2>4, <5>1
        <5>6. Cardinality(Strays') = s /\ adds' = adds /\ overruns' = overruns
          BY <3>0, <3>5
        <5> QED BY <1>1, <2>1, <2>2, <2>3, <5>2, <5>3, <5>4, <5>5, <5>6
      <4>3. CASE e \notin S
        <5>1. Holding(e)' = Holding(e)
          BY <4>1, <4>3 DEF HeldLess
        <5>2. hits'[e] = hits[e] /\ lost'[e] = lost[e]
          BY <4>1, <4>3 DEF Tally
        <5> QED BY <1>1, <2>1, <2>2, <2>3, <3>0, <3>5, <5>1, <5>2 DEF One, h
      <4> QED BY <4>2, <4>3
    <3>6. CASE /\ UNCHANGED <<queue, hits, lost, Strays>>
               /\ \A f \in Entry : Holding(f)' = Holding(f)
               /\ Reserved # {} /\ Reserved' = {}
      BY <1>1, <2>1, <2>2, <2>3, <3>0, <3>6 DEF One, h
    <3> QED BY <2>5, <3>1, <3>2, <3>3, <3>4, <3>5, <3>6, MatcherStep
  <2>6. CASE Overrun
    <3>1. /\ UNCHANGED <<queue, adds, hits, lost>> /\ overruns' = overruns + 1
          /\ Holding(e)' = Holding(e)
      BY <2>6, OverrunStep
    <3>2. \/ UNCHANGED <<Reserved, Strays>>
          \/ /\ Reserved' = {}
             /\ \E m \in Matcher \ Strays : Strays' = Strays \cup {m}
      BY <2>6, OverrunStep
    <3>3. Cardinality(Strays') \in {s, s + 1}
      BY <1>2, <3>2
    <3>4. /\ One(e \in queue' \cup Reserved') <= One(e \in queue \cup Reserved)
          /\ One(e \in queue' \cup Reserved') \in Nat /\ One(e \in queue \cup Reserved) \in Nat
      BY <3>1, <3>2 DEF One
    <3> QED BY <1>1, <2>1, <2>2, <2>3, <3>1, <3>3, <3>4 DEF h
  <2>7. CASE Tick \/ Lapse \/ (\E t \in Task : TaskStep(t)) \/ UNCHANGED vars
    <3>0. /\ UNCHANGED <<hits, lost, Reserved, Strays, overruns>>
          /\ Holding(e)' = Holding(e)
      BY <2>7, OtherStep
    <3>1. CASE UNCHANGED <<queue, adds>>
      BY <1>1, <2>1, <2>2, <2>3, <3>0, <3>1 DEF h, One
    <3>2. ASSUME NEW f \in Entry, queue' = queue \cup {f},
                 adds' = [adds EXCEPT ![f] = IF f \in queue THEN @ ELSE @ + 1]
          PROVE  Goal
      <4>1. adds'[e] = IF e = f /\ f \notin queue THEN adds[e] + 1 ELSE adds[e]
        BY <3>2 DEF TypeOK
      <4> QED BY <1>1, <2>1, <2>2, <2>3, <3>0, <3>2, <4>1 DEF One, h
    <3>3. CASE adds' = adds /\ \E f \in Entry : queue' = queue \ {f}
      <4>1. /\ One(e \in queue' \cup Reserved') <= One(e \in queue \cup Reserved)
            /\ One(e \in queue' \cup Reserved') \in Nat /\ One(e \in queue \cup Reserved) \in Nat
        BY <3>0, <3>3 DEF One
      <4> QED BY <1>1, <2>1, <2>2, <2>3, <3>0, <3>3, <4>1 DEF h
    <3> QED BY <2>7, <3>1, <3>2, <3>3, OtherStep
  <2> QED BY <2>5, <2>6, <2>7 DEF Next
<1> QED BY <1>3, <1>4 DEF StraysCounted, One

LEMMA StraysAlwaysCounted == Spec => [](PairsOrdered /\ StraysCounted)
<1>1. Init => PairsOrdered
  BY DEF Init, PairsOrdered
<1>2. ASSUME Init PROVE StraysCounted
  <2>1. Strays = {} /\ Reserved = {} /\ \A e \in Entry : Holding(e) = {}
    BY <1>2 DEF Init, Strays, Reserved, Holding, Removed, Chosen
  <2>2. /\ IsFiniteSet(Strays) /\ Cardinality(Strays) = 0
        /\ \A e \in Entry : IsFiniteSet(Holding(e)) /\ Cardinality(Holding(e)) = 0
    BY <2>1, FS_EmptySet
  <2>3. ASSUME NEW e \in Entry
        PROVE  /\ hits[e] = 0 /\ lost[e] = 0 /\ adds[e] = 0 /\ overruns = 0
               /\ One(e \in queue \cup Reserved) = 0
    BY <1>2, <2>1 DEF Init, One
  <2> QED BY <2>2, <2>3 DEF StraysCounted
<1>3. TypeOK /\ PairsOrdered /\ StraysCounted /\ [Next]_vars => PairsOrdered' /\ StraysCounted'
  BY PairsOrderedStep, StraysCountedStep
<1> QED BY <1>1, <1>2, <1>3, TypeCorrect, PTL DEF Spec

\* Every insertion of an entry feeds at most one match, and each lease that ended
\* under a running cycle at most one more, however joins, leaves, expiries,
\* crashes and overrunning cycles interleave.
THEOREM NobodyMatchedTwice == Spec => []NoDoubleMatch
<1>1. TypeOK /\ StraysCounted => NoDoubleMatch
  <2> SUFFICES ASSUME TypeOK, StraysCounted, NEW e \in Entry
               PROVE  hits[e] + lost[e] + Cardinality(Holding(e))
                        + One(e \in queue \cup Reserved) <= adds[e] + overruns
    BY DEF NoDoubleMatch
  <2>1. Cardinality(Strays) \in Nat /\ Cardinality(Holding(e)) \in Nat
    BY FS_CardinalityType DEF StraysCounted
  <2> QED BY <2>1 DEF StraysCounted, TypeOK, One
<1> QED BY <1>1, TypeCorrect, StraysAlwaysCounted, PTL

\* Of which cycles hold an entry, a step of a matcher changes its own part.
LEMMA HoldingStep ==
  ASSUME TypeOK, NEW m \in Matcher, Cycle(m) \/ MatcherDies(m), NEW e \in Entry
  PROVE  /\ UNCHANGED <<adds, left>>
         /\ \/ /\ UNCHANGED <<hits, lost>>
               /\ e \in queue => e \in queue'
               /\ Holding(e)' = Holding(e)
            \/ /\ UNCHANGED <<hits, lost>>
               /\ m \notin Holding(e) /\ Holding(e)' = Holding(e) \cup {m}
            \/ /\ queue' = queue
               /\ m \in Holding(e) /\ Holding(e)' = Holding(e) \ {m}
               /\ \/ hits'[e] = hits[e] + 1 /\ lost' = lost
                  \/ lost'[e] = lost[e] + 1 /\ hits' = hits
            \/ /\ queue' = queue
               /\ Holding(e)' = Holding(e)
               /\ hits'[e] = hits[e] /\ lost'[e] = lost[e]
<1> USE DEF TypeOK, Advance, taskVars, history
<1>1. \A n \in Matcher : n # m => mpc'[n] = mpc[n] /\ pair'[n] = pair[n]
  BY DEF Cycle, AcquireLock, Count, ScanFound, ScanNone, Remove, DeleteKey, ReleaseLock,
         MatcherDies
<1>2. \A n \in Matcher : n # m => Removed(n)' = Removed(n)
  BY <1>1 DEF Removed, Chosen
<1>3. /\ Removed(m)' = Removed(m) => Holding(e)' = Holding(e)
      /\ e \notin Removed(m) /\ e \notin Removed(m)' => Holding(e)' = Holding(e)
      /\ e \in Removed(m)' => Holding(e)' = Holding(e) \cup {m}
      /\ e \notin Removed(m)' => Holding(e)' = Holding(e) \ {m}
      /\ m \in Holding(e) <=> e \in Removed(m)
  BY <1>2 DEF Holding
<1>4. CASE AcquireLock(m) \/ Count(m) \/ ScanFound(m) \/ ScanNone(m)
  <2>1. Removed(m) = {} /\ Removed(m)' = {}
    BY <1>4 DEF AcquireLock, Count, ScanFound, ScanNone, Removed, Chosen
  <2> QED BY <1>3, <1>4, <2>1 DEF AcquireLock, Count, ScanFound, ScanNone
<1>5. CASE Remove(m)
  <2>1. Removed(m) = {} /\ Removed(m)' = Chosen(m)
    BY <1>5 DEF Remove, Removed, Chosen
  <2>2. UNCHANGED <<adds, left, hits, lost>> /\ queue' = queue \ Chosen(m)
    BY <1>5 DEF Remove
  <2>3. CASE e \in Chosen(m)
    BY <1>3, <2>1, <2>2, <2>3
  <2>4. CASE e \notin Chosen(m)
    BY <1>3, <2>1, <2>2, <2>4
  <2> QED BY <2>3, <2>4
<1>6. CASE DeleteKey(m, "del1", 1, "del2") \/ DeleteKey(m, "del2", 2, "release")
  <2>1. Removed(m)' = Removed(m)
    BY <1>6 DEF DeleteKey, Removed, Chosen
  <2> QED BY <1>3, <1>6, <2>1 DEF DeleteKey
<1>7. CASE ReleaseLock(m)
  <2>1. Removed(m) = Chosen(m) /\ Removed(m)' = {}
    BY <1>7 DEF ReleaseLock, Removed, Chosen
  <2>2. /\ UNCHANGED <<adds, left, queue, lost>>
        /\ hits'[e] = IF e \in Removed(m) THEN hits[e] + 1 ELSE hits[e]
    BY <1>7, <2>1 DEF ReleaseLock, Tally
  <2> QED BY <1>3, <2>1, <2>2
<1>8. CASE MatcherDies(m)
  <2>1. Removed(m)' = {}
    BY <1>8 DEF MatcherDies, Removed, Chosen
  <2>2. /\ UNCHANGED <<adds, left, queue, hits>>
        /\ lost'[e] = IF e \in Removed(m) THEN lost[e] + 1 ELSE lost[e]
    BY <1>8 DEF MatcherDies, Tally
  <2> QED BY <1>3, <2>1, <2>2
<1> QED BY <1>4, <1>5, <1>6, <1>7, <1>8 DEF Cycle

LEMMA NoLostEntryStep ==
  ASSUME TypeOK, NoLostEntry, \A e \in Entry : IsFiniteSet(Holding(e)), [Next]_vars,
         NEW e \in Entry
  PROVE  /\ IsFiniteSet(Holding(e)')
         /\ adds'[e] <= One(e \in queue') + Cardinality(Holding(e)')
                          + hits'[e] + left'[e] + lost'[e]
<1> DEFINE held == Cardinality(Holding(e))
<1>1. adds[e] <= One(e \in queue) + held + hits[e] + left[e] + lost[e]
  BY DEF NoLostEntry
<1>2. /\ hits[e] \in Nat /\ lost[e] \in Nat
      /\ adds[e] \in Nat /\ left[e] \in Nat
  BY DEF TypeOK
<1>3. IsFiniteSet(Holding(e)) /\ held \in Nat
  BY FS_CardinalityType
<1>4. CASE Tick \/ Lapse \/ (\E t \in Task : TaskStep(t)) \/ UNCHANGED vars
  <2>1. UNCHANGED matcherVars
    BY <1>4 DEF Tick, Lapse, TaskStep, JoinAllowed, LeaveFound, LeaveMissing, JoinAdd, JoinKey,
                LeaveRemove, LeaveKey, TaskDies, vars
  <2>2. Holding(e)' = Holding(e)
    BY <2>1 DEF matcherVars, Holding, Removed, Chosen
  <2>3. CASE UNCHANGED <<queue, adds, left>>
    BY <1>1, <1>3, <1>4, <2>2, <2>3, OtherStep
  <2>4. ASSUME NEW f \in Entry, queue' = queue \cup {f}, left' = left,
               adds' = [adds EXCEPT ![f] = IF f \in queue THEN @ ELSE @ + 1]
        PROVE  adds'[e] <= One(e \in queue') + held + hits'[e] + left'[e] + lost'[e]
    <3>1. adds'[e] = IF e = f /\ f \notin queue THEN adds[e] + 1 ELSE adds[e]
      BY <2>4 DEF TypeOK
    <3> HIDE DEF held
    <3> QED BY <1>1, <1>2, <1>3, <1>4, <2>4, <3>1, OtherStep DEF One
  <2>5. ASSUME NEW f \in Entry, queue' = queue \ {f}, adds' = adds,
               left' = [left EXCEPT ![f] = IF f \in queue THEN @ + 1 ELSE @]
        PROVE  adds'[e] <= One(e \in queue') + held + hits'[e] + left'[e] + lost'[e]
    <3>1. left'[e] = IF e = f /\ f \in queue THEN left[e] + 1 ELSE left[e]
      BY <2>5 DEF TypeOK
    <3> HIDE DEF held
    <3> QED BY <1>1, <1>2, <1>3, <1>4, <2>5, <3>1, OtherStep DEF One
  <2> QED BY <1>3, <1>4, <2>2, <2>3, <2>4, <2>5, OtherStep
<1>5. ASSUME NEW m \in Matcher, Cycle(m) \/ MatcherDies(m)
      PROVE  /\ IsFiniteSet(Holding(e)')
             /\ adds'[e] <= One(e \in queue') + Cardinality(Holding(e)')
                              + hits'[e] + left'[e] + lost'[e]
  <2>1. /\ m \notin Holding(e) =>
             /\ IsFiniteSet(Holding(e) \cup {m})
             /\ Cardinality(Holding(e) \cup {m}) = held + 1
        /\ m \in Holding(e) =>
             /\ IsFiniteSet(Holding(e) \ {m})
             /\ Cardinality(Holding(e) \ {m}) = held - 1
    BY <1>3, FS_AddElement, FS_RemoveElement
  <2>2. UNCHANGED <<adds, left>>
    BY <1>5, HoldingStep
  <2>3. CASE /\ UNCHANGED <<hits, lost>>
             /\ e \in queue => e \in queue'
             /\ Holding(e)' = Holding(e)
    BY <1>1, <1>2, <1>3, <2>2, <2>3 DEF One
  <2>4. CASE /\ UNCHANGED <<hits, lost>>
             /\ m \notin Holding(e) /\ Holding(e)' = Holding(e) \cup {m}
    BY <1>1, <1>2, <1>3, <2>1, <2>2, <2>4 DEF One
  <2>5. CASE /\ queue' = queue
             /\ m \in Holding(e) /\ Holding(e)' = Holding(e) \ {m}
             /\ \/ hits'[e] = hits[e] + 1 /\ lost' = lost
                \/ lost'[e] = lost[e] + 1 /\ hits' = hits
    BY <1>1, <1>2, <1>3, <2>1, <2>2, <2>5 DEF One
  <2>6. CASE /\ queue' = queue
             /\ Holding(e)' = Holding(e)
             /\ hits'[e] = hits[e] /\ lost'[e] = lost[e]
    BY <1>1, <1>2, <1>3, <2>2, <2>6 DEF One
  <2> QED BY <1>5, <2>3, <2>4, <2>5, <2>6, HoldingStep
<1>6. CASE Overrun
  <2>1. UNCHANGED <<queue, adds, left, hits, lost>> /\ Holding(e)' = Holding(e)
    BY <1>6, OverrunStep
  <2> QED BY <1>1, <1>3, <2>1
<1> QED BY <1>4, <1>5, <1>6 DEF Next

\* An inserted entry only leaves the queue by a match, by its player's leaving or
\* with a process that dies, even if matchers outlive their lease: ZREM takes an
\* entry away from whoever else has chosen it, and returns it or dies with it.
THEOREM NobodyForgotten == Spec => []NoLostEntry
<1> DEFINE Finite == \A e \in Entry : IsFiniteSet(Holding(e))
<1>1. Init => NoLostEntry /\ Finite
  <2>1. Init => \A e \in Entry : Holding(e) = {}
    BY DEF Init, Holding, Removed, Chosen
  <2>2. Init => \A e \in Entry : IsFiniteSet(Holding(e)) /\ Cardinality(Holding(e)) = 0
    BY <2>1, FS_EmptySet
  <2>3. ASSUME Init, NEW e \in Entry
        PROVE  adds[e] <= One(e \in queue) + Cardinality(Holding(e)) + hits[e] + left[e] + lost[e]
    <3>1. /\ adds[e] = 0 /\ hits[e] = 0 /\ left[e] = 0 /\ lost[e] = 0
          /\ One(e \in queue) = 0 /\ Cardinality(Holding(e)) = 0
      BY <2>2, <2>3 DEF Init, One
    <3> QED BY <3>1
  <2> QED BY <2>2, <2>3 DEF NoLostEntry
<1>2. TypeOK /\ NoLostEntry /\ Finite /\ [Next]_vars => NoLostEntry' /\ Finite'
  BY NoLostEntryStep DEF NoLostEntry
<1> QED BY <1>1, <1>2, TypeCorrect, PTL DEF Spec

-----------------------------------------------------------------------------
(* Refinement: Matchmaking implements MatchQueue.                            *)

Paired == [e \in Entry |-> hits[e] + lost[e] + Cardinality(Holding(e))]

Astray == Cardinality(Strays)

LEMMA PairedSame ==
  ASSUME UNCHANGED <<hits, lost>>, \A e \in Entry : Holding(e)' = Holding(e)
  PROVE  Paired' = Paired
BY DEF Paired

\* What a cycle takes counts as paired at once, and still does when it has
\* been returned or lost.
LEMMA PairedMore ==
  ASSUME TypeOK, StraysCounted, NEW m \in Matcher, NEW S \in SUBSET Entry,
         UNCHANGED <<hits, lost>>, HeldMore(m, S)
  PROVE  Paired' = [e \in Entry |-> IF e \in S THEN Paired[e] + 1 ELSE Paired[e]]
<1>1. ASSUME NEW e \in Entry
      PROVE  Cardinality(Holding(e)') = IF e \in S THEN Cardinality(Holding(e)) + 1
                                                   ELSE Cardinality(Holding(e))
  <2>1. IsFiniteSet(Holding(e))
    BY DEF StraysCounted
  <2>2. m \notin Holding(e) => Cardinality(Holding(e) \cup {m}) = Cardinality(Holding(e)) + 1
    BY <2>1, FS_AddElement
  <2> QED BY <2>2 DEF HeldMore
<1>2. \A e \in Entry : Cardinality(Holding(e)) \in Nat
  BY FS_CardinalityType DEF StraysCounted
<1>3. ASSUME NEW e \in Entry
      PROVE  hits'[e] + lost'[e] + Cardinality(Holding(e)') =
               IF e \in S THEN Paired[e] + 1 ELSE Paired[e]
  <2>1. Paired[e] = hits[e] + lost[e] + Cardinality(Holding(e))
    BY DEF Paired
  <2>2. hits[e] \in Nat /\ lost[e] \in Nat /\ Cardinality(Holding(e)) \in Nat
    BY <1>2 DEF TypeOK
  <2> QED BY <1>1, <2>1, <2>2
<1> QED BY <1>3 DEF Paired

LEMMA PairedStays ==
  ASSUME TypeOK, StraysCounted, NEW m \in Matcher, NEW S \in SUBSET Entry, HeldLess(m, S),
         \/ hits' = Tally(hits, S) /\ lost' = lost
         \/ lost' = Tally(lost, S) /\ hits' = hits
  PROVE  Paired' = Paired
<1>1. ASSUME NEW e \in Entry
      PROVE  hits'[e] + lost'[e] + Cardinality(Holding(e)') =
               hits[e] + lost[e] + Cardinality(Holding(e))
  <2>1. IsFiniteSet(Holding(e)) /\ Cardinality(Holding(e)) \in Nat
    BY FS_CardinalityType DEF StraysCounted
  <2>2. m \in Holding(e) => Cardinality(Holding(e) \ {m}) = Cardinality(Holding(e)) - 1
    BY <2>1, FS_RemoveElement
  <2>3. Cardinality(Holding(e)') = IF e \in S THEN Cardinality(Holding(e)) - 1
                                              ELSE Cardinality(Holding(e))
    BY <2>2 DEF HeldLess
  <2>4. hits[e] \in Nat /\ lost[e] \in Nat
    BY DEF TypeOK
  <2>5. hits'[e] + lost'[e] = IF e \in S THEN hits[e] + lost[e] + 1 ELSE hits[e] + lost[e]
    BY <2>4 DEF Tally
  <2>6. hits'[e] \in Nat /\ lost'[e] \in Nat
    BY <2>4 DEF Tally
  <2> QED BY <2>1, <2>3, <2>4, <2>5, <2>6
<1> QED BY <1>1 DEF Paired

\* A cycle enters or leaves the strays.
LEMMA AstrayChange ==
  ASSUME StraysCounted, NEW m \in Matcher
  PROVE  /\ Astray \in Nat
         /\ m \in Strays /\ Strays' = Strays \ {m} => Astray > 0 /\ Astray' = Astray - 1
         /\ m \notin Strays /\ Strays' = Strays \cup {m} => Astray' = Astray + 1
<1>1. IsFiniteSet(Strays) /\ Astray \in Nat
  BY FS_CardinalityType DEF StraysCounted, Astray
<1>2. m \in Strays => Cardinality(Strays \ {m}) = Astray - 1
  BY <1>1, FS_RemoveElement DEF Astray
<1>3. m \notin Strays => Cardinality(Strays \cup {m}) = Astray + 1
  BY <1>1, FS_AddElement DEF Astray
<1>4. m \in Strays => Astray # 0
  BY <1>1, FS_EmptySet DEF Astray
<1>5. ASSUME m \in Strays, Strays' = Strays \ {m}
      PROVE  Astray > 0 /\ Astray' = Astray - 1
  <2>1. Astray' = Cardinality(Strays \ {m})
    BY <1>5 DEF Astray
  <2> QED BY <1>1, <1>2, <1>4, <1>5, <2>1
<1>6. ASSUME m \notin Strays, Strays' = Strays \cup {m}
      PROVE  Astray' = Astray + 1
  <2>1. Astray' = Cardinality(Strays \cup {m})
    BY <1>6 DEF Astray
  <2> QED BY <1>3, <1>6, <2>1
<1> QED BY <1>1, <1>5, <1>6

LEMMA CycleImplementsQueueStep ==
  ASSUME TypeOK, PairsOrdered, StraysCounted, NEW m \in Matcher, Cycle(m) \/ MatcherDies(m)
  PROVE  [Promise!Next]_Promise!queueVars
<1> USE DEF Promise!queueVars
<1>0. overruns' = overruns /\ queue \subseteq Entry /\ Reserved \subseteq Entry
  BY MatcherStep, ReservedIs, ChosenType DEF TypeOK
<1>1. CASE /\ UNCHANGED <<queue, hits, lost, Reserved>>
           /\ \A e \in Entry : Holding(e)' = Holding(e)
           /\ Strays' = Strays \/ (m \in Strays /\ Strays' = Strays \ {m})
  <2>1. Paired' = Paired
    BY <1>1, PairedSame
  <2>2. CASE Strays' = Strays
    BY <1>0, <1>1, <2>1, <2>2 DEF Paired
  <2>3. CASE m \in Strays /\ Strays' = Strays \ {m}
    <3>1. Promise!StrayEnds
      BY <1>0, <1>1, <2>1, <2>3, AstrayChange DEF Promise!StrayEnds, Paired, Astray
    <3> QED BY <3>1 DEF Promise!Next
  <2> QED BY <1>1, <2>2, <2>3
<1>2. ASSUME UNCHANGED <<queue, hits, lost, Strays>>, Reserved = {},
             \A g \in Entry : Holding(g)' = Holding(g),
             NEW e \in queue, NEW f \in queue, Before(e, f), Reserved' = {e, f}
      PROVE  [Promise!Next]_Promise!queueVars
  <2>1. e \in Entry /\ f \in Entry /\ e # f
    BY <1>0, <1>2, BeforeIsOrder
  <2>2. Paired' = Paired
    BY <1>2, PairedSame
  <2>3. Promise!Reserve(e, f)
    BY <1>0, <1>2, <2>1, <2>2 DEF Promise!Reserve, Paired
  <2> QED BY <2>1, <2>3 DEF Promise!Next
<1>3. CASE /\ UNCHANGED <<hits, lost, Strays>>
           /\ queue' = queue \ Reserved /\ HeldMore(m, Reserved)
           /\ Reserved # {} /\ Reserved' = {}
  <2>1. Paired' = [e \in Entry |-> IF e \in Reserved THEN Paired[e] + 1 ELSE Paired[e]]
    BY <1>0, <1>3, PairedMore
  <2>2. Promise!Take
    BY <1>0, <1>3, <2>1 DEF Promise!Take, Promise!Pair, Paired
  <2> QED BY <2>2 DEF Promise!Next
<1>4. ASSUME UNCHANGED <<hits, lost, Reserved>>, m \in Strays, Strays' = Strays \ {m},
             NEW e \in Entry, NEW f \in Entry, Before(e, f),
             queue' = queue \ {e, f}, HeldMore(m, {e, f})
      PROVE  [Promise!Next]_Promise!queueVars
  <2>1. e # f
    BY <1>4, BeforeIsOrder
  <2>2. {e, f} \in SUBSET Entry
    OBVIOUS
  <2>3. Paired' = [g \in Entry |-> IF g \in {e, f} THEN Paired[g] + 1 ELSE Paired[g]]
    BY <1>4, <2>2, PairedMore
  <2>4. queue' \ Reserved' = (queue \ Reserved) \ {e, f}
    BY <1>4
  <2>5. Astray > 0 /\ Astray' = Astray - 1
    BY <1>4, AstrayChange
  <2>6. Promise!StrayTake(e, f)
    BY <1>0, <1>4, <2>1, <2>3, <2>4, <2>5 DEF Promise!StrayTake, Promise!Pair, Paired, Astray
  <2> QED BY <2>6 DEF Promise!Next
<1>5. ASSUME UNCHANGED <<queue, Reserved, Strays>>, NEW S \in SUBSET Entry, HeldLess(m, S),
             \/ hits' = Tally(hits, S) /\ lost' = lost
             \/ lost' = Tally(lost, S) /\ hits' = hits
      PROVE  [Promise!Next]_Promise!queueVars
  <2>1. Paired' = Paired
    BY <1>5, PairedStays
  <2> QED BY <1>0, <1>5, <2>1 DEF Paired
<1>6. CASE /\ UNCHANGED <<queue, hits, lost, Strays>>
           /\ \A e \in Entry : Holding(e)' = Holding(e)
           /\ Reserved # {} /\ Reserved' = {}
  <2>1. Paired' = Paired
    BY <1>6, PairedSame
  <2>2. queue' \ Reserved' = (queue \ Reserved) \cup (queue \cap Reserved)
    BY <1>6
  <2>3. Promise!GiveUp
    BY <1>0, <1>6, <2>1, <2>2 DEF Promise!GiveUp, Promise!PutBack, Paired
  <2> QED BY <2>3 DEF Promise!Next
<1> QED BY <1>1, <1>2, <1>3, <1>4, <1>5, <1>6, MatcherStep

LEMMA OverrunImplementsQueueStep ==
  ASSUME TypeOK, StraysCounted, Overrun
  PROVE  Promise!Overrun
<1>1. /\ UNCHANGED <<queue, hits, lost>> /\ overruns' = overruns + 1
      /\ \A e \in Entry : Holding(e)' = Holding(e)
  BY OverrunStep
<1>2. Paired' = Paired
  BY <1>1, PairedSame
<1>3. CASE UNCHANGED <<Reserved, Strays>>
  BY <1>1, <1>2, <1>3 DEF Promise!Overrun, Paired
<1>4. ASSUME Reserved' = {}, NEW m \in Matcher \ Strays, Strays' = Strays \cup {m}
      PROVE  Promise!Overrun
  <2>1. queue' \ Reserved' = (queue \ Reserved) \cup (queue \cap Reserved)
    BY <1>1, <1>4
  <2>2. Astray' = Astray + 1
    BY <1>4, AstrayChange
  <2>3. Promise!PutBack
    BY <1>2, <1>4, <2>1 DEF Promise!PutBack, Paired
  <2> QED BY <1>1, <2>2, <2>3 DEF Promise!Overrun, Astray
<1> QED BY <1>3, <1>4, OverrunStep

LEMMA OtherImplementsQueueStep ==
  ASSUME TypeOK, Tick \/ Lapse \/ (\E t \in Task : TaskStep(t)) \/ UNCHANGED vars
  PROVE  [Promise!Next]_Promise!queueVars
<1> USE DEF Promise!queueVars
<1>1. UNCHANGED <<Reserved, Strays, overruns>> /\ Paired' = Paired
  BY OtherStep, PairedSame
<1>2. CASE queue' = queue
  BY <1>1, <1>2 DEF Paired
<1>3. ASSUME NEW e \in Entry, queue' = queue \cup {e}
      PROVE  [Promise!Next]_Promise!queueVars
  <2>1. CASE e \in queue \cup Reserved
    <3>1. queue' \ Reserved' = queue \ Reserved
      BY <1>1, <1>3, <2>1
    <3> QED BY <1>1, <3>1 DEF Paired
  <2>2. CASE e \notin queue \cup Reserved
    <3>1. Promise!Enter(e)
      BY <1>1, <1>3, <2>2 DEF Promise!Enter, Paired
    <3> QED BY <3>1 DEF Promise!Next
  <2> QED BY <2>1, <2>2
<1>4. ASSUME NEW e \in Entry, queue' = queue \ {e}
      PROVE  [Promise!Next]_Promise!queueVars
  <2>1. CASE e \in queue \ Reserved
    <3>1. Promise!Withdraw(e)
      BY <1>1, <1>4, <2>1 DEF Promise!Withdraw, Paired
    <3> QED BY <3>1 DEF Promise!Next
  <2>2. CASE e \notin queue \ Reserved
    <3>1. queue' \ Reserved' = queue \ Reserved
      BY <1>1, <1>4, <2>2
    <3> QED BY <1>1, <3>1 DEF Paired
  <2> QED BY <2>1, <2>2
<1> QED BY <1>2, <1>3, <1>4, OtherStep

\* The service is the queue that reserves and takes two entries at once, in
\* which pairings that overrun their time go astray: no assumption is made
\* about how long a cycle takes.
THEOREM MatchmakingImplementsMatchQueue == Spec => ImplementsMatchQueue
<1>1. ASSUME Init PROVE Promise!Init
  <2>1. Strays = {} /\ Reserved = {} /\ \A e \in Entry : Holding(e) = {}
    BY <1>1 DEF Init, Strays, Reserved, Holding, Removed, Chosen
  <2>2. Cardinality(Strays) = 0 /\ \A e \in Entry : Cardinality(Holding(e)) = 0
    BY <2>1, FS_EmptySet
  <2>3. ASSUME NEW e \in Entry PROVE hits[e] + lost[e] + Cardinality(Holding(e)) = 0
    BY <1>1, <2>2 DEF Init
  <2>4. queue \ Reserved = {} /\ overruns = 0
    BY <1>1 DEF Init
  <2> QED BY <2>1, <2>2, <2>3, <2>4 DEF Promise!Init
<1>2. ASSUME TypeOK, PairsOrdered, StraysCounted, [Next]_vars
      PROVE  [Promise!Next]_Promise!queueVars
  <2>1. CASE Overrun
    BY <1>2, <2>1, OverrunImplementsQueueStep DEF Promise!Next
  <2> QED BY <1>2, <2>1, CycleImplementsQueueStep, OtherImplementsQueueStep DEF Next
<1> QED BY <1>1, <1>2, TypeCorrect, StraysAlwaysCounted, PTL
        DEF Spec, Promise!Spec, ImplementsMatchQueue
=============================================================================
