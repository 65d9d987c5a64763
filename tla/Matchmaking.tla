----------------------------- MODULE Matchmaking -----------------------------
(***************************************************************************)
(* src/matchmaking/matchmakingService.ts for one region: joinQueue and     *)
(* leaveQueue, run by the message and close handlers of every player's     *)
(* socket, and processMatchmaking, run by the interval timer of every      *)
(* server (a cycle that is still running does not hold back the next one,  *)
(* so one server may run several).                                         *)
(*                                                                         *)
(* An await is a point where anything else may run: every Redis command is *)
(* one step and each call keeps a program counter between its commands.    *)
(* The code between two awaits belongs to the step before it.              *)
(*                                                                         *)
(* The lock is the lease lock that RedisLock implements: `owner` is        *)
(* LeaseLock's variable, and a matcher with a program counter other than   *)
(* "idle" believes it holds the lock.  acquireLock's retries show here as  *)
(* a matcher that stays idle.                                              *)
(***************************************************************************)
EXTENDS Integers, FiniteSets

CONSTANTS Players,     \* how many players the region has
          Rating,      \* rating of each player's session
          Task,        \* concurrent joinQueue and leaveQueue calls
          Matcher,     \* concurrent processMatchmaking calls
          Nobody,      \* the lock is free
          NoEntry,     \* the call has ended
          NoPair,      \* the matcher has chosen nobody
          RatingRange, \* MATCHMAKING_RATING_RANGE
          RangeStep,   \* 50: what one waiting period adds to the range
          KeyTTL,      \* MATCHMAKING_TIMEOUT_MS in waiting periods
          MaxTime,     \* bound of the model: the clock stops here
          MaxJoins,    \* bound of the model: joins
          MaxFaults    \* bound of the model: processes that die and leases
                       \* that end under a running cycle

\* The players, numbered in the order of their ids.
Player == 1 .. Players

ASSUME PlayersAssumption == Players \in Nat
ASSUME RatingAssumption == Rating \in [Player -> Nat]
ASSUME NobodyAssumption == Nobody \notin Matcher
ASSUME NumberAssumption ==
  /\ RatingRange \in Nat /\ RangeStep \in Nat /\ KeyTTL \in Nat
  /\ MaxTime \in Nat /\ MaxJoins \in Nat /\ MaxFaults \in Nat

\* A member of the sorted set: the JSON of one QueueEntry.  Two entries of a
\* player differ in joinedAt only.
Entry == [player : Player, joinedAt : 0 .. MaxTime]

ASSUME NullAssumption == NoPair \notin Entry \X Entry /\ NoEntry \notin Entry

VARIABLES clock,     \* Date.now() in periods of 5000 ms
          queue,     \* the sorted set matchmaking:queue:{region}
          keyExp,    \* when each player's key matchmaking:player:{id} expires
          owner,     \* who holds lock:matchmaking:{region}
          tpc, arg,  \* per call of joinQueue or leaveQueue: where it is, its entry
          mpc, pair, \* per call of processMatchmaking: where it is, what it chose
          crashes,   \* processes that died
          overruns,  \* history: leases that ended under a running cycle
          joins,     \* counter of the bound: joins that passed the key check
          adds,      \* history: how often ZADD inserted each entry
          hits,      \* history: how often each entry was returned in a match
          left,      \* history: how often a leaveQueue removed each entry
          lost       \* history: how often a matcher died holding each entry

taskVars == <<tpc, arg>>
matcherVars == <<mpc, pair>>
history == <<joins, adds, hits, left, lost>>
vars == <<clock, queue, keyExp, owner, taskVars, matcherVars, crashes, overruns, history>>

TaskPC == {"idle", "joinAdd", "joinKey", "leaveRem", "leaveKey"}
MatcherPC == {"idle", "count", "scan", "rem", "del1", "del2", "release"}

KeyVisible(p) == clock < keyExp[p]

\* The order of the sorted set: by score, then by the text of the member,
\* which starts with the player's id and ends with joinedAt.
Before(e, f) ==
  \/ Rating[e.player] < Rating[f.player]
  \/ /\ Rating[e.player] = Rating[f.player]
     /\ \/ e.player < f.player
        \/ e.player = f.player /\ e.joinedAt < f.joinedAt

\* Mutant of Adjacent: the loop ends one pair too early.
AdjacentButLast(S, e, f) ==
  /\ e \in S /\ f \in S /\ Before(e, f)
  /\ ~ \E g \in S : Before(e, g) /\ Before(g, f)
  /\ \E g \in S : Before(f, g)

Adjacent(S, e, f) ==
  /\ e \in S /\ f \in S /\ Before(e, f)
  /\ ~ \E g \in S : Before(e, g) /\ Before(g, f)

Larger(a, b) == IF a >= b THEN a ELSE b
Gap(e, f) == IF Rating[e.player] >= Rating[f.player]
             THEN Rating[e.player] - Rating[f.player]
             ELSE Rating[f.player] - Rating[e.player]

\* The acceptance test: the range grows with the longer wait of the two.
InRange(e, f, t) ==
  Gap(e, f) <= RatingRange + RangeStep * Larger(t - e.joinedAt, t - f.joinedAt)

Candidate(S, e, f, t) == Adjacent(S, e, f) /\ InRange(e, f, t)

\* The pair at which the scan of the snapshot S stops.
FirstCandidate(S, e, f, t) ==
  /\ Candidate(S, e, f, t)
  /\ ~ \E g, h \in S : Candidate(S, g, h, t) /\ Before(g, e)

OfPlayer(S, p) == {e \in S : e.player = p}

Init ==
  /\ clock = 0
  /\ queue = {}
  /\ keyExp = [p \in Player |-> 0]
  /\ owner = Nobody
  /\ tpc = [t \in Task |-> "idle"]
  /\ arg = [t \in Task |-> NoEntry]
  /\ mpc = [m \in Matcher |-> "idle"]
  /\ pair = [m \in Matcher |-> NoPair]
  /\ crashes = 0
  /\ overruns = 0
  /\ joins = 0
  /\ adds = [e \in Entry |-> 0]
  /\ hits = [e \in Entry |-> 0]
  /\ left = [e \in Entry |-> 0]
  /\ lost = [e \in Entry |-> 0]
-----------------------------------------------------------------------------
(* joinQueue and leaveQueue *)

GoTo(t, label, e) ==
  /\ tpc' = [tpc EXCEPT ![t] = label]
  /\ arg' = [arg EXCEPT ![t] = e]

Done(t) == GoTo(t, "idle", NoEntry)

\* What the commands after the first need of the entry.
PlayerOnly(p) == [player |-> p, joinedAt |-> 0]

\* handleJoinQueue builds the entry and joinQueue asks for the player's key;
\* while that is visible the call returns without effect.
JoinAllowed(t, p) ==
  LET e == [player |-> p, joinedAt |-> clock] IN
  /\ tpc[t] = "idle" /\ joins < MaxJoins
  /\ ~KeyVisible(p)
  /\ joins' = joins + 1
  /\ GoTo(t, "joinAdd", e)
  /\ UNCHANGED <<clock, queue, keyExp, owner, matcherVars, crashes, overruns, adds, hits, left, lost>>

\* ZADD of a member that is already there inserts nothing.
JoinAdd(t) ==
  /\ tpc[t] = "joinAdd"
  /\ queue' = queue \cup {arg[t]}
  /\ adds' = [adds EXCEPT ![arg[t]] = IF arg[t] \in queue THEN @ ELSE @ + 1]
  /\ GoTo(t, "joinKey", PlayerOnly(arg[t].player))
  /\ UNCHANGED <<clock, keyExp, owner, matcherVars, crashes, overruns, joins, hits, left, lost>>

JoinKey(t) ==
  /\ tpc[t] = "joinKey"
  /\ keyExp' = [keyExp EXCEPT ![arg[t].player] = clock + KeyTTL]
  /\ Done(t)
  /\ UNCHANGED <<clock, queue, owner, matcherVars, crashes, overruns, history>>

\* A leave_queue message or a closed socket: ZRANGE, and the first member of
\* the player in it.
LeaveFound(t, p) ==
  /\ tpc[t] = "idle"
  /\ \E e \in OfPlayer(queue, p) :
       /\ ~ \E f \in OfPlayer(queue, p) : Before(f, e)
       /\ GoTo(t, "leaveRem", e)
  /\ UNCHANGED <<clock, queue, keyExp, owner, matcherVars, crashes, overruns, history>>

LeaveMissing(t, p) ==
  /\ tpc[t] = "idle" /\ OfPlayer(queue, p) = {}
  /\ GoTo(t, "leaveKey", PlayerOnly(p))
  /\ UNCHANGED <<clock, queue, keyExp, owner, matcherVars, crashes, overruns, history>>

LeaveRemove(t) ==
  /\ tpc[t] = "leaveRem"
  /\ queue' = queue \ {arg[t]}
  /\ left' = [left EXCEPT ![arg[t]] = IF arg[t] \in queue THEN @ + 1 ELSE @]
  /\ GoTo(t, "leaveKey", PlayerOnly(arg[t].player))
  /\ UNCHANGED <<clock, keyExp, owner, matcherVars, crashes, overruns, joins, adds, hits, lost>>

LeaveKey(t) ==
  /\ tpc[t] = "leaveKey"
  /\ keyExp' = [keyExp EXCEPT ![arg[t].player] = 0]
  /\ Done(t)
  /\ UNCHANGED <<clock, queue, owner, matcherVars, crashes, overruns, history>>

\* The process dies with the call half done.
TaskDies(t) ==
  /\ tpc[t] # "idle" /\ crashes + overruns < MaxFaults
  /\ crashes' = crashes + 1
  /\ Done(t)
  /\ UNCHANGED <<clock, queue, keyExp, owner, matcherVars, overruns, history>>
-----------------------------------------------------------------------------
(* processMatchmaking *)

Advance(m, label) == mpc' = [mpc EXCEPT ![m] = label]

Chosen(m) == IF pair[m] = NoPair THEN {} ELSE {pair[m][1], pair[m][2]}

Tally(h, S) == [e \in Entry |-> IF e \in S THEN h[e] + 1 ELSE h[e]]

\* Mutant of AcquireLock: the null of acquireLock is not looked at.
AcquireAlways(m) ==
  /\ mpc[m] = "idle"
  /\ owner' = m
  /\ Advance(m, "count")
  /\ UNCHANGED <<clock, queue, keyExp, taskVars, pair, crashes, overruns, history>>

AcquireLock(m) ==
  /\ mpc[m] = "idle" /\ owner = Nobody
  /\ owner' = m
  /\ Advance(m, "count")
  /\ UNCHANGED <<clock, queue, keyExp, taskVars, pair, crashes, overruns, history>>

\* Mutant of Count: two entries are too few.
CountOverTwo(m) ==
  /\ mpc[m] = "count"
  /\ Advance(m, IF Cardinality(queue) <= 2 THEN "release" ELSE "scan")
  /\ UNCHANGED <<clock, queue, keyExp, owner, taskVars, pair, crashes, overruns, history>>

\* ZCARD: fewer than MATCH_SIZE entries end the call.
Count(m) ==
  /\ mpc[m] = "count"
  /\ Advance(m, IF Cardinality(queue) < 2 THEN "release" ELSE "scan")
  /\ UNCHANGED <<clock, queue, keyExp, owner, taskVars, pair, crashes, overruns, history>>

\* ZRANGE and the loop over neighbours, which stops at the first candidate.
ScanFound(m) ==
  /\ mpc[m] = "scan"
  /\ \E e, f \in queue :
       /\ FirstCandidate(queue, e, f, clock)
       /\ pair' = [pair EXCEPT ![m] = <<e, f>>]
  /\ Advance(m, "rem")
  /\ UNCHANGED <<clock, queue, keyExp, owner, taskVars, crashes, overruns, history>>

ScanNone(m) ==
  /\ mpc[m] = "scan"
  /\ ~ \E e, f \in queue : Candidate(queue, e, f, clock)
  /\ Advance(m, "release")
  /\ UNCHANGED <<clock, queue, keyExp, owner, taskVars, pair, crashes, overruns, history>>

\* Mutants of Remove: ZREM of one member; ZPOPMIN of two in place of ZREM.
RemoveOne(m) ==
  /\ mpc[m] = "rem"
  /\ queue' = queue \ {pair[m][1]}
  /\ Advance(m, "del1")
  /\ UNCHANGED <<clock, keyExp, owner, taskVars, pair, crashes, overruns, history>>

PopTwo(m) ==
  /\ mpc[m] = "rem"
  /\ queue' = {e \in queue : Cardinality({f \in queue : Before(f, e)}) >= 2}
  /\ Advance(m, "del1")
  /\ UNCHANGED <<clock, keyExp, owner, taskVars, pair, crashes, overruns, history>>

\* ZREM of both members; how many it removed is not looked at.
Remove(m) ==
  /\ mpc[m] = "rem"
  /\ queue' = queue \ Chosen(m)
  /\ Advance(m, "del1")
  /\ UNCHANGED <<clock, keyExp, owner, taskVars, pair, crashes, overruns, history>>

\* The two DELs.
DeleteKey(m, label, i, next) ==
  /\ mpc[m] = label
  /\ keyExp' = [keyExp EXCEPT ![pair[m][i].player] = 0]
  /\ Advance(m, next)
  /\ UNCHANGED <<clock, queue, owner, taskVars, pair, crashes, overruns, history>>

\* The finally block, and the match handed to the caller.
ReleaseLock(m) ==
  /\ mpc[m] = "release"
  /\ owner' = IF owner = m THEN Nobody ELSE owner
  /\ hits' = Tally(hits, Chosen(m))
  /\ pair' = [pair EXCEPT ![m] = NoPair]
  /\ Advance(m, "idle")
  /\ UNCHANGED <<clock, queue, keyExp, taskVars, crashes, overruns, joins, adds, left, lost>>

\* Between ZREM and the return, the chosen entries exist only in the call.
Removed(m) == IF mpc[m] \in {"del1", "del2", "release"} THEN Chosen(m) ELSE {}

\* The process dies; the lock stays until it lapses.
MatcherDies(m) ==
  /\ mpc[m] # "idle" /\ crashes + overruns < MaxFaults
  /\ crashes' = crashes + 1
  /\ lost' = Tally(lost, Removed(m))
  /\ pair' = [pair EXCEPT ![m] = NoPair]
  /\ Advance(m, "idle")
  /\ UNCHANGED <<clock, queue, keyExp, owner, taskVars, overruns, joins, adds,
                 hits, left>>

\* Redis expires the lock of a process that died.
Lapse ==
  /\ owner # Nobody /\ mpc[owner] = "idle"
  /\ owner' = Nobody
  /\ UNCHANGED <<clock, queue, keyExp, taskVars, matcherVars, crashes, overruns, history>>

\* The lock is taken from a running cycle, which is not told: its 5000 ms have
\* passed, or a cycle whose own have passed released it under the same pid.
Overrun ==
  /\ owner # Nobody /\ mpc[owner] # "idle"
  /\ crashes + overruns < MaxFaults
  /\ overruns' = overruns + 1
  /\ owner' = Nobody
  /\ UNCHANGED <<clock, queue, keyExp, taskVars, matcherVars, crashes, history>>

\* Player keys expire; the members of the sorted set do not.
Tick ==
  /\ clock < MaxTime
  /\ clock' = clock + 1
  /\ keyExp' = [p \in Player |-> IF keyExp[p] <= clock + 1 THEN 0 ELSE keyExp[p]]
  /\ UNCHANGED <<queue, owner, taskVars, matcherVars, crashes, overruns, history>>
-----------------------------------------------------------------------------
TaskStep(t) ==
  \/ \E p \in Player : JoinAllowed(t, p) \/ LeaveFound(t, p) \/ LeaveMissing(t, p)
  \/ JoinAdd(t) \/ JoinKey(t) \/ LeaveRemove(t) \/ LeaveKey(t)
  \/ TaskDies(t)

\* What the interval timer drives.
Cycle(m) ==
  \/ AcquireLock(m) \/ Count(m) \/ ScanFound(m) \/ ScanNone(m) \/ Remove(m)
  \/ DeleteKey(m, "del1", 1, "del2") \/ DeleteKey(m, "del2", 2, "release")
  \/ ReleaseLock(m)

Next == \/ Tick \/ Lapse \/ Overrun
        \/ \E t \in Task : TaskStep(t)
        \/ \E m \in Matcher : Cycle(m) \/ MatcherDies(m)

Spec == Init /\ [][Next]_vars

\* setInterval keeps starting cycles, their commands are answered, and Redis
\* expires the lock of a dead process.  Nothing is assumed of the players.
Fairness == WF_vars(Lapse) /\ \A m \in Matcher : WF_vars(Cycle(m))

LiveSpec == Spec /\ Fairness
-----------------------------------------------------------------------------
(* Properties *)

TypeOK ==
  /\ clock \in 0 .. MaxTime
  /\ queue \subseteq Entry
  /\ keyExp \in [Player -> Nat]
  /\ owner \in Matcher \cup {Nobody}
  /\ tpc \in [Task -> TaskPC]
  /\ arg \in [Task -> Entry \cup {NoEntry}]
  /\ \A t \in Task : tpc[t] # "idle" => arg[t] # NoEntry
  /\ mpc \in [Matcher -> MatcherPC]
  /\ pair \in [Matcher -> (Entry \X Entry) \cup {NoPair}]
  /\ \A m \in Matcher :
       /\ mpc[m] \in {"rem", "del1", "del2"} => pair[m] # NoPair
       /\ mpc[m] \in {"idle", "count", "scan"} => pair[m] = NoPair
  /\ crashes \in Nat
  /\ overruns \in Nat
  /\ joins \in Nat
  /\ adds \in [Entry -> Nat]
  /\ hits \in [Entry -> Nat]
  /\ left \in [Entry -> Nat]
  /\ lost \in [Entry -> Nat]

\* Chosen by the lock's owner and still to be removed by ZREM.
Reserved == UNION {Chosen(m) : m \in {n \in Matcher : n = owner /\ mpc[n] = "rem"}}

\* The cycles that removed the entry and have not returned it.
Holding(e) == {m \in Matcher : e \in Removed(m)}

\* The cycles that lost the lock and may still take two entries.
Strays == {m \in Matcher : m # owner /\ mpc[m] \in {"count", "scan", "rem"}}

One(b) == IF b THEN 1 ELSE 0

\* Every insertion of an entry feeds at most one match, and each lease that
\* ended under a running cycle at most one more: whatever joins, leaves and
\* cycles run between the commands, no two cycles that keep inside their 5000
\* ms return the same entry, and none that was returned is left in the queue.
NoDoubleMatch ==
  \A e \in Entry :
    hits[e] + lost[e] + Cardinality(Holding(e)) + One(e \in queue \cup Reserved)
      <= adds[e] + overruns

\* No inserted entry vanishes: it is still in the queue, in the hands of a
\* cycle, returned in a match, removed by a leaveQueue of its player, or was
\* in the hands of a process that died.  This does not rest on the lock:
\* ZREM of what somebody else has removed takes nothing away.
NoLostEntry ==
  \A e \in Entry :
    adds[e] <= One(e \in queue) + Cardinality(Holding(e)) + hits[e] + left[e] + lost[e]

\* The scan looks at neighbours only (lines 86 to 98), yet it misses nobody:
\* if any two entries are in range of each other then two neighbours are,
\* although the accepted range differs from pair to pair.
ScanComplete ==
  (\E e, f \in queue : Before(e, f) /\ InRange(e, f, clock))
     => \E e, f \in queue : Candidate(queue, e, f, clock)

\* The service implements the abstract queue: between the scan and the ZREM
\* the two entries that the lock's owner has chosen are nobody else's, even if
\* their players leave; only a cycle that lost the lock may take them as well.
Promise == INSTANCE MatchQueue WITH
             waiting <- queue \ Reserved,
             reserved <- Reserved,
             overruns <- overruns,
             strays <- Cardinality(Strays),
             paired <- [e \in Entry |-> hits[e] + lost[e] + Cardinality(Holding(e))]

ImplementsMatchQueue == Promise!Spec

\* Two entries in range do not stay unmatched for ever: unless such pairs keep
\* dissolving by themselves, cycles keep returning matches.
Progress ==
  \/ []<>(~ \E e, f \in queue : e # f /\ InRange(e, f, clock))
  \/ []<><<\E m \in Matcher : pair[m] # NoPair /\ ReleaseLock(m)>>_vars

\* "Players entering the queue are matched with other players"
\* (project-docs/prd.md line 81): a cycle never pairs a player with himself.
NoSelfMatch ==
  \A m \in Matcher : pair[m] # NoPair => pair[m][1].player # pair[m][2].player

=============================================================================
