# Nebula Realtime: specifications

TLA+ models of the server in `src/`, the TLC runs that check them on small
instances, and TLAPS proofs for every value of the constants. Paths below are
relative to the repository. `PROJECT.json` maps each definition to the lines it
models, and lists runs, mutants, findings, hazards and theorems.

## The system

Several server processes share one Redis and one PostgreSQL. A client opens a
WebSocket with an access token, asks to be queued, is matched with a neighbour
by rating, plays a match of two in 100 ms ticks, and sees its result on the
leaderboard. A process is one event loop: handlers interleave only at `await`,
but processes, timers and Redis expiry interleave with everything.

| Part | Source | State it keeps | Operations | Talks to | What makes it correct |
| --- | --- | --- | --- | --- | --- |
| Distributed lock | `src/redis/lock.ts` | one Redis key with an expiry | acquireLock (retries), releaseLock (compare and delete) | Redis; called by matchmaking | holders inside their lease exclude each other; only a late caller of the same pid can release another's lock |
| Matchmaking | `src/matchmaking/matchmakingService.ts` | sorted set per region, key per player | joinQueue, leaveQueue, processMatchmaking | lock, Redis; called by the server's handlers and its timer | an entry is matched once while cycles keep inside their lease, none is lost, pairs in range get matched, nobody meets himself |
| Realtime server | `src/websocket/server.ts` | sessions, rooms, `session.roomId`, two timers | connection, messages, createGameRoom, handleMatchEnd, handleDisconnect, heartbeat, stop | all the others | rooms and games end together, seats are real and released, results recorded once, nobody stays seated in a match that is gone |
| Game simulation | `src/game/gameSimulation.ts` | tick, players, last attacks, event log | start, stop, tick, processAction, winner and loser | called by the server, calls back at the end | cooldown bounds damage, someone survives, score and health agree whatever clients claim, the match ends |
| Leaderboard | `src/leaderboard/leaderboardService.ts` | sorted sets, `leaderboard` and `users` rows | updateScore, recordMatchResult, persistLeaderboard | Redis, PostgreSQL; called at match end and by a job | the stores agree when nothing is in flight |
| Presence | `src/presence/presenceService.ts` | a Redis key per player, a gauge | setPresence, removePresence, refresh | Redis; called by most handlers | the gauge counts the present players |
| Rate limiter | `src/redis/rateLimiter.ts` | sorted set of stamps per key | checkRateLimit | Redis; called per message and route | at most the limit in any window |
| Accounts and tokens | `src/auth/authService.ts` | `users`, `refresh_tokens` rows | signup, login, refreshAccessToken | PostgreSQL; called by the routes | a name is taken once, an account is whole or absent, a refresh replaces its token |
| Pool and migrations | `src/db/pool.ts`, `src/db/migrate.ts` | `migrations` table | transaction, runMigrations | PostgreSQL | each migration is applied once |
| Jobs | `src/jobs/workers.ts`, `src/worker.ts` | BullMQ queues | three workers, one repeating job | leaderboard, PostgreSQL | persistence happens again and again |
| HTTP API | `src/api/*.ts` | none | seven routes, three of which change state; their limits; the error handler | rate limiter, accounts, the reading services | an error answer never hides a half-made account |
| Dashboard | `dashboard/src/lib/store.ts` | users, their sockets, flags, counts, feed | add, connect, queue and disconnect users; callbacks of their sockets | the API and the WebSocket server | the counts it shows are those of its flags |
| Redis clients, metrics, configuration, logging, errors, entry points | the rest of `src/` | none of their own | connect, gauges, start, shutdown | the services | |
| Benchmarks | `benchmarks/` | none of the service's | load generators | | not part of the service |

What is hard in it:

- **Awaits.** Every handler reads state, awaits, and uses what it read:
  the scan's snapshot before ZREM, the player key before ZADD,
  `room.players` and `room.game` around the writes of handleMatchEnd.
- **Handlers of one player.** Messages of one socket are not handled one after
  the other, and the close handler of a replaced socket runs beside those of the
  new one; sessions and presence are keyed by user, not by socket.
- **Overlap.** `setInterval` does not wait for the previous cycle; two servers
  run cycles too. Two disconnects and the game's timer can all end one match.
- **Time.** The lock, the player key and the presence key expire whether or not
  their owner is done. The members of the queue do not expire.
- **Failure.** A rejected handler is logged and the process lives on
  (`src/index.ts:38`), so half-done work stays. Redis commands do not fail, they
  wait (`maxRetriesPerRequest: null`); PostgreSQL queries may fail. A process
  may die between any two steps.

## Modules

| Module | Models | State | Actions |
| --- | --- | --- | --- |
| `LeaseLock` | what the users of the lock count on | owner, believers | Acquire, Release, Mistake, Lapse, Die |
| `RedisLock` | `lock.ts` on one key with a clock | the key and its expiry, each caller's program counter, lock value, loop counter | one per Redis command, sleep and return; Crash; LockTick |
| `MatchQueue` | what the queue promises | waiting, reserved, paired, pairings that overran or are astray | Enter, Withdraw, Reserve, Take, GiveUp, Overrun, StrayTake, StrayEnds |
| `Matchmaking` | `matchmakingService.ts`, one region | sorted set, player keys, lock owner, program counters | one per Redis command of joinQueue, leaveQueue, processMatchmaking; a death of either kind of call; Lapse; Overrun; Tick |
| `RoomLife` | the life of a match as the clients and the database see it | phase and row of each match | Announce, Play, Over, Complete, Close |
| `RealtimeServer` | `server.ts`, one process: rooms with all their players | sockets, sessions, seats, rooms, the game's status, rows, executions of handleMatchEnd | the code between two awaits of each handler |
| `Players` | players and their sockets, shared by the next three and the dashboard | | |
| `Presence` | `presenceService.ts` | keys, gauge, the call of each handler | PresenceRead, PresenceWrite, PresenceExpires; CallPresence is part of its callers' actions |
| `Sessions` | `server.ts` from one player's side: his sockets, messages, queue entries, seat; extends `Presence` | handlers and their place, sockets, sessions, seats, queue, player keys | the code between two awaits of handleConnection, handleJoinQueue, handleLeaveQueue, handleDisconnect, and of a match around him |
| `Heartbeat` | checkHeartbeats and the pings | the map of sessions in its order, flags, sockets, what their peers do | CheckHeartbeats, Connect, HandlersAttached, CloseEnds, Disconnected, DisconnectFails; PeerVanishes, Pong, PingMessage, ClientCloses |
| `GameSimulation` | `gameSimulation.ts` | tick, positions, health, score, cooldowns, what events claimed | Start, Stop, Tick, and one per accepted action |
| `Leaderboard` | `leaderboardService.ts` with `transaction` and the sync job | the global and regional scores, the rows of `leaderboard`, ratings, the next write of each recordMatchResult, the snapshot of a running sync | one per awaited write; ReadTop, Commit, Rollback |
| `Requests` | the identity of requests, shared by the next two | | |
| `RateLimiter` | `rateLimiter.ts` | the stamps of each key and its expiry, each call's place, a clock | the four commands of the pipeline; Tick |
| `Accounts` | `authService.ts` | `users`, `leaderboard` and `refresh_tokens` rows, open transactions, each request's place | one per statement; Fails |
| `Api` | `routes.ts` and the error handler: composes the last two | | Limited, Admit, Refresh, and the steps of the two |
| `Dashboard` | `store.ts` | users, flags, counts, sockets, messages under way | the viewer's operations and the callbacks of the sockets; the server from outside: Accept, SendMessage, CloseConnection |
| `Migrations` | `migrate.ts` and the start of `index.ts` | advisory lock, the table of migrations, what has run, each process's place | one per query; LockTimesOut, QueryFails, GiveUp, Die, SessionEnds |
| `RedisLockProofs`, `MatchmakingProofs`, `RealtimeServerProofs`, `ConnectionProofs` (`Sessions`, `Heartbeat`, `Dashboard`), `GameSimulationProofs`, `LeaderboardProofs`, `ApiProofs`, `MigrationsProofs` | theorems | | |
| `MCHandlers` (`RedisLock` beside `Api`), `MCServers` (`Migrations`, `Heartbeat`, `Dashboard`), `MCRedisLock`, `MCMatchmaking`, `MCRealtimeServer`, `MCSessions`, `MCGameSimulation`, `MCLeaderboard` | instances for TLC | | |

How they fit. `Matchmaking` does not repeat the lock's Redis commands: it uses the
lease lock: `owner`, Lapse for the lock of a dead cycle, and Overrun for a lock that
is taken from a running one, by its expiry (LeaseLock's Lapse) or by a late twin
(its Mistake). `RedisLock` is shown to implement that.
`RealtimeServer` does not repeat the queue: any two players may come out of it,
because players join and leave on every server. It reduces the game to running
or finished; `GameSimulation` shows that a game finishes and when its winner and
loser differ (`decisive` in the server). `Sessions` has what both leave out, the
handlers that join and leave the queue while matches and disconnects happen; in
it a match is what one player sees of it. `Heartbeat` keeps only what
checkHeartbeats can tell apart. `Dashboard` takes the server's two messages as they
come, at any time and on any accepted socket. `Api` conjoins the steps of `RateLimiter` and
`Accounts`, as `Sessions` does those of `Presence`.

Correspondence worth knowing:

- *Calls that do nothing.* A refused join, a refused game action and a refused
  lock attempt change nothing. The first two are no actions at all; the third is
  one, because it counts a retry.
- *Player keys.* A join reads the key and then writes twice. A match or a leave
  deletes the key after the entry is gone. All of these are separate steps.
- *The scan's copy.* A match works on the answer of ZRANGE, and the answer of ZREM is
  ignored (`matchmakingService.ts:76`, `:100`). In `Matchmaking` the ranges are judged
  and the pair chosen at the ZRANGE; in `Sessions` ScanEntry takes the copy and
  TakeEntry removes what is left of it, so that a leave and a new join fit between.
- *Order of entries.* Redis orders by score, then by the bytes of the member,
  which is JSON starting with the user id. Entries of one player differ in
  `joinedAt` alone.
- *Sessions* are named by the socket they were built for. A replaced session
  lives on in its socket's handlers. A closing socket still runs its close
  handler, and a socket that closed before its handlers were attached runs none.
- *The map of sessions* in `Heartbeat` is a sequence, since checkHeartbeats
  follows its order: `Map.set` after `Map.delete` puts a session at the end.
- *handleMatchEnd* runs once per game timer and once per disconnect that finds
  at most one player left; each execution has its own program counter. Its loop
  skips players without a session in the same step and awaits after the others.
- *recordMatchResult* has no failure action: nothing makes an execution take its
  next step, so one that stops halfway is among the behaviours. In
  `RealtimeServer` the call is the one step RecordResult; `Leaderboard` opens it.
- *The sync's transaction* is one step. Its UPDATEs lock their rows until COMMIT,
  and each other writer touches one row per statement, so every other write is
  before or after all of it. In `Accounts` the statements of signup's transaction
  are separate steps: a second sign-up for the name waits at the unique index
  until the first has committed or rolled back.
- *The pipeline* of the rate limiter is not a MULTI: its four commands are steps
  between which other pipelines run, and the stamp is taken before them.
- *Expiry* of player and presence keys may come at any time, so that
  refreshPresenceTTL, which only delays it, needs no action of its own.
- *Points* of a score event are whatever the client sent (`gameSimulation.ts:146`):
  nothing, a gain, a loss, or a text. Adding a text makes a score a text for good
  (`Plus`), and comparing one with a number is false (`Above`). Texts that read as
  numbers, and the comparison of two different texts, are left out.
- *Histories.* `changes` and `persisted` number the scores of a player, so that a
  stale score differs from a newer one of equal value. `raced`, `stale`,
  `unheard`, `overtaken`, `doubled`, `odd`, `robbed` and `overruns` mark or count the races
  that the code does not exclude; each property that excepts them says so.
  `claimed` is what events gave a player.
- *The advisory lock* belongs to a session: a process that dies leaves it to
  `Gone` until PostgreSQL notices. A wait for it is cancelled by the pool's
  `statement_timeout`, which the models allow at any time the lock is held.
- *Mutants.* Operators commented as mutants are not part of the models. Each is
  a plausible slip in the definition below it; a property of a run must fail
  when the slip is made.

## Runs

| Run | Instance | Question | Result |
| --- | --- | --- | --- |
| `handlers` | 3 callers, two of one pid, TTL 2, 2 tries 1 apart, clock to 4; and 3 requests, 1 name, 1 request per window of 2 ticks, clock to 3, 1 failing statement | do leases exclude each other unless one was robbed, who can rob whom, does the Redis lock implement the lease lock? does the window limit exactly, is signup atomic, do tokens rotate? | holds |
| `lock_twins` | 2 callers of one pid, TTL 2, clock to 4 | is a release only of one's own lock? | violated |
| `matchmaking` | 2 players, 3 joins, 1 concurrent join or leave call, 2 cycles, 1 fault (a death or an overrun lease), fairness | how often is an insertion matched, is none lost, is the scan complete, the abstract queue implemented, and do pairs in range get matched? | holds |
| `matchmaking_self` | 2 joins, no fault | does a cycle pair different players? | violated |
| `realtime` | 2 players, 3 sockets (one player reconnects), 1 room, 1 failing query, fairness | rooms, games, seats, rows, refinement of `RoomLife`; do rooms close? | holds |
| `realtime_twice` | 1 socket, 1 room | is a result recorded once? | violated |
| `realtime_behind` | 3 sockets, 1 room, no failing query | is a player with an open socket released when his match is over? | violated |
| `sessions` | 2 sockets of one player, 1 message handler, 1 match, 2 events, 1 presence expiry | what stays of a player in the queue when his handlers overlap? | holds |
| `sessions_gauge` | 2 sockets of one player, no message, no expiry | does the gauge count the players present? | violated |
| `game` | 2 players on a line of 4 places, 3 health, damage 2, cooldown 2, 7 ticks, 2 events of points none, 2, -3 or a text, fairness | damage, survivor, score, result, end | holds |
| `leaderboard` | 3 players, 2 regions, any 2 matches, sync of the top 2, fairness of the job | do the stores agree, does the table follow Redis? | holds |
| `servers` | 3 servers, 3 migrations, 2 faults; 3 sockets of 2 players, 1 failing close handler, 1 message to a dashboard; fairness | one migrates at a time, true records, nobody serves early, all serve; are only silent peers cut, and in the end all of them; what do the dashboard's counts miss? | holds |

Why the bounds are enough.

- *handlers* and *servers* put modules side by side that share no variable. A step of
  one is taken only while the others rest in their initial states (in *servers*:
  after all servers have started without a fault), so that the states of the parts
  add up instead of multiplying, and each part still has all its behaviours. In
  *servers* the fairness of one part asks for nothing where another moves:
  no step of the migrations is left to take when all serve, and a server without
  sockets has no heartbeat step that changes anything.
- *handlers*, the lock: the clock runs for two leases, so that an expiry, a second
  holder and a late release by the first all happen, also between two callers of
  one pid that called in one millisecond, and a caller can use up its tries.
  The requests: with a limit of one, the second is refused and the third sees
  the window move; three requests are two overlapping sign-ups and a log-in, or a
  log-in and two overlapping refreshes of its token; the name they compete for is
  one, because names share nothing.
- *matchmaking*: the joins of one player around a key expiry of one period give
  the duplicates; the call beside two cycles puts a join or a leave between any
  two commands of a cycle; the ratings are out of range until someone has waited.
  One overrun puts two live cycles beside each other, after which both return what
  they have seen. That neighbours suffice for the scan whatever the number of
  entries is proved.
- *realtime*: three executions of handleMatchEnd (two disconnects and the timer)
  can run at once, and a reconnect falls anywhere among them. The run starts with
  Bob's socket connected; connecting late or amid the other handlers is left to
  Alice's two. Rooms share nothing
  but the seat of a player matched twice, which the theorems cover for any number.
- *sessions*: the second socket is a reconnect at any point of the first one's
  handlers; one message and one match race each other and both sockets; two
  events allow a join followed by a leave, by a key's expiry or by a failing match end.
- *game*: two blows fell a player, with the second one clamped at zero health,
  and several can fall in 7 ticks. Two events give a score that falls below zero, one
  that two players share, and one or two that are texts.
- *leaderboard*: two matches share one player, both or none, in one region or two,
  and each of their eight writes falls before, within or after a sync; the third
  player makes a rank beyond the limit. Win and loss are 3 and -2 instead of 25
  and -15: unequal, of either sign. A second slot is there for the sync that
  `concurrency: 1` forbids.
- *servers*: three processes give a holder, a waiter and one that serves or has
  just died; two faults hit one process twice, or a process and its restart. Three
  sessions give one before and one after the silent one, and two sockets of one
  player give the session replaced in mid-round, and to the dashboard a
  second socket that opens before the first one's close is reported.

The runs that are violated have the smallest instance that shows the case.

CHECK_DEADLOCK is FALSE everywhere: clocks and histories are bounded, and a
server whose sockets and match ids are used up has stopped.

Fairness:

- `Matchmaking`: each matcher's cycle and the expiry of an abandoned lock are
  weakly fair. `setInterval` keeps starting cycles, an answered command resumes
  its caller, and Redis expires keys by itself. Nothing is assumed of players.
  `Progress` is stated as a disjunction, because pairs may keep leaving.
- `RealtimeServer`: each chain of awaits (a socket's handlers, a room's creation
  and timer) is weakly fair. Nothing is assumed of clients or of the
  matchmaking timer, and liveness is stated for runs without failing queries: a
  failed one leaves its room behind for good.
- `Heartbeat`: the 30 s interval fires, awaits return, and `ws` ends a close that
  is not answered after its own timeout. Nothing is assumed of peers.
- `GameSimulation`: the interval fires. Clients need not act.
- `Leaderboard`: the job repeats every five minutes (weak fairness of its read), and
  one that is tried again and again does commit in the end (strong fairness).
  Nothing is assumed of recordMatchResult.
- `Migrations`: a process that runs goes on, and one that exited is started again
  (`restart: unless-stopped` in docker-compose.yml); PostgreSQL notices dead
  sessions. Waiting ones may time out as often as the lock is held.

## Findings

- **A player is matched with himself** (`matchmaking_self`). His key expires
  after `MATCHMAKING_TIMEOUT_MS`, his entry does not, and he may join again. The
  two entries are neighbours with rating difference 0.
  The repository's README.md:204 ("If a player times out (30s default), they are
  removed from queue") and project-docs/prd.md:81 say otherwise.
- **A result is recorded twice** (`realtime_twice`). The last tick ends the match;
  while handleMatchEnd awaits, a player's socket closes; handleDisconnect finds
  the room with its finished game and runs handleMatchEnd again.

- **A late caller releases another's lock** (`lock_twins`). The lock's value is pid
  and millisecond (`src/redis/lock.ts:10`). Both API containers run as pid 1, and
  overlapping cycles share a process. Of two callers that call in one millisecond,
  one can get the lock, outlive it, and release it after the other has got it, whose
  value is the same. The comment at lock.ts:26 says "prevents releasing someone
  else's lock". `OnlyLateTwinsRob` says who can do that: a caller of the same pid
  that is itself late or robbed.
- **A player stays behind in a match that is gone** (`realtime_behind`). The close
  handler of a replaced socket runs after the new session is registered and deletes
  it by user id (`src/websocket/server.ts:443`). At the end of the match the loop at
  :386 finds no session for the player; his open socket keeps its `roomId`, and
  every join_queue on it is refused as "Already in a match" (:220). The code means to
  "Clean up player sessions" (:384) and to support reconnects (:120).
- **The presence gauge counts a player twice** (`sessions_gauge`). setPresence reads
  the old status two awaits before it writes; two connects that both read "absent"
  both add him. README.md:90 calls the gauge accurate, README.md:371 says that counting
  transitions is "to prevent drift", and SYSTEM_DESIGN_REVIEW.md:135 "Net effect per
  transition: 0".
- **The rate limiter has no off-by-one** (`handlers`, which holds).
  SYSTEM_DESIGN_REVIEW.md:195 says that the pipeline, since it adds the
  request before it counts, has "an off-by-one that allows burst". The
  code refuses when the count, its own request included, exceeds the limit, so that
  the window takes exactly as many as it should; `LimitIsExact` says so and is proved.
  The order has another effect: a refused request occupies the window too. What
  does escape the limit are the overtaken pipelines below.

Met while modelling, without a run of their own:

- *A session that nobody removes.* A socket that closes before its handlers are
  attached, or whose close handler fails, stays in the map. checkHeartbeats
  returns at it in every round (:453), so that the sessions after it are neither
  pinged nor cut (`BehindZombie`).
- *Overtaken joins.* A join that is between two awaits when the socket closes or
  the player is matched stores its entry afterwards: a ghost in the queue, or a
  player queued while he plays (`raced` in `Sessions`). His key, set late, blocks his
  next join until it expires.
- *A seated player can queue.* `session.roomId` is set only after processMatchmaking
  has returned, so that handleJoinQueue lets the player of a match in the making pass
  (:220). The entry of a join that falls between ZRANGE and ZREM stays as well.
- *Presence of the connected.* removePresence of a closed socket runs after the new
  connection has set the player's presence, and removes it (:442).
- *Overtaken pipelines.* Requests of several servers whose stamps and commands
  come in different orders can each see less than the limit (`overtaken`).
- *COMMIT with a lost answer.* The account exists; the client is told of an
  error and its next attempt of a conflict (`Fails` in `Accounts`).
- *Overlapping refreshes* of one token each issue a new one (`doubled`).
- *The dashboard* reads `matchId` and `players` of `match_found` at the top level,
  where the server nests them in `data` (`dashboard/src/lib/store.ts:322`); the
  handler fails on the missing field after it has counted. `activeMatches`
  counts players, and a user whose socket is lost in a match stays in it.
- *A join that is not made.* From the broadcast of match_ended (:348) to the clean-up
  (:388) a join_queue is refused, and joinQueue returns silently while the player's
  key exists (`matchmakingService.ts:32`), after which queue_joined is sent all
  the same. The dashboard, which ignores errors (`store.ts:395`), shows
  the user as queued for ever.
- *A message sent too early.* Messages that arrive before the handlers are
  attached are dropped; the dashboard's join then waits for ever.
- The pool's `statement_timeout` of 10 s also ends the wait in
  `pg_advisory_lock`. SYSTEM_DESIGN_REVIEW.md:54 says "others block until it's
  released"; a server that waits longer exits instead and comes back only because
  it is restarted (`AllServe` rests on that).
- A half-done recordMatchResult is never repaired: `DriftBounded` says how far the
  stores can drift, in each region and in all, and that nothing else makes them drift.
- `npm run db:migrate` (README.md:125) loads `migrate.ts`, which only defines
  runMigrations.

## What is proved

All proofs are checked by TLAPS for every value of the constants allowed by the
named assumptions: any number of callers, players, sockets, rooms, requests,
servers, any limits and bounds.

*RedisLockProofs.* For callers under any pids, equal or not. The inductive
invariant `IInv` says of every caller that its lock value starts with its own pid;
of the key, that its value starts with the pid of the caller who set it, and is the
present value of that caller if he still holds; and, for a holder inside its
lease that was not robbed, that the key is still its own (`LeaseBacked`). The last
part is not inductive alone: a release by another caller deletes the key, unless the
values tell the two apart, and then the other is of the same pid. From `IInv` follow
`LeasesAreExclusive` (of those not robbed), `OnlyTwinsRob`, and step by step
`RedisLockImplementsLeaseLock`, where a release that robs is LeaseLock's Mistake.

*MatchmakingProofs.* For any matchers, also those that outlive their lease. The scan
argues about the order of entries: of two entries in range of each other, the one
that has waited longer is also in range of its neighbour towards the other
(`ScanMissesNobody`). `NobodyMatchedTwice` rests on `StraysCounted`: for each entry,
its matches, losses, the cycles that have it in hand or may yet take it a second
time, and its place in the queue are at most its insertions and the overruns. A
cycle under its lock adds nothing to that sum, since nobody else chooses while it
does; each overrun makes one cycle a stray, which can return its two entries once more.
`NobodyForgotten` counts the other way: a ZREM that finds nothing takes nothing away.
`MatchmakingImplementsMatchQueue` maps a cycle that lost its lock before its ZREM to
a stray pairing; its steps before the ZREM are stutters, and its ZREM is StrayTake.

*RealtimeServerProofs.* Two invariants. `IInv` says where rooms and executions of
handleMatchEnd are. A room (`RoomPlace`) exists from createGameRoom on, has a row
and a game once it has started, and may be gone only when its row is completed
and a decided match is on the leaderboard. An execution (`EndPlace`) works for a
room whose game has stopped, and what lies behind it has been paid. The second is
needed because several executions may end one room, and each deletes it relying
on its own writes alone. `GamesHaveRooms`, `ClosedAccounted` and
`RoomsImplementLife` follow; a second CompleteRow or CloseRoom is a stutter of
`RoomLife`. `Seats` says who sits where: a player is seated in a room once
(`NoTwins`), only the first of the pair is seated while createGameRoom waits
(`SeatPlace`), the roster holds no one but the pair (`RosterPlace`), and the
seats a clean-up loop has passed stay free (`Released`), because a session that
registers later has none. With all of these `SeatsAreReal` is inductive.

*ConnectionProofs* is about the three modules that follow a player's sockets.

- `Sessions`. `NothingLeftBehind` needs an invariant of all handlers (`Quiet`):
  while no join of a player has been overtaken, every entry of his in the queue is
  watched, by a socket that is still to close or by a call that is about to remove
  it. `GaugeIsExplained` says how far the gauge is off, which is not exact by the run
  above: the gauge of a status falls short of the keys by the calls that have taken
  a player off and are still to write (`Debt`), and what is left (`Excess`) is at most
  what the stale writes and the expiries account for.
- `Heartbeat`. `CutsAreEarned`. The flag of an open socket is down only while a
  ping of it is out, or after an answer nobody heard (`BeatInv`). It says nothing of
  the map, so that the order of sessions and their removal do not matter.
- `Dashboard`. `MetricsAreExplained` counts users by flag; what the counters miss
  are the events that came for users whose flags said otherwise.

*GameSimulationProofs.* `TypeCorrect`, `SomeoneSurvives`, `HealthMatchesScore`,
`CooldownLimitsDamage`, `ResultMeansLead`, for any rules, positions and points. Survivor
and score are inductive with the types; the score is what its blows brought beside
what events claimed, and a text as soon as one of those was. The damage rate is not:
its invariant `Paced` ties the blows a player has struck to the tick of his last one,
and needs two lemmas about products and quotients.

*LeaderboardProofs.* `TypeCorrect`; `TableNeverGoesBack`, whose invariant is that at
most one slot has a snapshot (a read needs that none has, `ReadAlone`) and that
the snapshot is no older than the table and no newer than Redis; and
`EveryResultCounted`, whose invariant is the exact count: the wins in a row are
the player's won matches whose recording is past that write, for any finite set
of matches. `DriftIsBounded` rests on the same kind of count for every store and
region (`Exact`): a store is the score of the matches recorded in it, so that two
stores differ by the matches that are recorded in one of them.

*ApiProofs.* `SignupAtomic`: a request between its INSERT and its COMMIT has an
open transaction, and no two requests claim one name (`Claims`), where a claim
begins with the INSERT, so that the unique index excludes the second before
either commits. `TokensRotate` counts: the good tokens of a name are at most the
tokens of its sign-ups and log-ins and the doubled refreshes, and each step that
issues one raises a set on the right or has revoked one on the left (`Balanced`).
`LimitsAreExact` relates what a pipeline counts to the requests admitted since: but
for overtaken ones, a request is in the key as long as anybody can come whose window
has it (`Remembered`), who counts finds nobody outside its own window (`Trimmed`),
and no window holds more admitted requests than the limit (`Limits`).

*MigrationsProofs.* `TypeCorrect`, `MigrationsExclude`, `RecordsAreTrue`,
`ServersAreMigrated`, `SchemaGrowsInOrder`. None is inductive alone: the invariant
says where each process stands (`Placed`). Whoever works has the lock, everything
before its index is recorded, what it inserts has run. Because it has the lock,
nobody else changes what it knows; because rows are never removed, what a server
knew when it began to serve stays true (`OthersPlaced`). `RerunsArePaid`: a
migration runs again only after a process failed or died between running and
recording it (`Reruns`).

Assumed of the constants beyond their types: players, sockets, handlers,
requests, matches and jobs are finite sets, as they are in any run of the program,
because the proofs count them; and the null values are not members of the sets they
stand beside.

Only model-checked: liveness (`Progress`, `RoomCloses`, `SilentIsCut`, `MatchEnds`, `Converges`,
`AllServe`), which the prover's temporal backend does not reach. Every other property of a passing run is a theorem.

## What is not modelled

- *Realtime server*: `game_action` and `chat`, which reach the game and the
  broadcasts alone; `stop`; the Pub/Sub relay: nobody publishes to
  `game:broadcast`, the one channel it forwards; a pair of two entries of one player in createGameRoom, which
  `NoSelfMatch` shows can get there; the limit on messages, which drops one
  before any of the modelled steps.
- *Matchmaking*: the gauge and counters, regions beside each other (they share
  the player keys only), and the two queries that change nothing.
- *Game simulation*: the second coordinate, the event log, points that are texts of
  numbers, and the comparison of two different texts.
- *Leaderboard*: the names stored for display, the reading routes, a second worker
  process, and a ZINCRBY that Redis executes twice because the client sent it
  again after losing the connection.
- *Accounts*: hashing and tokens are sound functions of libraries; refresh tokens
  do not expire within the bounds. *HTTP API*: the routes that only read.
- *Migrations*: the content of the migrations, beyond that each is one transaction
  that may run twice.
- *Jobs*: the two workers for which nothing enqueues work.
- *Dashboard*: what the server refuses or drops (see the findings), feed, node statistics, animated edges, the list of matches, and the
  React components, which draw the store.
- Redis clients, metrics, configuration, logging, errors, shutdown: no protocol of
  their own. Benchmarks generate load.

## Plan

Done: the lock, matchmaking, the server's rooms, sessions, messages and heartbeat,
presence, the rate limiter, accounts and their routes, the game, the leaderboard,
migrations, the dashboard's store; the proofs above.

Left, in this order:

1. *`Sessions` with the opponent on the same server*, to have the queue, the pair
   and the rooms in one composition; it needs the queue's abstraction
   (`MatchQueue`) in place of its commands to stay within reach of TLC.
2. *Shutdown*: `stop` and the order in which `index.ts` closes servers and pools.
