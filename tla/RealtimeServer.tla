--------------------------- MODULE RealtimeServer ---------------------------
(***************************************************************************)
(* src/websocket/server.ts: one server process, its sessions and rooms.    *)
(*                                                                         *)
(* The process runs one handler at a time and switches at every await, so  *)
(* a step is the code between two awaits together with the effect of the   *)
(* await before it.  A session is identified with the socket it was built  *)
(* for: the session object of a replaced socket lives on in that socket's  *)
(* handlers.  The queue is Matchmaking's: players join and leave it on any *)
(* server at any time, so here any two players may come out of it.  The    *)
(* game is reduced to whether it runs and how it ends.                     *)
(***************************************************************************)
EXTENDS Naturals, FiniteSets

CONSTANTS User,        \* players
          Conn,        \* sockets that clients open to this server
          UserOf,      \* the player whose token each socket carries
          Room,        \* match ids this server's matchmaking hands out
          None,        \* no session, no room, no outcome
          MaxFailures  \* bound of the model: database queries that fail

ASSUME UserOfAssumption == UserOf \in [Conn -> User]
ASSUME NoneAssumption == /\ None \notin Conn \cup Room \cup {"active", "finished"}
                         /\ None \notin BOOLEAN
ASSUME DisjointAssumption == Conn \cap Room = {}
ASSUME BoundAssumption == MaxFailures \in Nat

VARIABLES
  cpc,        \* where handleConnection of each socket is
  sock,       \* state of each socket
  sessions,   \* this.sessions
  roomOf,     \* session.roomId
  dpc,        \* where handleDisconnect of each session is
  mpc, duo,   \* where createGameRoom of each room is; its two players in order
  rooms,      \* keys of this.rooms
  players,    \* room.players
  game,       \* room.game: None, or its status
  decisive,   \* getWinner and getLoser differ; known when the game stops
  row,        \* status of the match's row in the database
  epc, eroom, \* where each execution of handleMatchEnd is, and its room
  passed,     \* how many of the pair its clean-up loop has passed
  recorded,   \* history: calls of recordMatchResult per match
  failures    \* queries that failed

connVars == <<cpc, sock, sessions, dpc>>
roomVars == <<mpc, duo, rooms, game, decisive, row>>
endVars == <<epc, eroom, passed, recorded>>
vars == <<connVars, roomVars, endVars, roomOf, players, failures>>

\* handleMatchEnd is started by a room's game timer or by a disconnect.
Ender == Conn \cup Room

Init ==
  /\ cpc = [c \in Conn |-> "none"]
  /\ sock = [c \in Conn |-> "closed"]
  /\ sessions = [u \in User |-> None]
  /\ roomOf = [c \in Conn |-> None]
  /\ dpc = [c \in Conn |-> "none"]
  /\ mpc = [r \in Room |-> "none"]
  /\ duo = [r \in Room |-> <<>>]
  /\ rooms = {}
  /\ players = [r \in Room |-> {}]
  /\ game = [r \in Room |-> None]
  /\ decisive = [r \in Room |-> None]
  /\ row = [r \in Room |-> "none"]
  /\ epc = [x \in Ender |-> "none"]
  /\ eroom = [x \in Ender |-> None]
  /\ passed = [x \in Ender |-> 0]
  /\ recorded = [r \in Room |-> 0]
  /\ failures = 0
-----------------------------------------------------------------------------
(* handleConnection *)

\* The client connects; the token is verified and the users row queried.  A
\* refused token or a failed query leaves nothing behind and is no action.
Connect(c) ==
  /\ cpc[c] = "none"
  /\ cpc' = [cpc EXCEPT ![c] = "query"]
  /\ sock' = [sock EXCEPT ![c] = "open"]
  /\ UNCHANGED <<sessions, dpc, roomVars, endVars, roomOf, players, failures>>

\* Any session of the player is replaced and its socket told to close; then
\* setPresence is awaited.
CreateSession(c) ==
  LET u == UserOf[c]
      old == sessions[u]
  IN
  /\ cpc[c] = "query"
  /\ sessions' = [sessions EXCEPT ![u] = c]
  /\ sock' = IF old # None /\ sock[old] = "open"
             THEN [sock EXCEPT ![old] = "closing"] ELSE sock
  /\ cpc' = [cpc EXCEPT ![c] = "presence"]
  /\ UNCHANGED <<dpc, roomVars, endVars, roomOf, players, failures>>

\* Only now the message and close handlers are attached.
AttachHandlers(c) ==
  /\ cpc[c] = "presence"
  /\ cpc' = [cpc EXCEPT ![c] = "ready"]
  /\ UNCHANGED <<sock, sessions, dpc, roomVars, endVars, roomOf, players,
                 failures>>

\* The socket closes, for whatever reason.  Without a handler nobody notices.
SocketCloses(c) ==
  /\ sock[c] \in {"open", "closing"}
  /\ sock' = [sock EXCEPT ![c] = "closed"]
  /\ dpc' = IF cpc[c] = "ready" THEN [dpc EXCEPT ![c] = "leaving"] ELSE dpc
  /\ UNCHANGED <<cpc, sessions, roomVars, endVars, roomOf, players, failures>>
-----------------------------------------------------------------------------
(* The matchmaking timer: processMatchmaking, then createGameRoom *)

\* processMatchmaking has taken the entries of two players and returns them.
TakePair(r, u, v) ==
  /\ mpc[r] = "none" /\ u # v
  /\ duo' = [duo EXCEPT ![r] = <<u, v>>]
  /\ mpc' = [mpc EXCEPT ![r] = "taken"]
  /\ UNCHANGED <<connVars, rooms, game, decisive, row, endVars, roomOf,
                 players, failures>>

\* A player with a session here is put into the room.
Assigned(u, r) == IF sessions[u] = None THEN roomOf
                  ELSE [roomOf EXCEPT ![sessions[u]] = r]

\* Mutant of CreateRoom: the room is not entered in the map.
CreateUnlisted(r) ==
  LET here == sessions[duo[r][1]] # None IN
  /\ mpc[r] = "taken"
  /\ players' = [players EXCEPT ![r] = {duo[r][1], duo[r][2]}]
  /\ roomOf' = Assigned(IF here THEN duo[r][1] ELSE duo[r][2], r)
  /\ mpc' = [mpc EXCEPT ![r] = IF here THEN "first" ELSE "insert"]
  /\ UNCHANGED <<connVars, duo, rooms, game, decisive, row, endVars, failures>>

\* setPresence is awaited after each player who has a session; a player
\* without one is passed over in the same step.
CreateRoom(r) ==
  LET here == sessions[duo[r][1]] # None IN
  /\ mpc[r] = "taken"
  /\ rooms' = rooms \cup {r}
  /\ players' = [players EXCEPT ![r] = {duo[r][1], duo[r][2]}]
  /\ roomOf' = Assigned(IF here THEN duo[r][1] ELSE duo[r][2], r)
  /\ mpc' = [mpc EXCEPT ![r] = IF here THEN "first" ELSE "insert"]
  /\ UNCHANGED <<connVars, duo, game, decisive, row, endVars, failures>>

AssignSecond(r) ==
  /\ mpc[r] = "first"
  /\ roomOf' = Assigned(duo[r][2], r)
  /\ mpc' = [mpc EXCEPT ![r] = "insert"]
  /\ UNCHANGED <<connVars, duo, rooms, game, decisive, row, endVars, players,
                 failures>>

\* INSERT INTO matches, and the game starts.
StartGame(r) ==
  /\ mpc[r] = "insert"
  /\ row' = [row EXCEPT ![r] = "in_progress"]
  /\ game' = [game EXCEPT ![r] = "active"]
  /\ mpc' = [mpc EXCEPT ![r] = "started"]
  /\ UNCHANGED <<connVars, duo, rooms, decisive, endVars, roomOf, players,
                 failures>>

\* Mutant of InsertFails: the error is swallowed and the game starts.
InsertIgnored(r) ==
  /\ mpc[r] = "insert" /\ failures < MaxFailures
  /\ failures' = failures + 1
  /\ game' = [game EXCEPT ![r] = "active"]
  /\ mpc' = [mpc EXCEPT ![r] = "started"]
  /\ UNCHANGED <<connVars, duo, rooms, decisive, row, endVars, roomOf, players>>

\* The INSERT fails: the cycle logs the error and leaves the room behind.
InsertFails(r) ==
  /\ mpc[r] = "insert" /\ failures < MaxFailures
  /\ failures' = failures + 1
  /\ mpc' = [mpc EXCEPT ![r] = "failed"]
  /\ UNCHANGED <<connVars, duo, rooms, game, decisive, row, endVars, roomOf,
                 players>>
-----------------------------------------------------------------------------
(* handleMatchEnd, handleDisconnect *)

\* Mutant of StopGame: the interval and the status are left alone.
StopNothing(r) ==
  /\ game' = game
  /\ \E won \in BOOLEAN :
       decisive' = [decisive EXCEPT ![r] = IF @ = None THEN won ELSE @]

\* The game stops; who won is settled the first time it does.
StopGame(r) ==
  /\ game' = [game EXCEPT ![r] = "finished"]
  /\ \E won \in BOOLEAN :
       decisive' = [decisive EXCEPT ![r] = IF @ = None THEN won ELSE @]

\* Mutant of BeginEnd: the comparison of winner and loser is inverted.
BeginEndInverted(x, r) ==
  /\ eroom' = [eroom EXCEPT ![x] = r]
  /\ epc' = [epc EXCEPT ![x] = IF decisive'[r] THEN "update" ELSE "record"]

\* handleMatchEnd up to its first await; an even score records no result.
BeginEnd(x, r) ==
  /\ eroom' = [eroom EXCEPT ![x] = r]
  /\ epc' = [epc EXCEPT ![x] = IF decisive'[r] THEN "record" ELSE "update"]

\* checkGameEnd on a tick: one player alive, or tick 600.
GameEnds(r) ==
  /\ game[r] = "active"
  /\ StopGame(r)
  /\ BeginEnd(r, r)
  /\ UNCHANGED <<connVars, mpc, duo, rooms, row, passed, recorded, roomOf,
                 players, failures>>

\* leaveQueue is done; the player leaves his room, which ends the match if at
\* most one player remains and the game exists.
LeaveRoom(c) ==
  LET r == roomOf[c]
      rest == players[r] \ {UserOf[c]}
  IN
  /\ dpc[c] = "leaving"
  /\ \/ /\ r \notin rooms
        /\ dpc' = [dpc EXCEPT ![c] = "presence"]
        /\ UNCHANGED <<players, game, decisive, epc, eroom>>
     \/ /\ r \in rooms
        /\ players' = [players EXCEPT ![r] = rest]
        /\ \/ /\ Cardinality(rest) > 1 \/ game[r] = None
              /\ dpc' = [dpc EXCEPT ![c] = "presence"]
              /\ UNCHANGED <<game, decisive, epc, eroom>>
           \/ /\ Cardinality(rest) <= 1 /\ game[r] # None
              /\ dpc' = [dpc EXCEPT ![c] = "ending"]
              /\ StopGame(r)
              /\ BeginEnd(c, r)
  /\ UNCHANGED <<cpc, sock, sessions, mpc, duo, rooms, row, passed,
                 recorded, roomOf, failures>>

RecordResult(x) ==
  /\ epc[x] = "record"
  /\ recorded' = [recorded EXCEPT ![eroom[x]] = @ + 1]
  /\ epc' = [epc EXCEPT ![x] = "update"]
  /\ UNCHANGED <<connVars, roomVars, eroom, passed, roomOf, players, failures>>

\* UPDATE matches SET status = 'completed'.
CompleteRow(x) ==
  /\ epc[x] = "update"
  /\ row' = [row EXCEPT ![eroom[x]] = IF @ = "none" THEN @ ELSE "completed"]
  /\ epc' = [epc EXCEPT ![x] = "events"]
  /\ UNCHANGED <<connVars, mpc, duo, rooms, game, decisive, eroom, passed,
                 recorded, roomOf, players, failures>>

\* Mutant of Left: the loop starts over after each await.
LeftAgain(x) == {i \in {1, 2} : /\ duo[eroom[x]][i] \in players[eroom[x]]
                                /\ sessions[duo[eroom[x]][i]] # None}

\* Players the loop over room.players has still to release: it goes in the
\* order of the pair and sees what was deleted from the set meanwhile.
Left(x) == {i \in {1, 2} : /\ i > passed[x]
                           /\ duo[eroom[x]][i] \in players[eroom[x]]
                           /\ sessions[duo[eroom[x]][i]] # None}

\* The match's events are stored, or the setPresence of the round before is
\* done: the next player with a session is released.
ReleasePlayer(x) ==
  /\ epc[x] \in {"events", "clean"}
  /\ \E i \in Left(x) :
       /\ \A j \in Left(x) : i <= j
       /\ roomOf' = Assigned(duo[eroom[x]][i], None)
       /\ passed' = [passed EXCEPT ![x] = i]
  /\ epc' = [epc EXCEPT ![x] = "clean"]
  /\ UNCHANGED <<connVars, roomVars, eroom, recorded, players, failures>>

\* The promise of handleMatchEnd settles; handleDisconnect goes on, if it waited.
EndSettles(x, outcome, next) ==
  /\ epc' = [epc EXCEPT ![x] = outcome]
  /\ dpc' = IF x \in Conn THEN [dpc EXCEPT ![x] = next] ELSE dpc
  /\ UNCHANGED <<cpc, sock, sessions, mpc, duo, game, decisive, row, eroom,
                 passed, recorded, roomOf, players>>

CloseRoom(x) ==
  /\ epc[x] \in {"events", "clean"} /\ Left(x) = {}
  /\ rooms' = rooms \ {eroom[x]}
  /\ EndSettles(x, "done", "presence")
  /\ UNCHANGED failures

\* A query of handleMatchEnd fails; the rejection is logged and nothing else.
EndFails(x) ==
  /\ epc[x] \in {"record", "update", "events"} /\ failures < MaxFailures
  /\ failures' = failures + 1
  /\ EndSettles(x, "failed", "failed")
  /\ UNCHANGED rooms

\* removePresence is done; the player's session is deleted, whichever it is.
DropSession(c) ==
  /\ dpc[c] = "presence"
  /\ sessions' = [sessions EXCEPT ![UserOf[c]] = None]
  /\ dpc' = [dpc EXCEPT ![c] = "done"]
  /\ UNCHANGED <<cpc, sock, roomVars, endVars, roomOf, players, failures>>
-----------------------------------------------------------------------------
ConnStep(c) == CreateSession(c) \/ AttachHandlers(c) \/ LeaveRoom(c) \/ DropSession(c)

RoomStep(r) == CreateRoom(r) \/ AssignSecond(r) \/ StartGame(r) \/ GameEnds(r)

EndStep(x) == RecordResult(x) \/ CompleteRow(x) \/ ReleasePlayer(x) \/ CloseRoom(x)

Environment ==
  \/ \E c \in Conn : Connect(c) \/ SocketCloses(c)
  \/ \E r \in Room, u, v \in User : TakePair(r, u, v)
  \/ \E r \in Room : InsertFails(r)
  \/ \E x \in Ender : EndFails(x)

Next == \/ Environment
        \/ \E c \in Conn : ConnStep(c)
        \/ \E r \in Room : RoomStep(r)
        \/ \E x \in Ender : EndStep(x)

Spec == Init /\ [][Next]_vars

\* Awaited calls return and a running game reaches tick 600, so each chain of
\* awaits goes on: of a socket (handleConnection, then handleDisconnect with the
\* match end it waits for) and of a room (createGameRoom, the game, its end).
\* Nothing is assumed of clients and of the matchmaking timer.
Fairness == /\ \A c \in Conn : WF_vars(ConnStep(c) \/ EndStep(c))
            /\ \A r \in Room : WF_vars(RoomStep(r) \/ EndStep(r))

LiveSpec == Spec /\ Fairness
-----------------------------------------------------------------------------
TypeOK ==
  /\ cpc \in [Conn -> {"none", "query", "presence", "ready"}]
  /\ sock \in [Conn -> {"open", "closing", "closed"}]
  /\ sessions \in [User -> Conn \cup {None}]
  /\ roomOf \in [Conn -> Room \cup {None}]
  /\ dpc \in [Conn -> {"none", "leaving", "ending", "presence", "failed", "done"}]
  /\ mpc \in [Room -> {"none", "taken", "first", "insert", "started", "failed"}]
  /\ duo \in [Room -> {<<>>} \cup (User \X User)]
  /\ rooms \subseteq Room
  /\ players \in [Room -> SUBSET User]
  /\ game \in [Room -> {None, "active", "finished"}]
  /\ decisive \in [Room -> BOOLEAN \cup {None}]
  /\ row \in [Room -> {"none", "in_progress", "completed"}]
  /\ epc \in [Ender -> {"none", "record", "update", "events", "clean", "done", "failed"}]
  /\ eroom \in [Ender -> Room \cup {None}]
  /\ passed \in [Ender -> 0..2]
  /\ recorded \in [Room -> Nat]
  /\ failures \in 0..MaxFailures

\* A running game belongs to a room the server still has: whichever of the
\* timer and the disconnects ends a match first, and however their executions
\* of handleMatchEnd interleave, none forgets a room whose game ticks on.
NoOrphanGame == \A r \in Room : game[r] = "active" => r \in rooms

\* When the server has forgotten a room it had played, the match's row is
\* completed and a decided match has its result on the leaderboard.
ClosedIsAccounted ==
  \A r \in Room : mpc[r] = "started" /\ r \notin rooms =>
    /\ row[r] = "completed"
    /\ decisive[r] => recorded[r] > 0

\* The seat of a registered session is real: the room exists and lists the
\* player until the session is released or its own disconnect takes him out,
\* so that his actions find the game and its broadcasts find him.
SeatIsReal ==
  \A c \in Conn :
    sessions[UserOf[c]] = c /\ roomOf[c] # None /\ dpc[c] \in {"none", "leaving"}
      => roomOf[c] \in rooms /\ UserOf[c] \in players[roomOf[c]]

\* The matches of this server live the life of RoomLife.
Phase == [r \in Room |->
  CASE mpc[r] = "started" /\ game[r] = "active" -> "playing"
    [] mpc[r] = "started" /\ game[r] # "active" ->
         IF r \in rooms THEN "over" ELSE "closed"
    [] OTHER -> IF r \in rooms THEN "open" ELSE "none"]
Life == INSTANCE RoomLife WITH phase <- Phase
ImplementsRoomLife == Life!Spec

\* As long as no query fails, a room made is a room forgotten in the end:
\* every interleaving of the game's timer with disconnects ends the match.
RoomCloses ==
  [](failures = 0) => \A r \in Room : r \in rooms ~> r \notin rooms

\* "Clean up player sessions" (server.ts:384): when a match that was played is
\* forgotten, no player is left who sits in it with an open socket, for whom
\* join_queue would be refused from then on.
NobodyStaysBehind ==
  \A c \in Conn, r \in Room :
    mpc[r] = "started" /\ r \notin rooms /\ sock[c] = "open" => roomOf[c] # r

\* "If only one player left, end the match" (server.ts:434): a match that ends
\* once has its result recorded once.
RecordedOnce == \A r \in Room : recorded[r] <= 1
=============================================================================
