------------------------------ MODULE Sessions ------------------------------
(***************************************************************************)
(* src/websocket/server.ts: the life of a player's sockets in one server,  *)
(* on top of the queue (joinQueue, leaveQueue) and of presence.  The       *)
(* handlers of one player's sockets overlap: messages of one socket are    *)
(* not handled one after the other, and the close handler of a replaced    *)
(* socket runs beside the handlers of the new one.                         *)
(*                                                                         *)
(* RealtimeServer has the rooms with all their players.  Here a match is   *)
(* what one player sees of it: his entry is taken, he gets a seat, the     *)
(* match ends.  His opponent is on another server.                         *)
(***************************************************************************)
EXTENDS Presence

CONSTANTS Call,        \* concurrent handlers of join_queue and leave_queue
          Match,       \* matches these players get
          MaxEvents    \* bound of the model: join_queue and leave_queue
                       \* sent, keys that expire and match ends that fail

ASSUME AccessAssumption ==
  /\ Access = Conn \cup Call \cup Match
  /\ Conn \cap Call = {} /\ Conn \cap Match = {} /\ Call \cap Match = {}
  /\ None \notin Match
ASSUME EventsAssumption == MaxEvents \in Nat

VARIABLES
  pc,         \* where each handler is
  at,         \* the socket of a message, the player of a match
  arg,        \* the queue entry a handler works on
  sock,       \* state of each socket
  sessions,   \* this.sessions: the player's session, named by its socket
  roomId,     \* match in which each session has a seat, or None
  queue,      \* entries of these players in the sorted set
  keyed,      \* players with a key matchmaking:player:{id}
  raced,      \* history: players one of whose joins nobody takes back
  events      \* counter of the bound

queueVars == <<queue, keyed, raced>>
vars == <<presenceVars, pc, at, arg, sock, sessions, roomId,
          queueVars, events>>

\* One entry per join; the numbers are in the order of joinedAt.
Entry == User \X (1 .. MaxEvents)

UserAt(x) == IF x \in Conn THEN UserOf[x]
             ELSE IF x \in Call THEN UserOf[at[x]] ELSE at[x]

Registered(c) == sessions[UserOf[c]] = c

EntriesOf(u) == {e \in queue : e[1] = u}

Init ==
  /\ InitPresence
  /\ pc = [x \in Access |-> "none"]
  /\ at = [x \in Access |-> None]
  /\ arg = [x \in Access |-> None]
  /\ sock = [c \in Conn |-> "closed"]
  /\ sessions = [u \in User |-> None]
  /\ roomId = [c \in Conn |-> None]
  /\ queue = {}
  /\ keyed = {}
  /\ raced = {}
  /\ events = 0
-----------------------------------------------------------------------------
(* handleConnection *)

\* The client has connected, its token is verified and the users row read; the
\* socket may have closed since.  A session of the player is replaced, and its
\* socket told to close, which it may do at any time anyway.  Then setPresence
\* is awaited.
CreateSession(c) ==
  /\ pc[c] = "none"
  /\ pc' = [pc EXCEPT ![c] = "greet"]
  /\ sessions' = [sessions EXCEPT ![UserOf[c]] = c]
  /\ \E s \in {"open", "closed"} : sock' = [sock EXCEPT ![c] = s]
  /\ CallPresence(c, "online")
  /\ UNCHANGED <<at, arg, roomId, queueVars, events>>

\* setPresence has returned; only now the handlers are attached.
AttachHandlers(c) ==
  /\ pc[c] = "greet" /\ apc[c] = "write"
  /\ PresenceWrite(c, UserAt(c))
  /\ pc' = [pc EXCEPT ![c] = "ready"]
  /\ UNCHANGED <<at, arg, sock, sessions, roomId, queueVars, events>>

\* A socket closes; handleDisconnect starts if it is attached.
SocketCloses(c) ==
  /\ sock[c] = "open"
  /\ sock' = [sock EXCEPT ![c] = "closed"]
  /\ pc' = IF pc[c] = "ready" THEN [pc EXCEPT ![c] = "scan"] ELSE pc
  /\ UNCHANGED <<presenceVars, at, arg, sessions,
                 roomId, queueVars, events>>

-----------------------------------------------------------------------------
(* Messages join_queue and leave_queue *)

\* A message arrives; checkRateLimit is awaited.
Receive(k, c) ==
  /\ pc[k] = "none" /\ events < MaxEvents
  /\ pc[c] = "ready" /\ sock[c] = "open"
  /\ events' = events + 1
  /\ at' = [at EXCEPT ![k] = c]
  /\ \/ /\ pc' = [pc EXCEPT ![k] = "join"]
        /\ arg' = [arg EXCEPT ![k] = <<UserOf[c], events + 1>>]
     \/ /\ pc' = [pc EXCEPT ![k] = "scan"]
        /\ UNCHANGED arg
  /\ UNCHANGED <<presenceVars, sock, sessions, roomId, queueVars>>

\* The handler returns; nothing of it is left.
Returns(k) ==
  /\ pc' = [pc EXCEPT ![k] = "none"]
  /\ at' = [at EXCEPT ![k] = None]
  /\ arg' = [arg EXCEPT ![k] = None]

\* handleJoinQueue: a player in a match is told so.
CheckSeat(k) ==
  /\ pc[k] = "join"
  /\ IF roomId[at[k]] # None THEN Returns(k)
     ELSE pc' = [pc EXCEPT ![k] = "get"] /\ UNCHANGED <<at, arg>>
  /\ UNCHANGED <<presenceVars, sock, sessions, roomId, queueVars,
                 events>>

\* joinQueue asks for the player's key.  If it is there nothing is queued, but
\* the presence becomes in_queue all the same.
JoinGet(k) ==
  /\ pc[k] = "get"
  /\ IF UserAt(k) \in keyed
     THEN pc' = [pc EXCEPT ![k] = "tell"] /\ CallPresence(k, "in_queue")
     ELSE pc' = [pc EXCEPT ![k] = "add"] /\ UNCHANGED presenceVars
  /\ UNCHANGED <<at, arg, sock, sessions, roomId, queueVars, events>>

\* A join that nobody will take back: the close handler of its socket has
\* looked for the player's entry already, or leaveQueue, which removes one
\* entry, will find two.
Overtaken(k) ==
  \/ pc[at[k]] \notin {"ready", "scan"}
  \/ EntriesOf(UserAt(k)) # {}

JoinAdd(k) ==
  /\ pc[k] = "add"
  /\ queue' = queue \cup {arg[k]}
  /\ raced' = IF Overtaken(k) THEN raced \cup {UserAt(k)} ELSE raced
  /\ pc' = [pc EXCEPT ![k] = "key"]
  /\ UNCHANGED <<presenceVars, at, arg, sock, sessions, roomId, keyed,
                 events>>

JoinKey(k) ==
  /\ pc[k] = "key"
  /\ keyed' = keyed \cup {UserAt(k)}
  /\ pc' = [pc EXCEPT ![k] = "tell"]
  /\ CallPresence(k, "in_queue")
  /\ UNCHANGED <<at, arg, sock, sessions, roomId, queue, raced, events>>

\* leaveQueue, called for a message or by handleDisconnect: the player's first
\* entry, if there is one, and then his key.
LeaveScan(x) ==
  /\ pc[x] = "scan"
  /\ \/ \E e \in EntriesOf(UserAt(x)) :
          /\ \A f \in EntriesOf(UserAt(x)) : e[2] <= f[2]
          /\ arg' = [arg EXCEPT ![x] = e]
          /\ pc' = [pc EXCEPT ![x] = "remove"]
     \/ /\ EntriesOf(UserAt(x)) = {}
        /\ pc' = [pc EXCEPT ![x] = "unkey"]
        /\ UNCHANGED arg
  /\ UNCHANGED <<presenceVars, at, sock, sessions, roomId, queueVars,
                 events>>

\* Mutant of LeaveRemove: the entry stays.
LeaveKeeps(x) ==
  /\ pc[x] = "remove"
  /\ arg' = [arg EXCEPT ![x] = None]
  /\ pc' = [pc EXCEPT ![x] = "unkey"]
  /\ UNCHANGED <<presenceVars, at, sock, sessions, roomId, queueVars,
                 events>>

LeaveRemove(x) ==
  /\ pc[x] = "remove"
  /\ queue' = queue \ {arg[x]}
  /\ arg' = [arg EXCEPT ![x] = None]
  /\ pc' = [pc EXCEPT ![x] = "unkey"]
  /\ UNCHANGED <<presenceVars, at, sock, sessions, roomId, keyed, raced,
                 events>>

\* handleLeaveQueue goes on with the presence.
LeaveKey(k) ==
  /\ pc[k] = "unkey"
  /\ keyed' = keyed \ {UserAt(k)}
  /\ pc' = [pc EXCEPT ![k] = "tell"]
  /\ CallPresence(k, "online")
  /\ UNCHANGED <<at, arg, sock, sessions, roomId, queue, raced, events>>

MessageDone(k) ==
  /\ pc[k] = "tell" /\ apc[k] = "write"
  /\ PresenceWrite(k, UserAt(k))
  /\ Returns(k)
  /\ UNCHANGED <<sock, sessions, roomId, queueVars, events>>

\* MATCHMAKING_TIMEOUT_MS passes.
KeyExpires(u) ==
  /\ u \in keyed
  /\ keyed' = keyed \ {u}
  /\ UNCHANGED <<presenceVars, queue, raced>>
-----------------------------------------------------------------------------
(* A match, as one player meets it *)

\* processMatchmaking finds an entry of the player in its copy of the queue ...
ScanEntry(m, e) ==
  /\ pc[m] = "none" /\ e \in queue
  /\ at' = [at EXCEPT ![m] = e[1]]
  /\ arg' = [arg EXCEPT ![m] = e]
  /\ pc' = [pc EXCEPT ![m] = "chosen"]
  /\ UNCHANGED <<presenceVars, sock, sessions, roomId, queueVars, events>>

\* ... removes it, if it is still there: the answer of ZREM is ignored ...
TakeEntry(m) ==
  /\ pc[m] = "chosen"
  /\ queue' = queue \ {arg[m]}
  /\ arg' = [arg EXCEPT ![m] = None]
  /\ pc' = [pc EXCEPT ![m] = "taken"]
  /\ UNCHANGED <<presenceVars, at, sock, sessions, roomId, keyed, raced, events>>

\* ... deletes the player's key, and returns.
MatchKey(m) ==
  /\ pc[m] = "taken"
  /\ keyed' = keyed \ {at[m]}
  /\ pc' = [pc EXCEPT ![m] = "found"]
  /\ UNCHANGED <<presenceVars, at, arg, sock, sessions, roomId, queue,
                 raced, events>>

\* createGameRoom seats the session the player has now, if any.
Seat(m) ==
  LET c == sessions[at[m]] IN
  /\ pc[m] = "found"
  /\ IF c = None
     THEN pc' = [pc EXCEPT ![m] = "playing"] /\ UNCHANGED <<roomId, presenceVars>>
     ELSE /\ roomId' = [roomId EXCEPT ![c] = m]
          /\ pc' = [pc EXCEPT ![m] = "seated"]
          /\ CallPresence(m, "in_match")
  /\ UNCHANGED <<at, arg, sock, sessions, queueVars, events>>

\* The game starts, unless the player has left before there was one; then the
\* match has nothing more to do with him.
Play(m) ==
  /\ pc[m] \in {"seated", "left"} /\ apc[m] = "write"
  /\ PresenceWrite(m, UserAt(m))
  /\ pc' = [pc EXCEPT ![m] = IF @ = "left" THEN "over" ELSE "playing"]
  /\ UNCHANGED <<at, arg, sock, sessions, roomId, queueVars, events>>

\* handleMatchEnd, run by the timer: the seat of whatever session the player
\* has now is cleared.
Release(m) ==
  LET c == sessions[at[m]] IN
  /\ pc[m] = "playing"
  /\ IF c = None
     THEN pc' = [pc EXCEPT ![m] = "over"] /\ UNCHANGED <<roomId, presenceVars>>
     ELSE /\ roomId' = [roomId EXCEPT ![c] = None]
          /\ pc' = [pc EXCEPT ![m] = "ending"]
          /\ CallPresence(m, "online")
  /\ UNCHANGED <<at, arg, sock, sessions, queueVars, events>>

Close(m) ==
  /\ pc[m] = "ending" /\ apc[m] = "write"
  /\ PresenceWrite(m, UserAt(m))
  /\ pc' = [pc EXCEPT ![m] = "over"]
  /\ UNCHANGED <<at, arg, sock, sessions, roomId, queueVars, events>>
-----------------------------------------------------------------------------
(* handleDisconnect, after its leaveQueue has removed the entry *)

\* The key is deleted.  A seat in a match that still exists is given up, and a
\* game that runs or has run is ended and the end awaited.
LeaveRoom(c) ==
  LET m == roomId[c]
      playing == m # None /\ pc[m] \in {"playing", "ending"}
  IN
  /\ pc[c] = "unkey"
  /\ keyed' = keyed \ {UserOf[c]}
  /\ pc' = [x \in Access |->
       IF x = c THEN IF playing THEN "ended" ELSE "offline"
       ELSE IF x = m /\ pc[m] = "playing" THEN "over"
       ELSE IF x = m /\ pc[m] = "seated" THEN "left" ELSE pc[x]]
  /\ IF playing THEN UNCHANGED presenceVars ELSE CallPresence(c, Absent)
  /\ UNCHANGED <<at, arg, sock, sessions, roomId, queue, raced, events>>

MatchEnded(c) ==
  /\ pc[c] = "ended"
  /\ pc' = [pc EXCEPT ![c] = "offline"]
  /\ CallPresence(c, Absent)
  /\ UNCHANGED <<at, arg, sock, sessions, roomId, queueVars, events>>

\* A query of handleMatchEnd fails: the handler ends there.
MatchEndFails(c) ==
  /\ pc[c] = "ended" /\ events < MaxEvents
  /\ events' = events + 1
  /\ pc' = [pc EXCEPT ![c] = "failed"]
  /\ UNCHANGED <<presenceVars, at, arg, sock, sessions, roomId, queueVars>>

\* removePresence is done; the player's session is deleted, whichever it is.
DropSession(c) ==
  /\ pc[c] = "offline" /\ apc[c] = "write"
  /\ PresenceWrite(c, UserAt(c))
  /\ sessions' = [sessions EXCEPT ![UserOf[c]] = None]
  /\ pc' = [pc EXCEPT ![c] = "done"]
  /\ UNCHANGED <<at, arg, sock, roomId, queueVars, events>>
-----------------------------------------------------------------------------
\* A call of setPresence or removePresence; its last command is part of the
\* action of the handler that goes on then.
PresenceStep(x) ==
  /\ PresenceRead(x, UserAt(x))
  /\ UNCHANGED <<pc, at, arg, sock, sessions, roomId, queueVars, events>>

ConnStep(c) == \/ CreateSession(c) \/ AttachHandlers(c) \/ LeaveScan(c)
               \/ LeaveRemove(c) \/ LeaveRoom(c) \/ MatchEnded(c)
               \/ DropSession(c) \/ PresenceStep(c)

CallStep(k) == \/ CheckSeat(k) \/ JoinGet(k) \/ JoinAdd(k) \/ JoinKey(k)
               \/ LeaveScan(k) \/ LeaveRemove(k) \/ LeaveKey(k)
               \/ MessageDone(k) \/ PresenceStep(k)

MatchStep(m) == \/ TakeEntry(m) \/ MatchKey(m) \/ Seat(m) \/ Play(m)
                \/ Release(m) \/ Close(m) \/ PresenceStep(m)

Client(c) == SocketCloses(c) \/ \E k \in Call : Receive(k, c)

Expiry(u) ==
  /\ events < MaxEvents
  /\ events' = events + 1
  /\ KeyExpires(u) \/ (PresenceExpires(u) /\ UNCHANGED queueVars)
  /\ UNCHANGED <<pc, at, arg, sock, sessions, roomId>>

Next ==
  \/ \E c \in Conn : ConnStep(c) \/ Client(c) \/ MatchEndFails(c)
  \/ \E k \in Call : CallStep(k)
  \/ \E m \in Match : MatchStep(m) \/ \E e \in queue : ScanEntry(m, e)
  \/ \E u \in User : Expiry(u)

Spec == Init /\ [][Next]_vars

-----------------------------------------------------------------------------
TypeOK ==
  /\ PresenceTypeOK
  /\ pc \in [Access -> {"none", "greet", "ready", "scan", "remove", "unkey",
        "ended", "offline", "failed", "done", "join", "get", "add", "key", "tell",
        "chosen", "taken", "found", "seated", "left", "playing", "ending", "over"}]
  /\ at \in [Access -> Conn \cup User \cup {None}]
  /\ arg \in [Access -> Entry \cup {None}]
  /\ sock \in [Conn -> {"open", "closed"}]
  /\ sessions \in [User -> Conn \cup {None}]
  /\ roomId \in [Conn -> Match \cup {None}]
  /\ queue \subseteq Entry
  /\ keyed \subseteq User /\ raced \subseteq User
  /\ events \in 0 .. MaxEvents

\* A socket that closed before its handlers were attached runs none.
Finished(c) == \/ pc[c] \in {"none", "failed", "done"}
               \/ pc[c] = "ready" /\ sock[c] = "closed"

\* When the handlers of all sockets of a player have finished, nothing of his
\* is left in the queue, however messages, leaves, a match that works on an old
\* copy of the queue and the closing of two sockets fell, unless one of his
\* joins was overtaken.
NoGhost ==
  \A u \in User \ raced :
    (\A c \in Conn : UserOf[c] = u => Finished(c)) => EntriesOf(u) = {}

=============================================================================
