----------------------------- MODULE Heartbeat ------------------------------
(***************************************************************************)
(* src/websocket/server.ts: checkHeartbeats, which pings every session     *)
(* once in 30 s and terminates one that has given no sign of life since    *)
(* the last round, over the map of sessions that connections and close     *)
(* handlers change.                                                        *)
(*                                                                         *)
(* The loop follows the order of the map and returns at the first silent   *)
(* session.  Sessions has the handlers' other steps: what one awaits       *)
(* between its start and its effect on the map is one step here.           *)
(***************************************************************************)
EXTENDS Players, Sequences

CONSTANT MaxFailures \* bound of the model: close handlers that fail

ASSUME FailuresAssumption == MaxFailures \in Nat

VARIABLES
  handler,    \* of each socket: none, greet, ready, leave, done, failed
  socket,     \* open, closing, closed
  sessionMap, \* this.sessions in its order, each session named by its socket
  isAlive,    \* session.isAlive
  dark,       \* sockets that are not closed, whose peer has vanished
  unanswered, \* those with a ping that is not answered
  unheard,    \* history: those whose last pong no handler heard
  failures    \* counter of the bound

peerVars == <<dark, unanswered, unheard>>
heartbeatVars == <<handler, socket, sessionMap, isAlive, peerVars, failures>>

Without(u) == SelectSeq(sessionMap, LAMBDA c : UserOf[c] # u)

InMap(c) == \E i \in DOMAIN sessionMap : sessionMap[i] = c

InitHeartbeat ==
  /\ handler = [c \in Conn |-> "none"]
  /\ socket = [c \in Conn |-> "closed"]
  /\ sessionMap = <<>>
  /\ isAlive = [c \in Conn |-> FALSE]
  /\ dark = {} /\ unanswered = {} /\ unheard = {}
  /\ failures = 0
-----------------------------------------------------------------------------
(* Connections *)

\* handleConnection: the session of the player is closed and replaced; the new
\* one goes to the end of the map.
Connect(c) ==
  /\ handler[c] = "none"
  /\ handler' = [handler EXCEPT ![c] = "greet"]
  /\ socket' = [d \in Conn |->
       IF d = c THEN "open"
       ELSE IF UserOf[d] = UserOf[c] /\ InMap(d) /\ socket[d] = "open"
       THEN "closing" ELSE socket[d]]
  /\ sessionMap' = Append(Without(UserOf[c]), c)
  /\ isAlive' = [isAlive EXCEPT ![c] = TRUE]
  /\ UNCHANGED <<peerVars, failures>>

\* setPresence has returned; only now the handlers are attached.
HandlersAttached(c) ==
  /\ handler[c] = "greet"
  /\ handler' = [handler EXCEPT ![c] = "ready"]
  /\ UNCHANGED <<socket, sessionMap, isAlive, peerVars, failures>>

\* The socket is closed.  handleDisconnect starts if it is attached.
Closed(c) ==
  /\ socket' = [socket EXCEPT ![c] = "closed"]
  /\ handler' = IF handler[c] = "ready" THEN [handler EXCEPT ![c] = "leave"] ELSE handler
  /\ dark' = dark \ {c}
  /\ unanswered' = unanswered \ {c}
  /\ unheard' = unheard \ {c}
  /\ UNCHANGED <<sessionMap, isAlive, failures>>

ClientCloses(c) == socket[c] = "open" /\ c \notin dark /\ Closed(c)

\* What close and terminate have begun.
CloseEnds(c) == socket[c] = "closing" /\ Closed(c)

\* Mutant of Disconnected: the session stays in the map.
DropNothing(c) ==
  /\ handler[c] = "leave"
  /\ handler' = [handler EXCEPT ![c] = "done"]
  /\ UNCHANGED <<socket, sessionMap, isAlive, peerVars, failures>>

\* handleDisconnect has done its clean-up; it deletes the player's session,
\* whichever it is.
Disconnected(c) ==
  /\ handler[c] = "leave"
  /\ handler' = [handler EXCEPT ![c] = "done"]
  /\ sessionMap' = Without(UserOf[c])
  /\ UNCHANGED <<socket, isAlive, peerVars, failures>>

\* A command of its clean-up fails, and it does not get there.
DisconnectFails(c) ==
  /\ handler[c] = "leave" /\ failures < MaxFailures
  /\ failures' = failures + 1
  /\ handler' = [handler EXCEPT ![c] = "failed"]
  /\ UNCHANGED <<socket, sessionMap, isAlive, peerVars>>
-----------------------------------------------------------------------------
(* Signs of life *)

\* The peer vanishes and the socket does not notice.
PeerVanishes(c) ==
  /\ socket[c] = "open" /\ c \notin dark
  /\ dark' = dark \cup {c}
  /\ UNCHANGED <<handler, socket, sessionMap, isAlive, unanswered, unheard, failures>>

\* The peer answers a ping; without a handler nobody hears it.
Pong(c) ==
  /\ c \in unanswered \ dark /\ socket[c] = "open"
  /\ unanswered' = unanswered \ {c}
  /\ IF handler[c] = "ready"
     THEN isAlive' = [isAlive EXCEPT ![c] = TRUE] /\ UNCHANGED unheard
     ELSE unheard' = unheard \cup {c} /\ UNCHANGED isAlive
  /\ UNCHANGED <<handler, socket, sessionMap, dark, failures>>

\* A message "ping" counts as a sign of life too.
PingMessage(c) ==
  /\ handler[c] = "ready" /\ socket[c] = "open" /\ c \notin dark
  /\ isAlive' = [isAlive EXCEPT ![c] = TRUE]
  /\ UNCHANGED <<handler, socket, sessionMap, peerVars, failures>>

\* Sessions the loop reaches before the first silent one ...
Pinged == {c \in Conn : \E i \in DOMAIN sessionMap :
             sessionMap[i] = c /\ \A j \in 1 .. i : isAlive[sessionMap[j]]}

\* ... and that one, where it returns.
FirstSilent == {c \in Conn : \E i \in DOMAIN sessionMap :
                  /\ sessionMap[i] = c /\ ~isAlive[c]
                  /\ \A j \in 1 .. i - 1 : isAlive[sessionMap[j]]}

\* Mutant of CheckHeartbeats: a session is given up when it is pinged.
CheckHeartbeatsAtOnce ==
  /\ socket' = [c \in Conn |-> IF c \in Pinged /\ socket[c] = "open"
                               THEN "closing" ELSE socket[c]]
  /\ isAlive' = [c \in Conn |-> isAlive[c] /\ c \notin Pinged]
  /\ UNCHANGED <<handler, sessionMap, peerVars, failures>>

CheckHeartbeats ==
  /\ socket' = [c \in Conn |-> IF c \in FirstSilent /\ socket[c] = "open"
                               THEN "closing" ELSE socket[c]]
  /\ isAlive' = [c \in Conn |-> isAlive[c] /\ c \notin Pinged]
  /\ unanswered' = unanswered \cup {c \in Pinged : socket[c] = "open"}
  /\ unheard' = unheard \ Pinged
  /\ UNCHANGED <<handler, sessionMap, dark, failures>>
-----------------------------------------------------------------------------
Server(c) == HandlersAttached(c) \/ CloseEnds(c) \/ Disconnected(c)

Environment(c) == \/ Connect(c) \/ ClientCloses(c) \/ DisconnectFails(c)
                  \/ PeerVanishes(c) \/ Pong(c) \/ PingMessage(c)

HeartbeatNext == CheckHeartbeats \/ \E c \in Conn : Server(c) \/ Environment(c)

HeartbeatSpec == InitHeartbeat /\ [][HeartbeatNext]_heartbeatVars

\* The interval fires, awaits return (their failures are DisconnectFails), and
\* ws ends a close that is not answered after its timeout.
HeartbeatFairness == /\ WF_heartbeatVars(CheckHeartbeats)
                     /\ \A c \in Conn : WF_heartbeatVars(Server(c))

HeartbeatLiveSpec == HeartbeatSpec /\ HeartbeatFairness
-----------------------------------------------------------------------------
HeartbeatTypeOK ==
  /\ handler \in [Conn -> {"none", "greet", "ready", "leave", "done", "failed"}]
  /\ socket \in [Conn -> {"open", "closing", "closed"}]
  /\ sessionMap \in Seq(Conn)
  /\ isAlive \in [Conn -> BOOLEAN]
  /\ dark \subseteq Conn /\ unanswered \subseteq Conn /\ unheard \subseteq Conn
  /\ failures \in 0 .. MaxFailures

\* A registered session that nothing removes: its socket closed before the
\* handlers were attached, or its close handler failed.
Zombie(c) == /\ InMap(c) /\ socket[c] = "closed"
             /\ handler[c] \in {"ready", "failed"}

BehindZombie(c) ==
  \E i, j \in DOMAIN sessionMap :
    i < j /\ sessionMap[j] = c /\ Zombie(sessionMap[i])

\* An open socket is cut only if its last ping is unanswered, or the answer
\* came before there was a handler, or another socket of the player connects.
OnlySilentCut ==
  [][\A c \in Conn :
       socket[c] = "open" /\ socket'[c] = "closing" =>
         \/ c \in unanswered \cup unheard
         \/ \E d \in Conn : /\ UserOf[d] = UserOf[c]
                            /\ handler[d] = "none" /\ handler'[d] = "greet"]_heartbeatVars

\* A peer that has vanished is cut in the end, in spite of other silent
\* sessions before it in the map.  Two sessions escape: one that the clean-up
\* of another socket has deleted from the map, and one behind a zombie, where
\* the loop returns in every round.
SilentIsCut ==
  \A c \in Conn :
    c \in dark ~> socket[c] = "closed" \/ ~InMap(c) \/ BehindZombie(c)
=============================================================================
