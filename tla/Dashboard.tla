----------------------------- MODULE Dashboard ------------------------------
(***************************************************************************)
(* dashboard/src/lib/store.ts: the store of the browser's dashboard, which *)
(* signs up users, opens a socket for each, queues them, and shows their   *)
(* states and counts from what it sends and what the sockets' callbacks    *)
(* tell it.                                                                *)
(*                                                                         *)
(* Of the server it uses two messages, match_found and match_ended.  Here  *)
(* the server sends them at any time: that comprises what Sessions and     *)
(* RealtimeServer have it send, to whichever socket the player has then.   *)
(* Feed, animations and node statistics are left out.                      *)
(***************************************************************************)
EXTENDS Players, Sequences

CONSTANT MaxNews \* bound of the model: messages match_found and match_ended

ASSUME NewsAssumption == MaxNews \in Nat

VARIABLES
  users,                      \* users signed up
  connected, inQueue, inMatch, \* the flags of the users (wsReady = connected)
  metrics,                    \* the counts of them that are shown
  wsConnections,              \* the socket kept for each user
  state,                      \* readyState of each socket
  toClient,                   \* events under way to each socket
  server,                     \* what the server knows of each socket
  news,                       \* messages it has sent
  odd                         \* history: events that met another flag than
                              \* the one they change

storeVars == <<users, connected, inQueue, inMatch, metrics, wsConnections>>
serverVars == <<server, news>>
dashboardVars == <<storeVars, state, toClient, serverVars, odd>>

InitDashboard ==
  /\ users = {} /\ connected = {} /\ inQueue = {} /\ inMatch = {}
  /\ metrics = [connectedUsers |-> 0, usersInQueue |-> 0, activeMatches |-> 0]
  /\ wsConnections = [u \in User |-> None]
  /\ state = [w \in Conn |-> "unused"]
  /\ toClient = [w \in Conn |-> <<>>]
  /\ server = [w \in Conn |-> "none"]
  /\ news = 0
  /\ odd = 0

\* Math.max(0, n + d)
Clipped(n, d) == IF n + d < 0 THEN 0 ELSE n + d

\* An event that meets another flag than it expects.
Count(ok) == odd' = IF ok THEN odd ELSE odd + 1
-----------------------------------------------------------------------------
(* What the viewer does *)

\* The answer to addUser's sign-up; addUsers and a load test repeat it.
AddUser(u) ==
  /\ u \notin users
  /\ users' = users \cup {u}
  /\ UNCHANGED <<connected, inQueue, inMatch, metrics, wsConnections, state,
                 toClient, serverVars, odd>>

\* connectUser for each user of these sockets.  A user counts as not connected
\* until his socket is open, and may be given a second one.
Open(W) ==
  /\ state' = [w \in Conn |-> IF w \in W THEN "connecting" ELSE state[w]]
  /\ wsConnections' = [u \in User |->
       IF \E w \in W : UserOf[w] = u THEN CHOOSE w \in W : UserOf[w] = u
       ELSE wsConnections[u]]
  /\ UNCHANGED <<users, connected, inQueue, inMatch, metrics, toClient, serverVars,
                 odd>>

ConnectUser(w) ==
  state[w] = "unused" /\ UserOf[w] \in users \ connected /\ Open({w})

ConnectAllUsers ==
  \E W \in SUBSET {w \in Conn : state[w] = "unused"} :
    /\ W # {} /\ {UserOf[w] : w \in W} = users \ connected
    /\ Cardinality(W) = Cardinality(users \ connected)
    /\ Open(W)

DisconnectUser(u) ==
  LET w == wsConnections[u] IN
  /\ w # None /\ state[w] \in {"connecting", "open"}
  /\ state' = [state EXCEPT ![w] = "closing"]
  /\ UNCHANGED <<storeVars, toClient, serverVars, odd>>

MayQueue(u) == /\ u \in connected \ (inQueue \cup inMatch)
               /\ wsConnections[u] # None

\* queueUser for each of these users.  The flag is set without waiting for an
\* answer, and also if the socket is no longer open and nothing is sent.
Queue(U) ==
  /\ inQueue' = inQueue \cup U
  /\ metrics' = [metrics EXCEPT !.usersInQueue = @ + Cardinality(U)]
  /\ UNCHANGED <<users, connected, inMatch, wsConnections, state, toClient,
                 serverVars, odd>>

QueueUser(u) == MayQueue(u) /\ Queue({u})

QueueAllConnected ==
  LET U == {u \in users : MayQueue(u)} IN U # {} /\ Queue(U)
-----------------------------------------------------------------------------
(* What the sockets tell *)

Event(w, e) == /\ toClient[w] # <<>> /\ Head(toClient[w]) = e
               /\ toClient' = [toClient EXCEPT ![w] = Tail(@)]

OnOpen(w) ==
  LET u == UserOf[w] IN
  /\ Event(w, "open") /\ state[w] = "connecting"
  /\ state' = [state EXCEPT ![w] = "open"]
  /\ connected' = connected \cup {u}
  /\ metrics' = [metrics EXCEPT !.connectedUsers = @ + 1]
  /\ Count(u \notin connected)
  /\ UNCHANGED <<users, inQueue, inMatch, wsConnections, serverVars>>

\* Mutant of OnClose: the flag is read after it was cleared.
OnCloseReadsLate(w) ==
  LET u == UserOf[w] IN
  /\ Event(w, "close")
  /\ state' = [state EXCEPT ![w] = "closed"]
  /\ wsConnections' = [wsConnections EXCEPT ![u] = None]
  /\ connected' = connected \ {u}
  /\ inQueue' = inQueue \ {u}
  /\ metrics' = [metrics EXCEPT !.connectedUsers = Clipped(@, -1)]
  /\ Count(u \in connected)
  /\ UNCHANGED <<users, inMatch, serverVars>>

\* The user's socket is forgotten, even if it is a newer one.  He stays in his
\* match.
OnClose(w) ==
  LET u == UserOf[w] IN
  /\ Event(w, "close")
  /\ state' = [state EXCEPT ![w] = "closed"]
  /\ wsConnections' = [wsConnections EXCEPT ![u] = None]
  /\ connected' = connected \ {u}
  /\ inQueue' = inQueue \ {u}
  /\ metrics' = [metrics EXCEPT
       !.connectedUsers = Clipped(@, -1),
       !.usersInQueue = IF u \in inQueue THEN Clipped(@, -1) ELSE @]
  /\ Count(u \in connected)
  /\ UNCHANGED <<users, inMatch, serverVars>>

\* handleWsMessage of match_found.  It looks for matchId beside the type, where
\* the server has put data, and so ends with an exception, after this.
OnMatchFound(w) ==
  LET u == UserOf[w] IN
  /\ Event(w, "found") /\ state[w] = "open"
  /\ inQueue' = inQueue \ {u}
  /\ inMatch' = inMatch \cup {u}
  /\ metrics' = [metrics EXCEPT !.activeMatches = @ + 1,
                                !.usersInQueue = Clipped(@, -1)]
  /\ Count(u \in inQueue /\ u \notin inMatch)
  /\ UNCHANGED <<users, connected, wsConnections, state, serverVars>>

OnMatchEnded(w) ==
  /\ Event(w, "ended") /\ state[w] = "open"
  /\ inMatch' = inMatch \ {UserOf[w]}
  /\ metrics' = [metrics EXCEPT !.activeMatches = Clipped(@, -1)]
  /\ Count(UserOf[w] \in inMatch)
  /\ UNCHANGED <<users, connected, inQueue, wsConnections, state,
                 serverVars>>

\* A socket that closes fires nothing else.
Dropped(w) ==
  /\ state[w] = "closing"
  /\ \E e \in {"open", "found", "ended"} : Event(w, e)
  /\ UNCHANGED <<storeVars, state, serverVars, odd>>
-----------------------------------------------------------------------------
(* The server and the network *)

Tell(w, e) == toClient' = [toClient EXCEPT ![w] = Append(@, e)]

\* The server takes the connection, or there is none.
Accept(w) ==
  /\ server[w] = "none" /\ state[w] # "unused"
  /\ \/ server' = [server EXCEPT ![w] = "accepted"] /\ Tell(w, "open")
     \/ server' = [server EXCEPT ![w] = "gone"] /\ Tell(w, "close")
  /\ UNCHANGED <<storeVars, state, news, odd>>

\* createGameRoom and broadcastToRoom send to the player's session.
SendMessage(w) ==
  /\ server[w] = "accepted" /\ news < MaxNews
  /\ news' = news + 1
  /\ \E e \in {"found", "ended"} : Tell(w, e)
  /\ UNCHANGED <<storeVars, state, server, odd>>

\* A connection ends, from whichever side.
CloseConnection(w) ==
  /\ server[w] = "accepted"
  /\ server' = [server EXCEPT ![w] = "gone"]
  /\ Tell(w, "close")
  /\ UNCHANGED <<storeVars, state, news, odd>>
-----------------------------------------------------------------------------
Viewer == \/ \E u \in User : AddUser(u) \/ DisconnectUser(u) \/ QueueUser(u)
          \/ \E w \in Conn : ConnectUser(w)
          \/ ConnectAllUsers \/ QueueAllConnected

Callback(w) == \/ OnOpen(w) \/ OnClose(w) \/ OnMatchFound(w) \/ OnMatchEnded(w)
               \/ Dropped(w)

Service(w) == Accept(w) \/ SendMessage(w) \/ CloseConnection(w)

DashboardNext == Viewer \/ \E w \in Conn : Callback(w) \/ Service(w)

DashboardSpec == InitDashboard /\ [][DashboardNext]_dashboardVars
-----------------------------------------------------------------------------
DashboardTypeOK ==
  /\ users \subseteq User /\ connected \subseteq User
  /\ inQueue \subseteq User /\ inMatch \subseteq User
  /\ metrics \in [{"connectedUsers", "usersInQueue", "activeMatches"} -> Nat]
  /\ wsConnections \in [User -> Conn \cup {None}]
  /\ state \in [Conn -> {"unused", "connecting", "open", "closing", "closed"}]
  /\ toClient \in [Conn -> Seq({"open", "close", "found", "ended"})]
  /\ server \in [Conn -> {"none", "accepted", "gone"}]
  /\ news \in 0 .. MaxNews /\ odd \in Nat

Gap(m, n) == IF m >= n THEN m - n ELSE n - m

\* The counts shown agree with the users' flags, but for two at most for each
\* event that met another flag than it expects: a second socket that opened,
\* one that closed without having been open, a match for a user who was not
\* waiting.  Clipping at zero never adds to the difference.
MetricsExplained ==
  Gap(metrics.connectedUsers, Cardinality(connected))
    + Gap(metrics.usersInQueue, Cardinality(inQueue))
    + Gap(metrics.activeMatches, Cardinality(inMatch)) <= 2 * odd

=============================================================================
