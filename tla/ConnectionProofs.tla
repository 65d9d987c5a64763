-------------------------- MODULE ConnectionProofs --------------------------
(***************************************************************************)
(* Proofs about a player's connections, for any players, sockets, messages *)
(* and matches: Sessions (with Presence), Heartbeat and Dashboard, each    *)
(* with a specification of its own over the same sockets.                  *)
(***************************************************************************)
EXTENDS Sessions, Heartbeat, Dashboard, FiniteSetTheorems, SequenceTheorems, TLAPS

\* Where the handlers of a socket, of a message and of a match can be.
ConnPlace == {"none", "greet", "ready", "scan", "remove", "unkey", "ended",
              "offline", "failed", "done"}
CallPlace == {"none", "join", "get", "add", "key", "tell", "scan", "remove", "unkey"}
MatchPlace == {"none", "chosen", "taken", "found", "seated", "left", "playing",
               "ending", "over"}

\* Where a handler awaits setPresence or removePresence.
Calling == {"greet", "tell", "seated", "left", "ending", "offline"}

Placed ==
  /\ \A c \in Conn : pc[c] \in ConnPlace
  /\ \A k \in Call : pc[k] \in CallPlace
  /\ \A m \in Match : pc[m] \in MatchPlace

\* A handler has a call of presence under way exactly where it awaits one, and
\* only a closed socket's handler removes a presence.
CallsPlaced ==
  \A x \in Access : /\ apc[x] = "idle" <=> pc[x] \notin Calling
                    /\ to[x] = Absent => apc[x] = "idle" \/ pc[x] = "offline"

\* A message belongs to a socket, a match to a player; a handler that adds or
\* removes an entry has one, and what a message adds is its player's.
Assigned ==
  /\ \A k \in Call : pc[k] # "none" => at[k] \in Conn
  /\ \A k \in Call : pc[k] \in {"join", "get", "add"} =>
       arg[k] \in Entry /\ arg[k][1] = UserOf[at[k]]
  /\ \A m \in Match : pc[m] # "none" => at[m] \in User
  /\ \A x \in Conn \cup Call : pc[x] = "remove" => arg[x] \in Entry

Typed == TypeOK /\ Placed /\ CallsPlaced /\ Assigned

LEMMA TypedInit == Init => Typed
<1> SUFFICES ASSUME Init PROVE Typed
  OBVIOUS
<1> USE AccessAssumption, EventsAssumption, ExpiriesAssumption
    DEF Init, InitPresence
<1>1. TypeOK
  BY DEF TypeOK, PresenceTypeOK
<1>2. Placed /\ CallsPlaced /\ Assigned
  BY DEF Placed, CallsPlaced, Assigned, ConnPlace, CallPlace, MatchPlace, Calling
<1> QED
  BY <1>1, <1>2 DEF Typed

-----------------------------------------------------------------------------
(* Types *)

LEMMA UserAtType ==
  ASSUME Typed, NEW x \in Access, pc[x] # "none"
  PROVE  UserAt(x) \in User
BY AccessAssumption, UserOfAssumption DEF Typed, Assigned, UserAt, TypeOK

\* What the operators of Presence keep.
LEMMA PresenceTypes ==
  ASSUME PresenceTypeOK, NEW x \in Access, NEW u \in User,
         \/ \E s \in Status \cup {Absent} : CallPresence(x, s)
         \/ PresenceRead(x, u) \/ PresenceWrite(x, u)
  PROVE  PresenceTypeOK'
<1> USE DEF PresenceTypeOK
<1>1. \A s \in Status \cup {Absent} : /\ Moved(s, -1) \in [Status -> Int]
                                        /\ Moved(s, 1) \in [Status -> Int]
  BY DEF Moved
<1>2. presence[u] \in Status \cup {Absent} /\ seen[x] \in Status \cup {Absent}
      /\ to[x] \in Status \cup {Absent}
  OBVIOUS
<1>3. CASE \E s \in Status \cup {Absent} : CallPresence(x, s)
  BY <1>3 DEF CallPresence
<1>4. CASE PresenceRead(x, u)
  <2>1. Moved(presence[u], -1) \in [Status -> Int]
    BY <1>1, <1>2
  <2>2. gauge' \in [Status -> Int]
    BY <1>4, <2>1 DEF PresenceRead
  <2> QED
    BY <1>2, <1>4, <2>2 DEF PresenceRead
<1>5. CASE PresenceWrite(x, u)
  <2>0. Moved(seen[x], -1) \in [Status -> Int] /\ Moved(to[x], 1) \in [Status -> Int]
    BY <1>1, <1>2
  <2>1. gauge' \in [Status -> Int]
    BY <1>5, <2>0 DEF PresenceWrite
  <2>2. stale' \in Nat
    BY <1>5 DEF PresenceWrite
  <2> QED
    BY <1>2, <1>5, <2>1, <2>2 DEF PresenceWrite
<1> QED
  BY <1>3, <1>4, <1>5

\* One step of presence, of a handler x for a player u.
PresenceMove(x, u) ==
  \/ apc[x] = "idle" /\ \E t \in Status \cup {Absent} : CallPresence(x, t)
  \/ PresenceRead(x, u) \/ PresenceWrite(x, u)

\* Every step of the server is one of them for presence, an expiry, or none.
LEMMA PresenceMoves ==
  ASSUME Typed, [Next]_vars
  PROVE  \/ \E x \in Access, u \in User : PresenceMove(x, u)
         \/ \E u \in User : PresenceExpires(u)
         \/ UNCHANGED presenceVars
<1> USE AccessAssumption, UserOfAssumption DEF PresenceMove
<1>0. /\ \A x \in Access : pc[x] # "none" => UserAt(x) \in User
      /\ \A x \in Access : pc[x] \notin Calling => apc[x] = "idle"
  BY UserAtType DEF Typed, CallsPlaced
<1>a. \A x \in Access : \A u : PresenceRead(x, u) => pc[x] # "none"
  BY DEF PresenceRead, Typed, CallsPlaced, Calling
<1>1. ASSUME NEW c \in Conn, ConnStep(c) \/ Client(c) \/ MatchEndFails(c)
      PROVE  (\E u \in User : PresenceMove(c, u)) \/ UNCHANGED presenceVars
  <2>1. UserAt(c) \in User
    BY DEF UserAt
  <2> QED
    BY <1>0, <1>1, <2>1
       DEF ConnStep, Client, MatchEndFails, CreateSession, AttachHandlers, LeaveScan,
           LeaveRemove, LeaveRoom, MatchEnded, DropSession, PresenceStep, SocketCloses,
           Receive, Status, Calling
<1>2. ASSUME NEW k \in Call, CallStep(k)
      PROVE  (\E u \in User : PresenceMove(k, u)) \/ UNCHANGED presenceVars
  BY <1>0, <1>a, <1>2
     DEF CallStep, CheckSeat, JoinGet, JoinAdd, JoinKey, LeaveScan, LeaveRemove,
         LeaveKey, MessageDone, PresenceStep, Status, Calling
<1>3. ASSUME NEW m \in Match, MatchStep(m) \/ \E e \in queue : ScanEntry(m, e)
      PROVE  (\E u \in User : PresenceMove(m, u)) \/ UNCHANGED presenceVars
  BY <1>0, <1>a, <1>3
     DEF MatchStep, ScanEntry, TakeEntry, MatchKey, Seat, Play, Release, Close, PresenceStep,
         Status, Calling
<1>4. ASSUME NEW u \in User, Expiry(u)
      PROVE  PresenceExpires(u) \/ UNCHANGED presenceVars
  BY <1>4 DEF Expiry, KeyExpires
<1>5. CASE UNCHANGED vars
  BY <1>5 DEF vars
<1> HIDE DEF PresenceMove
<1> QED
  BY <1>1, <1>2, <1>3, <1>4, <1>5 DEF Next

LEMMA PresenceTypeStep ==
  ASSUME Typed, [Next]_vars
  PROVE  PresenceTypeOK'
<1>1. PresenceTypeOK
  BY DEF Typed, TypeOK
<1>2. CASE UNCHANGED presenceVars
  BY <1>1, <1>2 DEF PresenceTypeOK, presenceVars
<1>3. ASSUME NEW u \in User, PresenceExpires(u) PROVE PresenceTypeOK'
  <2>1. expiries' \in 0 .. MaxExpiries
    BY <1>1, <1>3, ExpiriesAssumption DEF PresenceTypeOK, PresenceExpires
  <2> QED
    BY <1>1, <1>3, <2>1 DEF PresenceTypeOK, PresenceExpires
<1> QED
  BY <1>1, <1>2, <1>3, PresenceMoves, PresenceTypes DEF PresenceMove

LEMMA TypeStep ==
  ASSUME Typed, [Next]_vars
  PROVE  TypeOK'
<1> USE AccessAssumption, UserOfAssumption, EventsAssumption DEF TypeOK, queueVars
<1>0. PresenceTypeOK' /\ TypeOK /\ Assigned
      /\ \A x \in Access : pc[x] # "none" => UserAt(x) \in User
  BY PresenceTypeStep, UserAtType DEF Typed
<1>1. ASSUME NEW c \in Conn, ConnStep(c) PROVE TypeOK'
  BY <1>0, <1>1
     DEF ConnStep, CreateSession, AttachHandlers, LeaveScan, LeaveRemove, LeaveRoom,
         MatchEnded, DropSession, PresenceStep, EntriesOf
<1>2. ASSUME NEW c \in Conn, Client(c) \/ MatchEndFails(c) PROVE TypeOK'
  BY <1>0, <1>2 DEF Client, MatchEndFails, SocketCloses, Receive, Entry
<1>3. ASSUME NEW k \in Call, CallStep(k) PROVE TypeOK'
  BY <1>0, <1>3
     DEF CallStep, CheckSeat, JoinGet, JoinAdd, JoinKey, LeaveScan, LeaveRemove,
         LeaveKey, MessageDone, PresenceStep, Returns, EntriesOf, Assigned
<1>4. ASSUME NEW m \in Match, MatchStep(m) \/ \E e \in queue : ScanEntry(m, e)
      PROVE  TypeOK'
  BY <1>0, <1>4
     DEF MatchStep, ScanEntry, TakeEntry, MatchKey, Seat, Play, Release, Close, PresenceStep,
         Assigned, Entry
<1>5. ASSUME NEW u \in User, Expiry(u) PROVE TypeOK'
  BY <1>0, <1>5 DEF Expiry, KeyExpires
<1>6. CASE UNCHANGED vars
  BY <1>0, <1>6 DEF vars
<1> QED
  BY <1>1, <1>2, <1>3, <1>4, <1>5, <1>6 DEF Next

\* The actions, by what their operators add to the step.
LEMMA PlacedStep ==
  ASSUME Typed, [Next]_vars
  PROVE  Placed'
<1> USE AccessAssumption, NoneAssumption
    DEF Placed, ConnPlace, CallPlace, MatchPlace, Typed, TypeOK
<1>1. ASSUME NEW c \in Conn, ConnStep(c) PROVE Placed'
  <2>1. CASE LeaveRoom(c)
    BY <2>1 DEF LeaveRoom
  <2> QED
    BY <1>1, <2>1
       DEF ConnStep, CreateSession, AttachHandlers, LeaveScan, LeaveRemove,
           MatchEnded, DropSession, PresenceStep
<1>2. ASSUME NEW c \in Conn, Client(c) \/ MatchEndFails(c) PROVE Placed'
  BY <1>2 DEF Client, MatchEndFails, SocketCloses, Receive
<1>3. ASSUME NEW k \in Call, CallStep(k) PROVE Placed'
  BY <1>3
     DEF CallStep, CheckSeat, JoinGet, JoinAdd, JoinKey, LeaveScan, LeaveRemove,
         LeaveKey, MessageDone, PresenceStep, Returns
<1>4. ASSUME NEW m \in Match, MatchStep(m) \/ \E e \in queue : ScanEntry(m, e)
      PROVE  Placed'
  BY <1>4 DEF MatchStep, ScanEntry, TakeEntry, MatchKey, Seat, Play, Release, Close, PresenceStep
<1>5. ASSUME NEW u \in User, Expiry(u) PROVE Placed'
  BY <1>5 DEF Expiry, KeyExpires
<1>6. CASE UNCHANGED vars
  BY <1>6 DEF vars
<1> QED
  BY <1>1, <1>2, <1>3, <1>4, <1>5, <1>6 DEF Next

LEMMA CallsPlacedStep ==
  ASSUME Typed, [Next]_vars
  PROVE  CallsPlaced'
<1> USE AccessAssumption, NoneAssumption, AbsentAssumption
    DEF CallsPlaced, Calling, Typed, TypeOK, PresenceTypeOK, Status
<1>1. ASSUME NEW c \in Conn, ConnStep(c) PROVE CallsPlaced'
  <2>1. CASE LeaveRoom(c)
    BY <2>1 DEF LeaveRoom, CallPresence, presenceVars, Placed, MatchPlace
  <2> QED
    BY <1>1, <2>1
       DEF ConnStep, CreateSession, AttachHandlers, LeaveScan, LeaveRemove,
           MatchEnded, DropSession, PresenceStep, CallPresence, PresenceRead,
           PresenceWrite, presenceVars
<1>2. ASSUME NEW c \in Conn, Client(c) \/ MatchEndFails(c) PROVE CallsPlaced'
  BY <1>2 DEF Client, MatchEndFails, SocketCloses, Receive, presenceVars
<1>3. ASSUME NEW k \in Call, CallStep(k) PROVE CallsPlaced'
  BY <1>3
     DEF CallStep, CheckSeat, JoinGet, JoinAdd, JoinKey, LeaveScan, LeaveRemove,
         LeaveKey, MessageDone, PresenceStep, Returns, CallPresence, PresenceRead,
         PresenceWrite, presenceVars
<1>4. ASSUME NEW m \in Match, MatchStep(m) \/ \E e \in queue : ScanEntry(m, e)
      PROVE  CallsPlaced'
  BY <1>4
     DEF MatchStep, ScanEntry, TakeEntry, MatchKey, Seat, Play, Release, Close, PresenceStep,
         CallPresence, PresenceRead, PresenceWrite, presenceVars
<1>5. ASSUME NEW u \in User, Expiry(u) PROVE CallsPlaced'
  BY <1>5 DEF Expiry, KeyExpires, PresenceExpires, presenceVars
<1>6. CASE UNCHANGED vars
  BY <1>6 DEF vars, presenceVars
<1> QED
  BY <1>1, <1>2, <1>3, <1>4, <1>5, <1>6 DEF Next

LEMMA AssignedStep ==
  ASSUME Typed, [Next]_vars
  PROVE  Assigned'
<1> USE AccessAssumption, NoneAssumption, UserOfAssumption, EventsAssumption
    DEF Assigned, Typed, TypeOK
<1>1. ASSUME NEW c \in Conn, ConnStep(c) PROVE Assigned'
  <2>1. CASE LeaveRoom(c)
    BY <2>1 DEF LeaveRoom
  <2> QED
    BY <1>1, <2>1
       DEF ConnStep, CreateSession, AttachHandlers, LeaveScan, LeaveRemove,
           MatchEnded, DropSession, PresenceStep, EntriesOf
<1>2. ASSUME NEW c \in Conn, Client(c) \/ MatchEndFails(c) PROVE Assigned'
  BY <1>2 DEF Client, MatchEndFails, SocketCloses, Receive, Entry
<1>3. ASSUME NEW k \in Call, CallStep(k) PROVE Assigned'
  BY <1>3
     DEF CallStep, CheckSeat, JoinGet, JoinAdd, JoinKey, LeaveScan, LeaveRemove,
         LeaveKey, MessageDone, PresenceStep, Returns, EntriesOf
<1>4. ASSUME NEW m \in Match, MatchStep(m) \/ \E e \in queue : ScanEntry(m, e)
      PROVE  Assigned'
  BY <1>4 DEF MatchStep, ScanEntry, TakeEntry, MatchKey, Seat, Play, Release, Close,
              PresenceStep, Entry
<1>5. ASSUME NEW u \in User, Expiry(u) PROVE Assigned'
  BY <1>5 DEF Expiry, KeyExpires
<1>6. CASE UNCHANGED vars
  BY <1>6 DEF vars
<1> QED
  BY <1>1, <1>2, <1>3, <1>4, <1>5, <1>6 DEF Next

LEMMA TypedStep == Typed /\ [Next]_vars => Typed'
BY TypeStep, PlacedStep, CallsPlacedStep, AssignedStep DEF Typed

\* Types, the places of the handlers and their calls, for any players, sockets,
\* messages and matches.
THEOREM TypeCorrect == Spec => []TypeOK
<1>1. Typed => TypeOK
  BY DEF Typed
<1> QED
  BY TypedInit, TypedStep, <1>1, PTL DEF Spec
-----------------------------------------------------------------------------
(* Messages and their sockets *)

\* A message was received by a socket with handlers, and if that has not begun
\* to close it is open.
Owned ==
  \A k \in Call : pc[k] # "none" =>
    /\ pc[at[k]] \notin {"none", "greet"}
    /\ pc[at[k]] = "ready" => sock[at[k]] = "open"

Based == Typed /\ Owned

LEMMA BasedInit == Init => Based
BY TypedInit, AccessAssumption DEF Init, Based, Owned

LEMMA OwnedStep ==
  ASSUME Based, [Next]_vars
  PROVE  Owned'
<1> USE AccessAssumption, NoneAssumption, UserOfAssumption
    DEF Based, Owned, Typed, TypeOK
<1>1. ASSUME NEW c \in Conn, ConnStep(c) PROVE Owned'
  <2>1. CASE LeaveRoom(c)
    BY <2>1 DEF LeaveRoom, Placed, MatchPlace, CallPlace, Assigned
  <2> QED
    BY <1>1, <2>1
       DEF ConnStep, CreateSession, AttachHandlers, LeaveScan, LeaveRemove,
           MatchEnded, DropSession, PresenceStep, Placed, CallPlace, Assigned
<1>2. ASSUME NEW c \in Conn, Client(c) \/ MatchEndFails(c) PROVE Owned'
  BY <1>2 DEF Client, MatchEndFails, SocketCloses, Receive, Placed, CallPlace, Assigned
<1>3. ASSUME NEW k \in Call, CallStep(k) PROVE Owned'
  BY <1>3
     DEF CallStep, CheckSeat, JoinGet, JoinAdd, JoinKey, LeaveScan, LeaveRemove,
         LeaveKey, MessageDone, PresenceStep, Returns, Assigned
<1>4. ASSUME NEW m \in Match, MatchStep(m) \/ \E e \in queue : ScanEntry(m, e)
      PROVE  Owned'
  BY <1>4 DEF MatchStep, ScanEntry, TakeEntry, MatchKey, Seat, Play, Release, Close,
              PresenceStep, Assigned
<1>5. ASSUME NEW u \in User, Expiry(u) PROVE Owned'
  BY <1>5 DEF Expiry, KeyExpires
<1>6. CASE UNCHANGED vars
  BY <1>6 DEF vars
<1> QED
  BY <1>1, <1>2, <1>3, <1>4, <1>5, <1>6 DEF Next

LEMMA BasedStep == Based /\ [Next]_vars => Based'
BY TypedStep, OwnedStep DEF Based

LEMMA Basis == Spec => []Based
BY BasedInit, BasedStep, PTL DEF Spec
-----------------------------------------------------------------------------
(* The queue: NoGhost *)

\* A socket whose handler is still to look for the entry e, or about to remove it.
Watching(c, e) == \/ pc[c] = "ready" /\ sock[c] = "open"
                  \/ pc[c] = "scan"
                  \/ pc[c] = "remove" /\ arg[c] = e

\* What the handlers secure for a player none of whose joins was overtaken: he
\* has one entry at most, and a socket that will remove it.
Quiet(u) ==
  /\ \A e, f \in EntriesOf(u) : e = f
  /\ \A e \in EntriesOf(u) : \E c \in Conn : UserOf[c] = u /\ Watching(c, e)

AllQuiet == \A u \in User \ raced : Quiet(u)

\* A step that adds no entry and takes no watch away.
LEMMA QuietKept ==
  ASSUME NEW u \in User, Quiet(u),
         EntriesOf(u)' \subseteq EntriesOf(u),
         \A c \in Conn, e \in EntriesOf(u)' :
           UserOf[c] = u /\ Watching(c, e) => Watching(c, e)'
  PROVE  Quiet(u)'
BY DEF Quiet

LEMMA QuietConnStep ==
  ASSUME Based, AllQuiet, NEW c \in Conn, NEW u \in User \ raced',
         ConnStep(c) \/ Client(c) \/ MatchEndFails(c)
  PROVE  Quiet(u)'
<1> USE AccessAssumption, NoneAssumption, UserOfAssumption
    DEF Based, Typed, TypeOK
<1>0. u \in User /\ Quiet(u)
  BY DEF AllQuiet, ConnStep, Client, MatchEndFails, CreateSession, AttachHandlers,
         LeaveScan, LeaveRemove, LeaveRoom, MatchEnded, DropSession, PresenceStep,
         SocketCloses, Receive, queueVars
<1>1. EntriesOf(u)' \subseteq EntriesOf(u)
  BY <1>0 DEF EntriesOf, ConnStep, Client, MatchEndFails, CreateSession, AttachHandlers,
         LeaveScan, LeaveRemove, LeaveRoom, MatchEnded, DropSession, PresenceStep,
         SocketCloses, Receive, queueVars
<1>2. ASSUME NEW d \in Conn, NEW e \in EntriesOf(u)', UserOf[d] = u, Watching(d, e)
      PROVE  Watching(d, e)'
  <2>1. CASE LeaveScan(c) /\ c = d
    BY <1>0, <1>1, <1>2, <2>1 DEF LeaveScan, Watching, UserAt, Quiet
  <2>2. CASE LeaveRemove(c) /\ c = d
    BY <1>2, <2>2 DEF LeaveRemove, Watching, EntriesOf
  <2>3. CASE SocketCloses(c)
    BY <1>2, <2>3 DEF SocketCloses, Watching
  <2>4. CASE ~LeaveScan(c) /\ ~LeaveRemove(c) /\ ~SocketCloses(c)
    BY <1>2, <2>4
       DEF ConnStep, Client, MatchEndFails, CreateSession, AttachHandlers, LeaveRoom,
           MatchEnded, DropSession, PresenceStep, Receive, Watching, Placed, MatchPlace
  <2>5. CASE (LeaveScan(c) \/ LeaveRemove(c)) /\ c # d
    BY <1>2, <2>5 DEF LeaveScan, LeaveRemove, Watching
  <2> QED
    BY <2>1, <2>2, <2>3, <2>4, <2>5
<1> HIDE DEF Based, Typed, TypeOK
<1> QED
  BY <1>0, <1>1, <1>2, QuietKept

\* A message adds an entry only if nothing has overtaken it.
LEMMA QuietJoin ==
  ASSUME Based, AllQuiet, NEW k \in Call, NEW u \in User \ raced', JoinAdd(k)
  PROVE  Quiet(u)'
<1> USE AccessAssumption, NoneAssumption, UserOfAssumption
    DEF Based, Typed, TypeOK
<1>0. u \in User /\ Quiet(u)
  BY DEF AllQuiet, JoinAdd
<1>1. /\ UserAt(k) = UserOf[at[k]] /\ at[k] \in Conn
      /\ arg[k] \in Entry /\ arg[k][1] = UserAt(k)
  BY DEF JoinAdd, Assigned, UserAt
<1>2. /\ \A c \in Conn : pc'[c] = pc[c]
      /\ UNCHANGED <<arg, sock>>
      /\ queue' = queue \cup {arg[k]}
  BY DEF JoinAdd
<1>3. \A c \in Conn : \A e : Watching(c, e) => Watching(c, e)'
  BY <1>2 DEF Watching
<1>4. CASE u # UserAt(k)
  <2>1. EntriesOf(u)' = EntriesOf(u)
    BY <1>1, <1>2, <1>4 DEF EntriesOf
  <2> QED
    BY <1>0, <1>3, <2>1, QuietKept
<1>5. CASE u = UserAt(k)
  <2>1. ~Overtaken(k)
    BY <1>5 DEF JoinAdd
  <2>2. EntriesOf(u)' = {arg[k]}
    BY <1>1, <1>2, <1>5, <2>1 DEF EntriesOf, Overtaken
  <2>3. Watching(at[k], arg[k])
    BY <1>1, <2>1 DEF Overtaken, Watching, Owned, JoinAdd
  <2> QED
    BY <1>1, <1>3, <1>5, <2>2, <2>3 DEF Quiet
<1> QED
  BY <1>4, <1>5

\* The other steps of messages, and all of a match, add nothing and close no
\* socket.
LEMMA QuietOther ==
  ASSUME Based, AllQuiet, NEW u \in User \ raced',
         \/ \E k \in Call : CallStep(k) /\ ~JoinAdd(k)
         \/ \E m \in Match : MatchStep(m) \/ \E e \in queue : ScanEntry(m, e)
  PROVE  Quiet(u)'
<1> USE AccessAssumption DEF Based, Typed, TypeOK
<1> DEFINE AddsNothing == /\ \A c \in Conn : pc'[c] = pc[c] /\ arg'[c] = arg[c]
                          /\ sock' = sock /\ raced' = raced
                          /\ queue' \subseteq queue
<1>1. AddsNothing
  <2>1. ASSUME NEW k \in Call, CallStep(k), ~JoinAdd(k) PROVE AddsNothing
    BY <2>1 DEF CallStep, CheckSeat, JoinGet, JoinKey, LeaveScan, LeaveRemove,
       LeaveKey, MessageDone, PresenceStep, Returns, queueVars
  <2>2. ASSUME NEW m \in Match, MatchStep(m) \/ \E e \in queue : ScanEntry(m, e)
        PROVE  AddsNothing
    BY <2>2 DEF MatchStep, ScanEntry, TakeEntry, MatchKey, Seat, Play, Release,
       Close, PresenceStep, queueVars
  <2> QED
    BY <2>1, <2>2
<1>2. u \in User /\ Quiet(u)
  BY <1>1 DEF AllQuiet
<1>3. EntriesOf(u)' \subseteq EntriesOf(u)
  BY <1>1 DEF EntriesOf
<1>4. \A c \in Conn : \A e : Watching(c, e) => Watching(c, e)'
  BY <1>1 DEF Watching
<1> HIDE DEF Based, Typed, TypeOK
<1> QED
  BY <1>2, <1>3, <1>4, QuietKept

LEMMA QuietStep == Based /\ AllQuiet /\ [Next]_vars => AllQuiet'
<1> SUFFICES ASSUME Based, AllQuiet, [Next]_vars, NEW u \in (User \ raced)'
             PROVE  Quiet(u)'
  BY DEF AllQuiet
<1>1. ASSUME NEW v \in User, Expiry(v) PROVE Quiet(u)'
  <2>1. UNCHANGED <<pc, arg, sock, queue, raced>>
    BY <1>1 DEF Expiry, KeyExpires, queueVars
  <2> QED
    BY <2>1 DEF AllQuiet, Quiet, EntriesOf, Watching
<1>2. CASE UNCHANGED vars
  BY <1>2 DEF AllQuiet, Quiet, EntriesOf, Watching, vars, queueVars
<1>3. ASSUME NEW k \in Call, CallStep(k) PROVE Quiet(u)'
  BY <1>3, QuietJoin, QuietOther
<1>4. ASSUME NEW m \in Match, MatchStep(m) \/ \E e \in queue : ScanEntry(m, e)
      PROVE  Quiet(u)'
  BY <1>4, QuietOther
<1> QED
  BY <1>1, <1>2, <1>3, <1>4, QuietConnStep DEF Next

LEMMA Quietness == Spec => []AllQuiet
<1>1. Init => AllQuiet
  BY AccessAssumption
     DEF Init, AllQuiet, Quiet, EntriesOf
<1> QED
  BY <1>1, Basis, QuietStep, PTL DEF Spec

\* When the handlers of all sockets of a player have finished, nothing of his
\* is left in the queue, unless one of his joins was overtaken.
THEOREM NothingLeftBehind == Spec => []NoGhost
<1>1. AllQuiet => NoGhost
  BY DEF AllQuiet, Quiet, Watching, NoGhost, Finished
<1> QED
  BY <1>1, Quietness, PTL

-----------------------------------------------------------------------------
(* The gauge *)

In(x, S) == IF x \in S THEN 1 ELSE 0
Is(v, s) == IF v = s THEN 1 ELSE 0

\* Calls that have taken a player off the gauge of the status s and have not
\* written yet.
Debt(s) == {x \in Access : apc[x] = "write" /\ seen[x] = s /\ to[x] \notin {Absent, s}}

\* By how much the gauge of s, with what is under way, is above the players present.
Excess(s) == gauge[s] + Cardinality(Debt(s)) - Present(s)

Off(n) == IF n >= 0 THEN n ELSE -n

GaugeInv ==
  Off(Excess("online")) + Off(Excess("in_queue")) + Off(Excess("in_match"))
    <= 2 * stale + expiries

\* An element more or less.
LEMMA CardinalityToggle ==
  ASSUME NEW S, IsFiniteSet(S), NEW T, NEW x, S \ {x} = T \ {x}
  PROVE  /\ IsFiniteSet(T)
         /\ Cardinality(T) = Cardinality(S) + In(x, T) - In(x, S)
<1>1. IsFiniteSet(S \ {x})
  BY FS_Subset
<1>2. Cardinality(S \ {x}) \in Nat
  BY <1>1, FS_CardinalityType
<1>3. IsFiniteSet(T)
  <2>1. T = T \ {x} \/ T = (T \ {x}) \cup {x}
    OBVIOUS
  <2> QED
    BY <1>1, <2>1, FS_AddElement
<1>4. \A R : IsFiniteSet(R) /\ R \ {x} = S \ {x} =>
        Cardinality(R) = Cardinality(S \ {x}) + In(x, R)
  <2>1. SUFFICES ASSUME NEW R, IsFiniteSet(R), R \ {x} = S \ {x}
                 PROVE  Cardinality(R) = Cardinality(S \ {x}) + In(x, R)
    OBVIOUS
  <2>2. CASE x \in R
    <3>1. R = (S \ {x}) \cup {x}
      BY <2>1, <2>2
    <3>2. Cardinality((S \ {x}) \cup {x}) = Cardinality(S \ {x}) + 1
      BY <1>1, FS_AddElement
    <3> QED
      BY <2>2, <3>1, <3>2 DEF In
  <2>3. CASE x \notin R
    <3>1. R = S \ {x}
      BY <2>1, <2>3
    <3> QED
      BY <1>2, <2>3, <3>1 DEF In
  <2> QED
    BY <2>2, <2>3
<1>5. Cardinality(S) = Cardinality(S \ {x}) + In(x, S)
  BY <1>4
<1>6. Cardinality(T) = Cardinality(S \ {x}) + In(x, T)
  BY <1>3, <1>4
<1> QED
  BY <1>2, <1>3, <1>5, <1>6 DEF In

\* A key that is set moves one player.
LEMMA PresentMoves ==
  ASSUME PresenceTypeOK, NEW u \in User, NEW t,
         presence' = [presence EXCEPT ![u] = t], NEW s
  PROVE  /\ Present(s) \in Nat
         /\ Present(s)' = Present(s) + Is(t, s) - Is(presence[u], s)
<1> DEFINE P == {v \in User : presence[v] = s}
           Q == {v \in User : presence'[v] = s}
<1>1. IsFiniteSet(P)
  BY FiniteAssumption, UsersAssumption, FS_Subset
<1>2. P \ {u} = Q \ {u}
  BY DEF PresenceTypeOK
<1>3. (u \in Q <=> t = s) /\ (u \in P <=> presence[u] = s)
  BY DEF PresenceTypeOK
<1>4. Cardinality(P) \in Nat
  BY <1>1, FS_CardinalityType
<1>5. Cardinality(Q) = Cardinality(P) + In(u, Q) - In(u, P)
  BY <1>1, <1>2, CardinalityToggle
<1> QED
  BY <1>3, <1>4, <1>5 DEF Present, In, Is

LEMMA DebtMoves ==
  ASSUME NEW x \in Access, NEW s, Debt(s) \ {x} = Debt(s)' \ {x}
  PROVE  /\ Cardinality(Debt(s)) \in Nat
         /\ Cardinality(Debt(s)') =
              Cardinality(Debt(s)) + In(x, Debt(s)') - In(x, Debt(s))
<1>1. IsFiniteSet(Debt(s))
  BY FiniteAssumption, UsersAssumption, FS_Subset DEF Debt
<1> QED
  BY <1>1, FS_CardinalityType, CardinalityToggle

\* A read moves a player from the gauge to the debt.
LEMMA ReadKeepsExcess ==
  ASSUME PresenceTypeOK, NEW x \in Access, NEW u \in User, PresenceRead(x, u),
         NEW s \in Status
  PROVE  Excess(s)' = Excess(s)
<1> USE DEF PresenceTypeOK
<1> DEFINE b == to[x] \notin {Absent, presence[u]} /\ presence[u] = s
<1>1. Debt(s) \ {x} = Debt(s)' \ {x} /\ x \notin Debt(s) /\ (x \in Debt(s)' <=> b)
  BY AbsentAssumption DEF PresenceRead, Debt
<1>2. gauge'[s] = gauge[s] - (IF b THEN 1 ELSE 0)
  BY AbsentAssumption DEF PresenceRead, Moved, Is
<1>3. Present(s)' = Present(s) /\ gauge[s] \in Int
  BY DEF PresenceRead, Present
<1>4. Present(s) \in Nat
  BY FiniteAssumption, UsersAssumption, FS_Subset, FS_CardinalityType DEF Present
<1> QED
  BY <1>1, <1>2, <1>3, <1>4, DebtMoves DEF Excess, In

\* A write moves the excess only where it replaces a status it has not read.
LEMMA WriteMovesExcess ==
  ASSUME PresenceTypeOK, NEW x \in Access, NEW u \in User, PresenceWrite(x, u),
         NEW s \in Status
  PROVE  Excess(s)' = Excess(s) + Is(presence[u], s) - Is(seen[x], s)
<1> USE DEF PresenceTypeOK
<1> DEFINE d == seen[x] = s /\ to[x] \notin {Absent, s}
<1>1. Debt(s) \ {x} = Debt(s)' \ {x} /\ x \notin Debt(s)' /\ (x \in Debt(s) <=> d)
  BY DEF PresenceWrite, Debt
<1>2. /\ gauge[s] \in Int /\ gauge'[s] \in Int
      /\ gauge'[s] - (IF d THEN 1 ELSE 0) = gauge[s] + Is(to[x], s) - Is(seen[x], s)
  BY AbsentAssumption DEF PresenceWrite, Moved, Is
<1>3. Present(s) \in Nat /\ Present(s)' = Present(s) + Is(to[x], s) - Is(presence[u], s)
  <2>1. presence' = [presence EXCEPT ![u] = to[x]]
    BY DEF PresenceWrite
  <2> HIDE DEF PresenceTypeOK
  <2> QED
    BY <2>1, PresentMoves
<1>4. /\ Cardinality(Debt(s)) \in Nat
      /\ Cardinality(Debt(s)') = Cardinality(Debt(s)) - (IF d THEN 1 ELSE 0)
  BY <1>1, DebtMoves DEF In
<1>5. /\ Excess(s) = gauge[s] + Cardinality(Debt(s)) - Present(s)
      /\ Excess(s)' = gauge'[s] + Cardinality(Debt(s)') - Present(s)'
  BY DEF Excess
<1> HIDE DEF d, PresenceTypeOK
<1>6. /\ Is(to[x], s) \in Int /\ Is(seen[x], s) \in Int
      /\ Is(presence[u], s) \in Int
  BY DEF Is
<1> QED
  BY <1>2, <1>3, <1>4, <1>5, <1>6

LEMMA ExcessType ==
  ASSUME PresenceTypeOK, NEW s \in Status
  PROVE  Excess(s) \in Int
<1>1. IsFiniteSet({u \in User : presence[u] = s}) /\ IsFiniteSet(Debt(s))
  BY FiniteAssumption, UsersAssumption, FS_Subset DEF Debt
<1>2. Present(s) \in Nat /\ Cardinality(Debt(s)) \in Nat
  BY <1>1, FS_CardinalityType DEF Present
<1> QED
  BY <1>2 DEF Excess, PresenceTypeOK

LEMMA GaugeMove ==
  ASSUME PresenceTypeOK, GaugeInv, NEW x \in Access, NEW u \in User, PresenceMove(x, u)
  PROVE  GaugeInv'
<1>1. CASE apc[x] = "idle" /\ \E t \in Status \cup {Absent} : CallPresence(x, t)
  <2>1. \A s \in Status : Debt(s)' = Debt(s)
    BY <1>1 DEF CallPresence, Debt, PresenceTypeOK
  <2>2. UNCHANGED <<presence, gauge, stale, expiries>>
    BY <1>1 DEF CallPresence
  <2>3. \A s \in Status : Excess(s)' = Excess(s)
    BY <2>1, <2>2 DEF Excess, Present
  <2> QED
    BY <2>2, <2>3 DEF GaugeInv, Status
<1>2. CASE PresenceRead(x, u)
  <2>1. \A s \in Status : Excess(s)' = Excess(s)
    BY <1>2, ReadKeepsExcess
  <2> QED
    BY <1>2, <2>1 DEF PresenceRead, GaugeInv, Status
<1>3. CASE PresenceWrite(x, u)
  <2> DEFINE p == presence[u]
             q == seen[x]
  <2>1. \A s \in Status : /\ Excess(s) \in Int
                          /\ Excess(s)' = Excess(s) + Is(p, s) - Is(q, s)
    BY <1>3, ExcessType, WriteMovesExcess
  <2>2. /\ stale \in Nat /\ expiries \in Nat /\ expiries' = expiries
        /\ stale' = IF p = q THEN stale ELSE stale + 1
    BY <1>3, ExpiriesAssumption DEF PresenceWrite, PresenceTypeOK
  <2> HIDE DEF p, q
  <2> QED
    BY <2>1, <2>2 DEF GaugeInv, Off, Is, Status
<1> QED
  BY <1>1, <1>2, <1>3 DEF PresenceMove

LEMMA GaugeExpiry ==
  ASSUME PresenceTypeOK, GaugeInv, NEW u \in User, PresenceExpires(u)
  PROVE  GaugeInv'
<1>1. /\ presence' = [presence EXCEPT ![u] = Absent]
      /\ UNCHANGED <<gauge, apc, to, seen, stale>> /\ expiries' = expiries + 1
      /\ stale \in Nat /\ expiries \in Nat
  BY ExpiriesAssumption DEF PresenceExpires, PresenceTypeOK
<1>2. ASSUME NEW s \in Status
      PROVE  Excess(s) \in Int /\ Excess(s)' = Excess(s) + Is(presence[u], s)
  <2>1. Present(s) \in Nat /\ Present(s)' = Present(s) + Is(Absent, s) - Is(presence[u], s)
    BY <1>1, PresentMoves
  <2>2. Is(Absent, s) = 0 /\ Is(presence[u], s) \in Int
    BY AbsentAssumption DEF Is
  <2>3. Debt(s)' = Debt(s)
    BY <1>1 DEF Debt
  <2>4. IsFiniteSet(Debt(s))
    BY FiniteAssumption, UsersAssumption, FS_Subset DEF Debt
  <2>5. Cardinality(Debt(s)) \in Nat /\ gauge[s] \in Int
    BY <2>4, FS_CardinalityType DEF PresenceTypeOK
  <2> QED
    BY <1>1, <2>1, <2>2, <2>3, <2>5 DEF Excess
<1> QED
  BY <1>1, <1>2 DEF GaugeInv, Off, Is, Status

\* "Gauge-accurate": while no call is under way, the gauge differs from the
\* players present by two at most for each write that replaced another status
\* than its call had read, and by one for each key that expired, for any
\* players and any overlap of their handlers.
THEOREM GaugeIsExplained == Spec => []GaugeExplained
<1>1. Init => GaugeInv
  <2>1. SUFFICES ASSUME Init PROVE GaugeInv
    OBVIOUS
  <2>2. \A s \in Status : Debt(s) = {} /\ {u \in User : presence[u] = s} = {}
    BY <2>1, AbsentAssumption DEF Init, InitPresence, Debt
  <2>3. \A s \in Status : Excess(s) = 0
    BY <2>1, <2>2, FS_EmptySet DEF Init, InitPresence, Excess, Present
  <2> QED
    BY <2>1, <2>3 DEF GaugeInv, Off, Status, Init, InitPresence
<1>2. Based /\ GaugeInv /\ [Next]_vars => GaugeInv'
  <2>1. SUFFICES ASSUME Based, GaugeInv, [Next]_vars PROVE GaugeInv'
    OBVIOUS
  <2>2. Typed /\ PresenceTypeOK
    BY <2>1 DEF Based, Typed, TypeOK
  <2>3. CASE UNCHANGED presenceVars
    BY <2>1, <2>3 DEF presenceVars, GaugeInv, Excess, Present, Debt
  <2> QED
    BY <2>1, <2>2, <2>3, PresenceMoves, GaugeMove, GaugeExpiry
<1>3. Based /\ GaugeInv => GaugeExplained
  <2>1. SUFFICES ASSUME Based, GaugeInv, \A x \in Access : apc[x] = "idle"
                 PROVE  Distance(gauge["online"], Present("online"))
                          + Distance(gauge["in_queue"], Present("in_queue"))
                          + Distance(gauge["in_match"], Present("in_match"))
                          <= 2 * stale + expiries
    BY DEF GaugeExplained
  <2>2. ASSUME NEW s \in Status PROVE Distance(gauge[s], Present(s)) = Off(Excess(s))
    <3>1. Debt(s) = {}
      BY <2>1 DEF Debt
    <3>2. IsFiniteSet({u \in User : presence[u] = s})
      BY FiniteAssumption, UsersAssumption, FS_Subset
    <3>3. Present(s) \in Nat /\ gauge[s] \in Int /\ Cardinality(Debt(s)) = 0
      BY <2>1, <3>1, <3>2, FS_CardinalityType, FS_EmptySet
         DEF Present, Based, Typed, TypeOK, PresenceTypeOK
    <3> QED
      BY <3>3 DEF Distance, Off, Excess
  <2> QED
    BY <2>1, <2>2 DEF GaugeInv, Status
<1> QED
  BY <1>1, <1>2, <1>3, Basis, PTL DEF Spec
-----------------------------------------------------------------------------
(* Heartbeats *)

BeatPlaces == /\ handler \in [Conn -> {"none", "greet", "ready", "leave", "done", "failed"}]
          /\ socket \in [Conn -> {"open", "closing", "closed"}]
          /\ isAlive \in [Conn -> BOOLEAN]

\* The flag of an open socket is down only while a ping of it is out, or after
\* an answer that came when there was no handler.
Asked(c) == socket[c] = "open" /\ ~isAlive[c] => c \in unanswered \cup unheard

BeatInv == BeatPlaces /\ \A c \in Conn : Asked(c)

LEMMA BeatInit == InitHeartbeat => BeatInv
BY DEF InitHeartbeat, BeatInv, BeatPlaces, Asked

LEMMA BeatPlacesStep ==
  ASSUME BeatPlaces, [HeartbeatNext]_heartbeatVars
  PROVE  BeatPlaces'
<1> USE DEF BeatPlaces
<1>1. CASE CheckHeartbeats
  <2>1. \A c \in Conn : (isAlive[c] /\ c \notin Pinged) \in BOOLEAN
    OBVIOUS
  <2> QED
    BY <1>1, <2>1 DEF CheckHeartbeats
<1>2. ASSUME NEW c \in Conn, Server(c) \/ Environment(c) PROVE BeatPlaces'
  BY <1>2 DEF Server, Environment, HandlersAttached, CloseEnds, Disconnected,
              Connect, ClientCloses, DisconnectFails, PeerVanishes, Pong,
              PingMessage, Closed, peerVars
<1>3. CASE UNCHANGED heartbeatVars
  BY <1>3 DEF heartbeatVars
<1> QED
  BY <1>1, <1>2, <1>3 DEF HeartbeatNext

\* A round lowers only the flags of sessions it pings, and every open one of
\* these owes an answer.
LEMMA RoundAsks ==
  ASSUME BeatInv, CheckHeartbeats, NEW c \in Conn
  PROVE  Asked(c)'
<1>1. socket'[c] = "open" => socket[c] = "open"
  BY DEF CheckHeartbeats, BeatInv, BeatPlaces
<1>2. isAlive'[c] <=> isAlive[c] /\ c \notin Pinged
  BY DEF CheckHeartbeats
<1>3. Asked(c)
  BY DEF BeatInv
<1>4. CASE c \in Pinged
  BY <1>1, <1>4 DEF CheckHeartbeats, Asked
<1>5. CASE c \notin Pinged
  <2>1. c \in unanswered \cup unheard => c \in unanswered' \cup unheard'
    BY <1>5 DEF CheckHeartbeats
  <2> QED
    BY <1>1, <1>2, <1>3, <1>5, <2>1 DEF Asked
<1> QED
  BY <1>4, <1>5

LEMMA SocketAsks ==
  ASSUME BeatInv, NEW d \in Conn, Server(d) \/ Environment(d), NEW c \in Conn
  PROVE  Asked(c)'
<1> USE DEF BeatInv, BeatPlaces
<1>1. Asked(c)
  OBVIOUS
<1>2. CASE Connect(d)
  <2>1. CASE c = d
    <3>1. isAlive'[c]
      BY <1>2, <2>1 DEF Connect
    <3> QED
      BY <3>1 DEF Asked
  <2>2. CASE c # d
    <3>1. socket'[c] = "open" => socket[c] = "open"
      BY <1>2, <2>2 DEF Connect
    <3>2. isAlive'[c] = isAlive[c] /\ UNCHANGED peerVars
      BY <1>2, <2>2 DEF Connect
    <3> QED
      BY <1>1, <3>1, <3>2 DEF Asked, peerVars
  <2> QED
    BY <2>1, <2>2
<1>3. CASE Closed(d)
  <2>1. CASE c = d
    BY <1>3, <2>1 DEF Closed, Asked
  <2>2. CASE c # d
    BY <1>1, <1>3, <2>2 DEF Closed, Asked
  <2> QED
    BY <2>1, <2>2
<1>4. CASE Pong(d)
  <2>1. CASE c = d
    <3>1. isAlive'[c] \/ c \in unheard'
      BY <1>4, <2>1 DEF Pong
    <3> QED
      BY <3>1 DEF Asked
  <2>2. CASE c # d
    <3>1. isAlive'[c] = isAlive[c] /\ socket' = socket
      BY <1>4, <2>2 DEF Pong
    <3>2. c \in unanswered \cup unheard => c \in unanswered' \cup unheard'
      BY <1>4, <2>2 DEF Pong
    <3> QED
      BY <1>1, <3>1, <3>2 DEF Asked
  <2> QED
    BY <2>1, <2>2
<1>5. CASE PingMessage(d)
  <2>1. isAlive[c] => isAlive'[c]
    BY <1>5 DEF PingMessage
  <2>2. UNCHANGED <<socket, peerVars>>
    BY <1>5 DEF PingMessage
  <2> QED
    BY <1>1, <2>1, <2>2 DEF Asked, peerVars
<1>6. CASE \/ HandlersAttached(d) \/ Disconnected(d) \/ DisconnectFails(d)
           \/ PeerVanishes(d)
  <2>1. UNCHANGED <<socket, isAlive, unanswered, unheard>>
    BY <1>6 DEF HandlersAttached, Disconnected, DisconnectFails, PeerVanishes, peerVars
  <2> QED
    BY <1>1, <2>1 DEF Asked
<1> QED
  BY <1>2, <1>3, <1>4, <1>5, <1>6
     DEF Server, Environment, CloseEnds, ClientCloses

LEMMA BeatStep == BeatInv /\ [HeartbeatNext]_heartbeatVars => BeatInv'
<1> SUFFICES ASSUME BeatInv, [HeartbeatNext]_heartbeatVars PROVE BeatInv'
  OBVIOUS
<1>1. BeatPlaces'
  BY BeatPlacesStep DEF BeatInv
<1>2. ASSUME NEW c \in Conn PROVE Asked(c)'
  <2>1. CASE UNCHANGED heartbeatVars
    BY <1>2, <2>1 DEF BeatInv, Asked, heartbeatVars, peerVars
  <2> QED
    BY <1>2, <2>1, RoundAsks, SocketAsks DEF HeartbeatNext
<1> QED
  BY <1>1, <1>2 DEF BeatInv

LEMMA BeatInvariant == HeartbeatSpec => []BeatInv
BY BeatInit, BeatStep, PTL DEF HeartbeatSpec

\* checkHeartbeats terminates an open socket only if it left the last ping
\* unanswered or answered before it had a handler; the other sockets a server
\* closes are those a new connection of the player replaces.
THEOREM CutsAreEarned == HeartbeatSpec => OnlySilentCut
<1> DEFINE Earned ==
      \A c \in Conn :
        socket[c] = "open" /\ socket'[c] = "closing" =>
          \/ c \in unanswered \cup unheard
          \/ \E d \in Conn : /\ UserOf[d] = UserOf[c]
                             /\ handler[d] = "none" /\ handler'[d] = "greet"
<1>1. ASSUME BeatInv, [HeartbeatNext]_heartbeatVars PROVE [Earned]_heartbeatVars
  <2>1. SUFFICES ASSUME HeartbeatNext, NEW c \in Conn, socket[c] = "open", socket'[c] = "closing"
                 PROVE  \/ c \in unanswered \cup unheard
                        \/ \E d \in Conn : /\ UserOf[d] = UserOf[c]
                                           /\ handler[d] = "none" /\ handler'[d] = "greet"
    BY <1>1
  <2>2. BeatPlaces /\ Asked(c)
    BY <1>1 DEF BeatInv
  <2>3. CASE CheckHeartbeats
    <3>1. c \in FirstSilent
      BY <2>1, <2>3 DEF CheckHeartbeats
    <3>2. ~isAlive[c]
      BY <3>1 DEF FirstSilent
    <3> QED
      BY <2>1, <2>2, <3>2 DEF Asked
  <2>4. ASSUME NEW d \in Conn, Connect(d)
        PROVE  UserOf[d] = UserOf[c] /\ handler[d] = "none" /\ handler'[d] = "greet"
    BY <2>1, <2>2, <2>4 DEF Connect, BeatPlaces
  <2>5. ASSUME NEW d \in Conn, Server(d) \/ Environment(d), ~Connect(d) PROVE FALSE
    BY <2>1, <2>2, <2>5
       DEF BeatPlaces, Server, Environment, HandlersAttached, CloseEnds, Disconnected,
           ClientCloses, DisconnectFails, PeerVanishes, Pong, PingMessage, Closed
  <2> QED
    BY <2>1, <2>3, <2>4, <2>5 DEF HeartbeatNext
<1> QED
  BY <1>1, BeatInvariant, PTL DEF HeartbeatSpec, OnlySilentCut
-----------------------------------------------------------------------------
(* The dashboard: counts *)

flags == <<connected, inQueue, inMatch, metrics, odd>>

Counted ==
  /\ connected \subseteq User /\ inQueue \subseteq User /\ inMatch \subseteq User
  /\ metrics \in [{"connectedUsers", "usersInQueue", "activeMatches"} -> Nat]
  /\ odd \in Nat

MetricsInv == Counted /\ MetricsExplained

LEMMA FlagCounts ==
  ASSUME Counted
  PROVE  /\ IsFiniteSet(connected) /\ IsFiniteSet(inQueue) /\ IsFiniteSet(inMatch)
         /\ Cardinality(connected) \in Nat /\ Cardinality(inQueue) \in Nat
         /\ Cardinality(inMatch) \in Nat
<1>1. IsFiniteSet(connected) /\ IsFiniteSet(inQueue) /\ IsFiniteSet(inMatch)
  BY UsersAssumption, FS_Subset DEF Counted
<1> QED
  BY <1>1, FS_CardinalityType

\* An event moves a count together with its flag, or is odd.
LEMMA MetricsEvent ==
  ASSUME MetricsInv, NEW w \in Conn,
         OnOpen(w) \/ OnClose(w) \/ OnMatchFound(w) \/ OnMatchEnded(w)
  PROVE  MetricsInv'
<1> DEFINE u == UserOf[w]
<1>0. u \in User /\ Counted
  BY UserOfAssumption DEF MetricsInv
<1>1. Counted'
  <2>1. \A n \in Nat : Clipped(n, -1) \in Nat
    BY DEF Clipped
  <2>2. /\ metrics.connectedUsers \in Nat /\ metrics.usersInQueue \in Nat
        /\ metrics.activeMatches \in Nat
    BY <1>0 DEF Counted
  <2>3. metrics' \in [{"connectedUsers", "usersInQueue", "activeMatches"} -> Nat]
    <3>1. /\ Clipped(metrics.usersInQueue, -1) \in Nat /\ metrics.activeMatches + 1 \in Nat
          /\ metrics \in [{"connectedUsers", "usersInQueue", "activeMatches"} -> Nat]
      BY <1>0, <2>1, <2>2 DEF Counted
    <3>2. OnOpen(w) \/ OnMatchEnded(w)
            => metrics' \in [{"connectedUsers", "usersInQueue", "activeMatches"} -> Nat]
      BY <1>0, <2>1, <2>2 DEF Counted, OnOpen, OnMatchEnded
    <3>3. OnClose(w)
            => metrics' \in [{"connectedUsers", "usersInQueue", "activeMatches"} -> Nat]
      BY <1>0, <2>1, <2>2 DEF Counted, OnClose
    <3>4. OnMatchFound(w)
            => metrics' \in [{"connectedUsers", "usersInQueue", "activeMatches"} -> Nat]
      BY <3>1 DEF OnMatchFound
    <3> QED
      BY <3>2, <3>3, <3>4
  <2>4. odd' \in Nat
    BY <1>0 DEF Counted, OnOpen, OnClose, OnMatchFound, OnMatchEnded, Count
  <2> QED
    BY <1>0, <2>3, <2>4 DEF Counted, OnOpen, OnClose, OnMatchFound, OnMatchEnded
<1>2. /\ connected \ {u} = connected' \ {u} /\ inQueue \ {u} = inQueue' \ {u}
      /\ inMatch \ {u} = inMatch' \ {u}
  BY DEF OnOpen, OnClose, OnMatchFound, OnMatchEnded
<1> DEFINE c == Cardinality(connected)
           q == Cardinality(inQueue)
           m == Cardinality(inMatch)
<1>3. /\ Cardinality(connected') = c + In(u, connected') - In(u, connected)
      /\ Cardinality(inQueue') = q + In(u, inQueue') - In(u, inQueue)
      /\ Cardinality(inMatch') = m + In(u, inMatch') - In(u, inMatch)
  <2> HIDE DEF u
  <2> QED
    BY <1>0, <1>2, FlagCounts, CardinalityToggle
<1>4. /\ c \in Nat /\ q \in Nat /\ m \in Nat
      /\ metrics.connectedUsers \in Nat /\ metrics.usersInQueue \in Nat
      /\ metrics.activeMatches \in Nat /\ odd \in Nat
      /\ u \in connected => c > 0
      /\ u \in inQueue => q > 0
      /\ u \in inMatch => m > 0
  <2>1. /\ u \in connected => c # 0
        /\ u \in inQueue => q # 0
        /\ u \in inMatch => m # 0
    BY <1>0, FlagCounts, FS_EmptySet
  <2>2. c \in Nat /\ q \in Nat /\ m \in Nat
    BY <1>0, FlagCounts
  <2> HIDE DEF c, q, m
  <2> QED
    BY <1>0, <2>1, <2>2 DEF Counted
<1>5. Gap(metrics.connectedUsers, c) + Gap(metrics.usersInQueue, q)
        + Gap(metrics.activeMatches, m) <= 2 * odd
  BY DEF MetricsInv, MetricsExplained
<1> HIDE DEF c, q, m
<1> SUFFICES Gap(metrics'.connectedUsers, Cardinality(connected'))
               + Gap(metrics'.usersInQueue, Cardinality(inQueue'))
               + Gap(metrics'.activeMatches, Cardinality(inMatch')) <= 2 * odd'
  BY <1>1 DEF MetricsInv, MetricsExplained
<1>6. CASE OnOpen(w)
  <2>1. /\ Cardinality(connected') = IF u \in connected THEN c ELSE c + 1
        /\ Cardinality(inQueue') = q /\ Cardinality(inMatch') = m
    BY <1>3, <1>4, <1>6 DEF OnOpen, In
  <2>2. /\ metrics'.connectedUsers = metrics.connectedUsers + 1
        /\ metrics'.usersInQueue = metrics.usersInQueue
        /\ metrics'.activeMatches = metrics.activeMatches
        /\ odd' = IF u \in connected THEN odd + 1 ELSE odd
    BY <1>0, <1>6 DEF OnOpen, Count, Counted
  <2> QED
    BY <1>4, <1>5, <2>1, <2>2 DEF Gap
<1>7. CASE OnClose(w)
  <2>1. /\ Cardinality(connected') = IF u \in connected THEN c - 1 ELSE c
        /\ Cardinality(inQueue') = IF u \in inQueue THEN q - 1 ELSE q
        /\ Cardinality(inMatch') = m
    BY <1>3, <1>4, <1>7 DEF OnClose, In
  <2>2. /\ metrics'.connectedUsers = Clipped(metrics.connectedUsers, -1)
        /\ metrics'.usersInQueue = IF u \in inQueue THEN Clipped(metrics.usersInQueue, -1)
                                   ELSE metrics.usersInQueue
        /\ metrics'.activeMatches = metrics.activeMatches
        /\ odd' = IF u \in connected THEN odd ELSE odd + 1
    BY <1>0, <1>7 DEF OnClose, Count, Counted
  <2>3. Gap(metrics'.connectedUsers, Cardinality(connected'))
          <= Gap(metrics.connectedUsers, c) + (IF u \in connected THEN 0 ELSE 1)
    BY <1>4, <2>1, <2>2 DEF Gap, Clipped
  <2>4. Gap(metrics'.usersInQueue, Cardinality(inQueue')) <= Gap(metrics.usersInQueue, q)
    BY <1>4, <2>1, <2>2 DEF Gap, Clipped
  <2>5. /\ Gap(metrics.connectedUsers, c) \in Int /\ Gap(metrics.usersInQueue, q) \in Int
        /\ Gap(metrics'.connectedUsers, Cardinality(connected')) \in Int
        /\ Gap(metrics'.usersInQueue, Cardinality(inQueue')) \in Int
        /\ Gap(metrics.activeMatches, m) \in Int
    BY <1>4, <2>1, <2>2 DEF Gap, Clipped
  <2> QED
    BY <1>4, <1>5, <2>1, <2>2, <2>3, <2>4, <2>5
<1>8. CASE OnMatchFound(w)
  <2>1. /\ Cardinality(connected') = c
        /\ Cardinality(inQueue') = IF u \in inQueue THEN q - 1 ELSE q
        /\ Cardinality(inMatch') = IF u \in inMatch THEN m ELSE m + 1
    BY <1>3, <1>4, <1>8 DEF OnMatchFound, In
  <2>2. /\ metrics'.connectedUsers = metrics.connectedUsers
        /\ metrics'.usersInQueue = Clipped(metrics.usersInQueue, -1)
        /\ metrics'.activeMatches = metrics.activeMatches + 1
        /\ odd' = IF u \in inQueue /\ u \notin inMatch THEN odd ELSE odd + 1
    BY <1>0, <1>8 DEF OnMatchFound, Count, Counted
  <2> QED
    BY <1>4, <1>5, <2>1, <2>2 DEF Gap, Clipped
<1>9. CASE OnMatchEnded(w)
  <2>1. /\ Cardinality(connected') = c /\ Cardinality(inQueue') = q
        /\ Cardinality(inMatch') = IF u \in inMatch THEN m - 1 ELSE m
    BY <1>3, <1>4, <1>9 DEF OnMatchEnded, In
  <2>2. /\ metrics'.connectedUsers = metrics.connectedUsers
        /\ metrics'.usersInQueue = metrics.usersInQueue
        /\ metrics'.activeMatches = Clipped(metrics.activeMatches, -1)
        /\ odd' = IF u \in inMatch THEN odd ELSE odd + 1
    BY <1>0, <1>9 DEF OnMatchEnded, Count, Counted
  <2> QED
    BY <1>4, <1>5, <2>1, <2>2 DEF Gap, Clipped
<1> QED
  BY <1>6, <1>7, <1>8, <1>9

\* Users are queued who were not.
LEMMA MetricsQueue ==
  ASSUME MetricsInv, NEW U \in SUBSET User, U \cap inQueue = {}, Queue(U)
  PROVE  MetricsInv'
<1>0. Counted
  BY DEF MetricsInv
<1>1. IsFiniteSet(U)
  BY UsersAssumption, FS_Subset
<1>2. Cardinality(U) \in Nat
  BY <1>1, FS_CardinalityType
<1>3. Cardinality(inQueue') = Cardinality(inQueue) + Cardinality(U)
  <2>1. /\ IsFiniteSet(inQueue \cap U) /\ inQueue \cap U = {}
        /\ Cardinality(inQueue \cup U)
             = Cardinality(inQueue) + Cardinality(U) - Cardinality(inQueue \cap U)
    BY <1>0, <1>1, FlagCounts, FS_Union, FS_Intersection
  <2>2. Cardinality(inQueue \cap U) = 0
    BY <2>1, FS_EmptySet
  <2> QED
    BY <1>0, <1>2, <2>1, <2>2, FlagCounts DEF Queue
<1>4. /\ UNCHANGED <<connected, inMatch, odd>> /\ inQueue' = inQueue \cup U
      /\ metrics' = [metrics EXCEPT !.usersInQueue = @ + Cardinality(U)]
  BY DEF Queue
<1>5. Counted'
  BY <1>0, <1>2, <1>4 DEF Counted
<1>6. /\ metrics'.connectedUsers = metrics.connectedUsers
      /\ metrics'.usersInQueue = metrics.usersInQueue + Cardinality(U)
      /\ metrics'.activeMatches = metrics.activeMatches
      /\ metrics.usersInQueue \in Nat
  BY <1>0, <1>4 DEF Counted
<1>7. Gap(metrics'.usersInQueue, Cardinality(inQueue'))
        = Gap(metrics.usersInQueue, Cardinality(inQueue))
  BY <1>0, <1>2, <1>3, <1>6, FlagCounts DEF Gap
<1> QED
  BY <1>4, <1>5, <1>6, <1>7 DEF MetricsInv, MetricsExplained

LEMMA MetricsStep == MetricsInv /\ [DashboardNext]_dashboardVars => MetricsInv'
<1> SUFFICES ASSUME MetricsInv, [DashboardNext]_dashboardVars PROVE MetricsInv'
  OBVIOUS
<1>1. CASE UNCHANGED flags
  BY <1>1 DEF flags, MetricsInv, Counted, MetricsExplained
<1>2. ASSUME NEW u \in User, QueueUser(u) PROVE MetricsInv'
  BY <1>2, MetricsQueue DEF QueueUser, MayQueue
<1>3. CASE QueueAllConnected
  <2>1. PICK U : U = {u \in users : MayQueue(u)} /\ Queue(U)
    BY <1>3 DEF QueueAllConnected
  <2>2. U \subseteq User /\ U \cap inQueue = {}
    BY <2>1 DEF MayQueue, MetricsInv, Counted
  <2> QED
    BY <2>1, <2>2, MetricsQueue
<1>4. CASE Viewer /\ ~QueueAllConnected /\ \A u \in User : ~QueueUser(u)
  <2>1. UNCHANGED flags
    BY <1>4 DEF flags, Viewer, AddUser, DisconnectUser, ConnectUser, ConnectAllUsers,
                Open, storeVars
  <2> QED
    BY <1>1, <2>1
<1>5. ASSUME NEW w \in Conn, Service(w) PROVE MetricsInv'
  <2>1. UNCHANGED flags
    BY <1>5 DEF flags, Service, Accept, SendMessage, CloseConnection, storeVars
  <2> QED
    BY <1>1, <2>1
<1>6. ASSUME NEW w \in Conn, Callback(w) PROVE MetricsInv'
  <2>1. CASE Dropped(w)
    BY <1>1, <2>1 DEF Dropped, flags, storeVars
  <2> QED
    BY <1>6, <2>1, MetricsEvent DEF Callback
<1>7. CASE UNCHANGED dashboardVars
  BY <1>1, <1>7 DEF dashboardVars, flags, storeVars
<1> QED
  BY <1>2, <1>3, <1>4, <1>5, <1>6, <1>7 DEF DashboardNext

\* The counts shown differ from the users' flags by two at most for each event
\* that met another flag than it expects, for any users and sockets.
THEOREM MetricsAreExplained == DashboardSpec => []MetricsExplained
<1>1. InitDashboard => MetricsInv
  BY FS_EmptySet DEF InitDashboard, MetricsInv, Counted, MetricsExplained, Gap
<1>2. MetricsInv => MetricsExplained
  BY DEF MetricsInv
<1> QED
  BY <1>1, <1>2, MetricsStep, PTL DEF DashboardSpec
=============================================================================
