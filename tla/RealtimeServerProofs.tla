------------------------ MODULE RealtimeServerProofs ------------------------
(***************************************************************************)
(* Proofs about RealtimeServer, for any users, sockets, rooms and number   *)
(* of failing queries.                                                     *)
(***************************************************************************)
EXTENDS RealtimeServer, FiniteSetTheorems, TLAPS

LEMMA TypeInit == Init => TypeOK
BY BoundAssumption DEF Init, TypeOK

\* The types are kept: connections.
LEMMA ConnTypes ==
  ASSUME TypeOK, NEW c \in Conn,
         \/ Connect(c) \/ CreateSession(c) \/ AttachHandlers(c)
         \/ SocketCloses(c) \/ DropSession(c)
  PROVE  TypeOK'
<1> USE UserOfAssumption DEF TypeOK, roomVars, endVars
<1>1. CASE Connect(c)
  BY <1>1 DEF Connect
<1>2. CASE CreateSession(c)
  <2>1. UserOf[c] \in User /\ sessions' = [sessions EXCEPT ![UserOf[c]] = c]
    BY <1>2 DEF CreateSession
  <2>2. sock' \in [Conn -> {"open", "closing", "closed"}]
    BY <1>2 DEF CreateSession
  <2> QED
    BY <1>2, <2>1, <2>2 DEF CreateSession
<1>3. CASE AttachHandlers(c)
  BY <1>3 DEF AttachHandlers
<1>4. CASE SocketCloses(c)
  BY <1>4 DEF SocketCloses
<1>5. CASE DropSession(c)
  BY <1>5 DEF DropSession
<1> QED
  BY <1>1, <1>2, <1>3, <1>4, <1>5

LEMMA AssignedType ==
  ASSUME TypeOK, NEW u \in User, NEW r \in Room \cup {None}
  PROVE  Assigned(u, r) \in [Conn -> Room \cup {None}]
BY DEF TypeOK, Assigned

\* A room that has been taken has its two players.
LEMMA RoomTypes ==
  ASSUME TypeOK, NEW r \in Room, mpc[r] # "none" => duo[r] \in User \X User,
         \/ \E u, v \in User : TakePair(r, u, v)
         \/ CreateRoom(r) \/ AssignSecond(r) \/ StartGame(r) \/ InsertFails(r)
  PROVE  TypeOK'
<1> USE DEF TypeOK, connVars, endVars
<1>1. ASSUME NEW u \in User, NEW v \in User, TakePair(r, u, v) PROVE TypeOK'
  BY <1>1 DEF TakePair
<1>2. CASE CreateRoom(r)
  <2>1. duo[r][1] \in User /\ duo[r][2] \in User
    BY <1>2 DEF CreateRoom
  <2>2. roomOf' \in [Conn -> Room \cup {None}]
    BY <1>2, <2>1, AssignedType DEF CreateRoom
  <2> QED
    BY <1>2, <2>1, <2>2 DEF CreateRoom
<1>3. CASE AssignSecond(r)
  <2>1. duo[r][2] \in User
    BY <1>3 DEF AssignSecond
  <2>2. roomOf' \in [Conn -> Room \cup {None}]
    BY <1>3, <2>1, AssignedType DEF AssignSecond
  <2> QED
    BY <1>3, <2>2 DEF AssignSecond
<1>4. CASE StartGame(r)
  BY <1>4 DEF StartGame
<1>5. CASE InsertFails(r)
  BY <1>5, BoundAssumption DEF InsertFails
<1> QED
  BY <1>1, <1>2, <1>3, <1>4, <1>5

\* What StopGame does to a room, and BeginEnd to the execution x.
LEMMA StopTypes ==
  ASSUME TypeOK, NEW r \in Room, StopGame(r)
  PROVE  /\ game' = [game EXCEPT ![r] = "finished"]
         /\ decisive' \in [Room -> BOOLEAN \cup {None}]
         /\ decisive'[r] \in BOOLEAN
         /\ decisive[r] \in BOOLEAN => decisive'[r] = decisive[r]
         /\ \A q \in Room \ {r} : decisive'[q] = decisive[q]
<1>1. PICK won \in BOOLEAN :
        decisive' = [decisive EXCEPT ![r] = IF @ = None THEN won ELSE @]
  BY DEF StopGame
<1>2. decisive \in [Room -> BOOLEAN \cup {None}]
  BY DEF TypeOK
<1>3. decisive'[r] = IF decisive[r] = None THEN won ELSE decisive[r]
  BY <1>1, <1>2
<1>4. decisive[r] \in BOOLEAN => decisive[r] # None
  BY NoneAssumption
<1>5. decisive'[r] \in BOOLEAN
  BY <1>1, <1>2, <1>3
<1> QED
  BY <1>1, <1>2, <1>3, <1>4, <1>5 DEF StopGame

LEMMA BeginTypes ==
  ASSUME TypeOK, NEW x \in Ender, NEW r \in Room, BeginEnd(x, r)
  PROVE  /\ \E place \in {"record", "update"} :
              /\ epc' = [epc EXCEPT ![x] = place]
              /\ place = "update" => ~decisive'[r]
         /\ eroom' = [eroom EXCEPT ![x] = r]
BY DEF BeginEnd

LEMMA LeaveTypes ==
  ASSUME TypeOK, NEW c \in Conn, LeaveRoom(c)
  PROVE  TypeOK'
<1> DEFINE r == roomOf[c]
<1> USE DEF TypeOK
<1>1. dpc' \in [Conn -> {"none", "leaving", "ending", "presence", "failed", "done"}]
  <2>1. \/ dpc' = [dpc EXCEPT ![c] = "presence"]
        \/ dpc' = [dpc EXCEPT ![c] = "ending"]
    BY DEF LeaveRoom
  <2> QED
    BY <2>1
<1>2. players' \in [Room -> SUBSET User]
  <2>1. CASE r \notin rooms
    BY <2>1 DEF LeaveRoom
  <2>2. CASE r \in rooms
    <3>1. players' = [players EXCEPT ![r] = players[r] \ {UserOf[c]}]
      BY <2>2 DEF LeaveRoom
    <3> QED
      BY <2>2, <3>1
  <2> QED
    BY <2>1, <2>2
<1>3. /\ game' \in [Room -> {None, "active", "finished"}]
      /\ decisive' \in [Room -> BOOLEAN \cup {None}]
      /\ epc' \in [Ender -> {"none", "record", "update", "events", "clean", "done", "failed"}]
      /\ eroom' \in [Ender -> Room \cup {None}]
  <2>1. CASE UNCHANGED <<game, decisive, epc, eroom>>
    BY <2>1
  <2>2. CASE r \in Room /\ StopGame(r) /\ BeginEnd(c, r)
    <3>1. c \in Ender
      BY DEF Ender
    <3>2. /\ game' = [game EXCEPT ![r] = "finished"]
          /\ decisive' \in [Room -> BOOLEAN \cup {None}]
      BY <2>2, StopTypes
    <3>3. PICK place \in {"record", "update"} : epc' = [epc EXCEPT ![c] = place]
      BY <2>2, <3>1, BeginTypes
    <3>4. eroom' = [eroom EXCEPT ![c] = r]
      BY <2>2, <3>1, BeginTypes
    <3> QED
      BY <2>2, <3>1, <3>2, <3>3, <3>4
  <2> QED
    BY <2>1, <2>2 DEF LeaveRoom
<1> QED
  BY <1>1, <1>2, <1>3 DEF LeaveRoom

\* A match end that has begun has its room.
LEMMA EndTypes ==
  ASSUME TypeOK, NEW x \in Ender, epc[x] # "none" => eroom[x] \in Room,
         epc[x] # "none" => duo[eroom[x]] \in User \X User,
         RecordResult(x) \/ CompleteRow(x) \/ ReleasePlayer(x) \/ CloseRoom(x)
           \/ EndFails(x)
  PROVE  TypeOK'
<1> USE DEF TypeOK, connVars, roomVars
<1>1. CASE RecordResult(x)
  BY <1>1 DEF RecordResult
<1>2. CASE CompleteRow(x)
  BY <1>2 DEF CompleteRow
<1>3. CASE ReleasePlayer(x)
  <2>1. PICK i \in {1, 2} : /\ roomOf' = Assigned(duo[eroom[x]][i], None)
                            /\ passed' = [passed EXCEPT ![x] = i]
    BY <1>3 DEF ReleasePlayer, Left
  <2>2. duo[eroom[x]][i] \in User
    BY <1>3 DEF ReleasePlayer
  <2>3. roomOf' \in [Conn -> Room \cup {None}]
    BY <2>1, <2>2, AssignedType
  <2> QED
    BY <1>3, <2>1, <2>3 DEF ReleasePlayer
<1>4. CASE CloseRoom(x)
  BY <1>4 DEF CloseRoom, EndSettles
<1>5. CASE EndFails(x)
  BY <1>5, BoundAssumption DEF EndFails, EndSettles
<1> QED
  BY <1>1, <1>2, <1>3, <1>4, <1>5
-----------------------------------------------------------------------------
(* Where a room and the executions of handleMatchEnd are *)

\* A decided match has its result on the leaderboard.
Settled(r) == decisive[r] => recorded[r] > 0

\* createGameRoom fixes what there is of a room: the room once it has been
\* created, the row and the game once it has started.  The room goes only
\* after its game has stopped and what the match owes has been paid.
RoomPlace(r) ==
  /\ mpc[r] # "none" => duo[r] \in User \X User
  /\ mpc[r] \in {"none", "taken"} => r \notin rooms
  /\ mpc[r] \in {"first", "insert", "failed"} => r \in rooms
  /\ mpc[r] # "started" => game[r] = None /\ row[r] = "none"
  /\ mpc[r] = "started" => game[r] \in {"active", "finished"} /\ row[r] # "none"
  /\ game[r] = "active" => r \in rooms
  /\ game[r] = "finished" => decisive[r] \in BOOLEAN
  /\ mpc[r] = "started" /\ r \notin rooms => row[r] = "completed" /\ Settled(r)

\* Every execution works for a room whose game has stopped, and has paid for
\* it what lies behind it: this is what any of them may rely on when it
\* deletes a room that others are ending too.
EndPlace(x) ==
  epc[x] # "none" =>
    /\ eroom[x] \in Room
    /\ game[eroom[x]] = "finished"
    /\ epc[x] \in {"events", "clean", "done"} => row[eroom[x]] = "completed"
    /\ epc[x] \in {"update", "events", "clean", "done"} => Settled(eroom[x])

IInv == /\ TypeOK
        /\ \A r \in Room : RoomPlace(r)
        /\ \A x \in Ender : EndPlace(x)

LEMMA InvInit == Init => IInv
<1> SUFFICES ASSUME Init PROVE IInv
  OBVIOUS
<1>1. \A r \in Room : RoomPlace(r)
  BY NoneAssumption DEF Init, RoomPlace
<1>2. \A x \in Ender : EndPlace(x)
  BY DEF Init, EndPlace
<1> QED
  BY <1>1, <1>2, TypeInit DEF IInv

LEMMA SettledKept ==
  ASSUME TypeOK, NEW r \in Room, Settled(r), decisive'[r] = decisive[r],
         recorded'[r] = recorded[r] \/ recorded'[r] = recorded[r] + 1
  PROVE  Settled(r)'
<1>1. recorded[r] \in Nat
  BY DEF TypeOK
<1>2. recorded[r] > 0 => recorded'[r] > 0
  BY <1>1
<1> QED
  BY <1>2, Zenon DEF Settled

Places == (\A q \in Room : RoomPlace(q)) /\ (\A y \in Ender : EndPlace(y))

\* Connections, and everything else that touches neither rooms nor ends.
LEMMA PlacesStay ==
  ASSUME Places, UNCHANGED <<roomVars, epc, eroom, recorded>>
  PROVE  Places'
<1>1. ASSUME NEW q \in Room PROVE Settled(q)' <=> Settled(q)
  BY DEF Settled, roomVars
<1>2. ASSUME NEW q \in Room PROVE RoomPlace(q)'
  BY <1>1, <1>2 DEF Places, RoomPlace, roomVars
<1>3. ASSUME NEW y \in Ender PROVE EndPlace(y)'
  BY <1>1, <1>3 DEF Places, EndPlace, roomVars
<1> QED
  BY <1>2, <1>3 DEF Places

\* A room that is still being made is nobody's to end.
LEMMA MakingKeepsPlaces ==
  ASSUME TypeOK, Places, NEW r \in Room,
         \/ \E u, v \in User : TakePair(r, u, v)
         \/ CreateRoom(r) \/ AssignSecond(r) \/ StartGame(r) \/ InsertFails(r)
  PROVE  Places'
<1> USE NoneAssumption
<1>1. mpc[r] \in {"none", "taken", "first", "insert"} /\ RoomPlace(r)
  BY DEF Places, TakePair, CreateRoom, AssignSecond, StartGame, InsertFails
<1>2. UNCHANGED <<decisive, recorded, epc, eroom>>
  BY DEF TakePair, CreateRoom, AssignSecond, StartGame, InsertFails, endVars
<1>3. ASSUME NEW q \in Room PROVE Settled(q)' <=> Settled(q)
  BY <1>2 DEF Settled
<1>4. ASSUME NEW q \in Room, q # r
      PROVE  /\ mpc'[q] = mpc[q] /\ duo'[q] = duo[q]
             /\ game'[q] = game[q] /\ row'[q] = row[q]
             /\ q \in rooms' <=> q \in rooms
  BY <1>4 DEF TypeOK, TakePair, CreateRoom, AssignSecond, StartGame, InsertFails
<1>5. ASSUME NEW q \in Room, q # r PROVE RoomPlace(q)'
  BY <1>2, <1>3, <1>4, <1>5 DEF Places, RoomPlace
<1>6. RoomPlace(r)'
  <2>1. CASE \E u, v \in User : TakePair(r, u, v)
    BY <1>1, <2>1 DEF TypeOK, RoomPlace, TakePair
  <2>2. CASE CreateRoom(r)
    BY <1>1, <2>2 DEF TypeOK, RoomPlace, CreateRoom
  <2>3. CASE AssignSecond(r)
    BY <1>1, <2>3 DEF TypeOK, RoomPlace, AssignSecond
  <2>4. CASE StartGame(r)
    BY <1>1, <2>4 DEF TypeOK, RoomPlace, StartGame
  <2>5. CASE InsertFails(r)
    BY <1>1, <2>5 DEF TypeOK, RoomPlace, InsertFails
  <2> QED
    BY <2>1, <2>2, <2>3, <2>4, <2>5
<1>7. ASSUME NEW y \in Ender PROVE EndPlace(y)'
  <2>1. epc[y] # "none" => eroom[y] \in Room /\ eroom[y] # r
    BY <1>1, <1>7 DEF Places, EndPlace, RoomPlace
  <2> QED
    BY <1>2, <1>3, <1>4, <1>7, <2>1 DEF Places, EndPlace
<1> QED
  BY <1>5, <1>6, <1>7 DEF Places

\* Stopping a game again changes neither its outcome nor what is owed.
LEMMA StoppingKeepsPlaces ==
  ASSUME TypeOK, Places, NEW r \in Room, NEW x \in Ender,
         r \in rooms, game[r] # None, StopGame(r), BeginEnd(x, r),
         UNCHANGED <<mpc, duo, rooms, row, recorded>>
  PROVE  Places'
<1>1. /\ game' = [game EXCEPT ![r] = "finished"]
      /\ decisive'[r] \in BOOLEAN
      /\ game[r] = "finished" => decisive'[r] = decisive[r]
      /\ \A q \in Room \ {r} : decisive'[q] = decisive[q]
  BY StopTypes DEF Places, RoomPlace
<1>2. \A q \in Room : game'[q] = IF q = r THEN "finished" ELSE game[q]
  BY <1>1 DEF TypeOK
<1>3. ASSUME NEW q \in Room, game[q] = "finished" PROVE Settled(q)' <=> Settled(q)
  <2>1. decisive'[q] = decisive[q] /\ recorded'[q] = recorded[q]
    BY <1>1, <1>3
  <2> QED
    BY <2>1 DEF Settled
<1>4. ASSUME NEW q \in Room PROVE RoomPlace(q)'
  <2>1. RoomPlace(q)
    BY <1>4 DEF Places
  <2>2. CASE q = r
    BY <1>1, <1>2, <2>1, <2>2, NoneAssumption DEF RoomPlace
  <2>3. CASE q # r
    <3>1. q \notin rooms /\ mpc[q] = "started" => game[q] = "finished"
      BY <2>1 DEF RoomPlace
    <3>2. game'[q] = game[q] /\ decisive'[q] = decisive[q]
      BY <1>1, <1>2, <1>4, <2>3
    <3> QED
      BY <1>3, <1>4, <2>1, <3>1, <3>2 DEF RoomPlace
  <2> QED
    BY <2>2, <2>3
<1>5. ASSUME NEW y \in Ender PROVE EndPlace(y)'
  <2>1. PICK place \in {"record", "update"} :
          /\ epc' = [epc EXCEPT ![x] = place]
          /\ place = "update" => ~decisive'[r]
    BY BeginTypes
  <2>2. eroom' = [eroom EXCEPT ![x] = r]
    BY BeginTypes
  <2>3. CASE y = x
    <3>1. epc'[y] = place /\ eroom'[y] = r
      BY <1>5, <2>1, <2>2, <2>3 DEF TypeOK
    <3>2. place = "update" => Settled(r)'
      BY <2>1 DEF Settled
    <3> QED
      BY <1>2, <2>1, <3>1, <3>2 DEF EndPlace
  <2>4. CASE y # x
    <3>1. epc'[y] = epc[y] /\ eroom'[y] = eroom[y] /\ row' = row
      BY <1>5, <2>1, <2>2, <2>4 DEF TypeOK
    <3> QED
      BY <1>2, <1>3, <1>5, <3>1 DEF Places, EndPlace
  <2> QED
    BY <2>3, <2>4
<1> QED
  BY <1>4, <1>5 DEF Places

\* The steps of a match end pay what they leave behind them.
LEMMA EndingKeepsPlaces ==
  ASSUME TypeOK, Places, NEW x \in Ender,
         RecordResult(x) \/ CompleteRow(x) \/ ReleasePlayer(x) \/ CloseRoom(x)
           \/ EndFails(x)
  PROVE  Places'
<1> DEFINE r == eroom[x]
<1>1. epc[x] # "none" /\ EndPlace(x) /\ r \in Room /\ RoomPlace(r)
  BY DEF Places, EndPlace, RecordResult, CompleteRow, ReleasePlayer, CloseRoom,
         EndFails
<1>2. game[r] = "finished" /\ mpc[r] = "started"
  BY <1>1, NoneAssumption DEF EndPlace, RoomPlace
<1>3. UNCHANGED <<mpc, duo, game, decisive, eroom>>
  BY DEF RecordResult, CompleteRow, ReleasePlayer, CloseRoom, EndFails,
         EndSettles, roomVars
<1>4. ASSUME NEW q \in Room, Settled(q) PROVE Settled(q)'
  <2>1. recorded'[q] = recorded[q] \/ recorded'[q] = recorded[q] + 1
    BY DEF TypeOK, RecordResult, CompleteRow, ReleasePlayer, CloseRoom, EndFails,
           EndSettles
  <2> QED
    BY <1>3, <1>4, <2>1, SettledKept
<1>5. ASSUME NEW q \in Room
      PROVE  /\ row[q] # "none" => row'[q] # "none"
             /\ row[q] = "none" => row'[q] = "none"
             /\ row[q] = "completed" => row'[q] = "completed"
  BY <1>1, <1>2 DEF TypeOK, RoomPlace, RecordResult, CompleteRow, ReleasePlayer,
         CloseRoom, EndFails, EndSettles, roomVars
<1>6. ASSUME NEW y \in Ender PROVE EndPlace(y)'
  <2>1. CASE y = x
    <3>1. epc[x] \in {"events", "clean", "done"} => row[r] = "completed"
      BY <1>1 DEF EndPlace
    <3>2. epc'[x] \in {"events", "clean", "done"} => row'[r] = "completed"
      <4>1. CASE CompleteRow(x)
        BY <1>1, <1>2, <4>1 DEF CompleteRow, RoomPlace, TypeOK
      <4>2. CASE ~CompleteRow(x)
        <5>1. epc'[x] \in {"events", "clean", "done"} => epc[x] \in {"events", "clean"}
          BY <4>2 DEF TypeOK, RecordResult, ReleasePlayer, CloseRoom, EndFails,
                      EndSettles
        <5> QED
          BY <1>1, <1>5, <3>1, <5>1
      <4> QED
        BY <4>1, <4>2
    <3>3. epc'[x] \in {"update", "events", "clean", "done"} => Settled(r)'
      <4>1. CASE RecordResult(x)
        <5>1. recorded'[r] > 0
          BY <1>1, <4>1 DEF RecordResult, TypeOK
        <5> QED
          BY <1>3, <5>1 DEF Settled
      <4>2. CASE ~RecordResult(x)
        <5>1. epc'[x] \in {"update", "events", "clean", "done"}
                => epc[x] \in {"update", "events", "clean"}
          BY <4>2 DEF TypeOK, CompleteRow, ReleasePlayer, CloseRoom, EndFails,
                      EndSettles
        <5>2. epc[x] \in {"update", "events", "clean"} => Settled(r)
          BY <1>1 DEF EndPlace
        <5> QED
          BY <1>1, <1>3, <1>4, <5>1, <5>2
      <4> QED
        BY <4>1, <4>2
    <3> QED
      BY <1>1, <1>2, <1>3, <2>1, <3>2, <3>3 DEF EndPlace
  <2>2. CASE y # x
    <3>1. epc'[y] = epc[y]
      BY <1>6, <2>2 DEF TypeOK, RecordResult, CompleteRow, ReleasePlayer,
                        CloseRoom, EndFails, EndSettles
    <3>2. EndPlace(y)
      BY <1>6 DEF Places
    <3> QED
      BY <1>3, <1>4, <1>5, <3>1, <3>2 DEF EndPlace
  <2> QED
    BY <2>1, <2>2
<1>7. ASSUME NEW q \in Room PROVE RoomPlace(q)'
  <2>1. RoomPlace(q)
    BY <1>7 DEF Places
  <2>2. CASE q \in rooms /\ q \notin rooms'
    <3>1. CloseRoom(x) /\ q = r
      BY <2>2 DEF RecordResult, CompleteRow, ReleasePlayer, CloseRoom, EndFails,
                  roomVars
    <3>2. row[q] = "completed" /\ Settled(q)
      BY <1>1, <3>1 DEF EndPlace, CloseRoom
    <3> QED
      BY <1>2, <1>3, <1>4, <1>5, <1>7, <2>1, <3>1, <3>2, NoneAssumption DEF RoomPlace
  <2>3. CASE q \in rooms <=> q \in rooms'
    BY <1>3, <1>4, <1>5, <1>7, <2>1, <2>3 DEF RoomPlace
  <2>4. q \in rooms' => q \in rooms
    BY DEF RecordResult, CompleteRow, ReleasePlayer, CloseRoom, EndFails, roomVars
  <2> QED
    BY <2>2, <2>3, <2>4
<1> QED
  BY <1>6, <1>7 DEF Places

LEMMA InvStep == IInv /\ [Next]_vars => IInv'
<1> SUFFICES ASSUME IInv, [Next]_vars PROVE TypeOK' /\ Places'
  BY DEF IInv, Places
<1>1. TypeOK /\ Places
  BY DEF IInv, Places
<1>2. CASE \E c \in Conn : \/ Connect(c) \/ CreateSession(c) \/ AttachHandlers(c)
                           \/ SocketCloses(c) \/ DropSession(c)
  <2>1. UNCHANGED <<roomVars, epc, eroom, recorded>>
    BY <1>2 DEF Connect, CreateSession, AttachHandlers, SocketCloses, DropSession,
                endVars
  <2> QED
    BY <1>1, <1>2, <2>1, ConnTypes, PlacesStay
<1>3. CASE \E r \in Room : \/ \E u, v \in User : TakePair(r, u, v)
                           \/ CreateRoom(r) \/ AssignSecond(r) \/ StartGame(r)
                           \/ InsertFails(r)
  <2>1. \A r \in Room : mpc[r] # "none" => duo[r] \in User \X User
    BY <1>1 DEF Places, RoomPlace
  <2> QED
    BY <1>1, <1>3, <2>1, RoomTypes, MakingKeepsPlaces
<1>4. ASSUME NEW r \in Room, GameEnds(r) PROVE TypeOK' /\ Places'
  <2>1. r \in Ender /\ r \in rooms /\ game[r] # None
    BY <1>1, <1>4, NoneAssumption DEF Ender, GameEnds, Places, RoomPlace
  <2>2. /\ game' = [game EXCEPT ![r] = "finished"]
        /\ decisive' \in [Room -> BOOLEAN \cup {None}]
    BY <1>1, <1>4, StopTypes DEF GameEnds
  <2>3. PICK place \in {"record", "update"} : epc' = [epc EXCEPT ![r] = place]
    BY <1>1, <1>4, <2>1, BeginTypes DEF GameEnds
  <2>4. eroom' = [eroom EXCEPT ![r] = r]
    BY <1>1, <1>4, <2>1, BeginTypes DEF GameEnds
  <2>5. TypeOK'
    BY <1>1, <1>4, <2>1, <2>2, <2>3, <2>4 DEF GameEnds, TypeOK, connVars
  <2>6. StopGame(r) /\ BeginEnd(r, r) /\ UNCHANGED <<mpc, duo, rooms, row, recorded>>
    BY <1>4 DEF GameEnds
  <2>7. Places'
    BY <1>1, <2>1, <2>6, StoppingKeepsPlaces
  <2> QED
    BY <2>5, <2>7
<1>5. ASSUME NEW c \in Conn, LeaveRoom(c) PROVE TypeOK' /\ Places'
  <2>1. UNCHANGED <<mpc, duo, rooms, row, recorded>>
    BY <1>5 DEF LeaveRoom
  <2>2. CASE UNCHANGED <<game, decisive, epc, eroom>>
    BY <1>1, <1>5, <2>1, <2>2, LeaveTypes, PlacesStay DEF roomVars
  <2>3. CASE /\ roomOf[c] \in rooms /\ game[roomOf[c]] # None
             /\ StopGame(roomOf[c]) /\ BeginEnd(c, roomOf[c])
    <3>1. c \in Ender /\ roomOf[c] \in Room
      BY <1>1, <2>3 DEF Ender, TypeOK
    <3>2. Places'
      BY <1>1, <2>1, <2>3, <3>1, StoppingKeepsPlaces
    <3> QED
      BY <1>1, <1>5, <3>2, LeaveTypes
  <2> QED
    BY <1>5, <2>2, <2>3 DEF LeaveRoom
<1>6. ASSUME NEW x \in Ender,
             RecordResult(x) \/ CompleteRow(x) \/ ReleasePlayer(x) \/ CloseRoom(x)
               \/ EndFails(x)
      PROVE  TypeOK' /\ Places'
  <2>1. epc[x] # "none" => eroom[x] \in Room /\ duo[eroom[x]] \in User \X User
    BY <1>1, NoneAssumption DEF Places, EndPlace, RoomPlace
  <2> QED
    BY <1>1, <1>6, <2>1, EndTypes, EndingKeepsPlaces
<1>7. CASE UNCHANGED vars
  <2>1. TypeOK'
    BY <1>1, <1>7 DEF TypeOK, vars, connVars, roomVars, endVars
  <2>2. UNCHANGED <<roomVars, epc, eroom, recorded>>
    BY <1>7 DEF vars, endVars
  <2> QED
    BY <1>1, <2>1, <2>2, PlacesStay
<1> QED
  BY <1>2, <1>3, <1>4, <1>5, <1>6, <1>7
     DEF Next, Environment, ConnStep, RoomStep, EndStep

LEMMA Invariant == Spec => []IInv
BY InvInit, InvStep, PTL DEF Spec

\* However joins, disconnects, match ends and failing queries interleave, every
\* variable of the server keeps its type.
THEOREM TypeCorrect == Spec => []TypeOK
<1>1. IInv => TypeOK
  BY DEF IInv
<1> QED
  BY <1>1, Invariant, PTL

\* No execution of handleMatchEnd deletes a room whose game still ticks.
THEOREM GamesHaveRooms == Spec => []NoOrphanGame
<1>1. IInv => NoOrphanGame
  BY DEF IInv, RoomPlace, NoOrphanGame
<1> QED
  BY <1>1, Invariant, PTL

\* handleMatchEnd deletes a room only after the match's row is completed and a
\* decided match is on the leaderboard, also when two executions share the work.
THEOREM ClosedAccounted == Spec => []ClosedIsAccounted
<1>1. ASSUME IInv PROVE ClosedIsAccounted
  <2>1. SUFFICES ASSUME NEW r \in Room, mpc[r] = "started", r \notin rooms
                 PROVE  row[r] = "completed" /\ Settled(r)
    BY DEF ClosedIsAccounted, Settled
  <2> QED
    BY <1>1, <2>1 DEF IInv, RoomPlace
<1> QED
  BY <1>1, Invariant, PTL
-----------------------------------------------------------------------------
(* The refinement: the server's matches live the life of RoomLife *)

LEMMA PhaseValue ==
  ASSUME NEW q \in Room, RoomPlace(q)
  PROVE  Phase[q] = IF mpc[q] = "started"
                    THEN IF game[q] = "active" THEN "playing"
                         ELSE IF q \in rooms THEN "over" ELSE "closed"
                    ELSE IF q \in rooms THEN "open" ELSE "none"
BY DEF Phase

LEMMA PhaseStays ==
  ASSUME \A q \in Room : /\ (mpc'[q] = "started") <=> (mpc[q] = "started")
                         /\ (game'[q] = "active") <=> (game[q] = "active")
                         /\ q \in rooms' <=> q \in rooms
  PROVE  Phase' = Phase
BY DEF Phase

LEMMA PhaseMoves ==
  ASSUME NEW r \in Room, NEW to, Phase'[r] = to,
         \A q \in Room \ {r} : /\ mpc'[q] = mpc[q] /\ game'[q] = game[q]
                               /\ q \in rooms' <=> q \in rooms
  PROVE  Phase' = [Phase EXCEPT ![r] = to]
<1>1. \A q \in Room : Phase'[q] = IF q = r THEN to ELSE Phase[q]
  BY DEF Phase
<1>2. Phase' = [q \in Room |-> Phase'[q]] /\ Phase = [q \in Room |-> Phase[q]]
  BY DEF Phase
<1> QED
  BY <1>1, <1>2

LEMMA LifeInit == Init => Life!Init
BY DEF Init, Life!Init, Phase

LEMMA MakingLives ==
  ASSUME IInv, IInv', NEW r \in Room,
         \/ \E u, v \in User : TakePair(r, u, v)
         \/ CreateRoom(r) \/ AssignSecond(r) \/ StartGame(r) \/ InsertFails(r)
  PROVE  [Life!Next]_(Life!lifeVars)
<1>1. TypeOK /\ RoomPlace(r) /\ RoomPlace(r)'
  BY DEF IInv
<1>2. CASE (\E u, v \in User : TakePair(r, u, v)) \/ AssignSecond(r) \/ InsertFails(r)
  <2>1. \A q \in Room : /\ (mpc'[q] = "started") <=> (mpc[q] = "started")
                        /\ (game'[q] = "active") <=> (game[q] = "active")
                        /\ q \in rooms' <=> q \in rooms
    BY <1>1, <1>2 DEF TypeOK, TakePair, AssignSecond, InsertFails
  <2>2. row' = row
    BY <1>2 DEF TakePair, AssignSecond, InsertFails
  <2> QED
    BY <2>1, <2>2, PhaseStays DEF Life!lifeVars
<1>3. CASE CreateRoom(r)
  <2>1. Phase[r] = "none"
    BY <1>1, <1>3 DEF CreateRoom, RoomPlace, Phase
  <2>2. Phase'[r] = "open"
    BY <1>1, <1>3 DEF CreateRoom, TypeOK, Phase
  <2>3. Phase' = [Phase EXCEPT ![r] = "open"]
    BY <1>1, <1>3, <2>2, PhaseMoves DEF CreateRoom, TypeOK
  <2> QED
    BY <1>3, <2>1, <2>3 DEF CreateRoom, Life!Next, Life!Announce, Life!Move
<1>4. CASE StartGame(r)
  <2>1. Phase[r] = "open" /\ row[r] = "none"
    BY <1>1, <1>4 DEF StartGame, RoomPlace, Phase
  <2>2. Phase'[r] = "playing"
    BY <1>1, <1>4 DEF StartGame, TypeOK, Phase
  <2>3. Phase' = [Phase EXCEPT ![r] = "playing"]
    BY <1>1, <1>4, <2>2, PhaseMoves DEF StartGame, TypeOK
  <2> QED
    BY <1>4, <2>1, <2>3 DEF StartGame, Life!Next, Life!Play, Life!Move
<1> QED
  BY <1>2, <1>3, <1>4

LEMMA StoppingLives ==
  ASSUME IInv, NEW r \in Room, r \in rooms, game[r] # None, StopGame(r),
         UNCHANGED <<mpc, rooms, row>>
  PROVE  [Life!Next]_(Life!lifeVars)
<1>1. TypeOK /\ RoomPlace(r)
  BY DEF IInv
<1>2. \A q \in Room : game'[q] = IF q = r THEN "finished" ELSE game[q]
  BY <1>1 DEF StopGame, TypeOK
<1>3. mpc[r] = "started" /\ game[r] \in {"active", "finished"}
  BY <1>1 DEF RoomPlace
<1>4. CASE game[r] = "active"
  <2>1. Phase[r] = "playing" /\ Phase'[r] = "over"
    BY <1>2, <1>3, <1>4 DEF Phase
  <2>2. Phase' = [Phase EXCEPT ![r] = "over"]
    BY <1>2, <2>1, PhaseMoves
  <2> QED
    BY <2>1, <2>2 DEF Life!Next, Life!Over, Life!Move
<1>5. CASE game[r] = "finished"
  <2>1. \A q \in Room : (game'[q] = "active") <=> (game[q] = "active")
    BY <1>2, <1>5
  <2> QED
    BY <2>1, PhaseStays DEF Life!lifeVars
<1> QED
  BY <1>3, <1>4, <1>5

LEMMA EndingLives ==
  ASSUME IInv, NEW x \in Ender,
         RecordResult(x) \/ CompleteRow(x) \/ ReleasePlayer(x) \/ CloseRoom(x)
           \/ EndFails(x)
  PROVE  [Life!Next]_(Life!lifeVars)
<1> DEFINE r == eroom[x]
<1>1. TypeOK /\ EndPlace(x) /\ r \in Room /\ RoomPlace(r)
  BY DEF IInv, EndPlace, RecordResult, CompleteRow, ReleasePlayer, CloseRoom,
         EndFails
<1>2. epc[x] # "none" /\ game[r] = "finished" /\ mpc[r] = "started"
  BY <1>1, NoneAssumption DEF EndPlace, RoomPlace, RecordResult, CompleteRow,
         ReleasePlayer, CloseRoom, EndFails
<1>3. UNCHANGED <<mpc, game>>
  BY DEF RecordResult, CompleteRow, ReleasePlayer, CloseRoom, EndFails, EndSettles,
         roomVars
<1>4. CASE UNCHANGED <<rooms, row>>
  BY <1>3, <1>4, PhaseStays DEF Life!lifeVars
<1>5. CASE CompleteRow(x)
  <2>1. rooms' = rooms /\ row' = [row EXCEPT ![r] = "completed"]
    BY <1>1, <1>2, <1>5 DEF CompleteRow, RoomPlace, TypeOK
  <2>2. Phase' = Phase
    BY <1>3, <2>1, PhaseStays
  <2>3. CASE r \in rooms
    <3>1. Phase[r] = "over"
      BY <1>1, <1>2, <2>3 DEF Phase
    <3> QED
      BY <1>1, <2>1, <2>2, <3>1 DEF Life!Next, Life!Complete
  <2>4. CASE r \notin rooms
    <3>1. row' = row
      BY <1>1, <1>2, <2>1, <2>4 DEF RoomPlace, TypeOK
    <3> QED
      BY <2>2, <3>1 DEF Life!lifeVars
  <2> QED
    BY <2>3, <2>4
<1>6. CASE CloseRoom(x)
  <2>1. rooms' = rooms \ {r} /\ row' = row /\ row[r] = "completed"
    BY <1>1, <1>6 DEF CloseRoom, EndSettles, EndPlace
  <2>2. CASE r \in rooms
    <3>1. Phase[r] = "over" /\ Phase'[r] = "closed"
      BY <1>1, <1>2, <1>3, <2>1, <2>2 DEF Phase
    <3>2. Phase' = [Phase EXCEPT ![r] = "closed"]
      BY <1>1, <1>3, <2>1, <3>1, PhaseMoves
    <3> QED
      BY <1>1, <2>1, <3>1, <3>2 DEF Life!Next, Life!Close, Life!Move
  <2>3. CASE r \notin rooms
    BY <1>3, <2>1, <2>3, PhaseStays DEF Life!lifeVars
  <2> QED
    BY <2>2, <2>3
<1>7. RecordResult(x) \/ ReleasePlayer(x) \/ EndFails(x) => UNCHANGED <<rooms, row>>
  BY DEF RecordResult, ReleasePlayer, EndFails, EndSettles, roomVars
<1> QED
  BY <1>4, <1>5, <1>6, <1>7

\* Every room this server makes is announced, played at most once, ended once,
\* and closed only with a completed row: RoomLife, under the mapping Phase.
THEOREM RoomsImplementLife == Spec => ImplementsRoomLife
<1>1. ASSUME IInv, IInv', [Next]_vars PROVE [Life!Next]_(Life!lifeVars)
  <2>1. CASE UNCHANGED <<roomVars>>
    <3>1. \A q \in Room : /\ (mpc'[q] = "started") <=> (mpc[q] = "started")
                          /\ (game'[q] = "active") <=> (game[q] = "active")
                          /\ q \in rooms' <=> q \in rooms
      BY <2>1 DEF roomVars
    <3> QED
      BY <2>1, <3>1, PhaseStays DEF Life!lifeVars, roomVars
  <2>2. CASE \E c \in Conn : \/ Connect(c) \/ CreateSession(c) \/ AttachHandlers(c)
                             \/ SocketCloses(c) \/ DropSession(c)
    BY <2>1, <2>2 DEF Connect, CreateSession, AttachHandlers, SocketCloses, DropSession
  <2>3. CASE \E r \in Room : \/ \E u, v \in User : TakePair(r, u, v)
                             \/ CreateRoom(r) \/ AssignSecond(r) \/ StartGame(r)
                             \/ InsertFails(r)
    BY <1>1, <2>3, MakingLives
  <2>4. ASSUME NEW r \in Room, GameEnds(r) PROVE [Life!Next]_(Life!lifeVars)
    <3>1. r \in rooms /\ game[r] # None
      BY <1>1, <2>4, NoneAssumption DEF GameEnds, IInv, RoomPlace
    <3>2. StopGame(r) /\ UNCHANGED <<mpc, rooms, row>>
      BY <2>4 DEF GameEnds
    <3> QED
      BY <1>1, <3>1, <3>2, StoppingLives
  <2>5. ASSUME NEW c \in Conn, LeaveRoom(c) PROVE [Life!Next]_(Life!lifeVars)
    <3>1. UNCHANGED <<mpc, duo, rooms, row>>
      BY <2>5 DEF LeaveRoom
    <3>2. CASE UNCHANGED <<game, decisive>>
      BY <2>1, <3>1, <3>2 DEF roomVars
    <3>3. CASE roomOf[c] \in rooms /\ game[roomOf[c]] # None /\ StopGame(roomOf[c])
      <4>1. roomOf[c] \in Room
        BY <1>1, <3>3 DEF IInv, TypeOK
      <4> QED
        BY <1>1, <3>1, <3>3, <4>1, StoppingLives
    <3> QED
      BY <2>5, <3>2, <3>3 DEF LeaveRoom
  <2>6. ASSUME NEW x \in Ender,
               RecordResult(x) \/ CompleteRow(x) \/ ReleasePlayer(x) \/ CloseRoom(x)
                 \/ EndFails(x)
        PROVE  [Life!Next]_(Life!lifeVars)
    BY <1>1, <2>6, EndingLives
  <2>7. CASE UNCHANGED vars
    BY <2>1, <2>7 DEF vars
  <2> QED
    BY <1>1, <2>2, <2>3, <2>4, <2>5, <2>6, <2>7
       DEF Next, Environment, ConnStep, RoomStep, EndStep
<1>2. Spec => Life!Init /\ [][Life!Next]_(Life!lifeVars)
  BY <1>1, LifeInit, Invariant, PTL DEF Spec
<1> QED
  BY <1>2 DEF ImplementsRoomLife, Life!Spec
-----------------------------------------------------------------------------
(* Seats: who sits where, and which seats an ending match has still to free *)

\* The session is the player's registered one and has not left its room.
Here(c) == sessions[UserOf[c]] = c /\ dpc[c] \in {"none", "leaving"}

Real(c) == Here(c) /\ roomOf[c] # None
             => roomOf[c] \in rooms /\ UserOf[c] \in players[roomOf[c]]

SessionPlace(u) ==
  sessions[u] # None => /\ UserOf[sessions[u]] = u
                        /\ cpc[sessions[u]] \in {"presence", "ready"}

SocketPlace(c) ==
  /\ dpc[c] # "none" => cpc[c] = "ready" /\ sock[c] = "closed"
  /\ dpc[c] \in {"none", "leaving"} => epc[c] = "none"
  /\ cpc[c] \in {"none", "query"} => roomOf[c] = None

\* createGameRoom seats the first player, then the second, each once.
SeatPlace(c) ==
  roomOf[c] # None =>
    /\ mpc[roomOf[c]] \notin {"none", "taken"}
    /\ mpc[roomOf[c]] = "first" => UserOf[c] = duo[roomOf[c]][1]

RosterPlace(r) ==
  /\ mpc[r] # "none" => duo[r][1] # duo[r][2]
  /\ mpc[r] \in {"none", "taken"} => players[r] = {}
  /\ mpc[r] \notin {"none", "taken"} => players[r] \subseteq {duo[r][1], duo[r][2]}
  /\ mpc[r] = "first" => duo[r][2] \in players[r]
  /\ game[r] # "finished" => epc[r] = "none"

\* A player sits in a room with one session at most.
NoTwins ==
  \A c, d \in Conn :
    roomOf[c] # None /\ roomOf[c] = roomOf[d] /\ UserOf[c] = UserOf[d] => c = d

\* A clean-up loop has freed the seats it has passed, and nobody takes them
\* again: a session that comes later has no room.
Released(x) ==
  /\ epc[x] = "none" => passed[x] = 0
  /\ epc[x] # "none" =>
       \A c \in Conn, i \in {1, 2} :
         i <= passed[x] /\ Here(c) /\ UserOf[c] = duo[eroom[x]][i]
           => roomOf[c] # eroom[x]

Seats == /\ \A u \in User : SessionPlace(u)
         /\ \A c \in Conn : SocketPlace(c) /\ SeatPlace(c) /\ Real(c)
         /\ \A r \in Room : RosterPlace(r)
         /\ NoTwins
         /\ \A x \in Ender : Released(x)

LEMMA SeatsInit == Init => Seats
<1> USE UserOfAssumption, NoneAssumption DEF Init
<1> SUFFICES ASSUME Init PROVE Seats
  OBVIOUS
<1>1. \A u \in User : SessionPlace(u)
  BY DEF SessionPlace
<1>2. \A c \in Conn : SocketPlace(c) /\ SeatPlace(c) /\ Real(c)
  BY DEF SocketPlace, SeatPlace, Real, Here, Ender
<1>3. \A r \in Room : RosterPlace(r)
  BY DEF RosterPlace, Ender
<1>4. NoTwins
  BY DEF NoTwins
<1>5. \A x \in Ender : Released(x)
  BY DEF Released
<1> QED
  BY <1>1, <1>2, <1>3, <1>4, <1>5 DEF Seats

LEMMA AssignedValue ==
  ASSUME TypeOK, NEW u \in User, NEW r \in Room \cup {None}, NEW c \in Conn
  PROVE  Assigned(u, r)[c] = IF sessions[u] = c THEN r ELSE roomOf[c]
BY NoneAssumption DEF TypeOK, Assigned

\* As long as nobody who has a seat registers, seats stay real and freed.
LEMMA SeatsStay ==
  ASSUME IInv, Seats,
         UNCHANGED <<roomOf, rooms, players, duo, eroom, passed>>,
         \A c \in Conn : Here(c)' => Here(c) \/ roomOf[c] = None,
         \A x \in Ender : (epc'[x] = "none") <=> (epc[x] = "none")
  PROVE  /\ \A c \in Conn : Real(c)'
         /\ NoTwins'
         /\ \A x \in Ender : Released(x)'
<1>1. \A c \in Conn : Real(c)'
  BY DEF Seats, Real
<1>2. NoTwins'
  BY DEF Seats, NoTwins
<1>3. ASSUME NEW x \in Ender PROVE Released(x)'
  <2>1. epc[x] # "none" => eroom[x] # None
    BY <1>3, NoneAssumption DEF IInv, EndPlace
  <2>2. Released(x)
    BY <1>3 DEF Seats
  <2> QED
    BY <1>3, <2>1, <2>2 DEF Released
<1> QED
  BY <1>1, <1>2, <1>3

LEMMA ConnSeats ==
  ASSUME IInv, Seats, NEW d \in Conn,
         \/ Connect(d) \/ CreateSession(d) \/ AttachHandlers(d)
         \/ SocketCloses(d) \/ DropSession(d)
  PROVE  Seats'
<1> USE UserOfAssumption, NoneAssumption
<1>1. TypeOK /\ SocketPlace(d)
  BY DEF IInv, Seats
<1>2. /\ UNCHANGED <<roomOf, rooms, players, mpc, duo, game>>
      /\ UNCHANGED <<epc, eroom, passed>>
  BY DEF Connect, CreateSession, AttachHandlers, SocketCloses, DropSession,
         roomVars, endVars
<1>3. ASSUME NEW c \in Conn PROVE Here(c)' => Here(c) \/ roomOf[c] = None
  <2>1. CASE CreateSession(d)
    BY <1>1, <1>3, <2>1 DEF CreateSession, TypeOK, Here, SocketPlace
  <2>2. CASE DropSession(d)
    BY <1>1, <1>3, <2>2 DEF DropSession, TypeOK, Here
  <2>3. CASE SocketCloses(d)
    <3>1. dpc'[c] = dpc[c] \/ (c = d /\ dpc[c] = "none")
      BY <1>1, <1>3, <2>3 DEF SocketCloses, TypeOK, SocketPlace
    <3> QED
      BY <1>3, <2>3, <3>1 DEF SocketCloses, Here
  <2> QED
    BY <2>1, <2>2, <2>3 DEF Connect, AttachHandlers, Here
<1>4. /\ \A c \in Conn : Real(c)'
      /\ NoTwins'
      /\ \A x \in Ender : Released(x)'
  BY <1>2, <1>3, SeatsStay
<1>5. ASSUME NEW u \in User PROVE SessionPlace(u)'
  <2>1. SessionPlace(u)
    BY DEF Seats
  <2>2. \A c \in Conn : cpc[c] \in {"presence", "ready"} => cpc'[c] \in {"presence", "ready"}
    BY <1>1 DEF TypeOK, Connect, CreateSession, AttachHandlers, SocketCloses,
                DropSession
  <2>3. \/ sessions'[u] \in {sessions[u], None}
        \/ sessions'[u] = d /\ UserOf[d] = u /\ cpc'[d] = "presence"
    BY <1>1 DEF TypeOK, Connect, CreateSession, AttachHandlers, SocketCloses,
                DropSession
  <2>4. sessions[u] \in Conn \cup {None}
    BY <1>1 DEF TypeOK
  <2> QED
    BY <2>1, <2>2, <2>3, <2>4 DEF SessionPlace
<1>6. ASSUME NEW c \in Conn PROVE SocketPlace(c)'
  <2>1. SocketPlace(c)
    BY <1>6 DEF Seats
  <2>2. CASE Connect(d) \/ AttachHandlers(d) \/ CreateSession(d)
    <3>1. dpc' = dpc /\ (cpc[c] = "ready" => cpc'[c] = "ready")
      BY <1>1, <1>6, <2>2 DEF Connect, AttachHandlers, CreateSession, TypeOK
    <3>2. dpc[c] # "none" => sock'[c] = "closed"
      BY <1>1, <1>6, <2>1, <2>2 DEF Connect, AttachHandlers, CreateSession, TypeOK,
                                    SocketPlace
    <3>3. cpc'[c] \in {"none", "query"} => cpc[c] \in {"none", "query"}
      BY <1>1, <1>6, <2>2 DEF Connect, AttachHandlers, CreateSession, TypeOK
    <3> QED
      BY <1>2, <2>1, <3>1, <3>2, <3>3 DEF SocketPlace
  <2>3. CASE SocketCloses(d)
    BY <1>1, <1>2, <1>6, <2>1, <2>3 DEF SocketCloses, TypeOK, SocketPlace
  <2>4. CASE DropSession(d)
    BY <1>1, <1>2, <1>6, <2>1, <2>4 DEF DropSession, TypeOK, SocketPlace
  <2> QED
    BY <2>2, <2>3, <2>4
<1>7. \A c \in Conn : SeatPlace(c)'
  BY <1>2 DEF Seats, SeatPlace
<1>8. \A r \in Room : RosterPlace(r)'
  BY <1>2 DEF Seats, RosterPlace
<1> QED
  BY <1>4, <1>5, <1>6, <1>7, <1>8 DEF Seats

\* An execution of handleMatchEnd works for a room that has started.
LEMMA EndedHasStarted ==
  ASSUME IInv, NEW x \in Ender, epc[x] # "none"
  PROVE  eroom[x] \in Room /\ mpc[eroom[x]] = "started"
BY NoneAssumption DEF IInv, EndPlace, RoomPlace

LEMMA TakingSeats ==
  ASSUME IInv, Seats, NEW r \in Room,
         (\E u, v \in User : TakePair(r, u, v)) \/ StartGame(r) \/ InsertFails(r)
  PROVE  Seats'
<1> USE NoneAssumption
<1>1. TypeOK /\ RoomPlace(r) /\ RosterPlace(r)
  BY DEF IInv, Seats
<1>2. /\ UNCHANGED <<cpc, sock, sessions, dpc, roomOf, players>>
      /\ UNCHANGED <<rooms, epc, eroom, passed>>
  BY DEF TakePair, StartGame, InsertFails, connVars, endVars
<1>3. ASSUME NEW c \in Conn, roomOf[c] = r
      PROVE  mpc[r] = "insert"
  BY <1>1, <1>3 DEF Seats, SeatPlace, TakePair, StartGame, InsertFails
<1>4. \A q \in Room \ {r} : duo'[q] = duo[q] /\ mpc'[q] = mpc[q] /\ game'[q] = game[q]
  BY <1>1 DEF TypeOK, TakePair, StartGame, InsertFails
<1>5. mpc[r] = "insert" => duo' = duo /\ mpc'[r] \in {"started", "failed"}
  BY <1>1 DEF TypeOK, TakePair, StartGame, InsertFails
<1>6. \A u \in User : SessionPlace(u)'
  BY <1>2 DEF Seats, SessionPlace
<1>7. ASSUME NEW c \in Conn PROVE SocketPlace(c)' /\ SeatPlace(c)' /\ Real(c)'
  <2>1. SocketPlace(c)'
    BY <1>2, <1>7 DEF Seats, SocketPlace
  <2>2. Real(c)'
    BY <1>2, <1>7 DEF Seats, Real, Here
  <2>3. SeatPlace(c)
    BY <1>7 DEF Seats
  <2>4. SeatPlace(c)'
    <3>1. roomOf[c] \in Room \cup {None}
      BY <1>1, <1>7 DEF TypeOK
    <3>2. CASE roomOf[c] = r
      BY <1>2, <1>3, <1>5, <1>7, <3>2 DEF SeatPlace
    <3>3. CASE roomOf[c] # r
      BY <1>2, <1>4, <2>3, <3>1, <3>3 DEF SeatPlace
    <3> QED
      BY <3>2, <3>3
  <2> QED
    BY <2>1, <2>2, <2>4
<1>8. ASSUME NEW q \in Room PROVE RosterPlace(q)'
  <2>1. RosterPlace(q)
    BY <1>8 DEF Seats
  <2>2. CASE q # r
    BY <1>2, <1>4, <1>8, <2>1, <2>2 DEF RosterPlace
  <2>3. CASE q = r
    <3>1. game[r] = None
      BY <1>1 DEF RoomPlace, TakePair, StartGame, InsertFails
    <3>2. CASE \E u, v \in User : TakePair(r, u, v)
      BY <1>1, <1>2, <2>3, <3>1, <3>2 DEF TypeOK, TakePair, RosterPlace
    <3>3. CASE StartGame(r)
      BY <1>1, <1>2, <2>3, <3>1, <3>3 DEF TypeOK, StartGame, RosterPlace
    <3>4. CASE InsertFails(r)
      BY <1>1, <1>2, <2>3, <3>1, <3>4 DEF TypeOK, InsertFails, RosterPlace
    <3> QED
      BY <3>2, <3>3, <3>4
  <2> QED
    BY <2>2, <2>3
<1>9. NoTwins'
  BY <1>2 DEF Seats, NoTwins
<1>10. ASSUME NEW x \in Ender PROVE Released(x)'
  <2>1. Released(x)
    BY <1>10 DEF Seats
  <2>2. epc[x] # "none" => eroom[x] \in Room /\ mpc[eroom[x]] = "started"
    BY <1>10, EndedHasStarted
  <2>3. mpc[r] # "started"
    BY DEF TakePair, StartGame, InsertFails
  <2>4. epc[x] # "none" => duo'[eroom[x]] = duo[eroom[x]]
    BY <1>4, <2>2, <2>3
  <2> QED
    BY <1>2, <2>1, <2>4 DEF Released, Here
<1> QED
  BY <1>6, <1>7, <1>8, <1>9, <1>10 DEF Seats

\* One player is seated in a room that lists him and where he has no seat yet.
LEMMA OneSeat ==
  ASSUME IInv, Seats, NEW r \in Room, NEW u \in User, roomOf' = Assigned(u, r),
         mpc[r] # "started", r \in rooms', u \in players'[r],
         \A c \in Conn : roomOf[c] = r =>
           UserOf[c] # u /\ (Here(c) => UserOf[c] \in players'[r]),
         \A q \in Room \ {r} : (q \in rooms => q \in rooms') /\ players'[q] = players[q],
         UNCHANGED <<cpc, sock, sessions, dpc, duo, epc, eroom, passed>>
  PROVE  /\ \A c \in Conn : SocketPlace(c)' /\ Real(c)'
         /\ \A w \in User : SessionPlace(w)'
         /\ NoTwins'
         /\ \A x \in Ender : Released(x)'
<1> USE NoneAssumption, UserOfAssumption
<1>1. TypeOK /\ SessionPlace(u)
  BY DEF IInv, Seats
<1>2. \A c \in Conn : roomOf'[c] = IF sessions[u] = c THEN r ELSE roomOf[c]
  BY <1>1, AssignedValue
<1>3. ASSUME NEW c \in Conn, sessions[u] = c
      PROVE  UserOf[c] = u /\ cpc[c] \in {"presence", "ready"}
  BY <1>1, <1>3 DEF SessionPlace
<1>4. ASSUME NEW c \in Conn PROVE SocketPlace(c)' /\ Real(c)'
  <2>1. SocketPlace(c) /\ Real(c)
    BY <1>4 DEF Seats
  <2>2. SocketPlace(c)'
    <3>1. CASE sessions[u] = c
      BY <1>3, <1>4, <2>1, <3>1 DEF SocketPlace
    <3>2. CASE sessions[u] # c
      BY <1>2, <1>4, <2>1, <3>2 DEF SocketPlace
    <3> QED
      BY <3>1, <3>2
  <2>3. Real(c)'
    <3>1. CASE sessions[u] = c
      BY <1>2, <1>3, <1>4, <3>1 DEF Real
    <3>2. CASE sessions[u] # c
      <4>1. roomOf'[c] = roomOf[c] /\ roomOf[c] \in Room \cup {None}
        BY <1>1, <1>2, <1>4, <3>2 DEF TypeOK
      <4>2. Here(c)' => Here(c)
        BY DEF Here
      <4> QED
        BY <1>4, <2>1, <4>1, <4>2 DEF Real
    <3> QED
      BY <3>1, <3>2
  <2> QED
    BY <2>2, <2>3
<1>5. \A w \in User : SessionPlace(w)'
  BY DEF Seats, SessionPlace
<1>6. NoTwins'
  <2>1. SUFFICES ASSUME NEW c \in Conn, NEW d \in Conn, roomOf'[c] # None,
                        roomOf'[c] = roomOf'[d], UserOf[c] = UserOf[d]
                 PROVE  c = d
    BY DEF NoTwins
  <2>2. NoTwins
    BY DEF Seats
  <2>3. CASE sessions[u] = c /\ sessions[u] # d
    BY <1>2, <1>3, <2>1, <2>3
  <2>4. CASE sessions[u] # c /\ sessions[u] = d
    BY <1>2, <1>3, <2>1, <2>4
  <2>5. CASE sessions[u] # c /\ sessions[u] # d
    BY <1>2, <2>1, <2>2, <2>5 DEF NoTwins
  <2> QED
    BY <2>3, <2>4, <2>5
<1>7. ASSUME NEW x \in Ender PROVE Released(x)'
  <2>1. Released(x)
    BY <1>7 DEF Seats
  <2>2. epc[x] # "none" => eroom[x] # r
    BY <1>7, EndedHasStarted
  <2>3. \A c \in Conn : roomOf'[c] = roomOf[c] \/ roomOf'[c] = r
    BY <1>2
  <2>4. \A c \in Conn : Here(c)' => Here(c)
    BY DEF Here
  <2> QED
    BY <2>1, <2>2, <2>3, <2>4 DEF Released
<1> QED
  BY <1>4, <1>5, <1>6, <1>7

LEMMA SeatingSeats ==
  ASSUME IInv, Seats, NEW r \in Room, CreateRoom(r) \/ AssignSecond(r)
  PROVE  Seats'
<1> USE NoneAssumption, UserOfAssumption
<1>1. TypeOK /\ RoomPlace(r) /\ RosterPlace(r) /\ mpc[r] \in {"taken", "first"}
  BY DEF IInv, Seats, CreateRoom, AssignSecond
<1>2. /\ UNCHANGED <<cpc, sock, sessions, dpc, duo, epc, eroom, passed>>
      /\ UNCHANGED game
  BY DEF CreateRoom, AssignSecond, connVars, endVars
<1>3. duo[r][1] \in User /\ duo[r][2] \in User /\ duo[r][1] # duo[r][2]
  BY <1>1 DEF RoomPlace, RosterPlace
<1>4. /\ r \in rooms'
      /\ \A q \in Room \ {r} : /\ q \in rooms => q \in rooms'
                               /\ players'[q] = players[q] /\ mpc'[q] = mpc[q]
  BY <1>1 DEF CreateRoom, AssignSecond, RoomPlace, TypeOK
<1>5. \E u \in User :
        /\ roomOf' = Assigned(u, r) /\ u \in players'[r]
        /\ \A c \in Conn : roomOf[c] = r =>
             UserOf[c] # u /\ (Here(c) => UserOf[c] \in players'[r])
        /\ mpc'[r] \in {"first", "insert"}
        /\ mpc'[r] = "first" => mpc[r] = "taken" /\ u = duo[r][1]
        /\ mpc'[r] = "first" => duo[r][2] \in players'[r]
        /\ players'[r] \subseteq {duo[r][1], duo[r][2]}
  <2>1. CASE CreateRoom(r)
    <3>1. players'[r] = {duo[r][1], duo[r][2]}
      BY <1>1, <2>1 DEF CreateRoom, TypeOK
    <3>2. \A c \in Conn : roomOf[c] # r
      BY <2>1 DEF CreateRoom, Seats, SeatPlace
    <3>3. CASE sessions[duo[r][1]] # None
      BY <1>1, <1>3, <2>1, <3>1, <3>2, <3>3 DEF CreateRoom, TypeOK
    <3>4. CASE sessions[duo[r][1]] = None
      BY <1>1, <1>3, <2>1, <3>1, <3>2, <3>4 DEF CreateRoom, TypeOK
    <3> QED
      BY <3>3, <3>4
  <2>2. CASE AssignSecond(r)
    <3>1. players'[r] = players[r] /\ mpc[r] = "first"
      BY <2>2 DEF AssignSecond
    <3>2. \A c \in Conn : roomOf[c] = r => UserOf[c] = duo[r][1]
      BY <3>1 DEF Seats, SeatPlace
    <3>3. r \in rooms /\ duo[r][2] \in players[r]
      BY <1>1, <3>1 DEF RoomPlace, RosterPlace
    <3>4. \A c \in Conn : roomOf[c] = r /\ Here(c) => UserOf[c] \in players[r]
      BY DEF Seats, Real
    <3> QED
      BY <1>1, <1>3, <2>2, <3>1, <3>2, <3>3, <3>4 DEF AssignSecond, TypeOK, RosterPlace
  <2> QED
    BY <2>1, <2>2
<1>6. /\ \A c \in Conn : SocketPlace(c)' /\ Real(c)'
      /\ \A w \in User : SessionPlace(w)'
      /\ NoTwins'
      /\ \A x \in Ender : Released(x)'
  BY <1>1, <1>2, <1>4, <1>5, OneSeat
<1>7. ASSUME NEW c \in Conn PROVE SeatPlace(c)'
  <2>1. PICK u \in User :
          /\ roomOf' = Assigned(u, r)
          /\ \A d \in Conn : roomOf[d] = r => UserOf[d] # u
          /\ mpc'[r] \in {"first", "insert"}
          /\ mpc'[r] = "first" => mpc[r] = "taken" /\ u = duo[r][1]
    BY <1>5
  <2>2. roomOf'[c] = IF sessions[u] = c THEN r ELSE roomOf[c]
    BY <1>1, <1>7, <2>1, AssignedValue
  <2>3. sessions[u] = c => UserOf[c] = u
    BY DEF Seats, SessionPlace
  <2>4. SeatPlace(c) /\ roomOf[c] \in Room \cup {None}
    BY <1>1, <1>7 DEF Seats, TypeOK
  <2>5. CASE sessions[u] = c
    BY <1>2, <2>1, <2>2, <2>3, <2>5 DEF SeatPlace
  <2>6. CASE sessions[u] # c /\ roomOf[c] = r
    <3>1. mpc[r] # "taken"
      BY <2>4, <2>6 DEF SeatPlace
    <3> QED
      BY <2>1, <2>2, <2>6, <3>1 DEF SeatPlace
  <2>7. CASE sessions[u] # c /\ roomOf[c] # r
    BY <1>2, <1>4, <2>2, <2>4, <2>7 DEF SeatPlace
  <2> QED
    BY <2>5, <2>6, <2>7
<1>8. ASSUME NEW q \in Room PROVE RosterPlace(q)'
  <2>1. RosterPlace(q)
    BY <1>8 DEF Seats
  <2>2. CASE q # r
    BY <1>2, <1>4, <1>8, <2>1, <2>2 DEF RosterPlace
  <2>3. CASE q = r
    BY <1>1, <1>2, <1>3, <1>5, <2>3 DEF RosterPlace
  <2> QED
    BY <2>2, <2>3
<1> QED
  BY <1>6, <1>7, <1>8 DEF Seats

\* An execution that begins has passed nobody yet.
LEMMA BeginReleased ==
  ASSUME IInv, Seats, NEW x \in Ender, NEW r \in Room, epc[x] = "none",
         BeginEnd(x, r), UNCHANGED <<sessions, roomOf, duo, passed>>,
         \A c \in Conn : Here(c)' => Here(c)
  PROVE  /\ \A y \in Ender : Released(y)'
         /\ \A y \in Ender \ {x} : epc'[y] = epc[y]
<1>1. TypeOK /\ Released(x) /\ passed[x] = 0
  BY DEF IInv, Seats, Released
<1>2. PICK place \in {"record", "update"} : epc' = [epc EXCEPT ![x] = place]
  BY <1>1, BeginTypes
<1>3. eroom' = [eroom EXCEPT ![x] = r]
  BY <1>1, BeginTypes
<1>4. ASSUME NEW y \in Ender PROVE Released(y)'
  <2>1. CASE y = x
    <3>1. \A i \in {1, 2} : ~(i <= passed'[y])
      BY <1>1, <2>1
    <3>2. epc'[y] = place
      BY <1>1, <1>2, <2>1 DEF TypeOK
    <3> QED
      BY <1>2, <3>1, <3>2 DEF Released
  <2>2. CASE y # x
    <3>1. epc'[y] = epc[y] /\ eroom'[y] = eroom[y]
      BY <1>1, <1>2, <1>3, <1>4, <2>2 DEF TypeOK
    <3> QED
      BY <1>4, <3>1 DEF Seats, Released
  <2> QED
    BY <2>1, <2>2
<1> QED
  BY <1>1, <1>2, <1>4 DEF TypeOK

LEMMA TimerSeats ==
  ASSUME IInv, Seats, NEW r \in Room, GameEnds(r)
  PROVE  Seats'
<1> USE NoneAssumption, DisjointAssumption
<1>1. TypeOK /\ RosterPlace(r) /\ r \in Ender
  BY DEF IInv, Seats, Ender
<1>2. UNCHANGED <<cpc, sock, sessions, dpc, mpc, duo, rooms, passed, roomOf, players>>
  BY DEF GameEnds, connVars
<1>3. epc[r] = "none"
  BY <1>1 DEF RosterPlace, GameEnds
<1>4. /\ \A y \in Ender : Released(y)'
      /\ \A y \in Ender \ {r} : epc'[y] = epc[y]
  BY <1>1, <1>2, <1>3, BeginReleased DEF GameEnds, Here
<1>5. \A q \in Room : game'[q] = IF q = r THEN "finished" ELSE game[q]
  BY <1>1 DEF GameEnds, StopGame, TypeOK
<1>6. ASSUME NEW c \in Conn PROVE SocketPlace(c)' /\ SeatPlace(c)' /\ Real(c)'
  <2>1. epc'[c] = epc[c]
    BY <1>4, <1>6 DEF Ender
  <2> QED
    BY <1>2, <1>6, <2>1 DEF Seats, SocketPlace, SeatPlace, Real, Here
<1>7. ASSUME NEW q \in Room PROVE RosterPlace(q)'
  <2>1. q # r => epc'[q] = epc[q]
    BY <1>4, <1>7 DEF Ender
  <2> QED
    BY <1>2, <1>5, <1>7, <2>1 DEF Seats, RosterPlace
<1>8. (\A u \in User : SessionPlace(u)') /\ NoTwins'
  BY <1>2 DEF Seats, SessionPlace, NoTwins
<1> QED
  BY <1>4, <1>6, <1>7, <1>8 DEF Seats

\* The player who leaves takes his own name off the roster and nobody else's.
LEMMA LeaveSeats ==
  ASSUME IInv, Seats, NEW d \in Conn, LeaveRoom(d)
  PROVE  Seats'
<1> DEFINE r == roomOf[d]
<1> USE NoneAssumption, DisjointAssumption, UserOfAssumption
<1>1. TypeOK /\ SocketPlace(d) /\ SeatPlace(d)
  BY DEF IInv, Seats
<1>2. UNCHANGED <<cpc, sock, sessions, mpc, duo, rooms, passed, roomOf>>
  BY DEF LeaveRoom
<1>3. /\ dpc[d] = "leaving" /\ dpc'[d] \in {"presence", "ending"}
      /\ \A c \in Conn \ {d} : dpc'[c] = dpc[c]
  BY <1>1 DEF LeaveRoom, TypeOK
<1>4. /\ \A q \in Room : q # r \/ q \notin rooms => players'[q] = players[q]
      /\ r \in rooms => players'[r] = players[r] \ {UserOf[d]}
  BY <1>1 DEF LeaveRoom, TypeOK
<1>5. \A c \in Conn : Here(c)' => Here(c) /\ c # d
  BY <1>2, <1>3 DEF Here
<1>6. /\ \A y \in Ender : Released(y)'
      /\ \A y \in Ender \ {d} : epc'[y] = epc[y]
      /\ \A q \in Room : game'[q] = game[q] \/ game'[q] = "finished"
  <2>1. CASE UNCHANGED <<game, decisive, epc, eroom>>
    BY <1>2, <1>5, <2>1, SeatsStay DEF Seats, Released
  <2>2. CASE r \in rooms /\ StopGame(r) /\ BeginEnd(d, r)
    <3>1. d \in Ender /\ r \in Room /\ epc[d] = "none"
      BY <1>1, <1>3, <2>2 DEF Ender, TypeOK, SocketPlace
    <3>2. \A q \in Room : game'[q] = game[q] \/ game'[q] = "finished"
      BY <1>1, <2>2 DEF StopGame, TypeOK
    <3> QED
      BY <1>2, <1>5, <2>2, <3>1, <3>2, BeginReleased
  <2> QED
    BY <2>1, <2>2 DEF LeaveRoom
<1>7. ASSUME NEW c \in Conn PROVE SocketPlace(c)' /\ SeatPlace(c)' /\ Real(c)'
  <2>1. SocketPlace(c)'
    <3>1. CASE c = d
      BY <1>1, <1>2, <1>3, <3>1 DEF SocketPlace
    <3>2. CASE c # d
      <4>1. epc'[c] = epc[c] /\ dpc'[c] = dpc[c]
        BY <1>3, <1>6, <1>7, <3>2 DEF Ender
      <4> QED
        BY <1>2, <1>7, <4>1 DEF Seats, SocketPlace
    <3> QED
      BY <3>1, <3>2
  <2>2. SeatPlace(c)'
    BY <1>2, <1>7 DEF Seats, SeatPlace
  <2>3. Real(c)'
    <3>1. SUFFICES ASSUME Here(c), c # d, roomOf[c] # None
                   PROVE  roomOf[c] \in rooms /\ UserOf[c] \in players'[roomOf[c]]
      BY <1>2, <1>5, <1>7 DEF Real
    <3>2. roomOf[c] \in rooms /\ UserOf[c] \in players[roomOf[c]] /\ roomOf[c] \in Room
      BY <1>1, <1>7, <3>1 DEF Seats, Real, TypeOK
    <3>3. roomOf[c] = r => UserOf[c] # UserOf[d]
      BY <1>7, <3>1 DEF Seats, NoTwins
    <3> QED
      BY <1>4, <3>2, <3>3
  <2> QED
    BY <2>1, <2>2, <2>3
<1>8. ASSUME NEW q \in Room PROVE RosterPlace(q)'
  <2>1. RosterPlace(q) /\ players'[q] \subseteq players[q]
    BY <1>4, <1>8 DEF Seats
  <2>2. mpc[q] = "first" => duo[q][2] \in players'[q]
    <3>1. mpc[q] = "first" /\ q = r => UserOf[d] # duo[q][2]
      BY <1>1, <1>8, <2>1 DEF SeatPlace, RosterPlace
    <3> QED
      BY <1>4, <1>8, <2>1, <3>1 DEF RosterPlace
  <2>3. epc'[q] = epc[q]
    BY <1>6, <1>8 DEF Ender
  <2> QED
    BY <1>2, <1>6, <1>8, <2>1, <2>2, <2>3 DEF RosterPlace
<1>9. (\A u \in User : SessionPlace(u)') /\ NoTwins'
  BY <1>2 DEF Seats, SessionPlace, NoTwins
<1> QED
  BY <1>6, <1>7, <1>8, <1>9 DEF Seats

\* What an execution of handleMatchEnd does to places while it runs.
LEMMA EndingPlaces ==
  ASSUME IInv, Seats, NEW x \in Ender,
         RecordResult(x) \/ CompleteRow(x) \/ ReleasePlayer(x) \/ CloseRoom(x)
           \/ EndFails(x)
  PROVE  /\ \A c \in Conn : \/ dpc'[c] = dpc[c]
                             \/ /\ dpc[c] \notin {"none", "leaving"}
                                /\ dpc'[c] \in {"presence", "failed"}
         /\ \A y \in Ender : epc'[y] # "none" <=> epc[y] # "none"
         /\ UNCHANGED <<cpc, sock, sessions, mpc, duo, game, players, eroom>>
         /\ \A q \in Room : RosterPlace(q)'
<1> USE DisjointAssumption
<1>1. TypeOK /\ epc[x] # "none"
  BY DEF IInv, RecordResult, CompleteRow, ReleasePlayer, CloseRoom, EndFails
<1>2. UNCHANGED <<cpc, sock, sessions, mpc, duo, game, players, eroom>>
  BY DEF RecordResult, CompleteRow, ReleasePlayer, CloseRoom, EndFails, EndSettles,
         connVars, roomVars
<1>3. \A y \in Ender : epc'[y] # "none" <=> epc[y] # "none"
  BY <1>1 DEF TypeOK, RecordResult, CompleteRow, ReleasePlayer, CloseRoom, EndFails,
         EndSettles
<1>4. ASSUME NEW c \in Conn
      PROVE  \/ dpc'[c] = dpc[c]
             \/ dpc[c] \notin {"none", "leaving"} /\ dpc'[c] \in {"presence", "failed"}
  <2>1. dpc'[c] = dpc[c] \/ (c = x /\ dpc'[c] \in {"presence", "failed"})
    BY <1>1, <1>4 DEF TypeOK, RecordResult, CompleteRow, ReleasePlayer, CloseRoom,
           EndFails, EndSettles, connVars
  <2>2. c = x => dpc[c] \notin {"none", "leaving"}
    BY <1>1, <1>4 DEF Seats, SocketPlace
  <2> QED
    BY <2>1, <2>2
<1>5. ASSUME NEW q \in Room PROVE RosterPlace(q)'
  <2>1. epc[q] = "none" => epc'[q] = "none"
    BY <1>3, <1>5 DEF Ender
  <2> QED
    BY <1>2, <1>5, <2>1 DEF Seats, RosterPlace
<1> QED
  BY <1>2, <1>3, <1>4, <1>5

LEMMA EndingSeats ==
  ASSUME IInv, Seats, NEW x \in Ender,
         RecordResult(x) \/ CompleteRow(x) \/ ReleasePlayer(x) \/ CloseRoom(x)
           \/ EndFails(x)
  PROVE  Seats'
<1> DEFINE r == eroom[x]
<1> USE NoneAssumption, UserOfAssumption
<1>1. /\ TypeOK /\ Released(x) /\ epc[x] # "none" /\ r \in Room
      /\ RosterPlace(r) /\ mpc[r] = "started" /\ duo[r] \in User \X User
  <2>1. TypeOK /\ Released(x) /\ epc[x] # "none"
    BY DEF IInv, Seats, RecordResult, CompleteRow, ReleasePlayer, CloseRoom, EndFails
  <2>2. r \in Room /\ mpc[r] = "started"
    BY <2>1, EndedHasStarted
  <2> QED
    BY <2>1, <2>2 DEF IInv, RoomPlace, Seats
<1>2. /\ \A c \in Conn : \/ dpc'[c] = dpc[c]
                          \/ /\ dpc[c] \notin {"none", "leaving"}
                             /\ dpc'[c] \in {"presence", "failed"}
      /\ \A y \in Ender : epc'[y] # "none" <=> epc[y] # "none"
      /\ UNCHANGED <<cpc, sock, sessions, mpc, duo, game, players, eroom>>
      /\ \A q \in Room : RosterPlace(q)'
  BY EndingPlaces
<1>3. \A c \in Conn : Here(c)' => Here(c)
  BY <1>2 DEF Here
<1>4. \A u \in User : SessionPlace(u)'
  BY <1>2 DEF Seats, SessionPlace
<1>5. \A c \in Conn : roomOf'[c] \in {roomOf[c], None}
  <2>1. CASE ReleasePlayer(x)
    <3>1. PICK i \in {1, 2} : roomOf' = Assigned(duo[r][i], None)
      BY <2>1 DEF ReleasePlayer, Left
    <3>2. duo[r][i] \in User
      BY <1>1
    <3> QED
      BY <1>1, <3>1, <3>2, AssignedValue
  <2>2. CASE ~ReleasePlayer(x)
    BY <2>2 DEF RecordResult, CompleteRow, CloseRoom, EndFails, EndSettles
  <2> QED
    BY <2>1, <2>2
<1>6. ASSUME NEW c \in Conn PROVE SocketPlace(c)' /\ SeatPlace(c)'
  <2>1. SocketPlace(c) /\ SeatPlace(c)
    BY <1>6 DEF Seats
  <2>2. SocketPlace(c)'
    <3>1. epc[c] = "none" => epc'[c] = "none"
      BY <1>2, <1>6 DEF Ender
    <3> QED
      BY <1>2, <1>5, <1>6, <2>1, <3>1 DEF SocketPlace
  <2>3. SeatPlace(c)'
    BY <1>2, <1>5, <1>6, <2>1 DEF SeatPlace
  <2> QED
    BY <2>2, <2>3
<1>7. NoTwins'
  BY <1>2, <1>5 DEF Seats, NoTwins
<1>8. ASSUME NEW c \in Conn PROVE Real(c)'
  <2>1. Real(c)
    BY <1>8 DEF Seats
  <2>2. CASE CloseRoom(x) /\ roomOf[c] = r /\ Here(c)
    <3>1. UserOf[c] \in players[r] /\ sessions[UserOf[c]] = c
      BY <1>1, <2>1, <2>2 DEF Real, Here
    <3>2. PICK i \in {1, 2} : UserOf[c] = duo[r][i]
      BY <1>1, <3>1 DEF RosterPlace
    <3>3. i <= passed[x]
      <4>1. i \notin Left(x)
        BY <2>2 DEF CloseRoom
      <4>2. ~(i > passed[x])
        BY <1>8, <3>1, <3>2, <4>1 DEF Left
      <4>3. passed[x] \in 0..2
        BY <1>1 DEF TypeOK
      <4> QED
        BY <4>2, <4>3
    <3> QED
      BY <1>1, <1>8, <2>2, <3>2, <3>3 DEF Released
  <2>3. CASE CloseRoom(x) /\ ~(roomOf[c] = r /\ Here(c))
    <3>1. rooms' = rooms \ {r} /\ roomOf' = roomOf
      BY <2>3 DEF CloseRoom, EndSettles
    <3> QED
      BY <1>2, <1>3, <1>8, <2>1, <2>3, <3>1 DEF Real
  <2>4. CASE ~CloseRoom(x)
    <3>1. rooms' = rooms
      BY <2>4 DEF RecordResult, CompleteRow, ReleasePlayer, EndFails, roomVars
    <3> QED
      BY <1>2, <1>3, <1>5, <1>8, <2>1, <3>1 DEF Real
  <2> QED
    BY <2>2, <2>3, <2>4
<1>9. ASSUME NEW y \in Ender PROVE Released(y)'
  <2>1. Released(y) /\ (epc[y] # "none" => eroom[y] \in Room)
    BY <1>9, EndedHasStarted DEF Seats
  <2>2. CASE passed'[y] = passed[y]
    BY <1>2, <1>3, <1>5, <1>9, <2>1, <2>2 DEF Released
  <2>3. CASE passed'[y] # passed[y]
    <3>1. y = x /\ ReleasePlayer(x)
      BY <1>1, <1>9, <2>3 DEF TypeOK, RecordResult, CompleteRow, ReleasePlayer,
                              CloseRoom, EndFails, EndSettles
    <3>2. PICK i \in {1, 2} : /\ roomOf' = Assigned(duo[r][i], None)
                              /\ passed' = [passed EXCEPT ![x] = i]
                              /\ i \in Left(x) /\ \A j \in Left(x) : i <= j
      BY <3>1 DEF ReleasePlayer, Left
    <3>3. passed'[x] = i /\ passed[x] \in 0..2
      BY <1>1, <3>2 DEF TypeOK
    <3>4. SUFFICES ASSUME NEW c \in Conn, NEW j \in {1, 2}, j <= i, Here(c),
                          UserOf[c] = duo[r][j]
                   PROVE  roomOf'[c] # r
      BY <1>1, <1>2, <1>3, <3>1, <3>3 DEF Released
    <3>5. CASE j = i
      <4>1. duo[r][i] \in User /\ sessions[duo[r][i]] = c
        BY <1>1, <3>4, <3>5 DEF Here
      <4>2. roomOf'[c] = None
        BY <1>1, <3>2, <4>1, AssignedValue
      <4> QED
        BY <1>1, <4>2
    <3>6. CASE j # i
      <4>1. roomOf[c] # r
        <5>1. CASE j <= passed[x]
          BY <1>1, <3>4, <5>1 DEF Released
        <5>2. CASE ~(j <= passed[x])
          <6>1. j \notin Left(x)
            BY <3>2, <3>4, <3>6
          <6>2. j > passed[x]
            BY <3>3, <5>2
          <6>3. sessions[duo[r][j]] = c /\ c # None
            BY <3>4 DEF Here
          <6>4. UserOf[c] \notin players[r]
            BY <3>4, <6>1, <6>2, <6>3 DEF Left
          <6>5. Real(c)
            BY DEF Seats
          <6> QED
            BY <1>1, <3>4, <6>4, <6>5 DEF Real
        <5> QED
          BY <5>1, <5>2
      <4> QED
        BY <1>1, <1>5, <4>1
    <3> QED
      BY <3>5, <3>6
  <2> QED
    BY <2>2, <2>3
<1> QED
  BY <1>2, <1>4, <1>6, <1>7, <1>8, <1>9 DEF Seats

LEMMA SeatsStep == IInv /\ Seats /\ [Next]_vars => Seats'
<1> SUFFICES ASSUME IInv, Seats, [Next]_vars PROVE Seats'
  OBVIOUS
<1>1. CASE UNCHANGED vars
  <2>1. UNCHANGED <<cpc, sock, sessions, dpc, mpc, duo, rooms, game, epc, eroom,
                    passed, roomOf, players>>
    BY <1>1 DEF vars, connVars, roomVars, endVars
  <2>2. /\ \A c \in Conn : Real(c)'
        /\ NoTwins'
        /\ \A x \in Ender : Released(x)'
    BY <2>1, SeatsStay DEF Here
  <2> QED
    BY <2>1, <2>2 DEF Seats, SessionPlace, SocketPlace, SeatPlace, RosterPlace
<1> QED
  BY <1>1, ConnSeats, TakingSeats, SeatingSeats, TimerSeats, LeaveSeats, EndingSeats
     DEF Next, Environment, ConnStep, RoomStep, EndStep

\* The seat of a registered session is real until the session is freed or
\* leaves: neither a replaced session, nor a player released twice, nor a room
\* ended by two handlers at once leaves him in a room that is gone.
THEOREM SeatsAreReal == Spec => []SeatIsReal
<1>1. Seats => SeatIsReal
  BY DEF Seats, Real, Here, SeatIsReal
<1> QED
  BY <1>1, SeatsInit, SeatsStep, Invariant, PTL DEF Spec
=============================================================================
