------------------------------ MODULE Presence ------------------------------
(***************************************************************************)
(* src/presence/presenceService.ts: the key presence:{userId} of each      *)
(* player and activePlayersGauge, which counts players by status.          *)
(*                                                                         *)
(* setPresence and removePresence are sequences of awaits, and a handler   *)
(* of the server runs each of them; the handlers of one player overlap.    *)
(* A call reads the key, moves the gauge by what it read, writes the key   *)
(* and publishes.  Its steps are operators here, which the server's        *)
(* modules conjoin with what their handlers do next.                       *)
(***************************************************************************)
EXTENDS Players

CONSTANTS Access,     \* handlers that call setPresence or removePresence
          Absent,     \* no key
          MaxExpiries \* bound of the model: presence keys that expire

Status == {"online", "in_queue", "in_match"}

ASSUME AbsentAssumption == Absent \notin Status
ASSUME ExpiriesAssumption == MaxExpiries \in Nat
ASSUME FiniteAssumption == IsFiniteSet(Access)

VARIABLES
  presence,  \* the key of each player
  gauge,     \* activePlayersGauge
  apc,       \* per handler: which command of its call comes next
  to, seen,  \* the status it sets (Absent: it removes), the one it has read
  stale,     \* history: writes that replaced another status than was read
  expiries   \* keys that expired

presenceVars == <<presence, gauge, apc, to, seen, stale, expiries>>

InitPresence ==
  /\ presence = [u \in User |-> Absent]
  /\ gauge = [s \in Status |-> 0]
  /\ apc = [x \in Access |-> "idle"]
  /\ to = [x \in Access |-> Absent]
  /\ seen = [x \in Access |-> Absent]
  /\ stale = 0
  /\ expiries = 0

Moved(s, d) == IF s = Absent THEN gauge ELSE [gauge EXCEPT ![s] = @ + d]

\* The handler x calls setPresence(s), or removePresence if s is Absent.
CallPresence(x, s) ==
  /\ apc' = [apc EXCEPT ![x] = "get"]
  /\ to' = [to EXCEPT ![x] = s]
  /\ UNCHANGED <<presence, gauge, seen, stale, expiries>>

\* GET; setPresence takes the player off the gauge of another status.
PresenceRead(x, u) ==
  /\ apc[x] = "get"
  /\ seen' = [seen EXCEPT ![x] = presence[u]]
  /\ gauge' = IF to[x] \notin {Absent, presence[u]} THEN Moved(presence[u], -1)
              ELSE gauge
  /\ apc' = [apc EXCEPT ![x] = "write"]
  /\ UNCHANGED <<presence, to, stale, expiries>>

\* SET and PUBLISH, or DEL and PUBLISH, and the call returns to the handler.
\* setPresence adds the player to the gauge of a new status, removePresence
\* takes him off the one it has read.  (Nothing reads the gauge, so what PUBLISH
\* delays does not matter.)
PresenceWrite(x, u) ==
  /\ apc[x] = "write"
  /\ presence' = [presence EXCEPT ![u] = to[x]]
  /\ gauge' = IF to[x] = Absent THEN Moved(seen[x], -1)
              ELSE IF to[x] # seen[x] THEN Moved(to[x], 1) ELSE gauge
  /\ stale' = IF presence[u] = seen[x] THEN stale ELSE stale + 1
  /\ apc' = [apc EXCEPT ![x] = "idle"]
  /\ to' = [to EXCEPT ![x] = Absent]
  /\ seen' = [seen EXCEPT ![x] = Absent]
  /\ UNCHANGED expiries

\* PRESENCE_TTL passes without a refresh.
PresenceExpires(u) ==
  /\ presence[u] # Absent /\ expiries < MaxExpiries
  /\ presence' = [presence EXCEPT ![u] = Absent]
  /\ expiries' = expiries + 1
  /\ UNCHANGED <<gauge, apc, to, seen, stale>>
-----------------------------------------------------------------------------
PresenceTypeOK ==
  /\ presence \in [User -> Status \cup {Absent}]
  /\ gauge \in [Status -> Int]
  /\ apc \in [Access -> {"idle", "get", "write"}]
  /\ to \in [Access -> Status \cup {Absent}]
  /\ seen \in [Access -> Status \cup {Absent}]
  /\ stale \in Nat
  /\ expiries \in 0 .. MaxExpiries

Present(s) == Cardinality({u \in User : presence[u] = s})

Distance(m, n) == IF m >= n THEN m - n ELSE n - m

\* "Gauge-accurate" (README.md:90), "Net effect per transition: 0"
\* (SYSTEM_DESIGN_REVIEW.md:135): whenever no call is under way, the gauge
\* counts the players present.
GaugeExact ==
  (\A x \in Access : apc[x] = "idle") =>
    \A s \in Status : gauge[s] = Present(s)

\* How far it is off: by two at most for each write that replaced another
\* status than its call had read, and by one for each key that expired.
GaugeExplained ==
  (\A x \in Access : apc[x] = "idle") =>
    Distance(gauge["online"], Present("online"))
      + Distance(gauge["in_queue"], Present("in_queue"))
      + Distance(gauge["in_match"], Present("in_match"))
      <= 2 * stale + expiries
=============================================================================
