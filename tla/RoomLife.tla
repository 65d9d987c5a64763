------------------------------ MODULE RoomLife ------------------------------
(***************************************************************************)
(* The life the server promises a match: it is announced, played once,     *)
(* ended once, and closed only when its row in the database says so.       *)
(***************************************************************************)
CONSTANTS Room

VARIABLES phase,  \* of each match
          row     \* status of its row in the matches table

lifeVars == <<phase, row>>

Init == /\ phase = [r \in Room |-> "none"]
        /\ row = [r \in Room |-> "none"]

Move(r, from, to) == phase[r] = from /\ phase' = [phase EXCEPT ![r] = to]

Announce(r) == Move(r, "none", "open") /\ UNCHANGED row

Play(r) ==
  /\ Move(r, "open", "playing")
  /\ row[r] = "none"
  /\ row' = [row EXCEPT ![r] = "in_progress"]

Over(r) == Move(r, "playing", "over") /\ UNCHANGED row

Complete(r) ==
  /\ phase[r] = "over" /\ row' = [row EXCEPT ![r] = "completed"]
  /\ UNCHANGED phase

Close(r) == row[r] = "completed" /\ Move(r, "over", "closed") /\ UNCHANGED row

Next == \E r \in Room : Announce(r) \/ Play(r) \/ Over(r) \/ Complete(r) \/ Close(r)

Spec == Init /\ [][Next]_lifeVars
=============================================================================
