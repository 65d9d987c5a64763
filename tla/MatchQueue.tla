----------------------------- MODULE MatchQueue -----------------------------
(***************************************************************************)
(* What matchmaking promises about one region's queue.  Entries come in    *)
(* and are withdrawn.  A pairing reserves two different waiting entries    *)
(* together and then takes them for good, or gives up and puts them back   *)
(* unless they were withdrawn meanwhile.  No entry is part of two          *)
(* pairings at once, but for this: a pairing that overruns its time may go *)
(* astray, with or without entries reserved, and may then still take two   *)
(* entries, once, whoever else has reserved or taken them.                 *)
(***************************************************************************)
EXTENDS Naturals

CONSTANTS Entry

VARIABLES waiting,   \* the entries a pairing may reserve
          reserved,  \* the entries of the pairing being made
          overruns,  \* how many pairings have overrun their time
          strays,    \* how many of them are astray
          paired     \* how often each entry has been taken by a pairing

queueVars == <<waiting, reserved, overruns, strays, paired>>

Init ==
  /\ waiting = {} /\ reserved = {}
  /\ overruns = 0 /\ strays = 0
  /\ paired = [e \in Entry |-> 0]

Enter(e) ==
  /\ e \notin waiting \cup reserved
  /\ waiting' = waiting \cup {e}
  /\ UNCHANGED <<reserved, overruns, strays, paired>>

Withdraw(e) ==
  /\ e \in waiting
  /\ waiting' = waiting \ {e}
  /\ UNCHANGED <<reserved, overruns, strays, paired>>

Reserve(e, f) ==
  /\ reserved = {}
  /\ {e, f} \subseteq waiting /\ e # f
  /\ reserved' = {e, f}
  /\ waiting' = waiting \ {e, f}
  /\ UNCHANGED <<overruns, strays, paired>>

Pair(S) == paired' = [e \in Entry |-> IF e \in S THEN paired[e] + 1 ELSE paired[e]]

Take ==
  /\ reserved # {}
  /\ Pair(reserved)
  /\ reserved' = {}
  /\ UNCHANGED <<waiting, overruns, strays>>

PutBack ==
  /\ reserved' = {}
  /\ \E back \in SUBSET reserved : waiting' = waiting \cup back
  /\ UNCHANGED paired

GiveUp == reserved # {} /\ PutBack /\ UNCHANGED <<overruns, strays>>

\* A pairing that overruns its time goes astray, unless it has taken its two.
Overrun ==
  /\ overruns' = overruns + 1
  /\ \/ PutBack /\ strays' = strays + 1
     \/ UNCHANGED <<waiting, reserved, strays, paired>>

\* A stray pairing takes two entries it saw waiting.
StrayTake(e, f) ==
  /\ strays > 0 /\ strays' = strays - 1
  /\ e # f /\ Pair({e, f})
  /\ waiting' = waiting \ {e, f}
  /\ UNCHANGED <<reserved, overruns>>

StrayEnds ==
  /\ strays > 0 /\ strays' = strays - 1
  /\ UNCHANGED <<waiting, reserved, overruns, paired>>

Next == \/ Take \/ GiveUp \/ Overrun \/ StrayEnds
        \/ \E e \in Entry : Enter(e) \/ Withdraw(e)
        \/ \E e, f \in Entry : Reserve(e, f) \/ StrayTake(e, f)

Spec == Init /\ [][Next]_queueVars
=============================================================================
