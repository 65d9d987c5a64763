------------------------------ MODULE LeaseLock ------------------------------
(***************************************************************************)
(* What src/redis/lock.ts promises to its callers: a lock that one caller  *)
(* owns at a time, that may lapse under its owner because it is a lease,   *)
(* and that only its owner can give back, or a caller that cannot be told  *)
(* from the owner.  A caller whose lease lapsed still believes it holds    *)
(* the lock; its release must otherwise change nothing.                    *)
(***************************************************************************)
CONSTANTS Caller,    \* concurrent calls of acquireLock on one key
          Alike,     \* pairs of callers that may present the same value
          None       \* owner of a free lock

VARIABLES owner,     \* the caller the lock belongs to, or None
          believes   \* the callers that acquired the lock and have not released it

lockVars == <<owner, believes>>

Init == owner = None /\ believes = {}

Acquire(c) ==
  /\ owner = None /\ c \notin believes
  /\ owner' = c
  /\ believes' = believes \cup {c}

Release(c) ==
  /\ c \in believes
  /\ owner' = IF owner = c THEN None ELSE owner
  /\ believes' = believes \ {c}

\* A caller takes the owner's lock for its own and frees it.
Mistake(c) ==
  /\ c \in believes /\ <<c, owner>> \in Alike
  /\ owner' = None
  /\ believes' = believes \ {c}

\* The lease of the owner ends; the owner is not told.
Lapse == owner # None /\ owner' = None /\ UNCHANGED believes

\* The caller's process dies; the lock stays until it lapses.
Die(c) == c \in believes /\ believes' = believes \ {c} /\ UNCHANGED owner

Next == Lapse \/ \E c \in Caller : Acquire(c) \/ Release(c) \/ Mistake(c) \/ Die(c)

Spec == Init /\ [][Next]_lockVars
=============================================================================
