----------------------------- MODULE MCHandlers -----------------------------
(* RedisLock and Api for TLC: callers and requests of several servers.  They  *)
(* share no variable; a step of one is taken only while the other is in its   *)
(* initial state, so that the states of the two add up.                       *)
EXTENDS RedisLock, Api, TLC

CONSTANTS c1, c2, c3

\* Two callers under one pid, as the two API containers are, and a third.
MCPid == [c \in Caller |-> IF c = c3 THEN 2 ELSE 1]

\* Requests cannot be told apart.
MCSymmetry == Permutations(Req)

MCInit == InitLock /\ InitApi

MCNext == \/ LockNext /\ InitApi /\ UNCHANGED apiVars
          \/ ApiNext /\ InitLock /\ UNCHANGED redisLockVars

MCSpec == MCInit /\ [][MCNext]_<<redisLockVars, apiVars>>
=============================================================================
