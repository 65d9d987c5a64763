----------------------------- MODULE MCRedisLock -----------------------------
(* An instance of RedisLock for TLC. *)
EXTENDS RedisLock

\* Two callers under one pid, as the two API containers are.
MCPid == [c \in Caller |-> 1]
=============================================================================
