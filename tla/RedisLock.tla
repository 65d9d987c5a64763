------------------------------ MODULE RedisLock ------------------------------
(***************************************************************************)
(* The lock of src/redis/lock.ts on one key, with the clock.               *)
(*                                                                         *)
(* A Caller is one execution of acquireLock followed by the caller's       *)
(* critical section and releaseLock.  Pid[c] is the process.pid the        *)
(* execution runs under: the two API containers both run node as pid 1,    *)
(* and overlapping matchmaking cycles share a process, so callers may      *)
(* share a pid.  Redis commands and the sleeps between them are single     *)
(* steps; time passes freely between any two of them, because the client   *)
(* keeps a command waiting through reconnections (maxRetriesPerRequest is  *)
(* null in src/redis/client.ts).                                           *)
(***************************************************************************)
EXTENDS Naturals

CONSTANTS Caller,      \* executions of acquireLock on the key
          NoCaller,    \* nobody has set the key yet
          NoKey,       \* the key does not exist
          Pid,         \* process.pid each caller runs under
          TTL,         \* ttlMs
          Retries,     \* retries
          RetryDelay,  \* retryDelayMs
          MaxLockTime  \* bound of the model: the clock stops here

ASSUME NoCallerAssumption == NoCaller \notin Caller
ASSUME PidAssumption == Pid \in [Caller -> Nat]
ASSUME TimeAssumption == /\ TTL \in Nat \ {0}
                         /\ Retries \in Nat \ {0}
                         /\ RetryDelay \in Nat
                         /\ MaxLockTime \in Nat

LockValue == Nat \X Nat
LockKey == [val : LockValue, exp : Nat]
Stage == {"idle", "set", "sleep", "holding"}

ASSUME NoKeyAssumption == NoKey \notin LockKey

VARIABLES time,       \* Date.now() and the clock of Redis
          lockKey,    \* value and expiry of the key, or NoKey
          stage,      \* where each caller is
          lockValue,  \* `${process.pid}-${Date.now()}` of the caller's current call
          tries,      \* loop counter i
          wakeAt,     \* when the caller's setTimeout fires
          setAt,      \* history: when the caller's SET NX last succeeded
          setBy,      \* history: the caller whose SET NX wrote the key
          robbed      \* history: the holders whose live key another caller's
                      \* release has deleted

redisLockVars == <<time, lockKey, stage, lockValue, tries, wakeAt, setAt, setBy, robbed>>

\* Redis hides a key from the moment its PX elapsed.
Live == lockKey # NoKey /\ time < lockKey.exp

InitLock ==
  /\ time = 0
  /\ lockKey = NoKey
  /\ stage = [c \in Caller |-> "idle"]
  /\ lockValue = [c \in Caller |-> <<Pid[c], 0>>]
  /\ tries = [c \in Caller |-> 0]
  /\ wakeAt = [c \in Caller |-> 0]
  /\ setAt = [c \in Caller |-> 0]
  /\ setBy = NoCaller
  /\ robbed = {}

\* The call returns, or dies with its process: its locals are gone.
Return(c) ==
  /\ stage' = [stage EXCEPT ![c] = "idle"]
  /\ lockValue' = [lockValue EXCEPT ![c] = <<Pid[c], 0>>]
  /\ tries' = [tries EXCEPT ![c] = 0]
  /\ wakeAt' = [wakeAt EXCEPT ![c] = 0]
  /\ setAt' = [setAt EXCEPT ![c] = 0]

\* The lock value is computed once, before the loop.
CallAcquire(c) ==
  /\ stage[c] = "idle"
  /\ stage' = [stage EXCEPT ![c] = "set"]
  /\ lockValue' = [lockValue EXCEPT ![c] = <<Pid[c], time>>]
  /\ UNCHANGED <<time, lockKey, tries, wakeAt, setAt, setBy, robbed>>

\* Mutant of SetOk: a SET without NX.
SetWithoutNX(c) ==
  /\ stage[c] = "set"
  /\ lockKey' = [val |-> lockValue[c], exp |-> time + TTL]
  /\ setBy' = c
  /\ setAt' = [setAt EXCEPT ![c] = time]
  /\ stage' = [stage EXCEPT ![c] = "holding"]
  /\ UNCHANGED <<time, lockValue, tries, wakeAt, robbed>>

SetOk(c) ==
  /\ stage[c] = "set" /\ ~Live
  /\ lockKey' = [val |-> lockValue[c], exp |-> time + TTL]
  /\ setBy' = c
  /\ setAt' = [setAt EXCEPT ![c] = time]
  /\ stage' = [stage EXCEPT ![c] = "holding"]
  /\ UNCHANGED <<time, lockValue, tries, wakeAt, robbed>>

SetRefused(c) ==
  /\ stage[c] = "set" /\ Live
  /\ stage' = [stage EXCEPT ![c] = "sleep"]
  /\ wakeAt' = [wakeAt EXCEPT ![c] = time + RetryDelay]
  /\ UNCHANGED <<time, lockKey, lockValue, tries, setAt, setBy, robbed>>

Wake(c) ==
  /\ stage[c] = "sleep" /\ time >= wakeAt[c]
  /\ tries[c] + 1 < Retries
  /\ tries' = [tries EXCEPT ![c] = @ + 1]
  /\ stage' = [stage EXCEPT ![c] = "set"]
  /\ wakeAt' = [wakeAt EXCEPT ![c] = 0]
  /\ UNCHANGED <<time, lockKey, lockValue, setAt, setBy, robbed>>

\* Mutant of ReturnNull: the lock value is returned after the last refusal.
ReturnAnyway(c) ==
  /\ stage[c] = "sleep" /\ time >= wakeAt[c]
  /\ tries[c] + 1 >= Retries
  /\ stage' = [stage EXCEPT ![c] = "holding"]
  /\ UNCHANGED <<time, lockKey, lockValue, tries, wakeAt, setAt, setBy, robbed>>

\* After the sleep that follows the last refusal, acquireLock returns null.
ReturnNull(c) ==
  /\ stage[c] = "sleep" /\ time >= wakeAt[c]
  /\ tries[c] + 1 >= Retries
  /\ Return(c)
  /\ UNCHANGED <<time, lockKey, setBy, robbed>>

\* The holder other than c, if any, that loses its key when c deletes it.
Victim(c) == {d \in Caller \ {c} : Live /\ setBy = d /\ stage[d] = "holding"}

\* Mutant of ReleaseLock: DEL without the comparison.
ReleaseBlindly(c) ==
  /\ stage[c] = "holding"
  /\ lockKey' = NoKey
  /\ robbed' = (robbed \cup Victim(c)) \ {c}
  /\ Return(c)
  /\ UNCHANGED <<time, setBy>>

\* The Lua script: compare the value, delete on equality.
ReleaseLock(c) ==
  /\ stage[c] = "holding"
  /\ IF Live /\ lockKey.val = lockValue[c]
     THEN lockKey' = NoKey /\ robbed' = (robbed \cup Victim(c)) \ {c}
     ELSE UNCHANGED lockKey /\ robbed' = robbed \ {c}
  /\ Return(c)
  /\ UNCHANGED <<time, setBy>>

\* The process of the caller dies; the key stays behind.
Crash(c) ==
  /\ stage[c] # "idle"
  /\ Return(c)
  /\ robbed' = robbed \ {c}
  /\ UNCHANGED <<time, lockKey, setBy>>

LockTick ==
  /\ time < MaxLockTime
  /\ time' = time + 1
  /\ UNCHANGED <<lockKey, stage, lockValue, tries, wakeAt, setAt, setBy, robbed>>

CallerStep(c) == \/ CallAcquire(c)
                 \/ SetOk(c)
                 \/ SetRefused(c)
                 \/ Wake(c)
                 \/ ReturnNull(c)
                 \/ ReleaseLock(c)
                 \/ Crash(c)

LockNext == LockTick \/ \E c \in Caller : CallerStep(c)

LockSpec == InitLock /\ [][LockNext]_redisLockVars
-----------------------------------------------------------------------------
(* Properties *)

\* The values the variables range over; no call makes more rounds than retries
\* allows (lock.ts line 12).
LockTypeOK ==
  /\ time \in Nat
  /\ lockKey \in LockKey \cup {NoKey}
  /\ stage \in [Caller -> Stage]
  /\ lockValue \in [Caller -> LockValue]
  /\ tries \in [Caller -> 0 .. Retries - 1]
  /\ wakeAt \in [Caller -> Nat]
  /\ setAt \in [Caller -> Nat]
  /\ setBy \in Caller \cup {NoCaller}
  /\ robbed \subseteq Caller

\* The caller holds the lock and its lease has not run out.
InLease(c) == stage[c] = "holding" /\ time < setAt[c] + TTL

\* While the lease of a holder runs, the key in Redis is the holder's own: no
\* expiry took it away early, and no release but one that made him a victim.
LeaseBacked ==
  \A c \in Caller \ robbed : InLease(c) =>
    /\ Live
    /\ setBy = c
    /\ lockKey.val = lockValue[c]
    /\ lockKey.exp = setAt[c] + TTL

\* Two callers are never inside their leases at once, whatever their pids,
\* unless another caller's release has deleted the key of one of them.
LeaseExclusive ==
  \A c, d \in Caller \ robbed : InLease(c) /\ InLease(d) => c = d

\* "prevents releasing someone else's lock" (lock.ts line 26): a live key only
\* vanishes when the caller that set it returns from its critical section.
\* False of callers that share a pid.
ReleaseOnlyOwn ==
  [][Live /\ lockKey' = NoKey =>
       stage[setBy] = "holding" /\ stage'[setBy] = "idle"]_redisLockVars

\* What does hold of any callers: a release that deletes a key which another
\* has set comes from a caller with that one's pid, and too late: its own lease
\* has ended, or it was robbed of it.
OnlyLateTwinsRob ==
  [][\A c \in Caller :
       Live /\ lockKey' = NoKey /\ stage[c] = "holding" /\ stage'[c] = "idle" =>
         \/ c = setBy
         \/ Pid[c] = Pid[setBy] /\ (~InLease(c) \/ c \in robbed)]_redisLockVars

\* The lock of lock.ts is the lease lock its callers program against: every
\* step of it is an acquire, an owner's release, a release that mistakes the
\* owner for a caller of the same pid, a lapse, a death or nothing.
Lease == INSTANCE LeaseLock WITH
           None <- NoCaller,
           Alike <- {p \in Caller \X Caller : Pid[p[1]] = Pid[p[2]]},
           owner <- IF Live THEN setBy ELSE NoCaller,
           believes <- {c \in Caller : stage[c] = "holding"}

ImplementsLeaseLock == Lease!Spec
=============================================================================
