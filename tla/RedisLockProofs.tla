--------------------------- MODULE RedisLockProofs ---------------------------
(***************************************************************************)
(* Proofs about RedisLock for any set of callers, running under any pids,  *)
(* any lease length, any number of retries and any clock bound.            *)
(***************************************************************************)
EXTENDS RedisLock, TLAPS

USE NoCallerAssumption, PidAssumption, TimeAssumption, NoKeyAssumption

\* Every state of the lock has the types of TypeOK.
THEOREM TypeCorrect == LockSpec => []LockTypeOK
<1>1. InitLock => LockTypeOK
  BY DEF InitLock, LockTypeOK, Stage, LockValue
<1>2. LockTypeOK /\ [LockNext]_redisLockVars => LockTypeOK'
  <2> SUFFICES ASSUME LockTypeOK, [LockNext]_redisLockVars PROVE LockTypeOK'
    OBVIOUS
  <2> USE DEF LockTypeOK, Stage, LockValue
  <2>1. CASE LockTick
    BY <2>1 DEF LockTick
  <2>2. ASSUME NEW c \in Caller, CallerStep(c) PROVE LockTypeOK'
    <3>1. CASE CallAcquire(c)
      BY <3>1 DEF CallAcquire
    <3>2. CASE SetOk(c)
      BY <3>2 DEF SetOk, LockKey
    <3>3. CASE SetRefused(c)
      BY <3>3 DEF SetRefused
    <3>4. CASE Wake(c)
      BY <3>4 DEF Wake
    <3>5. CASE ReturnNull(c)
      BY <3>5 DEF ReturnNull, Return
    <3>6. CASE ReleaseLock(c)
      BY <3>6 DEF ReleaseLock, Return, Victim
    <3>7. CASE Crash(c)
      BY <3>7 DEF Crash, Return
    <3> QED BY <2>2, <3>1, <3>2, <3>3, <3>4, <3>5, <3>6, <3>7 DEF CallerStep
  <2>3. CASE UNCHANGED redisLockVars
    BY <2>3 DEF redisLockVars
  <2> QED BY <2>1, <2>2, <2>3 DEF LockNext
<1> QED BY <1>1, <1>2, PTL DEF LockSpec

-----------------------------------------------------------------------------
(* The inductive invariant.  LeaseBacked alone is not inductive: who deletes  *)
(* a key must be seen to be its setter, or to be none of those that are in    *)
(* their leases, which takes that every value carries the pid of its caller.  *)

ValueOwn == \A c \in Caller : lockValue[c][1] = Pid[c]

KeyOwn == lockKey # NoKey => setBy \in Caller /\ lockKey.val[1] = Pid[setBy]

\* A key set by a caller that still holds carries that caller's present value.
HolderKey == \A c \in Caller :
  stage[c] = "holding" /\ lockKey # NoKey /\ setBy = c => lockKey.val = lockValue[c]

IInv == LockTypeOK /\ ValueOwn /\ KeyOwn /\ HolderKey /\ LeaseBacked

LEMMA InitIInv == InitLock => IInv
BY DEF InitLock, IInv, LockTypeOK, Stage, LockValue, ValueOwn, KeyOwn, HolderKey,
   LeaseBacked, InLease

LEMMA NextIInv ==
  ASSUME IInv, [LockNext]_redisLockVars
  PROVE  ValueOwn' /\ KeyOwn' /\ HolderKey' /\ LeaseBacked'
<1> USE DEF IInv, LockTypeOK, ValueOwn, KeyOwn, HolderKey, LeaseBacked, InLease, LockValue
<1>1. CASE LockTick
  BY <1>1 DEF LockTick, Live, LockKey
<1>2. ASSUME NEW c \in Caller, CallerStep(c)
      PROVE  ValueOwn' /\ KeyOwn' /\ HolderKey' /\ LeaseBacked'
  <2>1. CASE CallAcquire(c)
    BY <2>1 DEF CallAcquire, Live, Stage
  <2>2. CASE SetOk(c)
    <3>1. ValueOwn' /\ KeyOwn' /\ HolderKey'
      BY <2>2 DEF SetOk
    <3>2. LeaseBacked'
      BY <2>2 DEF SetOk, Live, LockKey, Stage
    <3> QED BY <3>1, <3>2
  <2>3. CASE SetRefused(c)
    BY <2>3 DEF SetRefused, Live, Stage
  <2>4. CASE Wake(c)
    BY <2>4 DEF Wake, Live, Stage
  <2>5. CASE ReturnNull(c)
    BY <2>5 DEF ReturnNull, Return, Live, Stage
  <2>6. CASE ReleaseLock(c)
    <3>1. CASE Live /\ lockKey.val = lockValue[c]
      <4>1. ASSUME NEW d \in Caller \ robbed', InLease(d)' PROVE FALSE
        <5>1. d # c /\ InLease(d)
          BY <2>6, <4>1 DEF ReleaseLock, Return, Stage
        <5>2. d \notin robbed
          BY <2>6, <3>1, <4>1, <5>1 DEF ReleaseLock
        <5>3. setBy = d /\ d \in Victim(c)
          BY <3>1, <5>1, <5>2 DEF Victim
        <5> QED BY <2>6, <3>1, <4>1, <5>1, <5>3 DEF ReleaseLock
      <4>2. ValueOwn' /\ KeyOwn' /\ HolderKey'
        BY <2>6, <3>1 DEF ReleaseLock, Return, Stage
      <4> QED BY <4>1, <4>2
    <3>2. CASE ~(Live /\ lockKey.val = lockValue[c])
      BY <2>6, <3>2 DEF ReleaseLock, Return, Live, Stage
    <3> QED BY <3>1, <3>2
  <2>7. CASE Crash(c)
    BY <2>7 DEF Crash, Return, Live, Stage
  <2> QED BY <1>2, <2>1, <2>2, <2>3, <2>4, <2>5, <2>6, <2>7 DEF CallerStep
<1>3. CASE UNCHANGED redisLockVars
  BY <1>3 DEF redisLockVars, Live
<1> QED BY <1>1, <1>2, <1>3 DEF LockNext

LEMMA IInvInvariant == LockSpec => []IInv
<1>1. InitLock => IInv
  BY InitIInv
<1>2. IInv /\ LockTypeOK' /\ [LockNext]_redisLockVars => IInv'
  BY NextIInv DEF IInv
<1>3. LockSpec => []LockTypeOK
  BY TypeCorrect
<1> QED BY <1>1, <1>2, <1>3, PTL DEF LockSpec

\* The key in Redis is the holder's own for as long as the holder's lease runs,
\* whatever delays the commands meet, unless a twin's release has deleted it.
THEOREM LeaseIsBacked == LockSpec => []LeaseBacked
<1>1. IInv => LeaseBacked
  BY DEF IInv
<1> QED BY <1>1, IInvInvariant, PTL

\* Two callers that were not robbed are never inside their leases at once.
THEOREM LeasesAreExclusive == LockSpec => []LeaseExclusive
<1>1. IInv => LeaseExclusive
  BY DEF IInv, LeaseBacked, LeaseExclusive
<1> QED BY <1>1, IInvInvariant, PTL

\* releaseLock removes a live key of another caller only for a twin whose own
\* lease has ended or was taken.
THEOREM OnlyTwinsRob == LockSpec => OnlyLateTwinsRob
<1>1. ASSUME IInv, [LockNext]_redisLockVars
      PROVE  [\A c \in Caller :
                Live /\ lockKey' = NoKey /\ stage[c] = "holding" /\ stage'[c] = "idle" =>
                  \/ c = setBy
                  \/ Pid[c] = Pid[setBy] /\ (~InLease(c) \/ c \in robbed)]_redisLockVars
  <2> SUFFICES ASSUME NEW c \in Caller, Live, lockKey' = NoKey,
                      stage[c] = "holding", stage'[c] = "idle"
               PROVE  \/ c = setBy
                      \/ Pid[c] = Pid[setBy] /\ (~InLease(c) \/ c \in robbed)
    OBVIOUS
  <2> USE DEF IInv, LockTypeOK
  <2>1. lockKey # NoKey
    BY DEF Live
  <2>2. PICK d \in Caller : ReleaseLock(d)
    <3>1. ASSUME NEW d \in Caller, SetOk(d) PROVE FALSE
      BY <3>1 DEF SetOk
    <3> QED
      BY <1>1, <2>1, <3>1 DEF LockNext, redisLockVars, LockTick, CallerStep, CallAcquire,
                        SetRefused, Wake, ReturnNull, Crash
  <2>3. c = d
    BY <1>1, <2>2 DEF ReleaseLock, Return
  <2>4. lockKey.val = lockValue[c]
    BY <2>1, <2>2, <2>3 DEF ReleaseLock
  <2>5. Pid[c] = Pid[setBy]
    BY <1>1, <2>1, <2>4 DEF ValueOwn, KeyOwn
  <2>6. InLease(c) /\ c \notin robbed => c = setBy
    BY <1>1 DEF LeaseBacked
  <2> QED BY <2>5, <2>6
<1> QED BY <1>1, IInvInvariant, PTL DEF LockSpec, OnlyLateTwinsRob

-----------------------------------------------------------------------------
(* Refinement: RedisLock implements LeaseLock.                               *)

Holders == {c \in Caller : stage[c] = "holding"}
Owner == IF Live THEN setBy ELSE NoCaller

LEMMA StepImplementsLeaseStep ==
  ASSUME IInv, [LockNext]_redisLockVars
  PROVE  [Lease!Next]_Lease!lockVars
<1> USE DEF IInv, LockTypeOK, KeyOwn, Lease!lockVars
<1>1. CASE LockTick
  <2>1. Holders' = Holders
    BY <1>1 DEF LockTick, Holders
  <2>2. CASE Live /\ ~Live'
    <3>1. Lease!Lapse
      BY <1>1, <2>1, <2>2 DEF LockTick, Live, Lease!Lapse, Holders
    <3> QED BY <3>1 DEF Lease!Next
  <2>3. CASE Live' <=> Live
    BY <1>1, <2>1, <2>3 DEF LockTick, Holders
  <2>4. Live' => Live
    BY <1>1 DEF LockTick, Live, LockKey
  <2> QED BY <2>2, <2>3, <2>4
<1>2. ASSUME NEW c \in Caller, CallerStep(c)
      PROVE  [Lease!Next]_Lease!lockVars
  <2>1. CASE SetOk(c)
    <3>1. Live' /\ setBy' = c
      BY <2>1 DEF SetOk, Live, LockKey
    <3>2. Holders' = Holders \cup {c} /\ c \notin Holders
      BY <2>1 DEF SetOk, Holders
    <3>3. Lease!Acquire(c)
      BY <2>1, <3>1, <3>2 DEF SetOk, Lease!Acquire, Holders
    <3> QED BY <3>3 DEF Lease!Next
  <2>2. CASE ReleaseLock(c)
    <3>1. Holders' = Holders \ {c} /\ c \in Holders
      BY <2>2 DEF ReleaseLock, Return, Holders
    <3>2. CASE Live /\ lockKey.val = lockValue[c]
      <4>1. Owner = setBy /\ Owner' = NoCaller
        BY <2>2, <3>2 DEF ReleaseLock, Return, Owner, Live
      <4>2. setBy \in Caller /\ Pid[c] = Pid[setBy]
        BY <3>2 DEF ValueOwn, Live
      <4>3. <<c, setBy>> \in {p \in Caller \X Caller : Pid[p[1]] = Pid[p[2]]}
        BY <4>2
      <4>4. Lease!Mistake(c)
        BY <3>1, <4>1, <4>3 DEF Lease!Mistake, Holders, Owner
      <4> QED BY <4>4 DEF Lease!Next
    <3>3. CASE ~(Live /\ lockKey.val = lockValue[c])
      <4>1. Owner' = Owner
        BY <2>2, <3>3 DEF ReleaseLock, Return, Owner, Live
      <4>2. Owner # c
        BY <2>2, <3>3 DEF ReleaseLock, Owner, HolderKey, Live
      <4>3. Lease!Release(c)
        BY <3>1, <4>1, <4>2 DEF Lease!Release, Holders, Owner
      <4> QED BY <4>3 DEF Lease!Next
    <3> QED BY <3>2, <3>3
  <2>3. CASE Crash(c)
    <3>1. Owner' = Owner
      BY <2>3 DEF Crash, Owner, Live
    <3>2. CASE c \in Holders
      <4>1. Holders' = Holders \ {c}
        BY <2>3 DEF Crash, Return, Holders
      <4>2. Lease!Die(c)
        BY <3>1, <3>2, <4>1 DEF Lease!Die, Holders, Owner
      <4> QED BY <4>2 DEF Lease!Next
    <3>3. CASE c \notin Holders
      <4>1. Holders' = Holders
        BY <2>3, <3>3 DEF Crash, Return, Holders
      <4> QED BY <3>1, <4>1 DEF Holders, Owner
    <3> QED BY <3>2, <3>3
  <2>4. CASE CallAcquire(c) \/ SetRefused(c) \/ Wake(c) \/ ReturnNull(c)
    <3>1. Holders' = Holders
      BY <2>4 DEF CallAcquire, SetRefused, Wake, ReturnNull, Return, Holders
    <3>2. Owner' = Owner
      BY <2>4 DEF CallAcquire, SetRefused, Wake, ReturnNull, Owner, Live
    <3> QED BY <3>1, <3>2 DEF Holders, Owner
  <2> QED BY <1>2, <2>1, <2>2, <2>3, <2>4 DEF CallerStep
<1>3. CASE UNCHANGED redisLockVars
  BY <1>3 DEF redisLockVars, Live
<1> QED BY <1>1, <1>2, <1>3 DEF LockNext

\* lock.ts implements the lease lock, in which only callers of one pid can be
\* mistaken for each other.
THEOREM RedisLockImplementsLeaseLock == LockSpec => ImplementsLeaseLock
<1>1. InitLock => Lease!Init
  BY DEF InitLock, Lease!Init, Live
<1>2. IInv /\ [LockNext]_redisLockVars => [Lease!Next]_Lease!lockVars
  BY StepImplementsLeaseStep
<1> QED BY <1>1, <1>2, IInvInvariant, PTL DEF LockSpec, Lease!Spec, ImplementsLeaseLock
=============================================================================
