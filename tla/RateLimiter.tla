---------------------------- MODULE RateLimiter -----------------------------
(***************************************************************************)
(* src/redis/rateLimiter.ts: a sliding window in a sorted set per key.     *)
(*                                                                         *)
(* checkRateLimit stamps the request and sends four commands as one        *)
(* pipeline.  A pipeline is not a transaction: the commands of other       *)
(* servers and other requests run in between, and a delayed pipeline runs  *)
(* after later ones.  Its steps are operators, which Api conjoins with     *)
(* what the routes do next.                                                *)
(***************************************************************************)
EXTENDS Requests

CONSTANTS Key,         \* rate-limit keys, one per limited route
          MaxRequests, \* requests a window may hold
          Window,      \* windowMs, in ticks
          MaxTime      \* bound of the model: last tick

ASSUME WindowAssumption == /\ MaxRequests \in Nat /\ MaxTime \in Nat
                           /\ Window \in Nat \ {0}

VARIABLES
  now,      \* Date.now(); the servers' clocks agree
  hits,     \* members of each sorted set, named by their requests
  deadline, \* when each key expires
  rpc,      \* per request: its next command
  key,      \* key of each request, Nil before the call
  stamp,    \* score of each request
  count,    \* reply of each request's ZCARD
  overtaken \* history: requests that a later stamp, or the key's expiry,
            \* met between their stamp and their last command

limiterVars == <<now, hits, deadline, rpc, key, stamp, count, overtaken>>

Called(k) == {r \in Req : key[r] = k}

Done(k) == {r \in Called(k) : rpc[r] = "done"}

Pending(k) == Called(k) \ Done(k)

InitLimiter ==
  /\ now = 0
  /\ hits = [k \in Key |-> {}]
  /\ deadline = [k \in Key |-> 0]
  /\ rpc = [r \in Req |-> "idle"]
  /\ key = [r \in Req |-> Nil]
  /\ stamp = [r \in Req |-> 0]
  /\ count = [r \in Req |-> 0]
  /\ overtaken = {}

\* A request calls checkRateLimit.
CallLimiter(r, k) ==
  /\ rpc[r] = "idle"
  /\ rpc' = [rpc EXCEPT ![r] = "trim"]
  /\ key' = [key EXCEPT ![r] = k]
  /\ stamp' = [stamp EXCEPT ![r] = now]
  /\ UNCHANGED <<now, hits, deadline, count, overtaken>>

\* Mutant of Trim: nothing older than the window is removed.
TrimNothing(r) ==
  /\ rpc[r] = "trim"
  /\ rpc' = [rpc EXCEPT ![r] = "add"]
  /\ UNCHANGED <<now, hits, deadline, key, stamp, count, overtaken>>

\* ZREMRANGEBYSCORE
Trim(r) ==
  /\ rpc[r] = "trim"
  /\ hits' = [hits EXCEPT ![key[r]] = {x \in @ : stamp[x] > stamp[r] - Window}]
  /\ overtaken' = overtaken \cup {x \in Pending(key[r]) : stamp[x] < stamp[r]}
  /\ rpc' = [rpc EXCEPT ![r] = "add"]
  /\ UNCHANGED <<now, deadline, key, stamp, count>>

\* ZADD; a sorted set that was not there has no time to live.
Add(r) ==
  /\ rpc[r] = "add"
  /\ hits' = [hits EXCEPT ![key[r]] = @ \cup {r}]
  /\ deadline' = IF hits[key[r]] = {} THEN [deadline EXCEPT ![key[r]] = MaxTime + 1]
                 ELSE deadline
  /\ rpc' = [rpc EXCEPT ![r] = "count"]
  /\ UNCHANGED <<now, key, stamp, count, overtaken>>

\* ZCARD
Count(r) ==
  /\ rpc[r] = "count"
  /\ count' = [count EXCEPT ![r] = Cardinality(hits[key[r]])]
  /\ rpc' = [rpc EXCEPT ![r] = "expire"]
  /\ UNCHANGED <<now, hits, deadline, key, stamp, overtaken>>

\* PEXPIRE, which does nothing if there is no key, and the replies arrive.
Expire(r) ==
  /\ rpc[r] = "expire"
  /\ deadline' = IF hits[key[r]] = {} THEN deadline
                 ELSE [deadline EXCEPT ![key[r]] = now + Window]
  /\ rpc' = [rpc EXCEPT ![r] = "done"]
  /\ UNCHANGED <<now, hits, key, stamp, count, overtaken>>

LimiterStep(r) == Trim(r) \/ Add(r) \/ Count(r)

\* A tick; keys expire.
Tick ==
  LET expired == {k \in Key : hits[k] # {} /\ deadline[k] <= now + 1} IN
  /\ now < MaxTime
  /\ now' = now + 1
  /\ hits' = [k \in Key |-> IF k \in expired THEN {} ELSE hits[k]]
  /\ overtaken' = overtaken \cup UNION {Pending(k) : k \in expired}
  /\ UNCHANGED <<deadline, rpc, key, stamp, count>>

\* Mutant of Accepts: one too many.
AcceptsOneMore(r) == count[r] <= MaxRequests + 1

\* Otherwise RateLimitError is thrown.
Accepts(r) == count[r] <= MaxRequests
-----------------------------------------------------------------------------
LimiterTypeOK ==
  /\ now \in 0 .. MaxTime
  /\ hits \in [Key -> SUBSET Req]
  /\ deadline \in [Key -> 0 .. MaxTime + Window + 1]
  /\ rpc \in [Req -> {"idle", "trim", "add", "count", "expire", "done"}]
  /\ key \in [Req -> Key \cup {Nil}]
  /\ stamp \in [Req -> 0 .. MaxTime]
  /\ count \in [Req -> 0 .. Cardinality(Req)]
  /\ overtaken \subseteq Req

\* "Sliding window": no window of the given length has more accepted requests
\* than allowed, and one is refused only if that many others were made in the
\* window before it, accepted or not.  Requests overtaken by a later one of
\* the same key or by its expiry may escape the first and cause the second.
LimitIsExact ==
  \A k \in Key :
    /\ \A t \in 0 .. MaxTime :
         Cardinality({r \in Done(k) \ overtaken :
                        Accepts(r) /\ stamp[r] \in t - Window + 1 .. t})
           <= MaxRequests
    /\ \A r \in Done(k) : ~Accepts(r) =>
         Cardinality({x \in (Done(k) \cup Pending(k)) \ {r} :
                        stamp[x] > stamp[r] - Window \/ x \in overtaken})
           >= MaxRequests
=============================================================================
