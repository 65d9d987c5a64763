-------------------------------- MODULE Api ---------------------------------
(***************************************************************************)
(* The three routes of src/api/routes.ts that change state, in all servers *)
(* of the service: signup and login behind their rate limits, and refresh. *)
(* Each request runs one of them once.  The requests of a limited route    *)
(* come from one address and so share a key.                               *)
(***************************************************************************)
EXTENDS RateLimiter, Accounts

ASSUME RouteAssumption == Key = {"signup", "login"} /\ Nil \notin Key

apiVars == <<limiterVars, accountVars>>

InitApi == InitLimiter /\ InitAccounts

\* POST /auth/signup and /auth/login: the body is valid; checkRateLimit is
\* awaited.
Limited(r) ==
  \E k \in Key, n \in Name :
    /\ Goto(r, "none", "limit")
    /\ name' = [name EXCEPT ![r] = n]
    /\ CallLimiter(r, k)
    /\ UNCHANGED <<given, tables, doubled, faults>>

\* The pipeline has returned: the service is called, or the error handler
\* answers.
Admit(r) ==
  /\ Expire(r)
  /\ Goto(r, "limit", IF ~Accepts(r) THEN "limited"
                      ELSE IF key[r] = "signup" THEN "hash" ELSE "login")
  /\ UNCHANGED <<name, given, tables, doubled, faults>>

\* POST /auth/refresh, which is not limited, with a token that some answer
\* contained.
Refresh(r) ==
  \E x \in issued :
    /\ phase[x] = "ok"
    /\ Goto(r, "none", "refresh")
    /\ name' = [name EXCEPT ![r] = name[x]]
    /\ given' = [given EXCEPT ![r] = x]
    /\ UNCHANGED <<limiterVars, tables, doubled, faults>>

ApiNext ==
  \/ \E r \in Req :
       \/ Limited(r) \/ Admit(r) \/ Refresh(r)
       \/ LimiterStep(r) /\ UNCHANGED accountVars
       \/ Handler(r) /\ UNCHANGED limiterVars
  \/ Tick /\ UNCHANGED accountVars

ApiSpec == InitApi /\ [][ApiNext]_apiVars
-----------------------------------------------------------------------------
ApiTypeOK == LimiterTypeOK /\ AccountsTypeOK

\* "Atomic signup" (README.md:87): an account has its leaderboard row, whatever
\* fails; of the requests that sign up for a name at most one is told it has
\* the account; who is told it exists will find it, and who is told it is his
\* has a token too.
SignupIsAtomic ==
  LET signups == {r \in Req : key[r] = "signup"} IN
  /\ users = board
  /\ \A r, x \in signups :
       phase[r] = "ok" /\ phase[x] = "ok" /\ name[r] = name[x] => r = x
  /\ \A r \in signups : phase[r] \in {"ok", "conflict"} => name[r] \in users
  /\ \A r \in signups : phase[r] = "ok" => r \in issued
=============================================================================
