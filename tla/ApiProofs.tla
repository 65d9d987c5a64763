------------------------------ MODULE ApiProofs -----------------------------
(***************************************************************************)
(* Proofs about Api, for any requests, names, limits and faults.           *)
(***************************************************************************)
EXTENDS Api, FiniteSetTheorems, TLAPS

Place == Answer \cup {"none", "limit", "hash", "insert", "board", "commit",
                      "token", "login", "compare", "refresh", "user", "revoke"}

\* Where a request to sign up can be.
SignupPlace == {"limit", "hash", "insert", "board", "commit", "token",
                "ok", "conflict", "error", "limited"}

\* A request to sign up that has, or is about to have, the account.
Claims(r) == key[r] = "signup" /\ phase[r] \in {"board", "commit", "token", "ok"}

Typed ==
  /\ phase \in [Req -> Place]
  /\ key \in [Req -> Key \cup {Nil}]
  /\ name \in [Req -> Name \cup {Nil}]
  /\ open \subseteq Req /\ issued \subseteq Req

\* The rows agree; a request whose row is inserted and not committed holds an
\* open transaction; one past the commit has its row; no two claim a name.
Rows ==
  /\ users = board
  /\ \A r \in Req : phase[r] \in {"board", "commit"} => r \in open
  /\ \A r \in Req : phase[r] = "ok" => r \in issued
  /\ \A r \in Req : key[r] = "signup" =>
       /\ phase[r] \in SignupPlace
       /\ phase[r] \in {"token", "ok", "conflict"} => name[r] \in users
  /\ \A r, x \in Req : Claims(r) /\ Claims(x) /\ name[r] = name[x] => r = x

IInv == Typed /\ Rows

LEMMA InitIInv == InitApi => IInv
BY RouteAssumption
   DEF InitApi, InitLimiter, InitAccounts, IInv, Typed, Place, Answer, Rows, Claims, SignupPlace

\* A request gets a route and a name when it is sent.
LEMMA CallPreserves ==
  ASSUME IInv, NEW r \in Req, Limited(r) \/ Refresh(r)
  PROVE  IInv'
<1>1. CASE Limited(r)
  <2>1. PICK k \in Key, n \in Name :
          /\ phase[r] = "none" /\ phase' = [phase EXCEPT ![r] = "limit"]
          /\ name' = [name EXCEPT ![r] = n] /\ key' = [key EXCEPT ![r] = k]
          /\ UNCHANGED <<tables, doubled>>
    BY <1>1 DEF Limited, Goto, CallLimiter
  <2>2. Typed'
    BY <2>1 DEF IInv, Typed, Place, Answer, tables
  <2>3. \A x \in Req : /\ phase'[x] = IF x = r THEN "limit" ELSE phase[x]
                       /\ x # r => key'[x] = key[x] /\ name'[x] = name[x]
    BY <2>1 DEF IInv, Typed, Place, Answer
  <2> QED
    BY <2>1, <2>2, <2>3 DEF IInv, Rows, Claims, SignupPlace, tables
<1>2. CASE Refresh(r)
  <2>1. /\ phase[r] = "none" /\ phase' = [phase EXCEPT ![r] = "refresh"]
        /\ \E n \in Name \cup {Nil} : name' = [name EXCEPT ![r] = n]
        /\ UNCHANGED <<key, tables, doubled>>
    BY <1>2 DEF Refresh, Goto, limiterVars, IInv, Typed, tables
  <2>2. Typed'
    BY <2>1 DEF IInv, Typed, Place, Answer, tables
  <2>3. \A x \in Req : /\ phase'[x] = IF x = r THEN "refresh" ELSE phase[x]
                       /\ x # r => name'[x] = name[x]
    BY <2>1 DEF IInv, Typed, Place, Answer
  <2>4. key[r] # "signup"
    BY <2>1 DEF IInv, Rows, SignupPlace
  <2> QED
    BY <2>1, <2>2, <2>3, <2>4 DEF IInv, Rows, Claims, SignupPlace, tables
<1> QED
  BY <1>1, <1>2

\* The answer of the limiter lets only sign-ups on to signup.
LEMMA AdmitPreserves ==
  ASSUME IInv, NEW r \in Req, Admit(r)
  PROVE  IInv'
<1>1. PICK to \in {"limited", "hash", "login"} :
        /\ phase[r] = "limit" /\ phase' = [phase EXCEPT ![r] = to]
        /\ key[r] = "signup" => to \in {"limited", "hash"}
        /\ UNCHANGED <<key, name, tables>>
  BY DEF Admit, Goto, Expire
<1>2. \A x \in Req : phase'[x] = IF x = r THEN to ELSE phase[x]
  BY <1>1 DEF IInv, Typed, Place, Answer
<1>3. Typed'
  BY <1>1 DEF IInv, Typed, Place, Answer, tables
<1> QED
  BY <1>1, <1>2, <1>3 DEF IInv, Rows, Claims, SignupPlace, tables

\* A step of a request that changes no table and leads to a place of little
\* interest.
LEMMA PlainPreserves ==
  ASSUME IInv, NEW r \in Req, NEW from, NEW to, Goto(r, from, to),
         UNCHANGED <<key, name, tables>>,
         to \in {"insert", "commit", "compare", "token", "unauthorized",
                 "user", "revoke"},
         from \in {"hash", "board", "login", "compare", "refresh", "user"},
         from = "hash" <=> to = "insert", from = "board" <=> to = "commit"
  PROVE  IInv'
<1>1. \A x \in Req : phase'[x] = IF x = r THEN to ELSE phase[x]
  BY DEF IInv, Typed, Place, Answer, Goto
<1>2. phase[r] = from
  BY DEF Goto
<1>3. Typed'
  BY DEF IInv, Typed, Place, Answer, tables, Goto
<1> QED
  BY <1>1, <1>2, <1>3 DEF IInv, Rows, Claims, SignupPlace, tables

\* A name is inserted only when nobody claims it: a claimant's row is committed,
\* or its transaction is open and the INSERT waits.
LEMMA InsertPreserves ==
  ASSUME IInv, NEW r \in Req, InsertUser(r), UNCHANGED limiterVars
  PROVE  IInv'
<1>1. CASE name[r] \in users
  <2>1. /\ phase[r] = "insert" /\ phase' = [phase EXCEPT ![r] = "conflict"]
        /\ UNCHANGED <<key, name, tables>>
    BY <1>1 DEF InsertUser, Goto, tables, limiterVars
  <2>2. \A x \in Req : phase'[x] = IF x = r THEN "conflict" ELSE phase[x]
    BY <2>1 DEF IInv, Typed, Place, Answer
  <2>3. Typed'
    BY <2>1 DEF IInv, Typed, Place, Answer, tables
  <2> QED
    BY <1>1, <2>1, <2>2, <2>3 DEF IInv, Rows, Claims, SignupPlace, tables
<1>2. CASE name[r] \notin users
  <2>1. /\ phase[r] = "insert" /\ phase' = [phase EXCEPT ![r] = "board"]
        /\ open' = open \cup {r}
        /\ \A x \in open : name[x] # name[r]
        /\ UNCHANGED <<key, name, users, board, issued>>
    BY <1>2 DEF InsertUser, Goto, limiterVars
  <2>2. \A x \in Req : phase'[x] = IF x = r THEN "board" ELSE phase[x]
    BY <2>1 DEF IInv, Typed, Place, Answer
  <2>3. Typed'
    BY <2>1 DEF IInv, Typed, Place, Answer
  <2>4. \A x \in Req : Claims(x) => name[x] # name[r]
    BY <1>2, <2>1 DEF IInv, Rows, Claims
  <2> QED
    BY <2>1, <2>2, <2>3, <2>4 DEF IInv, Rows, Claims, SignupPlace
<1> QED
  BY <1>1, <1>2

LEMMA CommitPreserves ==
  ASSUME IInv, NEW r \in Req, Commit(r), UNCHANGED limiterVars
  PROVE  IInv'
<1>1. /\ phase[r] = "commit" /\ phase' = [phase EXCEPT ![r] = "token"]
      /\ open' = open \ {r}
      /\ users' = users \cup {name[r]} /\ board' = board \cup {name[r]}
      /\ UNCHANGED <<key, name, issued>>
  BY DEF Commit, Goto, limiterVars
<1>2. \A x \in Req : phase'[x] = IF x = r THEN "token" ELSE phase[x]
  BY <1>1 DEF IInv, Typed, Place, Answer
<1>3. Typed'
  BY <1>1 DEF IInv, Typed, Place, Answer
<1> QED
  BY <1>1, <1>2, <1>3 DEF IInv, Rows, Claims, SignupPlace

LEMMA TokenPreserves ==
  ASSUME IInv, NEW r \in Req, InsertToken(r), UNCHANGED limiterVars
  PROVE  IInv'
<1>1. /\ phase[r] = "token" /\ phase' = [phase EXCEPT ![r] = "ok"]
      /\ issued' = issued \cup {r}
      /\ UNCHANGED <<key, name, users, board, open>>
  BY DEF InsertToken, Goto, limiterVars
<1>2. \A x \in Req : phase'[x] = IF x = r THEN "ok" ELSE phase[x]
  BY <1>1 DEF IInv, Typed, Place, Answer
<1>3. Typed'
  BY <1>1 DEF IInv, Typed, Place, Answer
<1> QED
  BY <1>1, <1>2, <1>3 DEF IInv, Rows, Claims, SignupPlace

LEMMA RevokePreserves ==
  ASSUME IInv, NEW r \in Req, Revoke(r), UNCHANGED limiterVars
  PROVE  IInv'
<1>1. /\ phase[r] = "revoke" /\ phase' = [phase EXCEPT ![r] = "token"]
      /\ UNCHANGED <<key, name, users, board, open, issued>>
  BY DEF Revoke, Goto, limiterVars
<1>2. \A x \in Req : phase'[x] = IF x = r THEN "token" ELSE phase[x]
  BY <1>1 DEF IInv, Typed, Place, Answer
<1>3. Typed'
  BY <1>1 DEF IInv, Typed, Place, Answer
<1> QED
  BY <1>1, <1>2, <1>3 DEF IInv, Rows, Claims, SignupPlace

\* A failure takes back what is not committed, or commits all of it.
LEMMA FailurePreserves ==
  ASSUME IInv, NEW r \in Req, Fails(r), UNCHANGED limiterVars
  PROVE  IInv'
<1>1. /\ phase[r] \notin {"none", "limit"} \cup Answer
      /\ phase' = [phase EXCEPT ![r] = "error"]
      /\ open' = open \ {r}
      /\ users' = board' /\ users \subseteq users'
      /\ UNCHANGED <<key, name, issued>>
  BY DEF Fails, Goto, limiterVars, Answer, IInv, Rows
<1>2. \A x \in Req : phase'[x] = IF x = r THEN "error" ELSE phase[x]
  BY <1>1 DEF IInv, Typed, Place, Answer
<1>3. Typed'
  BY <1>1 DEF IInv, Typed, Place, Answer
<1> QED
  BY <1>1, <1>2, <1>3 DEF IInv, Rows, Claims, SignupPlace

LEMMA HandlerPreserves ==
  ASSUME IInv, NEW r \in Req, Handler(r), UNCHANGED limiterVars
  PROVE  IInv'
<1>1. ASSUME Hash(r) PROVE IInv'
  BY <1>1, PlainPreserves DEF Hash, limiterVars
<1>2. ASSUME InsertBoard(r) PROVE IInv'
  BY <1>2, PlainPreserves DEF InsertBoard, limiterVars
<1>3. ASSUME SelectUser(r) PROVE IInv'
  BY <1>3, PlainPreserves DEF SelectUser, limiterVars
<1>4. ASSUME Compare(r) PROVE IInv'
  BY <1>4, PlainPreserves DEF Compare, limiterVars
<1>5. ASSUME SelectToken(r) PROVE IInv'
  BY <1>5, PlainPreserves DEF SelectToken, limiterVars
<1>6. ASSUME SelectOwner(r) PROVE IInv'
  BY <1>6, PlainPreserves DEF SelectOwner, limiterVars
<1> QED
  BY <1>1, <1>2, <1>3, <1>4, <1>5, <1>6, InsertPreserves, CommitPreserves,
     TokenPreserves, RevokePreserves, FailurePreserves DEF Handler

\* Steps of the limiter and the clock are none of the accounts' business.
LEMMA LimiterPreserves ==
  ASSUME IInv, UNCHANGED accountVars, UNCHANGED key
  PROVE  IInv'
BY DEF accountVars, tables, IInv, Typed, Place, Answer, Rows, Claims, SignupPlace

LEMMA StepPreserves == IInv /\ [ApiNext]_apiVars => IInv'
<1> SUFFICES ASSUME IInv, [ApiNext]_apiVars PROVE IInv'
  OBVIOUS
<1>1. ASSUME NEW r \in Req, Limited(r) \/ Refresh(r) PROVE IInv'
  BY <1>1, CallPreserves
<1>2. ASSUME NEW r \in Req, Admit(r) PROVE IInv'
  BY <1>2, AdmitPreserves
<1>3. ASSUME NEW r \in Req, LimiterStep(r), UNCHANGED accountVars PROVE IInv'
  BY <1>3, LimiterPreserves DEF LimiterStep, Trim, Add, Count
<1>4. ASSUME NEW r \in Req, Handler(r), UNCHANGED limiterVars PROVE IInv'
  BY <1>4, HandlerPreserves
<1>5. ASSUME Tick, UNCHANGED accountVars PROVE IInv'
  BY <1>5, LimiterPreserves DEF Tick
<1>6. ASSUME UNCHANGED apiVars PROVE IInv'
  BY <1>6, LimiterPreserves DEF apiVars, limiterVars
<1> QED
  BY <1>1, <1>2, <1>3, <1>4, <1>5, <1>6 DEF ApiNext

\* signup is atomic in every behaviour: an account and its leaderboard row come
\* together, and a name has at most one request that is told it has it.
THEOREM SignupAtomic == ApiSpec => []SignupIsAtomic
<1>1. IInv => SignupIsAtomic
  BY DEF IInv, Rows, Claims, SignupIsAtomic
<1> QED
  BY <1>1, InitIInv, StepPreserves, PTL DEF ApiSpec
-----------------------------------------------------------------------------
(* The rotation of tokens *)

RefreshPlace == {"refresh", "user", "revoke", "token", "ok", "unauthorized", "error"}

\* Who has a token, who was given one, and who has revoked one.
Linked ==
  /\ name \in [Req -> Name \cup {Nil}] /\ given \in [Req -> Req \cup {Nil}]
  /\ phase \in [Req -> Place]
  /\ issued = {r \in Req : phase[r] = "ok"}
  /\ revoked \subseteq issued
  /\ doubled \subseteq {r \in Req : phase[r] \in {"token", "ok", "error"}}
  /\ \A r \in Req : given[r] # Nil =>
       /\ given[r] \in issued /\ name[given[r]] = name[r]
       /\ phase[r] \in RefreshPlace
  /\ \A r \in Req : phase[r] \in {"refresh", "user", "revoke"} => given[r] # Nil

\* Tokens of an account that are good, and those that a refresh which has
\* revoked its old one is about to add.
Good(n) == {r \in Req : /\ name[r] = n /\ r \notin revoked
                        /\ r \in issued \/ (phase[r] = "token" /\ given[r] # Nil)}

Roots(n) == {r \in Req : r \in issued /\ name[r] = n /\ given[r] = Nil}

Doubled(n) == {r \in Req : r \in doubled /\ name[r] = n}

Balanced == \A n \in Name :
  Cardinality(Good(n)) <= Cardinality(Roots(n)) + Cardinality(Doubled(n))

LEMMA FiniteSets ==
  ASSUME NEW n
  PROVE  /\ IsFiniteSet(Good(n)) /\ IsFiniteSet(Roots(n)) /\ IsFiniteSet(Doubled(n))
         /\ Cardinality(Good(n)) \in Nat /\ Cardinality(Roots(n)) \in Nat
         /\ Cardinality(Doubled(n)) \in Nat
<1>1. Good(n) \subseteq Req /\ Roots(n) \subseteq Req /\ Doubled(n) \subseteq Req
  BY DEF Good, Roots, Doubled
<1> QED
  BY <1>1, RequestsAssumption, FS_Subset, FS_CardinalityType

\* What does not add a good token keeps the balance.
LEMMA BalanceKept ==
  ASSUME Balanced,
         \A n \in Name : /\ Good(n)' \subseteq Good(n)
                         /\ Roots(n)' = Roots(n) /\ Doubled(n)' = Doubled(n)
  PROVE  Balanced'
<1> SUFFICES ASSUME NEW n \in Name
             PROVE  Cardinality(Good(n)') <= Cardinality(Roots(n)') + Cardinality(Doubled(n)')
  BY DEF Balanced
<1>1. IsFiniteSet(Good(n)') /\ Cardinality(Good(n)') <= Cardinality(Good(n))
  BY FiniteSets, FS_Subset
<1>2. Cardinality(Good(n)') \in Nat
  BY <1>1, FS_CardinalityType
<1> QED
  BY <1>1, <1>2, FiniteSets DEF Balanced

LEMMA InitBalance == InitApi => Linked /\ Balanced
<1> SUFFICES ASSUME InitApi PROVE Linked /\ Balanced
  OBVIOUS
<1>1. Linked
  BY DEF InitApi, InitAccounts, Linked, Place, Answer
<1>2. ASSUME NEW n \in Name PROVE Good(n) = {} /\ Roots(n) = {} /\ Doubled(n) = {}
  BY DEF InitApi, InitAccounts, Good, Roots, Doubled
<1>3. Balanced
  BY <1>2, FS_EmptySet DEF Balanced
<1> QED
  BY <1>1, <1>3

\* A request that is sent has no token and has revoked none, so its new name
\* changes nobody's.
LEMMA CallBalance ==
  ASSUME Linked, Balanced, NEW r \in Req, Limited(r) \/ Refresh(r)
  PROVE  Linked' /\ Balanced'
<1>1. /\ phase[r] = "none"
      /\ \E to \in {"limit", "refresh"} : phase' = [phase EXCEPT ![r] = to]
      /\ UNCHANGED <<issued, revoked, doubled>>
  BY DEF Limited, Refresh, Goto, tables
<1>2. PICK called \in Name \cup {Nil} : name' = [name EXCEPT ![r] = called]
  BY DEF Limited, Refresh, Linked
<1>3. Linked'
  <2>1. CASE Limited(r)
    <3>1. phase' = [phase EXCEPT ![r] = "limit"] /\ UNCHANGED given
      BY <2>1 DEF Limited, Goto
    <3> QED
      BY <1>1, <1>2, <3>1 DEF Linked, Place, Answer, RefreshPlace
  <2>2. CASE Refresh(r)
    <3>1. PICK x \in issued : /\ phase' = [phase EXCEPT ![r] = "refresh"]
                              /\ name' = [name EXCEPT ![r] = name[x]]
                              /\ given' = [given EXCEPT ![r] = x]
      BY <2>2 DEF Refresh, Goto
    <3> QED
      BY <1>1, <3>1, RequestsAssumption DEF Linked, Place, Answer, RefreshPlace
  <2> QED
    BY <2>1, <2>2
<1>4. \A x \in Req \ {r} : phase'[x] = phase[x] /\ name'[x] = name[x] /\ given'[x] = given[x]
  <2>1. \A x \in Req \ {r} : phase'[x] = phase[x] /\ name'[x] = name[x]
    BY <1>1, <1>2 DEF Linked
  <2>2. given' = given \/ \E y \in Req : given' = [given EXCEPT ![r] = y]
    BY DEF Limited, Refresh, Linked
  <2> QED
    BY <2>1, <2>2 DEF Linked
<1>5. r \notin issued /\ r \notin doubled /\ phase'[r] # "token" /\ phase[r] # "token"
  BY <1>1 DEF Linked
<1>6. ASSUME NEW n \in Name
      PROVE  Good(n)' = Good(n) /\ Roots(n)' = Roots(n) /\ Doubled(n)' = Doubled(n)
  BY <1>1, <1>4, <1>5 DEF Good, Roots, Doubled
<1> QED
  BY <1>3, <1>6, BalanceKept

\* A step that keeps tables and names, and brings no refresh to its token.
LEMMA PlainBalance ==
  ASSUME Linked, Balanced, NEW r \in Req, NEW to \in Place \ {"none", "ok"},
         phase[r] \notin {"ok", "error", "unauthorized"}, phase' = [phase EXCEPT ![r] = to],
         to = "token" => phase[r] \in {"commit", "compare"},
         phase[r] \in {"refresh", "user"} => to \in {"user", "revoke", "unauthorized", "error"},
         to \in {"refresh", "user", "revoke"} => phase[r] \in {"refresh", "user", "revoke"},
         phase[r] \in {"revoke", "token"} => to = "error",
         UNCHANGED <<name, given, issued, revoked, doubled>>
  PROVE  Linked' /\ Balanced'
<1>1. \A x \in Req : phase'[x] = IF x = r THEN to ELSE phase[x]
  BY DEF Linked
<1>2. phase[r] \in {"commit", "compare"} => given[r] = Nil
  BY DEF Linked, RefreshPlace
<1>3. Linked'
  BY <1>1 DEF Linked, RefreshPlace
<1>4. ASSUME NEW n \in Name
      PROVE  Good(n)' \subseteq Good(n) /\ Roots(n)' = Roots(n) /\ Doubled(n)' = Doubled(n)
  BY <1>1, <1>2 DEF Good, Roots, Doubled
<1> QED
  BY <1>3, <1>4, BalanceKept

LEMMA AdmitBalance ==
  ASSUME Linked, Balanced, NEW r \in Req, Admit(r)
  PROVE  Linked' /\ Balanced'
<1>1. PICK to \in {"limited", "hash", "login"} :
        phase[r] = "limit" /\ phase' = [phase EXCEPT ![r] = to]
  BY DEF Admit, Goto
<1>2. UNCHANGED <<name, given, issued, revoked, doubled>>
  BY DEF Admit, tables
<1> QED
  BY <1>1, <1>2, PlainBalance DEF Place, Answer

\* The token of a sign-up or login is a root; a refresh's was counted when the
\* old one was revoked.
LEMMA TokenBalance ==
  ASSUME Linked, Balanced, NEW r \in Req, InsertToken(r)
  PROVE  Linked' /\ Balanced'
<1>1. /\ phase[r] = "token" /\ phase' = [phase EXCEPT ![r] = "ok"]
      /\ issued' = issued \cup {r}
      /\ UNCHANGED <<name, given, revoked, doubled>>
  BY DEF InsertToken, Goto
<1>2. \A x \in Req : phase'[x] = IF x = r THEN "ok" ELSE phase[x]
  BY <1>1 DEF Linked
<1>3. Linked'
  BY <1>1, <1>2 DEF Linked, RefreshPlace, Place, Answer
<1>4. r \notin issued /\ r \notin revoked
  BY <1>1 DEF Linked
<1>5. CASE given[r] # Nil
  <2>1. ASSUME NEW n \in Name
        PROVE  Good(n)' \subseteq Good(n) /\ Roots(n)' = Roots(n) /\ Doubled(n)' = Doubled(n)
    BY <1>1, <1>2, <1>5 DEF Good, Roots, Doubled
  <2> QED
    BY <1>3, <2>1, BalanceKept
<1>6. CASE given[r] = Nil
  <2> SUFFICES ASSUME NEW n \in Name
               PROVE  Cardinality(Good(n)') <= Cardinality(Roots(n)') + Cardinality(Doubled(n)')
    BY <1>3 DEF Balanced
  <2>1. Doubled(n)' = Doubled(n)
    BY <1>1 DEF Doubled
  <2>2. CASE name[r] # n
    <3>1. Good(n)' = Good(n) /\ Roots(n)' = Roots(n)
      BY <1>1, <1>2, <2>2 DEF Good, Roots
    <3> QED
      BY <2>1, <3>1 DEF Balanced
  <2>3. CASE name[r] = n
    <3>1. Good(n)' = Good(n) \cup {r} /\ Roots(n)' = Roots(n) \cup {r}
      BY <1>1, <1>2, <1>4, <1>6, <2>3 DEF Good, Roots
    <3>2. r \notin Good(n) /\ r \notin Roots(n)
      BY <1>4, <1>6 DEF Good, Roots
    <3>3. /\ Cardinality(Good(n)') = Cardinality(Good(n)) + 1
          /\ Cardinality(Roots(n)') = Cardinality(Roots(n)) + 1
      BY <3>1, <3>2, FiniteSets, FS_AddElement
    <3> QED
      BY <2>1, <3>3, FiniteSets DEF Balanced
  <2> QED
    BY <2>2, <2>3
<1> QED
  BY <1>5, <1>6

\* A refresh takes its old token's place, or is counted as doubled.
LEMMA RevokeBalance ==
  ASSUME Linked, Balanced, NEW r \in Req, Revoke(r)
  PROVE  Linked' /\ Balanced'
<1>1. /\ phase[r] = "revoke" /\ phase' = [phase EXCEPT ![r] = "token"]
      /\ revoked' = revoked \cup {given[r]}
      /\ doubled' = IF given[r] \in revoked THEN doubled \cup {r} ELSE doubled
      /\ UNCHANGED <<name, given, issued>>
  BY DEF Revoke, Goto
<1>2. \A x \in Req : phase'[x] = IF x = r THEN "token" ELSE phase[x]
  BY <1>1 DEF Linked, Place
<1>3. /\ given[r] \in issued /\ given[r] # Nil
      /\ name[given[r]] = name[r] /\ r \notin issued /\ r \notin doubled
      /\ r \notin revoked /\ given[r] # r
  BY <1>1 DEF Linked
<1>4. Linked'
  BY <1>1, <1>2, <1>3 DEF Linked, RefreshPlace, Place
<1> SUFFICES ASSUME NEW n \in Name
             PROVE  Cardinality(Good(n)') <= Cardinality(Roots(n)') + Cardinality(Doubled(n)')
  BY <1>4 DEF Balanced
<1>5. Roots(n)' = Roots(n)
  BY <1>1 DEF Roots
<1>6. CASE name[r] # n
  <2>1. Good(n)' = Good(n) /\ Doubled(n)' = Doubled(n)
    BY <1>1, <1>2, <1>3, <1>6 DEF Good, Doubled
  <2> QED
    BY <1>5, <2>1 DEF Balanced
<1>7. CASE name[r] = n /\ given[r] \in revoked
  <2>1. Good(n)' = Good(n) \cup {r} /\ Doubled(n)' = Doubled(n) \cup {r}
    BY <1>1, <1>2, <1>3, <1>7 DEF Good, Doubled
  <2>2. r \notin Good(n) /\ r \notin Doubled(n)
    BY <1>1, <1>3 DEF Good, Doubled
  <2>3. /\ Cardinality(Good(n)') = Cardinality(Good(n)) + 1
        /\ Cardinality(Doubled(n)') = Cardinality(Doubled(n)) + 1
    BY <2>1, <2>2, FiniteSets, FS_AddElement
  <2> QED
    BY <1>5, <2>3, FiniteSets DEF Balanced
<1>8. CASE name[r] = n /\ given[r] \notin revoked
  <2>1. Good(n)' = (Good(n) \ {given[r]}) \cup {r} /\ Doubled(n)' = Doubled(n)
    BY <1>1, <1>2, <1>3, <1>8 DEF Good, Doubled
  <2>2. r \notin Good(n) \ {given[r]} /\ given[r] \in Good(n)
    BY <1>1, <1>3, <1>8 DEF Good, Linked
  <2>3. /\ IsFiniteSet(Good(n) \ {given[r]})
        /\ Cardinality(Good(n) \ {given[r]}) = Cardinality(Good(n)) - 1
    BY <2>2, FiniteSets, FS_RemoveElement
  <2>4. Cardinality((Good(n) \ {given[r]}) \cup {r})
          = Cardinality(Good(n) \ {given[r]}) + 1
    BY <2>2, <2>3, FS_AddElement
  <2>5. Cardinality(Good(n)') = Cardinality(Good(n))
    BY <2>1, <2>3, <2>4, FiniteSets
  <2> QED
    BY <1>5, <2>1, <2>5 DEF Balanced
<1> QED
  BY <1>6, <1>7, <1>8

LEMMA HandlerBalance ==
  ASSUME Linked, Balanced, NEW r \in Req, Handler(r)
  PROVE  Linked' /\ Balanced'
<1> USE DEF Goto, tables, Place, Answer
<1>1. CASE Hash(r)
  BY <1>1, PlainBalance DEF Hash
<1>2. CASE InsertUser(r)
  BY <1>2, PlainBalance DEF InsertUser
<1>3. CASE InsertBoard(r)
  BY <1>3, PlainBalance DEF InsertBoard
<1>4. CASE Commit(r)
  BY <1>4, PlainBalance DEF Commit
<1>5. CASE SelectUser(r)
  BY <1>5, PlainBalance DEF SelectUser
<1>6. CASE Compare(r)
  BY <1>6, PlainBalance DEF Compare
<1>7. CASE SelectToken(r)
  BY <1>7, PlainBalance DEF SelectToken
<1>8. CASE SelectOwner(r)
  BY <1>8, PlainBalance DEF SelectOwner
<1>9. CASE Fails(r)
  <2>1. /\ phase[r] \notin {"ok", "error", "unauthorized"}
        /\ phase' = [phase EXCEPT ![r] = "error"]
        /\ UNCHANGED <<name, given, issued, revoked, doubled>>
    BY <1>9 DEF Fails
  <2> QED
    BY <2>1, PlainBalance
<1> QED
  BY <1>1, <1>2, <1>3, <1>4, <1>5, <1>6, <1>7, <1>8, <1>9,
     TokenBalance, RevokeBalance DEF Handler

LEMMA StepBalance == Linked /\ Balanced /\ [ApiNext]_apiVars => Linked' /\ Balanced'
<1> SUFFICES ASSUME Linked, Balanced, [ApiNext]_apiVars PROVE Linked' /\ Balanced'
  OBVIOUS
<1>1. ASSUME UNCHANGED accountVars PROVE Linked' /\ Balanced'
  BY <1>1, BalanceKept DEF accountVars, tables, Linked, Good, Roots, Doubled
<1> QED
  BY <1>1, CallBalance, AdmitBalance, HandlerBalance DEF ApiNext, apiVars

\* Refreshing never multiplies tokens, unless refreshes of one token overlap.
THEOREM TokensRotate == ApiSpec => []RotationBounded
<1>1. Linked /\ Balanced => RotationBounded
  <2> SUFFICES ASSUME Linked, Balanced, NEW n \in Name
               PROVE  LET mine == {r \in issued : name[r] = n} IN
                      Cardinality(mine \ revoked)
                        <= Cardinality({r \in mine : given[r] = Nil})
                             + Cardinality({r \in doubled : name[r] = n})
    BY DEF RotationBounded
  <2> DEFINE mine == {r \in issued : name[r] = n}
  <2>1. issued \subseteq Req /\ doubled \subseteq Req
    BY DEF Linked
  <2>2. mine \ revoked \subseteq Good(n)
    BY <2>1 DEF Good
  <2>3. {r \in mine : given[r] = Nil} = Roots(n) /\ {r \in doubled : name[r] = n} = Doubled(n)
    BY <2>1 DEF Roots, Doubled
  <2>4. /\ Cardinality(mine \ revoked) <= Cardinality(Good(n))
        /\ Cardinality(mine \ revoked) \in Nat
    BY <2>2, FiniteSets, FS_Subset, FS_CardinalityType
  <2>5. Cardinality(Good(n)) <= Cardinality(Roots(n)) + Cardinality(Doubled(n))
    BY DEF Balanced
  <2>6. Cardinality(mine \ revoked) <= Cardinality(Roots(n)) + Cardinality(Doubled(n))
    BY <2>4, <2>5, FiniteSets
  <2> HIDE DEF mine
  <2> QED
    BY <2>3, <2>6 DEF mine
<1> QED
  BY <1>1, InitBalance, StepBalance, PTL DEF ApiSpec
-----------------------------------------------------------------------------
(* The rate limiter *)

\* The values of the variables, and who can be in a sorted set.
Clocked ==
  /\ now \in Nat
  /\ hits \in [Key -> SUBSET Req]
  /\ deadline \in [Key -> Nat]
  /\ rpc \in [Req -> {"idle", "trim", "add", "count", "expire", "done"}]
  /\ key \in [Req -> Key \cup {Nil}]
  /\ stamp \in [Req -> Nat]
  /\ count \in [Req -> Nat]
  /\ overtaken \subseteq Req
  /\ \A r \in Req : stamp[r] <= now /\ (rpc[r] = "idle" <=> key[r] = Nil)
  /\ \A k \in Key : \A x \in hits[k] : key[x] = k /\ rpc[x] \in {"count", "expire", "done"}

\* A later request of the key has removed what is out of its window; who comes
\* with an older stamp after that is overtaken.
Trimmed ==
  \A r, x \in Req : key[r] = key[x] =>
    /\ rpc[r] \notin {"idle", "trim"} /\ rpc[x] # "done" /\ stamp[x] < stamp[r]
         => x \in overtaken
    /\ rpc[r] \in {"add", "count"} /\ x \in hits[key[r]]
         => stamp[x] > stamp[r] - Window \/ x \in overtaken

\* A request stays in the set as long as one can come whose window has it.
Remembered ==
  \A x \in Req : rpc[x] \in {"count", "expire", "done"} /\ x \notin overtaken =>
    \/ /\ x \in hits[key[x]]
       /\ rpc[x] = "done" => deadline[key[x]] >= stamp[x] + Window
    \/ /\ now >= stamp[x] + Window
       /\ \A r \in Req : key[r] = key[x] /\ rpc[r] \in {"trim", "add", "count"}
                         => stamp[r] >= stamp[x] + Window \/ r \in overtaken

Counted(r) == rpc[r] \in {"expire", "done"}

\* Whom a request may have counted, itself included.
Recent(r) == {x \in Called(key[r]) : stamp[x] > stamp[r] - Window \/ x \in overtaken}

\* Whom a window has accepted.
Accepted(k, t) == {r \in Called(k) \ overtaken :
                     Counted(r) /\ Accepts(r) /\ stamp[r] > t - Window /\ stamp[r] <= t}

Limits == /\ \A r \in Req : Counted(r) => count[r] <= Cardinality(Recent(r))
          /\ \A k \in Key, t \in Int : Cardinality(Accepted(k, t)) <= MaxRequests

LimiterInv == Clocked /\ Trimmed /\ Remembered /\ Limits

LEMMA FiniteRequests ==
  ASSUME NEW S \in SUBSET Req
  PROVE  IsFiniteSet(S) /\ Cardinality(S) \in Nat
BY RequestsAssumption, FS_Subset, FS_CardinalityType

LEMMA InitLimits == InitLimiter => LimiterInv
<1> SUFFICES ASSUME InitLimiter PROVE LimiterInv
  OBVIOUS
<1>1. Clocked /\ Trimmed /\ Remembered
  BY DEF InitLimiter, Clocked, Trimmed, Remembered
<1>2. Limits
  <2>1. \A k \in Key, t \in Int : Accepted(k, t) = {}
    BY DEF InitLimiter, Accepted, Counted, Called
  <2> QED
    <3>1. MaxRequests \in Nat /\ Cardinality({}) = 0
      BY FS_EmptySet, WindowAssumption
    <3>2. \A k \in Key, t \in Int : Cardinality(Accepted(k, t)) <= MaxRequests
      BY <2>1, <3>1
    <3>3. \A r \in Req : ~Counted(r)
      BY DEF InitLimiter, Counted
    <3> QED
      BY <3>2, <3>3 DEF Limits
<1> QED
  BY <1>1, <1>2 DEF LimiterInv

\* The counts are kept by a step that counts and admits nobody, and that at
\* most overtakes more.
LEMMA LimitsKept ==
  ASSUME Clocked, Limits, count' = count, overtaken \subseteq overtaken', overtaken' \subseteq Req,
         \A r \in Req : Counted(r)' <=> Counted(r),
         \A r \in Req : rpc[r] # "idle" => key'[r] = key[r] /\ stamp'[r] = stamp[r],
         \A r \in Req : rpc'[r] # "idle" => key'[r] \in Key
  PROVE  Limits'
<1>1. ASSUME NEW r \in Req, Counted(r)' PROVE count'[r] <= Cardinality(Recent(r)')
  <2>1. Counted(r) /\ key[r] \in Key /\ key'[r] = key[r] /\ stamp'[r] = stamp[r]
    BY <1>1 DEF Counted, Clocked
  <2>2. Recent(r) \subseteq Recent(r)'
    <3>1. ASSUME NEW x \in Req, key[x] = key[r] PROVE key'[x] = key[r] /\ stamp'[x] = stamp[x]
      BY <2>1, <3>1, RouteAssumption DEF Clocked
    <3> QED
      BY <2>1, <3>1 DEF Recent, Called
  <2>3. Recent(r)' \in SUBSET Req
    BY DEF Recent, Called
  <2>4. Cardinality(Recent(r)) <= Cardinality(Recent(r)')
    BY <2>2, <2>3, FiniteRequests, FS_Subset
  <2>5. count[r] <= Cardinality(Recent(r)) /\ Cardinality(Recent(r)) \in Nat
        /\ Cardinality(Recent(r)') \in Nat /\ count[r] \in Nat
    <3>1. Recent(r) \in SUBSET Req
      BY DEF Recent, Called
    <3> QED
      BY <2>1, <2>3, <3>1, FiniteRequests DEF Limits, Clocked
  <2> QED
    BY <2>4, <2>5
<1>2. ASSUME NEW k \in Key, NEW t \in Int PROVE Cardinality(Accepted(k, t)') <= MaxRequests
  <2>1. Accepted(k, t)' \subseteq Accepted(k, t)
    <3>1. ASSUME NEW x \in Req, Counted(x)'
          PROVE  Counted(x) /\ key'[x] = key[x] /\ stamp'[x] = stamp[x]
      BY <3>1 DEF Counted
    <3> QED
      BY <3>1 DEF Accepted, Called, Accepts
  <2>2. Accepted(k, t) \in SUBSET Req /\ Accepted(k, t)' \in SUBSET Req
    BY DEF Accepted, Called
  <2>3. Cardinality(Accepted(k, t)') <= Cardinality(Accepted(k, t))
    BY <2>1, <2>2, FiniteRequests, FS_Subset
  <2> QED
    BY <2>2, <2>3, FiniteRequests, WindowAssumption DEF Limits
<1> QED
  BY <1>1, <1>2 DEF Limits

LEMMA CallLimits ==
  ASSUME LimiterInv, NEW r \in Req, NEW k \in Key, CallLimiter(r, k)
  PROVE  LimiterInv'
<1>0. /\ Clocked /\ Trimmed /\ Remembered /\ Limits /\ Nil \notin Key
      /\ rpc[r] = "idle" /\ rpc' = [rpc EXCEPT ![r] = "trim"]
      /\ key' = [key EXCEPT ![r] = k] /\ stamp' = [stamp EXCEPT ![r] = now]
      /\ UNCHANGED <<now, hits, deadline, count, overtaken>>
  BY RouteAssumption DEF LimiterInv, CallLimiter
<1>1. /\ rpc'[r] = "trim" /\ key'[r] = k /\ stamp'[r] = now
      /\ \A x \in Req : x # r => rpc'[x] = rpc[x] /\ key'[x] = key[x] /\ stamp'[x] = stamp[x]
  BY <1>0 DEF Clocked
<1>2. Clocked'
  <2>1. \A m \in Key : r \notin hits[m]
    BY <1>0 DEF Clocked
  <2> QED
    BY <1>0, <1>1, <2>1 DEF Clocked
<1>3. Trimmed'
  <2>1. \A m \in Key : r \notin hits[m]
    BY <1>0 DEF Clocked
  <2>2. \A x \in Req : rpc'[x] \notin {"idle", "trim"} => x # r /\ key[x] \in Key /\ stamp[x] <= now
    BY <1>0, <1>1 DEF Clocked
  <2>3. now \in Nat /\ \A x \in Req : stamp[x] \in Nat
    BY <1>0 DEF Clocked
  <2> QED
    BY <1>0, <1>1, <2>1, <2>2, <2>3 DEF Trimmed
<1>4. Remembered'
  BY <1>0, <1>1 DEF Remembered, Clocked
<1>5. Limits'
  <2>1. /\ \A x \in Req : Counted(x)' <=> Counted(x)
        /\ \A x \in Req : rpc[x] # "idle" => key'[x] = key[x] /\ stamp'[x] = stamp[x]
        /\ \A x \in Req : rpc'[x] # "idle" => key'[x] \in Key
    BY <1>0, <1>1 DEF Counted, Clocked
  <2> QED
    BY <1>0, <2>1, LimitsKept DEF Clocked
<1> QED
  BY <1>2, <1>3, <1>4, <1>5 DEF LimiterInv

LEMMA TrimLimits ==
  ASSUME LimiterInv, NEW r \in Req, Trim(r)
  PROVE  LimiterInv'
<1> DEFINE k == key[r]
<1>0. /\ Clocked /\ Trimmed /\ Remembered /\ Limits /\ Window \in Nat \ {0}
      /\ rpc[r] = "trim" /\ rpc' = [rpc EXCEPT ![r] = "add"]
      /\ hits' = [hits EXCEPT ![k] = {x \in @ : stamp[x] > stamp[r] - Window}]
      /\ overtaken' = overtaken \cup {x \in Pending(k) : stamp[x] < stamp[r]}
      /\ UNCHANGED <<now, deadline, key, stamp, count>>
  BY WindowAssumption DEF LimiterInv, Trim
<1>1. /\ rpc'[r] = "add" /\ k \in Key
      /\ \A x \in Req : x # r => rpc'[x] = rpc[x]
      /\ \A m \in Key : m # k => hits'[m] = hits[m]
      /\ hits'[k] = {x \in hits[k] : stamp[x] > stamp[r] - Window}
      /\ \A x \in Req : key[x] = k /\ rpc[x] # "done" /\ stamp[x] < stamp[r] => x \in overtaken'
      /\ overtaken \subseteq overtaken' /\ overtaken' \subseteq Req
  BY <1>0 DEF Clocked, Pending, Called, Done
<1>2. Clocked'
  BY <1>0, <1>1 DEF Clocked
<1>3. Trimmed'
  <2> SUFFICES ASSUME NEW y \in Req, NEW x \in Req, key'[y] = key'[x]
               PROVE  /\ rpc'[y] \notin {"idle", "trim"}
                           /\ rpc'[x] # "done" /\ stamp'[x] < stamp'[y]
                         => x \in overtaken'
                      /\ rpc'[y] \in {"add", "count"} /\ x \in hits'[key'[y]]
                           => stamp'[x] > stamp'[y] - Window \/ x \in overtaken'
    BY DEF Trimmed
  <2>1. CASE y = r
    BY <1>0, <1>1, <2>1
  <2>2. CASE y # r
    <3>1. rpc'[x] # "done" <=> rpc[x] # "done"
      BY <1>0, <1>1
    <3>2. rpc[y] \in {"add", "count"} => key[y] \in Key /\ hits'[key[y]] \subseteq hits[key[y]]
      BY <1>0, <1>1 DEF Clocked
    <3> QED
      BY <1>0, <1>1, <2>2, <3>1, <3>2 DEF Trimmed
  <2> QED
    BY <2>1, <2>2
<1>4. Remembered'
  <2> SUFFICES ASSUME NEW x \in Req, rpc'[x] \in {"count", "expire", "done"}, x \notin overtaken'
               PROVE  \/ /\ x \in hits'[key[x]]
                         /\ rpc'[x] = "done" => deadline[key[x]] >= stamp[x] + Window
                      \/ /\ now >= stamp[x] + Window
                         /\ \A y \in Req : key[y] = key[x] /\ rpc'[y] \in {"trim", "add", "count"}
                              => stamp[y] >= stamp[x] + Window \/ y \in overtaken'
    BY <1>0 DEF Remembered
  <2>1. x # r /\ rpc'[x] = rpc[x] /\ x \notin overtaken /\ rpc[x] \in {"count", "expire", "done"}
        /\ key[x] \in Key
    BY <1>0, <1>1 DEF Clocked
  <2>2. \A y \in Req : rpc'[y] \in {"trim", "add", "count"} => rpc[y] \in {"trim", "add", "count"}
    BY <1>0, <1>1
  <2>3. CASE x \in hits[key[x]] /\ x \notin hits'[key[x]]
    <3>1. key[x] = k /\ stamp[x] <= stamp[r] - Window /\ stamp[r] <= now
          /\ stamp[x] \in Nat /\ stamp[r] \in Nat /\ now \in Nat
      BY <1>0, <1>1, <2>1, <2>3 DEF Clocked
    <3>2. ASSUME NEW y \in Req, key[y] = k, rpc'[y] \in {"trim", "add", "count"}
          PROVE  stamp[y] >= stamp[x] + Window \/ y \in overtaken'
      <4>1. rpc[y] # "done" /\ stamp[y] \in Nat
        BY <1>0, <2>2, <3>2 DEF Clocked
      <4> QED
        BY <1>0, <1>1, <3>1, <3>2, <4>1
    <3>3. now >= stamp[x] + Window
      BY <1>0, <3>1
    <3> QED
      BY <3>1, <3>2, <3>3
  <2>4. CASE x \notin hits[key[x]] \/ x \in hits'[key[x]]
    BY <1>0, <1>1, <2>1, <2>2, <2>4 DEF Remembered
  <2> QED
    BY <2>3, <2>4
<1>5. Limits'
  <2>1. /\ \A x \in Req : Counted(x)' <=> Counted(x)
        /\ \A x \in Req : rpc'[x] # "idle" => key'[x] \in Key
    BY <1>0, <1>1 DEF Counted, Clocked
  <2> QED
    BY <1>0, <1>1, <2>1, LimitsKept
<1> QED
  BY <1>2, <1>3, <1>4, <1>5 DEF LimiterInv

LEMMA AddLimits ==
  ASSUME LimiterInv, NEW r \in Req, Add(r)
  PROVE  LimiterInv'
<1> DEFINE k == key[r]
<1>0. /\ Clocked /\ Trimmed /\ Remembered /\ Limits
      /\ MaxTime \in Nat /\ Window \in Nat \ {0}
      /\ rpc[r] = "add" /\ rpc' = [rpc EXCEPT ![r] = "count"]
      /\ hits' = [hits EXCEPT ![k] = @ \cup {r}]
      /\ deadline' = IF hits[k] = {} THEN [deadline EXCEPT ![k] = MaxTime + 1] ELSE deadline
      /\ UNCHANGED <<now, key, stamp, count, overtaken>>
  BY WindowAssumption DEF LimiterInv, Add
<1>1. /\ rpc'[r] = "count" /\ k \in Key
      /\ \A x \in Req : x # r => rpc'[x] = rpc[x]
      /\ \A m \in Key : m # k => hits'[m] = hits[m] /\ deadline'[m] = deadline[m]
      /\ hits'[k] = hits[k] \cup {r}
      /\ hits[k] # {} => deadline' = deadline
  BY <1>0 DEF Clocked
<1>2. Clocked'
  BY <1>0, <1>1 DEF Clocked
<1>3. Trimmed'
  <2> SUFFICES ASSUME NEW y \in Req, NEW x \in Req, key[y] = key[x]
               PROVE  /\ rpc'[y] \notin {"idle", "trim"} /\ rpc'[x] # "done" /\ stamp[x] < stamp[y]
                           => x \in overtaken
                      /\ rpc'[y] \in {"add", "count"} /\ x \in hits'[key[y]]
                           => stamp[x] > stamp[y] - Window \/ x \in overtaken
    BY <1>0 DEF Trimmed
  <2>1. /\ rpc'[y] \notin {"idle", "trim"} <=> rpc[y] \notin {"idle", "trim"}
        /\ rpc'[y] \in {"add", "count"} <=> rpc[y] \in {"add", "count"}
        /\ rpc'[x] # "done" <=> rpc[x] # "done"
    BY <1>0, <1>1
  <2>2. stamp[x] \in Nat /\ stamp[y] \in Nat
    BY <1>0 DEF Clocked
  <2>3. CASE x = r
    BY <1>0, <2>1, <2>2, <2>3 DEF Trimmed
  <2>4. CASE x # r
    <3>1. rpc[y] \in {"add", "count"} => key[y] \in Key
      BY <1>0 DEF Clocked
    <3>2. rpc[y] \in {"add", "count"} /\ x \in hits'[key[y]] => x \in hits[key[y]]
      BY <1>1, <2>4, <3>1
    <3> QED
      BY <1>0, <2>1, <3>2 DEF Trimmed
  <2> QED
    BY <2>3, <2>4
<1>4. Remembered'
  <2> SUFFICES ASSUME NEW x \in Req, rpc'[x] \in {"count", "expire", "done"}, x \notin overtaken
               PROVE  \/ /\ x \in hits'[key[x]]
                         /\ rpc'[x] = "done" => deadline'[key[x]] >= stamp[x] + Window
                      \/ /\ now >= stamp[x] + Window
                         /\ \A y \in Req : key[y] = key[x] /\ rpc'[y] \in {"trim", "add", "count"}
                              => stamp[y] >= stamp[x] + Window \/ y \in overtaken
    BY <1>0 DEF Remembered
  <2>1. CASE x = r
    BY <1>1, <2>1
  <2>2. CASE x # r
    <3>1. /\ rpc'[x] = rpc[x] /\ key[x] \in Key
          /\ \A y \in Req : rpc'[y] \in {"trim", "add", "count"}
                           => rpc[y] \in {"trim", "add", "count"}
      BY <1>0, <1>1, <2>2 DEF Clocked
    <3>2. x \in hits[key[x]] => x \in hits'[key[x]] /\ deadline'[key[x]] = deadline[key[x]]
      BY <1>0, <1>1, <3>1
    <3> QED
      BY <1>0, <3>1, <3>2 DEF Remembered
  <2> QED
    BY <2>1, <2>2
<1>5. Limits'
  <2>1. /\ \A x \in Req : Counted(x)' <=> Counted(x)
        /\ \A x \in Req : rpc'[x] # "idle" => key'[x] \in Key
    BY <1>0, <1>1 DEF Counted, Clocked
  <2> QED
    BY <1>0, <2>1, LimitsKept DEF Clocked
<1> QED
  BY <1>2, <1>3, <1>4, <1>5 DEF LimiterInv

\* Who counts finds in the set everybody whom its window has admitted, and is
\* admitted only if they are few.
LEMMA CountLimits ==
  ASSUME LimiterInv, NEW r \in Req, Count(r)
  PROVE  LimiterInv'
<1> DEFINE k == key[r]
<1>0. /\ Clocked /\ Trimmed /\ Remembered /\ Limits
      /\ MaxRequests \in Nat /\ Window \in Nat \ {0}
      /\ rpc[r] = "count" /\ rpc' = [rpc EXCEPT ![r] = "expire"]
      /\ count' = [count EXCEPT ![r] = Cardinality(hits[k])]
      /\ UNCHANGED <<now, hits, deadline, key, stamp, overtaken>>
  BY WindowAssumption DEF LimiterInv, Count
<1>1. /\ rpc'[r] = "expire" /\ k \in Key /\ hits[k] \in SUBSET Req
      /\ \A x \in Req : x # r => rpc'[x] = rpc[x] /\ count'[x] = count[x]
      /\ count'[r] = Cardinality(hits[k]) /\ Cardinality(hits[k]) \in Nat
      /\ \A x \in Req : rpc[x] # "idle" => key[x] \in Key
  <2>1. k \in Key /\ hits[k] \in SUBSET Req
    BY <1>0 DEF Clocked
  <2> QED
    BY <1>0, <2>1, FiniteRequests DEF Clocked
<1>2. Clocked'
  BY <1>0, <1>1 DEF Clocked
<1>3. Trimmed'
  BY <1>0, <1>1 DEF Trimmed
<1>4. Remembered'
  BY <1>0, <1>1 DEF Remembered
<1>5. \A x \in Req : Counted(x)' <=> Counted(x) \/ x = r
  BY <1>0, <1>1 DEF Counted
<1>6. \A x \in Req : Recent(x)' = Recent(x)
  BY <1>0 DEF Recent, Called
<1>7. Cardinality(hits[k]) <= Cardinality(Recent(r))
  <2>1. hits[k] \subseteq Recent(r)
    BY <1>0, <1>1 DEF Trimmed, Clocked, Recent, Called
  <2>2. Recent(r) \in SUBSET Req
    BY DEF Recent, Called
  <2> QED
    BY <2>1, <2>2, FiniteRequests, FS_Subset
<1>8. ASSUME NEW m \in Key, NEW t \in Int PROVE Cardinality(Accepted(m, t)') <= MaxRequests
  <2>1. CASE r \in Accepted(m, t)'
    <3>1. /\ m = k /\ r \notin overtaken /\ Cardinality(hits[k]) <= MaxRequests
          /\ stamp[r] > t - Window /\ stamp[r] <= t
      BY <1>0, <1>1, <2>1 DEF Accepted, Called, Accepts
    <3>2. ASSUME NEW x \in Accepted(m, t)' PROVE x \in hits[k]
      <4>1. /\ x \in Req /\ key[x] = k /\ x \notin overtaken
            /\ rpc[x] \in {"count", "expire", "done"}
            /\ stamp[x] > t - Window /\ stamp[x] <= t
        BY <1>0, <1>5, <3>1, <3>2 DEF Accepted, Called, Counted
      <4>2. stamp[x] \in Nat /\ stamp[r] \in Nat /\ ~(stamp[r] >= stamp[x] + Window)
        BY <1>0, <3>1, <4>1 DEF Clocked
      <4> QED
        BY <1>0, <3>1, <4>1, <4>2 DEF Remembered
    <3>3. Accepted(m, t)' \subseteq hits[k]
      BY <3>2
    <3>4. /\ Cardinality(Accepted(m, t)') <= Cardinality(hits[k])
          /\ Cardinality(Accepted(m, t)') \in Nat
      BY <1>1, <3>3, FiniteRequests, FS_Subset
    <3> QED
      BY <1>0, <1>1, <3>1, <3>4
  <2>2. CASE r \notin Accepted(m, t)'
    <3>1. Accepted(m, t)' \subseteq Accepted(m, t)
      BY <1>0, <1>1, <1>5, <2>2 DEF Accepted, Called, Accepts
    <3>2. Accepted(m, t) \in SUBSET Req /\ Accepted(m, t)' \in SUBSET Req
      BY DEF Accepted, Called
    <3>3. Cardinality(Accepted(m, t)') <= Cardinality(Accepted(m, t))
      BY <3>1, <3>2, FiniteRequests, FS_Subset
    <3> QED
      BY <1>0, <3>2, <3>3, FiniteRequests DEF Limits
  <2> QED
    BY <2>1, <2>2
<1>9. Limits'
  BY <1>0, <1>1, <1>5, <1>6, <1>7, <1>8 DEF Limits
<1> QED
  BY <1>2, <1>3, <1>4, <1>9 DEF LimiterInv

LEMMA ExpireLimits ==
  ASSUME LimiterInv, NEW r \in Req, Expire(r)
  PROVE  LimiterInv'
<1> DEFINE k == key[r]
<1>0. /\ Clocked /\ Trimmed /\ Remembered /\ Limits /\ Window \in Nat \ {0}
      /\ rpc[r] = "expire" /\ rpc' = [rpc EXCEPT ![r] = "done"]
      /\ deadline' = IF hits[k] = {} THEN deadline
                     ELSE [deadline EXCEPT ![k] = now + Window]
      /\ UNCHANGED <<now, hits, key, stamp, count, overtaken>>
  BY WindowAssumption DEF LimiterInv, Expire
<1>1. /\ rpc'[r] = "done" /\ k \in Key
      /\ \A x \in Req : x # r => rpc'[x] = rpc[x]
      /\ \A m \in Key : m # k => deadline'[m] = deadline[m]
      /\ hits[k] # {} => deadline'[k] = now + Window
  BY <1>0 DEF Clocked
<1>2. Clocked'
  <2>1. deadline' \in [Key -> Nat]
    BY <1>0 DEF Clocked
  <2>2. \A m \in Key : \A x \in hits[m] : key[x] = m /\ rpc'[x] \in {"count", "expire", "done"}
    BY <1>0, <1>1 DEF Clocked
  <2>3. \A x \in Req : stamp[x] <= now /\ (rpc'[x] = "idle" <=> key[x] = Nil)
    BY <1>0, <1>1 DEF Clocked
  <2> QED
    BY <1>0, <2>1, <2>2, <2>3 DEF Clocked
<1>3. Trimmed'
  BY <1>0, <1>1 DEF Trimmed
<1>4. Remembered'
  <2> SUFFICES ASSUME NEW x \in Req, rpc'[x] \in {"count", "expire", "done"}, x \notin overtaken
               PROVE  \/ /\ x \in hits[key[x]]
                         /\ rpc'[x] = "done" => deadline'[key[x]] >= stamp[x] + Window
                      \/ /\ now >= stamp[x] + Window
                         /\ \A y \in Req : key[y] = key[x] /\ rpc'[y] \in {"trim", "add", "count"}
                              => stamp[y] >= stamp[x] + Window \/ y \in overtaken
    BY <1>0 DEF Remembered
  <2>1. /\ rpc[x] \in {"count", "expire", "done"} /\ key[x] \in Key
        /\ \A y \in Req : rpc'[y] \in {"trim", "add", "count"}
                         => rpc[y] \in {"trim", "add", "count"}
        /\ stamp[x] \in Nat /\ now \in Nat /\ stamp[x] <= now
    BY <1>0, <1>1 DEF Clocked
  <2>2. x \in hits[key[x]] /\ key[x] = k => deadline'[key[x]] >= stamp[x] + Window
    BY <1>0, <1>1, <2>1
  <2>3. key[x] # k => deadline'[key[x]] = deadline[key[x]] /\ rpc'[x] = rpc[x]
    BY <1>1, <2>1
  <2> QED
    BY <1>0, <2>1, <2>2, <2>3 DEF Remembered
<1>5. Limits'
  <2>1. /\ \A x \in Req : Counted(x)' <=> Counted(x)
        /\ \A x \in Req : rpc'[x] # "idle" => key'[x] \in Key
    BY <1>0, <1>1 DEF Counted, Clocked
  <2> QED
    BY <1>0, <2>1, LimitsKept DEF Clocked
<1> QED
  BY <1>2, <1>3, <1>4, <1>5 DEF LimiterInv

\* A key expires no sooner than a window after the requests it has that are
\* done; those that are not are overtaken.
LEMMA TickLimits ==
  ASSUME LimiterInv, Tick
  PROVE  LimiterInv'
<1> DEFINE expired == {k \in Key : hits[k] # {} /\ deadline[k] <= now + 1}
<1>0. /\ Clocked /\ Trimmed /\ Remembered /\ Limits /\ Window \in Nat \ {0}
      /\ now' = now + 1
      /\ hits' = [k \in Key |-> IF k \in expired THEN {} ELSE hits[k]]
      /\ overtaken' = overtaken \cup UNION {Pending(k) : k \in expired}
      /\ UNCHANGED <<deadline, rpc, key, stamp, count>>
  BY WindowAssumption DEF LimiterInv, Tick
<1>1. /\ \A k \in expired : hits'[k] = {} /\ deadline[k] <= now + 1
      /\ \A k \in Key : hits'[k] \subseteq hits[k]
      /\ \A k \in Key : k \notin expired => hits'[k] = hits[k]
      /\ \A k \in expired : \A x \in Req : key[x] = k /\ rpc[x] # "done" => x \in overtaken'
      /\ overtaken \subseteq overtaken' /\ overtaken' \subseteq Req
  <2>1. \A k \in Key : Pending(k) = {x \in Req : key[x] = k /\ rpc[x] # "done"}
    BY DEF Pending, Called, Done
  <2> QED
    BY <1>0, <2>1 DEF Clocked
<1>2. Clocked'
  BY <1>0, <1>1 DEF Clocked
<1>3. Trimmed'
  <2>1. \A x \in Req : rpc[x] # "idle" => key[x] \in Key
    BY <1>0 DEF Clocked
  <2> QED
    BY <1>0, <1>1, <2>1 DEF Trimmed
<1>4. Remembered'
  <2> SUFFICES ASSUME NEW x \in Req, rpc[x] \in {"count", "expire", "done"}, x \notin overtaken'
               PROVE  \/ /\ x \in hits'[key[x]]
                         /\ rpc[x] = "done" => deadline[key[x]] >= stamp[x] + Window
                      \/ /\ now' >= stamp[x] + Window
                         /\ \A y \in Req : key[y] = key[x] /\ rpc[y] \in {"trim", "add", "count"}
                              => stamp[y] >= stamp[x] + Window \/ y \in overtaken'
    BY <1>0 DEF Remembered
  <2>1. /\ key[x] \in Key /\ x \notin overtaken
        /\ stamp[x] \in Nat /\ now \in Nat /\ deadline[key[x]] \in Nat
    BY <1>0, <1>1 DEF Clocked
  <2>2. CASE x \in hits[key[x]] /\ key[x] \in expired
    <3>1. rpc[x] = "done"
      BY <1>1, <2>2
    <3>2. deadline[key[x]] >= stamp[x] + Window \/ now >= stamp[x] + Window
      BY <1>0, <2>1, <3>1 DEF Remembered
    <3>3. now' >= stamp[x] + Window
      BY <1>0, <1>1, <2>1, <2>2, <3>2
    <3>4. \A y \in Req : key[y] = key[x] /\ rpc[y] \in {"trim", "add", "count"} => y \in overtaken'
      BY <1>1, <2>2
    <3> QED
      BY <3>3, <3>4
  <2>3. CASE x \notin hits[key[x]] \/ key[x] \notin expired
    <3> HIDE DEF expired
    <3>1. x \in hits[key[x]] => x \in hits'[key[x]]
      BY <1>1, <2>1, <2>3
    <3>2. now >= stamp[x] + Window => now' >= stamp[x] + Window
      BY <1>0, <2>1
    <3> QED
      BY <1>0, <1>1, <2>1, <3>1, <3>2 DEF Remembered
  <2> QED
    BY <2>2, <2>3
<1>5. Limits'
  <2>1. /\ \A x \in Req : Counted(x)' <=> Counted(x)
        /\ \A x \in Req : rpc'[x] # "idle" => key'[x] \in Key
    BY <1>0 DEF Counted, Clocked
  <2> QED
    BY <1>0, <1>1, <2>1, LimitsKept
<1> QED
  BY <1>2, <1>3, <1>4, <1>5 DEF LimiterInv

LEMMA StepLimits == LimiterInv /\ [ApiNext]_apiVars => LimiterInv'
<1> SUFFICES ASSUME LimiterInv, [ApiNext]_apiVars PROVE LimiterInv'
  OBVIOUS
<1>1. ASSUME UNCHANGED limiterVars PROVE LimiterInv'
  <2>1. Limits'
    BY <1>1 DEF limiterVars, LimiterInv, Limits, Counted, Recent, Accepted, Called, Accepts
  <2> QED
    BY <1>1, <2>1 DEF limiterVars, LimiterInv, Clocked, Trimmed, Remembered
<1>2. ASSUME NEW r \in Req, Limited(r) PROVE LimiterInv'
  BY <1>2, CallLimits DEF Limited
<1>3. ASSUME NEW r \in Req, LimiterStep(r) PROVE LimiterInv'
  BY <1>3, TrimLimits, AddLimits, CountLimits DEF LimiterStep
<1>4. ASSUME NEW r \in Req, Admit(r) PROVE LimiterInv'
  BY <1>4, ExpireLimits DEF Admit
<1>5. ASSUME NEW r \in Req, Refresh(r) PROVE LimiterInv'
  BY <1>1, <1>5 DEF Refresh
<1> QED
  BY <1>1, <1>2, <1>3, <1>4, <1>5, TickLimits DEF ApiNext, apiVars

\* No window has more accepted requests than it may, and none is refused
\* without as many others in its window, but for requests that another overtook
\* between its stamp and its last command: for any interleaving of any number
\* of requests of any number of servers.
THEOREM LimitsAreExact == ApiSpec => []LimitIsExact
<1>1. ASSUME LimiterInv PROVE LimitIsExact
  <2>0. Clocked /\ Limits /\ MaxRequests \in Nat /\ MaxTime \in Nat /\ Window \in Nat \ {0}
    BY <1>1, WindowAssumption DEF LimiterInv
  <2> SUFFICES ASSUME NEW k \in Key
               PROVE
       /\ \A t \in 0 .. MaxTime :
            Cardinality({r \in Done(k) \ overtaken :
                           Accepts(r) /\ stamp[r] \in t - Window + 1 .. t})
              <= MaxRequests
       /\ \A r \in Done(k) : ~Accepts(r) =>
            Cardinality({x \in (Done(k) \cup Pending(k)) \ {r} :
                           stamp[x] > stamp[r] - Window \/ x \in overtaken})
              >= MaxRequests
    BY DEF LimitIsExact
  <2>1. ASSUME NEW t \in 0 .. MaxTime
        PROVE  Cardinality({r \in Done(k) \ overtaken :
                              Accepts(r) /\ stamp[r] \in t - Window + 1 .. t}) <= MaxRequests
    <3> DEFINE S == {r \in Done(k) \ overtaken : Accepts(r) /\ stamp[r] \in t - Window + 1 .. t}
    <3>1. S \subseteq Accepted(k, t)
      BY <2>0 DEF Done, Accepted, Counted, Clocked, Called
    <3>2. Accepted(k, t) \in SUBSET Req
      BY DEF Accepted, Called
    <3>3. Cardinality(S) <= Cardinality(Accepted(k, t)) /\ Cardinality(S) \in Nat
      BY <3>1, <3>2, FiniteRequests, FS_Subset
    <3>4. Cardinality(Accepted(k, t)) <= MaxRequests /\ Cardinality(Accepted(k, t)) \in Nat
      BY <2>0, <3>2, FiniteRequests DEF Limits
    <3> HIDE DEF S
    <3>5. Cardinality(S) <= MaxRequests
      BY <2>0, <3>3, <3>4
    <3> QED
      BY <3>5 DEF S
  <2>2. ASSUME NEW r \in Done(k), ~Accepts(r)
        PROVE  Cardinality({x \in (Done(k) \cup Pending(k)) \ {r} :
                              stamp[x] > stamp[r] - Window \/ x \in overtaken}) >= MaxRequests
    <3> DEFINE S == {x \in (Done(k) \cup Pending(k)) \ {r} :
                       stamp[x] > stamp[r] - Window \/ x \in overtaken}
    <3>1. r \in Req /\ key[r] = k /\ Counted(r) /\ r \in Recent(r) /\ count[r] > MaxRequests
          /\ count[r] \in Nat
      BY <2>0, <2>2 DEF Done, Called, Counted, Recent, Clocked, Accepts
    <3>2. S = Recent(r) \ {r}
      BY <3>1 DEF Recent, Pending, Done, Called
    <3>3. Recent(r) \in SUBSET Req
      BY DEF Recent, Called
    <3>4. /\ Cardinality(S) = Cardinality(Recent(r)) - 1
          /\ Cardinality(Recent(r)) \in Nat /\ count[r] <= Cardinality(Recent(r))
      BY <2>0, <3>1, <3>2, <3>3, FiniteRequests, FS_RemoveElement DEF Limits
    <3> HIDE DEF S
    <3>5. Cardinality(S) >= MaxRequests
      BY <2>0, <3>1, <3>4
    <3> QED
      BY <3>5 DEF S
  <2> QED
    BY <2>1, <2>2
<1> QED
  BY <1>1, InitLimits, StepLimits, PTL DEF ApiSpec, InitApi
=============================================================================
