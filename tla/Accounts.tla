------------------------------ MODULE Accounts ------------------------------
(***************************************************************************)
(* src/auth/authService.ts: signup, login and refreshAccessToken as        *)
(* sequences of awaits over three tables of PostgreSQL, and transaction of *)
(* src/db/pool.ts around two of signup's statements.                       *)
(*                                                                         *)
(* A name stands for what identifies an account, username and email; a     *)
(* refresh token is named by the request that issued it.  Hashes and JWTs  *)
(* are sound.                                                              *)
(***************************************************************************)
EXTENDS Requests

CONSTANTS Name,     \* accounts
          MaxFaults \* bound of the model: statements that fail

ASSUME NameAssumption == Nil \notin Name
ASSUME FaultsAssumption == MaxFaults \in Nat

VARIABLES
  phase,   \* where each request is, or its answer
  name,    \* account of each request
  given,   \* the token a refresh was given
  users,   \* committed rows of users
  board,   \* committed rows of leaderboard
  open,    \* transactions that have inserted their users row
  issued,  \* rows of refresh_tokens
  revoked, \* those with revoked = TRUE
  doubled, \* history: refreshes that revoked a token revoked already
  faults   \* statements that failed

tables == <<users, board, open, issued, revoked>>
accountVars == <<phase, name, given, tables, doubled, faults>>

Answer == {"ok", "conflict", "unauthorized", "error", "limited"}

InitAccounts ==
  /\ phase = [r \in Req |-> "none"]
  /\ name = [r \in Req |-> Nil]
  /\ given = [r \in Req |-> Nil]
  /\ users = {} /\ board = {} /\ open = {}
  /\ issued = {} /\ revoked = {}
  /\ doubled = {}
  /\ faults = 0

Goto(r, from, to) == phase[r] = from /\ phase' = [phase EXCEPT ![r] = to]
-----------------------------------------------------------------------------
(* signup *)

\* The password is hashed and BEGIN sent.
Hash(r) ==
  /\ Goto(r, "hash", "insert")
  /\ UNCHANGED <<name, given, tables, doubled, faults>>

\* Mutant of InsertUser: sent to the pool instead of the transaction's client.
InsertUserAtOnce(r) ==
  /\ Goto(r, "insert", IF name[r] \in users THEN "conflict" ELSE "board")
  /\ users' = users \cup {name[r]}
  /\ UNCHANGED <<name, given, board, open, issued, revoked, doubled, faults>>

\* INSERT INTO users waits for an open transaction that inserted the same name.
\* If there is a row then, the constraint is violated, and ROLLBACK.
InsertUser(r) ==
  /\ \A x \in open : name[x] # name[r]
  /\ IF name[r] \in users
     THEN Goto(r, "insert", "conflict") /\ UNCHANGED open
     ELSE Goto(r, "insert", "board") /\ open' = open \cup {r}
  /\ UNCHANGED <<name, given, users, board, issued, revoked, doubled, faults>>

InsertBoard(r) ==
  /\ Goto(r, "board", "commit")
  /\ UNCHANGED <<name, given, tables, doubled, faults>>

Commit(r) ==
  /\ Goto(r, "commit", "token")
  /\ open' = open \ {r}
  /\ users' = users \cup {name[r]}
  /\ board' = board \cup {name[r]}
  /\ UNCHANGED <<name, given, issued, revoked, doubled, faults>>
-----------------------------------------------------------------------------
(* login, generateTokenPair *)

SelectUser(r) ==
  /\ Goto(r, "login", IF name[r] \in users THEN "compare" ELSE "unauthorized")
  /\ UNCHANGED <<name, given, tables, doubled, faults>>

\* bcrypt.compare, with the right password or a wrong one.
Compare(r) ==
  /\ \E next \in {"token", "unauthorized"} : Goto(r, "compare", next)
  /\ UNCHANGED <<name, given, tables, doubled, faults>>

InsertToken(r) ==
  /\ Goto(r, "token", "ok")
  /\ issued' = issued \cup {r}
  /\ UNCHANGED <<name, given, users, board, open, revoked, doubled, faults>>
-----------------------------------------------------------------------------
(* refreshAccessToken *)

SelectToken(r) ==
  /\ Goto(r, "refresh", IF given[r] \in issued \ revoked THEN "user"
                        ELSE "unauthorized")
  /\ UNCHANGED <<name, given, tables, doubled, faults>>

SelectOwner(r) ==
  /\ Goto(r, "user", IF name[r] \in users THEN "revoke" ELSE "unauthorized")
  /\ UNCHANGED <<name, given, tables, doubled, faults>>

\* Mutant of Revoke: the old token stays valid.
RevokeNothing(r) ==
  /\ Goto(r, "revoke", "token")
  /\ UNCHANGED <<name, given, tables, doubled, faults>>

\* UPDATE sets revoked, whatever it was.
Revoke(r) ==
  /\ Goto(r, "revoke", "token")
  /\ revoked' = revoked \cup {given[r]}
  /\ doubled' = IF given[r] \in revoked THEN doubled \cup {r} ELSE doubled
  /\ UNCHANGED <<name, given, users, board, open, issued, faults>>
-----------------------------------------------------------------------------
\* A statement fails; an open transaction is rolled back.  Of a COMMIT it is
\* not known whether it has taken effect.
Fails(r) ==
  /\ faults < MaxFaults
  /\ faults' = faults + 1
  /\ phase[r] \in {"insert", "board", "commit", "login", "token", "refresh",
                "user", "revoke"}
  /\ Goto(r, phase[r], "error")
  /\ open' = open \ {r}
  /\ \/ UNCHANGED <<users, board>>
     \/ /\ phase[r] = "commit"
        /\ users' = users \cup {name[r]}
        /\ board' = board \cup {name[r]}
  /\ UNCHANGED <<name, given, issued, revoked, doubled>>

Handler(r) ==
  \/ Hash(r) \/ InsertUser(r) \/ InsertBoard(r) \/ Commit(r)
  \/ SelectUser(r) \/ Compare(r) \/ InsertToken(r)
  \/ SelectToken(r) \/ SelectOwner(r) \/ Revoke(r)
  \/ Fails(r)
-----------------------------------------------------------------------------
AccountsTypeOK ==
  /\ phase \in [Req -> Answer \cup
        {"none", "limit", "hash", "insert", "board", "commit", "token", "login",
         "compare", "refresh", "user", "revoke"}]
  /\ name \in [Req -> Name \cup {Nil}]
  /\ given \in [Req -> Req \cup {Nil}]
  /\ users \subseteq Name /\ board \subseteq Name
  /\ open \subseteq Req /\ issued \subseteq Req /\ revoked \subseteq Req
  /\ doubled \subseteq Req
  /\ faults \in 0 .. MaxFaults

\* The tokens of an account that are still good are at most one for each of
\* its sign-ups and logins, however often they are refreshed, and one more for
\* each refresh that overlapped another one of the same token.
RotationBounded ==
  \A n \in Name :
    LET mine == {r \in issued : name[r] = n} IN
    Cardinality(mine \ revoked)
      <= Cardinality({r \in mine : given[r] = Nil})
           + Cardinality({r \in doubled : name[r] = n})
=============================================================================
