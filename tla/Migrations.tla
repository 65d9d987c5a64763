----------------------------- MODULE Migrations -----------------------------
(***************************************************************************)
(* src/db/migrate.ts and the start of src/index.ts: several servers start, *)
(* bring the one database up to date under an advisory lock, and serve.    *)
(*                                                                         *)
(* Every query is a step and a transaction of its own.  A query may be     *)
(* refused, a waiting one is cancelled by the pool's statement_timeout,    *)
(* and a process may die anywhere; a process that is down is started       *)
(* again (restart: unless-stopped in docker-compose.yml).                  *)
(***************************************************************************)
EXTENDS Integers, FiniteSets

CONSTANTS Process,
          N,          \* migrations in the list, without that of their table
          Free,       \* the advisory lock has no holder
          Gone,       \* its holder is the session of a process that died
          MaxFaults   \* bound of the model: refused queries and deaths

ASSUME ProcessAssumption == Free \notin Process /\ Gone \notin Process /\ Free # Gone
ASSUME BoundAssumption == N \in Nat /\ MaxFaults \in Nat

\* The list, in its order; the table of migrations is made before it.
Migration == 1 .. N

VARIABLES pc,        \* where a process is in main and runMigrations
          at,        \* the migration its loop is at
          lock,      \* holder of the advisory lock
          table,     \* the table of migrations exists
          runs,      \* how often a migration's SQL was committed
          recorded,  \* rows of the table
          faults

database == <<table, runs, recorded>>
vars == <<pc, at, lock, database, faults>>

Init == /\ pc = [p \in Process |-> "down"]
        /\ at = [p \in Process |-> 1]
        /\ lock = Free
        /\ table = FALSE
        /\ runs = [i \in Migration |-> 0]
        /\ recorded = {}
        /\ faults = 0

Goto(p, from, to) == pc[p] = from /\ pc' = [pc EXCEPT ![p] = to]

\* main calls runMigrations, which takes a connection.
Start(p) == /\ Goto(p, "down", "lock")
            /\ at' = [at EXCEPT ![p] = 1]
            /\ UNCHANGED <<lock, database, faults>>

\* Mutant of Lock: pg_try_advisory_lock, and its answer not looked at.
TryLock(p) == /\ Goto(p, "lock", "create")
              /\ lock' = IF lock = Free THEN p ELSE lock
              /\ UNCHANGED <<at, database, faults>>

\* pg_advisory_lock waits until the lock is free.
Lock(p) == /\ Goto(p, "lock", "create")
           /\ lock = Free
           /\ lock' = p
           /\ UNCHANGED <<at, database, faults>>

\* ... but no longer than the 10 s that the pool allows a statement.
LockTimesOut(p) == /\ Goto(p, "lock", "giveUp")
                   /\ lock # Free
                   /\ UNCHANGED <<at, lock, database, faults>>

CreateTable(p) == /\ Goto(p, "create", "check")
                  /\ table' = TRUE
                  /\ UNCHANGED <<at, lock, runs, recorded, faults>>

\* SELECT, which needs the table, finds the migration's row.
Recorded(p) == /\ Goto(p, "check", "check")
               /\ table /\ at[p] \in recorded
               /\ at' = [at EXCEPT ![p] = @ + 1]
               /\ UNCHANGED <<lock, database, faults>>

\* Mutant of Unrecorded: no SELECT.
RunAnyway(p) == /\ Goto(p, "check", "run")
                /\ at[p] \in Migration
                /\ UNCHANGED <<at, lock, database, faults>>

\* SELECT finds no row.
Unrecorded(p) == /\ Goto(p, "check", "run")
                 /\ table /\ at[p] \in Migration \ recorded
                 /\ UNCHANGED <<at, lock, database, faults>>

\* The statements of one migration are one query and so one transaction; IF NOT
\* EXISTS lets them run again.
RunSql(p) == /\ Goto(p, "run", "insert")
             /\ runs' = [runs EXCEPT ![at[p]] = @ + 1]
             /\ UNCHANGED <<at, lock, table, recorded, faults>>

\* INSERT, which the primary key refuses for a row that is there.
Record(p) == LET clash == at[p] \in recorded
             IN /\ Goto(p, "insert", IF clash THEN "giveUp" ELSE "check")
                /\ recorded' = recorded \cup {at[p]}
                /\ at' = [at EXCEPT ![p] = IF clash THEN @ ELSE @ + 1]
                /\ UNCHANGED <<lock, table, runs, faults>>

\* The loop is over.
UpToDate(p) == /\ Goto(p, "check", "finish")
               /\ at[p] > N
               /\ UNCHANGED <<at, lock, database, faults>>

\* Mutant of QueryFails: the error is logged and the SQL taken for run.
QueryFailsQuietly(p) == /\ faults < MaxFaults /\ faults' = faults + 1
                        /\ Goto(p, "run", "insert")
                        /\ UNCHANGED <<at, lock, database>>

\* A refused query has no effect and leads to the finally block.
QueryFails(p) == /\ faults < MaxFaults /\ faults' = faults + 1
                 /\ pc[p] \in {"create", "check", "run", "insert"}
                 /\ pc' = [pc EXCEPT ![p] = "giveUp"]
                 /\ UNCHANGED <<at, lock, database>>

\* Mutant of Finish: no finally block, so that the pool keeps the lock.
FinishLocked(p) == /\ Goto(p, "finish", "serve")
                   /\ UNCHANGED <<at, lock, database, faults>>

\* The finally block unlocks; main goes on to listen.
Finish(p) == /\ Goto(p, "finish", "serve")
             /\ lock' = IF lock = p THEN Free ELSE lock
             /\ UNCHANGED <<at, database, faults>>

\* Mutant of GiveUp: main does not see the error.
ServeAnyway(p) == /\ Goto(p, "giveUp", "serve")
                  /\ lock' = IF lock = p THEN Free ELSE lock
                  /\ UNCHANGED <<at, database, faults>>

\* The finally block again, where the process may never have had the lock; the
\* error reaches main, which exits.
GiveUp(p) == /\ Goto(p, "giveUp", "down")
             /\ lock' = IF lock = p THEN Free ELSE lock
             /\ UNCHANGED <<at, database, faults>>

\* The database still holds the lock of a process that died ...
Die(p) == /\ faults < MaxFaults /\ faults' = faults + 1
          /\ pc[p] # "down" /\ pc' = [pc EXCEPT ![p] = "down"]
          /\ lock' = IF lock = p THEN Gone ELSE lock
          /\ UNCHANGED <<at, database>>

\* ... until it notices that the session is gone.
SessionEnds == /\ lock = Gone
               /\ lock' = Free
               /\ UNCHANGED <<pc, at, database, faults>>

\* What a process does when nothing goes wrong.
Step(p) ==
  \/ Start(p) \/ Lock(p) \/ CreateTable(p) \/ Recorded(p) \/ Unrecorded(p)
  \/ RunSql(p) \/ Record(p) \/ UpToDate(p) \/ Finish(p)

Trouble(p) ==
  LockTimesOut(p) \/ QueryFails(p) \/ GiveUp(p) \/ Die(p)

Next == (\E p \in Process : Step(p) \/ Trouble(p)) \/ SessionEnds

Spec == Init /\ [][Next]_vars

\* Processes run, are started again when they are down, and give up when they
\* must; the database notices dead sessions.
Fairness == /\ \A p \in Process : WF_vars(Step(p) \/ GiveUp(p))
            /\ WF_vars(SessionEnds)

LiveSpec == Spec /\ Fairness
-----------------------------------------------------------------------------
Place == {"down", "lock", "create", "check", "run", "insert", "finish", "giveUp",
          "serve"}

\* Types; the loop's index goes one beyond the list.
TypeOK == /\ pc \in [Process -> Place]
          /\ at \in [Process -> 1 .. N + 1]
          /\ lock \in Process \cup {Free, Gone}
          /\ table \in BOOLEAN
          /\ runs \in [Migration -> Nat]
          /\ recorded \subseteq Migration
          /\ faults \in 0 .. MaxFaults

Working(p) == pc[p] \in {"create", "check", "run", "insert", "finish"}
Applied == {i \in Migration : runs[i] > 0}

\* "Only one instance runs migrations at a time", also while sessions of dead
\* processes are noticed late and waiting ones time out.
OneMigrates == \A p, q \in Process : Working(p) /\ Working(q) => p = q

\* No failure, death or second process makes the table claim a migration that the
\* schema lacks.
RecordedIsApplied == recorded \subseteq Applied

\* A server that takes requests finds the whole schema, also one that started
\* while another was migrating, failing or dying.
ServesMigrated == \A p \in Process : pc[p] = "serve" => recorded = Migration

\* Migrations reach the schema in their order, since later ones refer to the
\* tables of earlier ones.
InOrder == \A j \in Applied : 1 .. j \subseteq Applied

\* The runs of each migration after its first.
Reruns == UNION {{i} \X (2 .. runs[i]) : i \in Migration}

\* A migration's SQL runs again only for a fault between it and its record.
RunsExplained == Cardinality(Reruns) <= faults

\* In the end all servers serve, although some died, some found queries refused
\* and some gave up waiting for the lock.
AllServe == \A p \in Process : <>[](pc[p] = "serve")
=============================================================================
