----------------------------- MODULE Migrations -----------------------------
(***************************************************************************)
(* The migration runner (backend/cmd/migrate/main.go).  Several instances  *)
(* may start at once, of releases that bring more or fewer files.          *)
(***************************************************************************)
EXTENDS Integers, Sequences

CONSTANTS Runners,
          Files,      \* how many migrations the release of each runner has
          MaxFailures \* bound: crashes and statements that fail

ASSUME MigrationAssumption == Files \in [Runners -> Nat] /\ MaxFailures \in Nat

VARIABLES
  schema,  \* the migrations whose statements are in force, in the order they ran
  applied, \* the versions in schema_migrations
  runner,  \* pc and the migration it is at
  failures

migrationVars == <<schema, applied, runner, failures>>

NotRunning == [pc |-> "out", at |-> 0]
Goes(r, pc, at) == runner' = [runner EXCEPT ![r] = [pc |-> pc, at |-> at]]
Start(r) ==
  /\ runner[r].pc = "out" /\ Goes(r, "lock", 1)
  /\ UNCHANGED <<schema, applied, failures>>

\* The advisory lock is held until the session ends.  Mutated form: no lock.
Unguarded == TRUE
LockIsFree == \A r \in Runners : runner[r].pc \in {"out", "lock", "failed"}
LockMigrations(r) ==
  /\ runner[r].pc = "lock" /\ LockIsFree
  /\ Goes(r, "check", 1)
  /\ UNCHANGED <<schema, applied, failures>>

MigrationApplied(r) ==
  LET v == runner[r].at
  IN /\ runner[r].pc = "check"
     /\ IF v > Files[r] THEN runner' = [runner EXCEPT ![r] = NotRunning]
        ELSE IF v \in applied THEN Goes(r, "check", v + 1)
        ELSE Goes(r, "apply", v)
     /\ UNCHANGED <<schema, applied, failures>>

\* The statements and the record are one transaction.  Statements that are already
\* in force fail, and so does a version that is already recorded.
ApplyMigration(r) ==
  LET v == runner[r].at
  IN /\ runner[r].pc = "apply"
     /\ IF v \in applied THEN Goes(r, "failed", v) /\ UNCHANGED <<schema, applied>>
        ELSE /\ schema' = Append(schema, v) /\ applied' = applied \cup {v}
             /\ Goes(r, "check", v + 1)
     /\ UNCHANGED failures

\* A crash, or a statement that fails: rolled back, and the lock goes with the
\* session.  The deployment starts it again.
RunnerFails(r) ==
  /\ runner[r].pc \notin {"out", "failed"} /\ failures < MaxFailures
  /\ failures' = failures + 1
  /\ runner' = [runner EXCEPT ![r] = NotRunning]
  /\ UNCHANGED <<schema, applied>>

MigrationsInit ==
  /\ schema = <<>> /\ applied = {}
  /\ runner = [r \in Runners |-> NotRunning] /\ failures = 0

MigrationsNext ==
  \E r \in Runners :
    Start(r) \/ LockMigrations(r) \/ MigrationApplied(r) \/ ApplyMigration(r) \/ RunnerFails(r)

MigrationsSpec == MigrationsInit /\ [][MigrationsNext]_migrationVars

-----------------------------------------------------------------------------

\* The migrations are in force in the order of their files, each once, as far as
\* any instance has got, and exactly those are recorded; no instance fails because
\* another migrates beside it (lockMigrations, applyMigration).
MigratedInOrder ==
  /\ schema = [i \in 1..Len(schema) |-> i]
  /\ applied = 1..Len(schema)
  /\ \A r \in Runners : runner[r].pc # "failed"
=============================================================================
