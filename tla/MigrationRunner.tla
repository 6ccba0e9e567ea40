-------------------------- MODULE MigrationRunner --------------------------
(***************************************************************************)
(* executeMigration() of actions/migrate.ts, run by several processes at     *)
(* once against one database: the advisory lock, the ledger table, each      *)
(* pending file in order - as one transaction where the dialect and the file *)
(* allow it, statement by statement otherwise - and the "already applied"    *)
(* recovery.  A process may die between any two database calls.              *)
(***************************************************************************)
EXTENDS Naturals, Sequences, FiniteSets, FiniteSetsExt

CONSTANTS
  Processes,    \* processes that run the migrations
  Nobody,       \* not a process
  Dialects,     \* config.dialect: each behaviour has one of these
  NumFiles,     \* the corpus is the files 1..NumFiles, in the order of their names
  Scripts,      \* Scripts[d][f]: the statements of file f, generated for dialect d
  Generated,    \* files that carry the generator's marker
  Wrappable,    \* files that NON_TRANSACTIONAL_SQL does not match
  MaxMishaps    \* bound: crashes, failing calls and failing ledger reads

Files == 1..NumFiles
Ops == {"create", "ensure", "drop", "data"}
Creates(stmt) == stmt.op \in {"create", "ensure"}

ASSUME MigrationRunnerAssumption ==
  /\ Nobody \notin Processes
  /\ Dialects \subseteq {"postgres", "sqlite", "mysql"}
  /\ NumFiles \in Nat /\ MaxMishaps \in Nat
  /\ DOMAIN Scripts = Dialects
  /\ \A d \in Dialects : DOMAIN Scripts[d] = Files
  /\ \A d \in Dialects : \A f \in Files :
       Len(Scripts[d][f]) \in Nat /\ DOMAIN Scripts[d][f] = 1 .. Len(Scripts[d][f])
  /\ \A d \in Dialects : \A f \in Files : \A i \in DOMAIN Scripts[d][f] : Scripts[d][f][i].op \in Ops
  /\ Generated \subseteq Files /\ Wrappable \subseteq Files

\* createMigrationFile never writes a change the corpus already carries, and
\* nobody else makes it by hand: each object is created by one statement.
ASSUME CreatedOnce ==
  \A d \in Dialects : \A f, g \in Files : \A i \in DOMAIN Scripts[d][f], j \in DOMAIN Scripts[d][g] :
    /\ Creates(Scripts[d][f][i]) /\ Creates(Scripts[d][g][j])
    /\ Scripts[d][f][i].obj = Scripts[d][g][j].obj
    => f = g /\ i = j

VARIABLES
  dialect,  \* never changes
  schema,   \* the objects that exist
  ledger,   \* the migrations table
  lock,     \* who holds the advisory lock
  pc,       \* where each process is
  pending,  \* the files a process has still to run
  next,     \* the next statement of an unwrapped file
  times,    \* ghost: times[f][i]: how often statement i of f has taken effect
  blamed,   \* ghost: processes a mishap happened to
  mishaps

runnerVars == <<dialect, schema, ledger, lock, pc, pending, next, times, blamed, mishaps>>

Script == Scripts[dialect]

\* The dialect rolls DDL back.
TransactionalDdl == dialect \in {"postgres", "sqlite"}

\* The dialect has an advisory lock.
Locking == dialect # "sqlite"

Ended == {"done", "failed", "dead"}
Running == {"ledger", "file", "recorded?"}

RunnerTypes ==
  /\ dialect \in Dialects
  /\ ledger \subseteq Files
  /\ lock \in Processes \cup {Nobody}
  /\ pc \in [Processes -> {"idle", "waiting"} \cup Running \cup Ended]
  /\ \A p \in Processes : Locking => (lock = p <=> pc[p] \in Running)
  /\ pending \in [Processes -> SUBSET Files] /\ next \in [Processes -> Nat \ {0}]
  /\ DOMAIN times = Files /\ \A f \in Files : times[f] \in [DOMAIN Script[f] -> Nat]
  /\ blamed \subseteq Processes
  /\ mishaps \in 0..MaxMishaps

RunnerInit ==
  /\ dialect \in Dialects
  /\ schema = {} /\ ledger = {} /\ lock = Nobody
  /\ pc = [p \in Processes |-> "idle"]
  /\ pending = [p \in Processes |-> {}]
  /\ next = [p \in Processes |-> 1]
  /\ times = [f \in Files |-> [i \in DOMAIN Script[f] |-> 0]]
  /\ blamed = {} /\ mishaps = 0

Goto(p, l) == pc' = [pc EXCEPT ![p] = l]

\* Mutant of Wrapped: no file is applied as one unit.
NeverWrapped(f) == FALSE

Wrapped(f) == TransactionalDdl /\ f \in Wrappable

\* isGeneratedMigration(file) && isAlreadyAppliedError(err)
AlreadyApplied(f, error) == f \in Generated /\ error = "exists"

----------------------------------------------------------------------------
(* Statements.  "ensure" is a statement with IF [NOT] EXISTS, "data" one that *)
(* changes rows.                                                             *)

Failing(s, stmt) ==
  IF stmt.op = "create" /\ stmt.obj \in s THEN "exists"
  ELSE IF stmt.op = "drop" /\ stmt.obj \notin s THEN "missing"
  ELSE "none"

After(s, stmt) ==
  CASE stmt.op \in {"create", "ensure"} -> s \cup {stmt.obj}
    [] stmt.op = "drop" -> s \ {stmt.obj}
    [] OTHER -> s

Execute(st, stmt) ==
  IF st.error # "none" THEN st
  ELSE IF Failing(st.schema, stmt) # "none" THEN [st EXCEPT !.error = Failing(st.schema, stmt)]
  ELSE [st EXCEPT !.schema = After(@, stmt)]

\* after[i]: once the first i statements have been sent
ExecuteFile(f) ==
  LET after[i \in 0 .. Len(Script[f])] ==
        IF i = 0 THEN [schema |-> schema, error |-> "none"] ELSE Execute(after[i - 1], Script[f][i])
  IN  after[Len(Script[f])]

----------------------------------------------------------------------------
(* The run.                                                                *)

Start(p) ==
  /\ pc[p] = "idle"
  /\ Goto(p, IF Locking THEN "waiting" ELSE "ledger")
  /\ UNCHANGED <<schema, ledger, lock, pending, next, times, blamed, mishaps>>

\* Mutant of AcquireLock: the lock is shared.
AcquireSharedLock(p) ==
  /\ pc[p] = "waiting" /\ lock' = p
  /\ Goto(p, "ledger")
  /\ UNCHANGED <<schema, ledger, pending, next, times, blamed, mishaps>>

\* reserved.advisoryLock(MIGRATION_LOCK_KEY)
AcquireLock(p) ==
  /\ pc[p] = "waiting" /\ lock = Nobody
  /\ lock' = p
  /\ Goto(p, "ledger")
  /\ UNCHANGED <<schema, ledger, pending, next, times, blamed, mishaps>>

\* Mutant of EndRun: the lock is not released.
EndRunKeepingLock(p, how) == Goto(p, how) /\ UNCHANGED lock

\* The run resolves or rejects; `finally` releases the lock.
EndRun(p, how) ==
  /\ Goto(p, how)
  /\ lock' = IF lock = p THEN Nobody ELSE lock

\* scriptFiles without the executed ones; they are sorted, so that the file under
\* way is the first that is left.
PendingFiles(recorded) == Files \ recorded

TakeUp(p, files) ==
  /\ pending' = [pending EXCEPT ![p] = files]
  /\ next' = [next EXCEPT ![p] = 1]
  /\ IF files = {} THEN EndRun(p, "done") ELSE Goto(p, "file") /\ UNCHANGED lock

\* createMigrationsTable and getExecutedMigrations
ReadLedger(p) ==
  /\ pc[p] = "ledger"
  /\ TakeUp(p, PendingFiles(ledger))
  /\ UNCHANGED <<schema, ledger, times, blamed, mishaps>>

Mishap(p) ==
  /\ mishaps < MaxMishaps
  /\ mishaps' = mishaps + 1
  /\ blamed' = blamed \cup {p}

\* The query for the ledger fails and getExecutedMigrations returns [].
LedgerReadFails(p) ==
  /\ pc[p] = "ledger"
  /\ TakeUp(p, PendingFiles({}))
  /\ Mishap(p)
  /\ UNCHANGED <<schema, ledger, times>>

Current(p) == Min(pending[p])
OthersLeft(p) == pending[p] \ {Current(p)}

Fail(p) == EndRun(p, "failed") /\ UNCHANGED <<schema, ledger, pending, next, times>>

\* catch: an already applied generated file is recorded next, all else rethrown.
Caught(p, error) ==
  IF AlreadyApplied(Current(p), error)
  THEN Goto(p, "recorded?") /\ UNCHANGED <<schema, ledger, lock, pending, next, times>>
  ELSE Fail(p)

\* A database call of the file rejects; in the catch block nothing catches it.
CallRejects(p, error) == IF pc[p] = "file" THEN Caught(p, error) ELSE Fail(p)

\* A wrappable file: its statements and its ledger row are one transaction.
WrappedFile(p) ==
  /\ pc[p] = "file"
  /\ LET f == Current(p)
         st == ExecuteFile(f)
     IN  /\ Wrapped(f)
         /\ IF st.error # "none" THEN Caught(p, st.error)
            ELSE IF f \in ledger THEN Caught(p, "unique")   \* migrations.migration is UNIQUE
            ELSE /\ schema' = st.schema
                 /\ ledger' = ledger \cup {f}
                 /\ times' = [times EXCEPT ![f] = [i \in DOMAIN @ |-> @[i] + 1]]
                 /\ TakeUp(p, OthersLeft(p))
  /\ UNCHANGED <<blamed, mishaps>>

\* One statement of an unwrapped file, committed by itself.
BareStatement(p) ==
  /\ pc[p] = "file"
  /\ LET f == Current(p) IN
     /\ ~Wrapped(f) /\ next[p] <= Len(Script[f])
     /\ LET stmt == Script[f][next[p]] IN
        IF Failing(schema, stmt) # "none" THEN Caught(p, Failing(schema, stmt))
        ELSE /\ schema' = After(schema, stmt)
             /\ times' = [times EXCEPT ![f][next[p]] = @ + 1]
             /\ next' = [next EXCEPT ![p] = @ + 1]
             /\ UNCHANGED <<ledger, lock, pc, pending>>
  /\ UNCHANGED <<blamed, mishaps>>

\* recordMigration, after an unwrapped file or for an already applied one.
Record(p) ==
  /\ \/ pc[p] = "recorded?"
     \/ pc[p] = "file" /\ ~Wrapped(Current(p)) /\ next[p] > Len(Script[Current(p)])
  /\ IF Current(p) \in ledger THEN CallRejects(p, "unique")
     ELSE /\ ledger' = ledger \cup {Current(p)}
          /\ TakeUp(p, OthersLeft(p))
          /\ UNCHANGED <<schema, times>>
  /\ UNCHANGED <<blamed, mishaps>>

\* A call fails for a reason of its own (timeout, disk, lost connection).
CallFails(p) ==
  /\ pc[p] \in {"file", "recorded?"}
  /\ CallRejects(p, "other") /\ Mishap(p)

\* The process dies: its session ends, its lock goes, its transaction too.
Crash(p) ==
  /\ pc[p] \in Running \cup {"waiting"}
  /\ EndRun(p, "dead") /\ Mishap(p)
  /\ UNCHANGED <<schema, ledger, pending, next, times>>

\* Somebody runs the migrations again.
Rerun(p) ==
  /\ pc[p] \in {"failed", "dead"} /\ p \in blamed
  /\ blamed' = blamed \ {p}
  /\ Goto(p, "idle")
  /\ UNCHANGED <<schema, ledger, lock, pending, next, times, mishaps>>

Advance(p) ==
  /\ AcquireLock(p) \/ ReadLedger(p) \/ WrappedFile(p) \/ BareStatement(p) \/ Record(p)
  /\ UNCHANGED dialect

RunnerNext ==
  \E p \in Processes :
    \/ Advance(p)
    \/ /\ Start(p) \/ LedgerReadFails(p) \/ CallFails(p) \/ Crash(p) \/ Rerun(p)
       /\ UNCHANGED dialect


----------------------------------------------------------------------------
(* Properties.                                                             *)

\* executeMigration's recovery comment: "Record it and carry on - the schema is
\* where the file says it should be": every statement of a recorded file has
\* taken effect.
RecordedMeansApplied ==
  \A f \in ledger : \A i \in DOMAIN Script[f] : times[f][i] > 0

\* Where DDL can be rolled back the recovery is right: whatever died, failed or
\* ran at the same time before, a wrappable file that is recorded was applied.
RecoveryIsSound ==
  TransactionalDdl => \A f \in ledger \cap Wrappable : \A i \in DOMAIN Script[f] : times[f][i] > 0

\* Where DDL can be rolled back a wrappable file is one unit: no statement of
\* it takes effect twice, and it is never left half applied.
FileIsOneUnit ==
  TransactionalDdl => \A f \in Wrappable :
    /\ \A i \in DOMAIN Script[f] : times[f][i] <= 1
    /\ \A i, j \in DOMAIN Script[f] : times[f][i] = times[f][j]

\* Files take effect in the order of their names, whoever runs them: a statement
\* of a file has run only if every earlier file is in the ledger.
FilesGoInOrder ==
  \A f \in Files : (\E i \in DOMAIN Script[f] : times[f][i] > 0) => 1..(f - 1) \subseteq ledger

\* Whoever dies, fails, runs at the same time or starts over: files go in order,
\* each is one unit, and what is on record has been applied.
FilesAreUnitsInOrder == RecoveryIsSound /\ FileIsOneUnit /\ FilesGoInOrder

\* The lock makes the second process "wait for the first, then find nothing
\* pending": under the lock and with transactional DDL a run fails at a
\* wrappable file only when something happened to it, whoever else is running.
ConcurrentRunsDoNotCollide ==
  Locking /\ TransactionalDdl =>
    \A p \in Processes : pc[p] = "failed" /\ Current(p) \in Wrappable => p \in blamed

\* A run that has started comes to an end: it resolves, rejects or dies.
EveryRunEnds == \A p \in Processes : pc[p] \in Running \cup {"waiting"} ~> pc[p] \in Ended
=============================================================================
