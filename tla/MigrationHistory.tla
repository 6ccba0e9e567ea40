-------------------------- MODULE MigrationHistory --------------------------
(* A project's migrations over time: the models change, generateMigration      *)
(* compares them with the snapshot (or, without one, with the live database)   *)
(* and writes files, the runner executes what is pending, or generateMigration *)
(* applies its own statements; files are rolled back, the database is reset,   *)
(* the snapshot is lost, a process dies in between.                           *)
EXTENDS DatabaseSchema

CONSTANTS
  Versions,      \* what the application's models may be: a set of sequences of models
  DialectsUsed,  \* the dialects the project may have
  HandTables,    \* bound: the tables someone may add a column to by hand
  MaxGenerates,  \* bound: generates
  MaxCommands,   \* bound: commands of any kind
  MaxCrashes     \* bound: processes that die, and failing bookkeeping calls

ASSUME HistoryAssumption == DialectsUsed \subseteq Dialects /\ MaxGenerates \in Nat /\ MaxCommands \in Nat /\ MaxCrashes \in Nat

PlanOf == [d \in DialectsUsed, ms \in Versions |-> BuildMigrationPlan(ms, d)]

VARIABLES
  dialect,
  snapshot,  \* <<plan>> of the last generate, or <<>>
  files,     \* the corpus: [at, label, body, destructive]
  ran,       \* the migrations table, in the order executed
  db,
  clock,     \* seconds
  job,       \* the command under way
  gap,       \* ghost: what was met that the generator does not carry through
  ahead,     \* ghost: <<plan>> of a generate that died with its files written
  before,    \* ghost: for each file run, the database it found
  failed,    \* ghost: a file failed
  handmade,  \* ghost: a column was added by hand
  generates, commands, crashes

vars == <<dialect, snapshot, files, ran, db, clock, job, gap, ahead, before, failed, handmade, generates, commands, crashes>>

Idle == [pc |-> "idle"]
Plan(ms) == PlanOf[dialect, ms]

Init ==
  /\ dialect \in DialectsUsed
  /\ snapshot = <<>> /\ files = {} /\ ran = <<>> /\ db = EmptyDb
  /\ clock = 100
  /\ job = Idle
  /\ gap = {} /\ ahead = <<>> /\ before = <<>> /\ failed = FALSE /\ handmade = FALSE
  /\ generates = 0 /\ commands = 0 /\ crashes = 0

Start == job.pc = "idle" /\ commands < MaxCommands /\ commands' = commands + 1

(* File names: sequence first.                                                 *)
Name(f) == <<f.at, f.label>>
KindRank(f) == CASE f.label[1] = "alter" -> 1 [] f.label[1] = "create" -> 2 [] OTHER -> 3
Rank(f) == f.at * 4 + KindRank(f)
Sorted(fs) ==
  FoldSet(LAMBDA f, seq : InsertAt(seq, Len(SelectSeq(seq, LAMBDA g : Rank(g) <= Rank(f))) + 1, f), <<>>, fs)
FileNamed(name) == CHOOSE f \in files : Name(f) = name
Pending == {f \in files : ~\E i \in DOMAIN ran : ran[i] = Name(f)}
Replay(fs) == FoldLeft(LAMBDA r, f : ApplyFile(r.db, f.body, dialect), Ok(EmptyDb), Sorted(fs))
Strip(d0) ==
  [d0 EXCEPT !.tables = [t \in DOMAIN @ |-> [@[t] EXCEPT !.cols = Without(@, {"handmade"})]]]

----------------------------------------------------------------------------
(* Changes the generator does not carry through on some dialect.               *)
GapFor(prev, next, d) ==
  LET shared == {t \in TablesOf(next.tables) : t \in TablesOf(prev.tables)}
      gone   == {t \in TablesOf(prev.tables) : t \notin TablesOf(next.tables)}
      P(t) == TableIn(prev, t)
      N(t) == TableIn(next, t)
      Common(t) == NamesOf(P(t).cols) \cap NamesOf(N(t).cols)
      Old(t, c) == ColOf(P(t).cols, c)
      New(t, c) == ColOf(N(t).cols, c)
      Left(t)  == {c \in ToSet(P(t).cols) : c.name \notin NamesOf(N(t).cols)}
      Came(t)  == {c \in ToSet(N(t).cols) : c.name \notin NamesOf(P(t).cols)}
  IN  \* a table goes while another still points at it
      \/ /\ d # "postgres"
         /\ \E t \in gone : \E u \in TablesOf(prev.tables) \ {t} : \E c \in ToSet(P(u).cols) : c.ref.table = t
      \* a foreign key changes on a column that stays, or leaves with its column
      \/ /\ d # "sqlite"
         /\ \E t \in shared : \E c \in Common(t) : Old(t, c).ref # New(t, c).ref
      \/ d = "mysql" /\ \E t \in shared : \E c \in Left(t) : c.ref # NoRef
      \* SQLite adds a column without its reference
      \/ d = "sqlite" /\ \E t \in shared : \E c \in Came(t) : c.ref # NoRef
      \* Postgres keeps its enum types as they are, also when nothing uses them
      \/ /\ d = "postgres"
         /\ \/ \E t \in shared : \E c \in Common(t) : New(t, c).type = "enum" /\ New(t, c) # Old(t, c)
            \/ \E t \in TablesOf(prev.tables) : \E c \in ToSet(P(t).cols) :
                 c.type = "enum" /\ (t \in gone \/ c \in Left(t))
      \* MySQL does not change a type at either end of a foreign key
      \/ /\ d = "mysql"
         /\ \E t \in shared : \E c \in Common(t) :
              /\ Old(t, c).type # New(t, c).type
              /\ \/ New(t, c).ref # NoRef
                 \/ \E u \in TablesOf(prev.tables) : \E e \in ToSet(P(u).cols) :
                      e.ref.table = t /\ e.ref.column = c
      \* rows there are get no value for a column that needs one
      \/ d # "mysql" /\ \E t \in shared : \E c \in Came(t) : ~c.null /\ c.def = ""

----------------------------------------------------------------------------
(* createMigrationFile, for each file of a diff: a body the corpus has is not   *)
(* written again; deterministic names overwrite, timestamps walk to a free one.*)
FreeFrom(fs, at, label) == CHOOSE n \in at .. at + Cardinality(fs) :
  /\ \A f \in fs : Name(f) # <<n, label>>
  /\ \A k \in at .. n - 1 : \E f \in fs : Name(f) = <<k, label>>

CreateMigrationFile(w, f, deterministic) ==
  IF \E g \in w.files : g.body = f.body THEN w
  ELSE LET n  == w.count + 1
           at == IF deterministic THEN n ELSE FreeFrom(w.files, w.clock + n, f.label)
           new == [at |-> at, label |-> f.label, body |-> f.body, destructive |-> f.destructive]
       IN  [w EXCEPT !.files = {g \in @ : Name(g) # Name(new)} \cup {new}, !.count = n,
                     !.made = Append(@, Name(new))]

(* Without a snapshot the tables the models know are read off the database.     *)
Previous(plan) ==
  IF snapshot # <<>> THEN [plan |-> snapshot, live |-> FALSE]
  ELSE LET live == BuildPlanFromDatabase(db, [i \in DOMAIN plan.tables |-> plan.tables[i].table], dialect)
       IN  [plan |-> IF live.tables = <<>> THEN <<>> ELSE <<live>>, live |-> TRUE]

DiffOf(prev, plan) ==
  IF prev.plan = <<>> THEN GenerateSql(plan) ELSE GenerateDiff(prev.plan[1], plan, TRUE, prev.live)

Written(diff, now, deterministic) ==
  FoldLeft(LAMBDA w, f : CreateMigrationFile(w, f, deterministic),
           [files |-> files, count |-> 0, clock |-> now, made |-> <<>>], diff)

(* What else it does not carry through: a change whose statements the corpus has *)
(* already (but for the files of a generate that died, asked again); names that  *)
(* sort before files there are; files written over older ones; a database that   *)
(* is not where the files are, or has more than they say.                       *)
IsWithin(d0, plan) ==
  \A t \in DOMAIN d0.tables :
    /\ t \in TablesOf(plan.tables)
    /\ ColumnsOf(d0, t) \subseteq NamesOf(TableIn(plan, t).cols)
    /\ d0.tables[t].idx \subseteq ToSet(TableIn(plan, t).idx)
Again(plan) == ahead = <<plan>>
Gaps(prev, plan, diff, now, apply) ==
  {g \in {"change", "repeated", "crowded", "overwritten", "elsewhere"} :
     CASE g = "change"      -> \E p \in ToSet(prev.plan) : GapFor(p, plan, dialect)
       [] g = "repeated"    -> IF ahead # <<>> THEN apply \/ ~Again(plan)
                               ELSE \E i \in DOMAIN diff, f \in files : f.body = diff[i].body
       [] g = "crowded"     -> ~Again(plan) /\ \E f \in files : f.at > now
       [] g = "overwritten" -> ~Again(plan) /\ prev.plan = <<>> /\ files # {}
       [] OTHER             -> \/ (apply \/ prev.live) /\ Pending # {}
                               \/ handmade /\ dialect = "sqlite"
                               \/ prev.live /\ (~IsWithin(db, plan) \/ gap \cap {"dropped", "left", "recorded"} # {})}

(* generateMigration: the statements, and the files that carry them.            *)
Generate(apply) ==
  /\ Start /\ generates < MaxGenerates /\ generates' = generates + 1
  /\ \E models \in Versions, pause \in IF files = {} \/ apply THEN {20} ELSE {0, 20} :
     \E plan \in {Plan(models)} : \E prev \in {Previous(plan)} : \E diff \in {DiffOf(prev, plan)} :
       LET w == Written(diff, clock + pause, prev.plan = <<>>)
       IN  /\ clock' = clock + pause
           /\ files' = w.files
           /\ gap' = gap \cup Gaps(prev, plan, diff, clock + pause, apply)
           /\ job' = [pc |-> IF apply THEN "applying" ELSE "generated", plan |-> plan, made |-> w.made,
                      body |-> FlattenSeq([i \in DOMAIN diff |-> diff[i].body]),
                      destructive |-> \E i \in DOMAIN diff : diff[i].destructive]
  /\ UNCHANGED <<dialect, snapshot, ran, db, ahead, before, failed, handmade, crashes>>

Before(name) ==
  LET earlier == SelectSeq(Sorted(files), LAMBDA f : Name(f) \in ToSet(job.made) /\ Rank(f) < Rank(FileNamed(name)))
  IN  ApplyAll(db, FlattenSeq([i \in DOMAIN earlier |-> earlier[i].body]), dialect).db

(* apply: the script is run as it is; a failure leaves the snapshot where it was.*)
Execute ==
  /\ job.pc = "applying"
  /\ LET r == ApplyAll(db, job.body, dialect)
     IN  /\ db' \in {r.db, IF r.err = "" THEN r.db ELSE db}
         /\ failed' = (failed \/ r.err # "")
         /\ before' = [n \in DOMAIN before \cup ToSet(job.made) |->
                         IF n \notin ToSet(job.made) THEN before[n] ELSE Before(n)]
         /\ job' = IF r.err # "" THEN Idle ELSE [job EXCEPT !.pc = "applied"]
  /\ UNCHANGED <<dialect, snapshot, files, ran, clock, gap, ahead, handmade, generates, commands, crashes>>

(* settleAppliedFiles is best-effort: it stops at the first record it cannot     *)
(* make, one that is there already or a call that fails.                        *)
SettleAppliedFiles ==
  /\ job.pc = "applied"
  /\ \E k \in 0 .. Len(job.made) :
       /\ \A i \in 1 .. k : job.made[i] \notin ToSet(ran)
       /\ ran' = IF k = 0 THEN ran ELSE ran \o SubSeq(job.made, 1, k)
       /\ IF k = Len(job.made) \/ job.made[k + 1] \in ToSet(ran)
          THEN UNCHANGED <<gap, crashes>>
          ELSE /\ crashes < MaxCrashes /\ crashes' = crashes + 1
               /\ gap' = gap \cup {"unrecorded"}
  /\ job' = [job EXCEPT !.pc = "generated"]
  /\ UNCHANGED <<dialect, snapshot, files, db, clock, ahead, before, failed, handmade, generates, commands>>

SavePlanSnapshot ==
  /\ job.pc = "generated"
  /\ snapshot' = <<job.plan>>
  /\ job' = Idle /\ ahead' = <<>>
  /\ UNCHANGED <<dialect, files, ran, db, clock, gap, before, failed, handmade, generates, commands, crashes>>

(* executeMigration, file by file; one that fails because what it makes is      *)
(* there already is recorded.                                                 *)
RunFile(r, f) ==
  IF r.stop THEN r
  ELSE LET a == ApplyFile(r.db, f.body, dialect)
       IN  IF a.err = "other" THEN [r EXCEPT !.stop = TRUE, !.db = a.db]
           ELSE [r EXCEPT !.db = a.db, !.ran = Append(@, Name(f)), !.skips = @ \/ a.err # "",
                          !.before = Put(@, Name(f), r.db)]

ExecuteMigration ==
  /\ Start
  /\ LET r == FoldLeft(LAMBDA acc, f : RunFile(acc, f),
                       [db |-> db, ran |-> ran, before |-> before, stop |-> FALSE, skips |-> FALSE],
                       Sorted(Pending))
     IN  /\ db' = r.db /\ ran' = r.ran /\ before' = r.before
         /\ failed' = (failed \/ r.stop \/ r.skips)
  /\ UNCHANGED <<dialect, snapshot, files, clock, job, gap, ahead, handmade, generates, crashes>>

----------------------------------------------------------------------------
(* deriveDownStatements: what can be undone, last first.  A rebuilt table's      *)
(* script holds a CREATE TABLE of the copy and its indexes.                   *)
DownKeepsColumns(s, d) ==
  IF s.op = "add_column" THEN <<>> ELSE IF s.op = "create_table" THEN <<DropTable(s.table)>> ELSE <<>>
Down(s, d) ==
  CASE s.op = "create_table" -> <<DropTable(s.table)>>
    [] s.op = "create_index" -> <<DropIndex(s.table, s.idx.name)>>
    [] s.op = "add_column" -> <<DropColumn(s.table, s.col.name)>>
    [] s.op = "add_foreign_key" /\ d # "sqlite" ->
         <<[op |-> "drop_foreign_key", table |-> s.table, name |-> <<s.table, s.col, "fk">>]>>
    [] s.op = "rebuild" -> Reverse([i \in DOMAIN s.idx |-> DropIndex(s.table, s.idx[i].name)])
    [] OTHER -> <<>>
DeriveDownStatements(body, d) == FlattenSeq([i \in DOMAIN body |-> Down(body[Len(body) - i + 1], d)])
Invertible(body) ==
  \A i \in DOMAIN body : body[i].op \in {"create_table", "create_index", "add_column", "add_foreign_key"}

(* SQLite's files are not in the order of their references: the last table made  *)
(* may be the one that others point at.                                         *)
PointedAt(body) ==
  dialect = "sqlite" /\ \E i \in DOMAIN body : body[i].op = "create_table" /\ PointAt(db, body[i].table) # {}

(* migrateRollback of the last file: its down statements one by one, then the    *)
(* record.                                                                    *)
MigrateRollback ==
  /\ Start /\ ran # <<>>
  /\ \E f \in files :
       /\ Name(f) = Last(ran)
       /\ job' = [pc |-> "rolling", name |-> Name(f), left |-> DeriveDownStatements(f.body, dialect),
                  whole |-> Invertible(f.body)]
       /\ gap' = gap \cup (IF Invertible(f.body) /\ ~PointedAt(f.body) THEN {} ELSE {"kept"})
  /\ UNCHANGED <<dialect, snapshot, files, ran, db, clock, ahead, before, failed, handmade, generates, crashes>>

RollStatement ==
  /\ job.pc = "rolling" /\ job.left # <<>>
  /\ LET r == Apply(db, Head(job.left), dialect)
     IN  IF r.err # "" THEN job' = Idle /\ failed' = TRUE /\ UNCHANGED db
         ELSE db' = r.db /\ job' = [job EXCEPT !.left = Tail(@)] /\ UNCHANGED failed
  /\ UNCHANGED <<dialect, snapshot, files, ran, clock, gap, ahead, before, handmade, generates, commands, crashes>>

RemoveRecord ==
  /\ job.pc = "rolling" /\ job.left = <<>>
  /\ ran' = Front(ran)
  /\ job' = [job EXCEPT !.pc = "rolled"]
  /\ UNCHANGED <<dialect, snapshot, files, db, clock, gap, ahead, before, failed, handmade, generates, commands, crashes>>
RollbackEnds ==
  /\ job.pc = "rolled"
  /\ job' = Idle
  /\ UNCHANGED <<dialect, snapshot, files, ran, db, clock, gap, ahead, before, failed, handmade, generates, commands, crashes>>

(* resetDatabase: the record, the tables of the models there are (last first,    *)
(* constraints off) and their enum types, statement by statement; then, unless   *)
(* the corpus is kept for a replay or no model could be loaded, the snapshot and  *)
(* the generated files.  What is not there is not listed: dropping it does       *)
(* nothing.                                                                   *)
Drops(kind, names) == [i \in DOMAIN names |-> [drop |-> kind, name |-> names[i]]]
EnumTypesOf(tables) ==
  UNION {{EnumType(t.table, c.name) : c \in {e \in ToSet(t.cols) : e.type = "enum"}} : t \in ToSet(tables)}

ResetDatabase ==
  /\ Start
  /\ \E tables \in {<<>>} \cup {Plan(models).tables : models \in Versions}, preserve \in BOOLEAN :
     LET there == SelectSeq(Reverse([i \in DOMAIN tables |-> tables[i].table]), LAMBDA t : Has(db, t))
         types == SetToSeq(EnumTypesOf(tables) \cap DOMAIN db.enums)
     IN  job' = [pc |-> "resetting", preserve |-> preserve \/ tables = <<>>,
                 left |-> Drops("record", <<"migrations">>) \o Drops("table", there) \o Drops("type", types)
                          \o IF preserve \/ tables = <<>> THEN <<>>
                             ELSE Drops("snapshot", <<"snapshot">>)
                                  \o Drops("file", [i \in DOMAIN Sorted(files) |-> Name(Sorted(files)[i])])]
  /\ UNCHANGED <<dialect, snapshot, files, ran, db, clock, gap, ahead, before, failed, handmade, generates, crashes>>

(* On Postgres CASCADE takes the constraints, and the columns of a type, along.  *)
DropForReset(s) ==
  CASE s.drop = "table" ->
         [db EXCEPT !.tables = IF dialect = "postgres" THEN WithoutRefsTo(db, s.name) ELSE Without(@, {s.name})]
    [] s.drop = "type" ->
         [tables |-> [t \in DOMAIN db.tables |->
                        [db.tables[t] EXCEPT !.cols = Without(@, {c \in DOMAIN @ : EnumType(t, c) = s.name})]],
          enums  |-> Without(db.enums, {s.name})]
    [] OTHER -> db

(* One statement or one unlink: an error is logged and the reset goes on, past    *)
(* the rest of the files when it was one of them.                              *)
InCorpus(s) == s.drop \in {"snapshot", "file"}
ResetStep ==
  /\ job.pc = "resetting" /\ job.left # <<>>
  /\ LET s == Head(job.left)
     IN  \/ /\ db' = DropForReset(s)
            /\ gap' = gap \cup {IF InCorpus(s) THEN "erased" ELSE "dropped"}
            /\ IF s.drop = "record" THEN ran' = <<>> /\ before' = <<>> ELSE UNCHANGED <<ran, before>>
            /\ snapshot' = IF s.drop = "snapshot" THEN <<>> ELSE snapshot
            /\ files' = IF s.drop = "file" THEN {f \in files : Name(f) # s.name} ELSE files
            /\ job' = [job EXCEPT !.left = Tail(@)]
            /\ UNCHANGED crashes
         \/ /\ crashes < MaxCrashes /\ crashes' = crashes + 1
            /\ gap' = gap \cup {CASE InCorpus(s) -> "erased" [] s.drop = "record" -> "recorded" [] OTHER -> "left"}
            /\ job' = [job EXCEPT !.left = IF InCorpus(s) THEN <<>> ELSE Tail(@)]
            /\ UNCHANGED <<snapshot, files, ran, db, before>>
  /\ UNCHANGED <<dialect, clock, ahead, failed, handmade, generates, commands>>

(* Nothing left of the database, and of the corpus unless it was kept: the        *)
(* history starts again, whatever there was before.                           *)
ResetEnds ==
  /\ job.pc = "resetting" /\ job.left = <<>>
  /\ job' = Idle
  /\ IF db = EmptyDb /\ ran = <<>>
     THEN /\ handmade' = FALSE
          /\ IF files = {} /\ snapshot = <<>>
             THEN gap' = {} /\ ahead' = <<>> /\ failed' = FALSE
             ELSE /\ gap' = IF job.preserve /\ ~failed THEN gap \ {"dropped", "left", "recorded"} ELSE gap
                  /\ UNCHANGED <<ahead, failed>>
     ELSE gap' = gap \cup {"left"} /\ UNCHANGED <<handmade, ahead, failed>>
  /\ UNCHANGED <<dialect, snapshot, files, ran, db, clock, before, generates, commands, crashes>>

LoseSnapshot ==
  /\ Start /\ snapshot # <<>>
  /\ snapshot' = <<>>
  /\ UNCHANGED <<dialect, files, ran, db, clock, job, gap, ahead, before, failed, handmade, generates, crashes>>

AddColumnByHand ==
  /\ Start /\ ~handmade
  /\ \E t \in HandTables \cap DOMAIN db.tables :
       db' = Apply(db, AddColumn(t, Col("handmade", "string")), dialect).db
  /\ handmade' = TRUE
  /\ UNCHANGED <<dialect, snapshot, files, ran, clock, job, gap, ahead, before, failed, generates, crashes>>

(* The process dies.  An applied script is then ahead of record and snapshot.     *)
Crash ==
  /\ job.pc # "idle" /\ crashes < MaxCrashes
  /\ crashes' = crashes + 1
  /\ job' = Idle
  /\ ahead' = IF job.pc \in {"applying", "applied", "generated"} THEN <<job.plan>> ELSE ahead
  /\ gap' = gap \cup (CASE job.pc = "applied" -> {"unrecorded"} [] job.pc = "rolling" -> {"interrupted"} [] OTHER -> {})
  /\ UNCHANGED <<dialect, snapshot, files, ran, db, clock, before, failed, handmade, generates, commands>>

Next ==
  \/ \E apply \in BOOLEAN : Generate(apply)
  \/ Execute \/ SettleAppliedFiles \/ SavePlanSnapshot \/ ExecuteMigration
  \/ MigrateRollback \/ RollStatement \/ RemoveRecord \/ RollbackEnds
  \/ ResetDatabase \/ ResetStep \/ ResetEnds \/ LoseSnapshot \/ AddColumnByHand \/ Crash

Spec == Init /\ [][Next]_vars

----------------------------------------------------------------------------
(* The columns whose values the database still holds.                          *)
DataIn(d0) == UNION {{d0.tables[t].cols[c].data : c \in ColumnsOf(d0, t)} : t \in DOMAIN d0.tables}
PlannedNow == snapshot # <<>> /\ job.pc = "idle" /\ gap = {} /\ ahead = <<>>

(* A reset that died, or could not drop everything, before it came to the files. *)
CorpusUntouched ==
  snapshot # <<>> /\ job.pc = "idle" /\ gap \subseteq {"dropped", "left", "recorded"} /\ ahead = <<>> /\ ~failed

(* A diff's statements are in an order the database takes: no run meets a table  *)
(* that is not there yet, an index in the way, a constraint without a target.   *)
FilesNeverFail == gap = {} => ~failed

(* The corpus alone builds what the snapshot says: on an empty database every  *)
(* file runs, in the order of the names, and the tables, columns, indexes and   *)
(* constraints are the plan's; and no run on the way here met a file that fails *)
(* (createMigrationFile, generateDiffOperations).                              *)
CorpusRebuildsTheModels ==
  /\ (PlannedNow \/ CorpusUntouched) => LET r == Replay(files) IN r.err = "" /\ Meets(r.db, snapshot[1], dialect)
  /\ FilesNeverFail

(* Asking again is quiet: with the models unchanged a second generate has        *)
(* nothing to say, also when it has to read the live database instead.          *)
LiveDiff ==
  LET live == BuildPlanFromDatabase(db, [i \in DOMAIN snapshot[1].tables |-> snapshot[1].tables[i].table], dialect)
  IN  GenerateDiff(live, snapshot[1], TRUE, TRUE)
Reached == PlannedNow /\ Pending = {} /\ ~failed /\ db.tables # <<>>
HasFlag(plan) == \E t \in ToSet(plan.tables) : \E c \in ToSet(t.cols) : c.def \in {"yes", "no"}

SecondGenerateIsQuiet ==
  /\ PlannedNow => GenerateDiff(snapshot[1], snapshot[1], TRUE, FALSE) = <<>>
  /\ (Reached /\ ~(dialect = "postgres" /\ HasFlag(snapshot[1]))) => LiveDiff = <<>>

(* A reset that came past the record and no further, or left some tables, and an  *)
(* applied script that was not recorded, are made up for by the next run when     *)
(* each file creates or adds one thing: what is there already is skipped, the     *)
(* rest comes back.  Not so after a reset on Postgres, where CASCADE took          *)
(* constraints of tables that are still there.                                  *)
RerunMakesUp ==
  (/\ snapshot # <<>> /\ job.pc = "idle" /\ ahead = <<>> /\ ~handmade
   /\ gap \subseteq (IF dialect = "postgres" THEN {"unrecorded"} ELSE {"dropped", "left", "unrecorded"})
   /\ (\A f \in files : Len(f.body) = 1 /\ Invertible(f.body)) /\ Pending = {}) =>
    Meets(db, snapshot[1], dialect)

(* With nothing left to run, the database this history went through is what the *)
(* snapshot says, whatever was run, applied, rolled back and run again before,   *)
(* and the generator agrees that nothing is left to do.                        *)
MigratedMeansModels ==
  /\ (PlannedNow /\ Pending = {} /\ ~failed) => Meets(Strip(db), snapshot[1], dialect)
  /\ RerunMakesUp
  /\ SecondGenerateIsQuiet

(* The values of a column are gone only by a file reported as destructive, by    *)
(* a rollback or by a reset; a rename and a rebuild carry them over.             *)
LossIsAnnounced ==
  [][\/ DataIn(db) \subseteq DataIn(db') \/ (handmade /\ dialect = "sqlite")
     \/ job.pc \in {"rolling", "resetting"}
     \/ job.pc = "applying" /\ job.destructive
     \/ \E f \in Pending : f.destructive]_vars

(* A file that was run and is not on record has nothing left in the database: a  *)
(* rollback that died half way is still on record, so the next one finds it.     *)
HalfRolledIsOnRecord ==
  \A f \in files :
    (/\ job.pc = "idle" /\ ~failed /\ gap \subseteq {"interrupted"} /\ Invertible(f.body)
     /\ Name(f) \in DOMAIN before /\ Name(f) \notin ToSet(ran)) =>
      \A i \in DOMAIN f.body :
        LET s == f.body[i]
        IN  CASE s.op = "create_table" -> ~Has(db, s.table)
              [] s.op = "add_column"   -> Has(db, s.table) => s.col.name \notin ColumnsOf(db, s.table)
              [] OTHER -> TRUE

(* Rolling back a file of invertible statements leaves the database as it was    *)
(* before the file ran, whatever ran before it; interrupted, it stays on record. *)
RollbackIsInverse ==
  /\ (job.pc = "rolled" /\ job.whole /\ gap = {} /\ ~handmade) => db = before[job.name]
  /\ HalfRolledIsOnRecord
=============================================================================
