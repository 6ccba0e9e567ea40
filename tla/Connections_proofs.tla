------------------------- MODULE Connections_proofs -------------------------
(***************************************************************************)
(* Proofs about withMigrationLock, the connection manager and the run of the  *)
(* migration files, for any number of migrating processes, statements,       *)
(* callers, connections, configurations and files.                          *)
(***************************************************************************)
EXTENDS Connections, SharedLemmas, FiniteSetTheorems

----------------------------------------------------------------------------
(* A script that is sent.                                                  *)

\* What exists in `s` was there before, or statement j of f made it with j <= i.
MadeBy(f, i, s) ==
  \A o \in s : o \in schema \/ \E j \in 1 .. i : Creates(Script[f][j]) /\ Script[f][j].obj = o

\* Statement j of f would create what already exists.
Repeats(f) == \E j \in DOMAIN Script[f] : Creates(Script[f][j]) /\ Script[f][j].obj \in schema

\* The database while a script is sent: what exists, and the error it stopped at.
Outcome(f) ==
  [schema : SUBSET (schema \cup {Script[f][i].obj : i \in DOMAIN Script[f]}),
   error : {"none", "exists", "missing"}]

LEMMA ScriptIsSequence ==
  ASSUME dialect \in Dialects, NEW f \in Files
  PROVE  Len(Script[f]) \in Nat /\ DOMAIN Script[f] = 1 .. Len(Script[f])
BY MigrationRunnerAssumption DEF Script

LEMMA ExecuteStays ==
  ASSUME NEW f, NEW st \in Outcome(f), NEW i \in DOMAIN Script[f]
  PROVE  /\ Execute(st, Script[f][i]) \in Outcome(f)
         /\ Execute(st, Script[f][i]).schema \subseteq st.schema \cup
              (IF Creates(Script[f][i]) THEN {Script[f][i].obj} ELSE {})
         /\ Execute(st, Script[f][i]).error = "exists" =>
              st.error = "exists" \/ (Creates(Script[f][i]) /\ Script[f][i].obj \in st.schema)
<1> DEFINE stmt == Script[f][i]
           rest == Outcome(f)
<1>1. Failing(st.schema, stmt) \in {"none", "exists", "missing"}
  BY DEF Failing
<1>2. stmt.obj \in schema \cup {Script[f][j].obj : j \in DOMAIN Script[f]}
  OBVIOUS
<1>3. /\ After(st.schema, stmt) \subseteq st.schema \cup (IF Creates(stmt) THEN {stmt.obj} ELSE {})
      /\ After(st.schema, stmt) \subseteq st.schema \cup {stmt.obj}
  BY DEF After, Creates
<1>4. Failing(st.schema, stmt) = "exists" => Creates(stmt) /\ stmt.obj \in st.schema
  BY DEF Failing, Creates
<1>5. CASE st.error # "none"
  BY <1>5 DEF Execute
<1>6. CASE st.error = "none" /\ Failing(st.schema, stmt) # "none"
  <2>1. Execute(st, stmt) = [st EXCEPT !.error = Failing(st.schema, stmt)]
    BY <1>6 DEF Execute
  <2>2. /\ Execute(st, stmt) \in Outcome(f) /\ Execute(st, stmt).schema = st.schema
        /\ Execute(st, stmt).error = Failing(st.schema, stmt)
    BY <1>1, <2>1 DEF Outcome
  <2> QED BY <1>4, <2>2
<1>7. CASE st.error = "none" /\ Failing(st.schema, stmt) = "none"
  <2>1. Execute(st, stmt) = [st EXCEPT !.schema = After(st.schema, stmt)]
    BY <1>7 DEF Execute
  <2>2. After(st.schema, stmt) \in SUBSET (schema \cup {Script[f][j].obj : j \in DOMAIN Script[f]})
    BY <1>2, <1>3 DEF Outcome
  <2>3. /\ Execute(st, stmt) \in Outcome(f) /\ Execute(st, stmt).schema = After(st.schema, stmt)
        /\ Execute(st, stmt).error = st.error
    BY <2>1, <2>2 DEF Outcome
  <2> QED BY <1>3, <1>7, <2>3
<1> QED BY <1>5, <1>6, <1>7

\* ExecuteFile sends the statements one after the other.
LEMMA ScriptHasTrace ==
  ASSUME dialect \in Dialects, NEW f \in Files
  PROVE  \E t : /\ t[0] = [schema |-> schema, error |-> "none"]
                /\ \A i \in DOMAIN Script[f] : t[i] = Execute(t[i - 1], Script[f][i])
                /\ ExecuteFile(f) = t[Len(Script[f])]
<1> DEFINE n == Len(Script[f])
           s0 == [schema |-> schema, error |-> "none"]
           Sends1(t) == [i \in 0 .. n |-> IF i = 0 THEN s0 ELSE Execute(t[i - 1], Script[f][i])]
           step == [i \in 1 .. n |-> [v \in Outcome(f) |-> Execute(v, Script[f][i])]]
<1>1. n \in Nat /\ DOMAIN Script[f] = 1 .. n
  BY ScriptIsSequence
<1>2. s0 \in Outcome(f)
  BY DEF Outcome
<1>3. ASSUME NEW i \in 1 .. n PROVE [v \in Outcome(f) |-> Execute(v, Script[f][i])] \in [Outcome(f) -> Outcome(f)]
  BY <1>1, ExecuteStays
<1>4. step \in [1 .. n -> [Outcome(f) -> Outcome(f)]]
      /\ \A v \in Outcome(f), i \in 1 .. n : step[i][v] = Execute(v, Script[f][i])
  BY <1>3
<1> HIDE DEF step, s0, n
<1> DEFINE V == Outcome(f)
<1>5a. Stepwise(n, V, s0, step)
  BY <1>1, <1>2, <1>4 DEF Stepwise
<1> HIDE DEF V
<1>5b. \E t : TraceOf(t, n, V, s0, step)
  BY <1>5a, StepByStep
<1>5. PICK t \in [0 .. n -> V] : t[0] = s0 /\ \A i \in 1 .. n : t[i] = step[i][t[i - 1]]
  BY <1>5b DEF TraceOf
<1>6. \A i \in 1 .. n : i - 1 \in 0 .. n /\ t[i - 1] \in V
  BY <1>1, <1>5
<1>7. \A i \in 1 .. n : t[i] = Execute(t[i - 1], Script[f][i])
  BY <1>4, <1>5, <1>6 DEF V
<1>8. \A i \in 0 .. n : t[i] = IF i = 0 THEN s0 ELSE Execute(t[i - 1], Script[f][i])
  BY <1>1, <1>5, <1>7
<1>9. t = Sends1(t)
  BY <1>5, <1>8
<1> DEFINE after == CHOOSE g : g = Sends1(g)
<1>10. after = Sends1(after)
  BY <1>9
<1>11. ExecuteFile(f) = after[n]
  BY DEF ExecuteFile, n, s0
<1> HIDE DEF after
<1>12. after[0] = s0 /\ \A i \in 1 .. n : after[i] = Execute(after[i - 1], Script[f][i])
  BY <1>1, <1>10
<1> QED BY <1>1, <1>11, <1>12 DEF n, s0

\* A script that is sent leaves nothing it did not find or make, and that it
\* creates something that exists means that it was there before: no script
\* creates twice.
LEMMA WhatAScriptDoes ==
  ASSUME dialect \in Dialects, NEW f \in Files
  PROVE  /\ MadeBy(f, Len(Script[f]), ExecuteFile(f).schema)
         /\ ExecuteFile(f).error = "exists" => Repeats(f)
<1>1. PICK t : /\ t[0] = [schema |-> schema, error |-> "none"]
               /\ \A i \in DOMAIN Script[f] : t[i] = Execute(t[i - 1], Script[f][i])
               /\ ExecuteFile(f) = t[Len(Script[f])]
  BY ScriptHasTrace
<1> DEFINE n == Len(Script[f])
           S == {i \in 0 .. n : /\ t[i] \in Outcome(f)
                                /\ MadeBy(f, i, t[i].schema)
                                /\ t[i].error = "exists" => Repeats(f)}
<1>2. n \in Nat /\ DOMAIN Script[f] = 1 .. n
  BY ScriptIsSequence
<1>3. 0 \in S
  BY <1>1, <1>2 DEF Outcome, MadeBy
<1>4. ASSUME NEW i \in 0 .. n - 1, i \in S PROVE i + 1 \in S
  <2>1. /\ t[i] \in Outcome(f) /\ MadeBy(f, i, t[i].schema)
        /\ t[i].error = "exists" => Repeats(f)
    BY <1>4
  <2>2. i + 1 \in DOMAIN Script[f] /\ i + 1 - 1 = i /\ i + 1 \in 0 .. n
    BY <1>2
  <2>3. t[i + 1] = Execute(t[i], Script[f][i + 1])
    BY <1>1, <2>2
  <2>4. /\ t[i + 1] \in Outcome(f)
        /\ t[i + 1].schema \subseteq t[i].schema \cup
             (IF Creates(Script[f][i + 1]) THEN {Script[f][i + 1].obj} ELSE {})
        /\ t[i + 1].error = "exists" =>
             t[i].error = "exists" \/ (Creates(Script[f][i + 1]) /\ Script[f][i + 1].obj \in t[i].schema)
    BY <2>1, <2>2, <2>3, ExecuteStays
  <2>5. MadeBy(f, i + 1, t[i + 1].schema)
    <3>1. \A j \in 1 .. i : j \in 1 .. i + 1
      OBVIOUS
    <3>2. i + 1 \in 1 .. i + 1
      OBVIOUS
    <3> QED BY <2>1, <2>4, <3>1, <3>2 DEF MadeBy
  <2>6. ASSUME t[i + 1].error = "exists" PROVE Repeats(f)
    <3>1. CASE t[i].error = "exists"
      BY <2>1, <3>1
    <3>2. CASE Creates(Script[f][i + 1]) /\ Script[f][i + 1].obj \in t[i].schema
      <4>1. SUFFICES ASSUME NEW j \in 1 .. i, Creates(Script[f][j]), Script[f][j].obj = Script[f][i + 1].obj
                     PROVE  FALSE
        BY <2>1, <2>2, <3>2 DEF MadeBy, Repeats
      <4>2. j \in DOMAIN Script[f] /\ j # i + 1
        BY <1>2
      <4> QED BY <2>2, <3>2, <4>1, <4>2, CreatedOnce DEF Script
    <3> QED BY <2>4, <2>6, <3>1, <3>2
  <2> QED BY <2>2, <2>4, <2>5, <2>6
<1> HIDE DEF S, n
<1>5. 0 .. n \subseteq S
  BY <1>2, <1>3, <1>4, CountingUp
<1>6. n \in S
  BY <1>2, <1>5
<1> QED BY <1>1, <1>6 DEF S, n

----------------------------------------------------------------------------
(* The run.                                                                *)

\* What exists was created by a statement that took effect.
SchemaIsMade ==
  \A o \in schema : \E f \in Files : \E i \in DOMAIN Script[f] :
    Creates(Script[f][i]) /\ Script[f][i].obj = o /\ times[f][i] > 0

\* Where DDL can be rolled back a wrappable file has taken effect, once and as a
\* whole, exactly when it is recorded.
RecordedIsApplied ==
  TransactionalDdl => \A f \in Wrappable : \A i \in DOMAIN Script[f] :
    times[f][i] = IF f \in ledger THEN 1 ELSE 0

\* A process at a file has recorded, or found recorded, all the files it has not
\* left; one that found its file already applied finds it recorded too, if it
\* is one of those that are applied as a whole.
RunOk(p) ==
  /\ pc[p] \in {"file", "recorded?"} => pending[p] # {} /\ Files \ pending[p] \subseteq ledger
  /\ pc[p] = "recorded?" /\ Wrapped(Current(p)) => Current(p) \in ledger

ControlOk ==
  /\ lock \in Processes \cup {Nobody}
  /\ pc \in [Processes -> {"idle", "waiting"} \cup Running \cup Ended]
  /\ \A p \in Processes : Locking => (lock = p <=> pc[p] \in Running)
  /\ pending \in [Processes -> SUBSET Files] /\ next \in [Processes -> Nat \ {0}]
  /\ \A p \in Processes : RunOk(p)

DataOk ==
  /\ ledger \subseteq Files
  /\ DOMAIN times = Files /\ \A f \in Files : times[f] \in [DOMAIN Script[f] -> Nat]
  /\ SchemaIsMade /\ RecordedIsApplied /\ FilesGoInOrder

RunnerInv ==
  /\ dialect \in Dialects
  /\ ControlOk /\ DataOk
  /\ blamed \subseteq Processes /\ mishaps \in 0 .. MaxMishaps

LEMMA RunnerInvTypes == RunnerInv => RunnerTypes
BY DEF RunnerInv, ControlOk, DataOk, RunnerTypes

LEMMA RunnerInvMeans == RunnerInv => FilesAreUnitsInOrder
<1> SUFFICES ASSUME RunnerInv PROVE FilesAreUnitsInOrder
  OBVIOUS
<1>1. RecordedIsApplied /\ FilesGoInOrder
  BY DEF RunnerInv, DataOk
<1>2. RecoveryIsSound
  BY <1>1 DEF RecordedIsApplied, RecoveryIsSound
<1>3. FileIsOneUnit
  BY <1>1 DEF RecordedIsApplied, FileIsOneUnit
<1> QED BY <1>1, <1>2, <1>3 DEF FilesAreUnitsInOrder

\* The file under way is the first one left: all before it are recorded.
LEMMA AtItsFile ==
  ASSUME RunnerInv, NEW p \in Processes, pc[p] \in {"file", "recorded?"}
  PROVE  /\ Current(p) \in pending[p] /\ Current(p) \in Files
         /\ 1 .. (Current(p) - 1) \subseteq ledger
         /\ OthersLeft(p) \in SUBSET Files
         /\ Files \ OthersLeft(p) \subseteq ledger \cup {Current(p)}
<1> DEFINE F == pending[p]
<1>1. F \subseteq Files /\ F # {} /\ Files \ F \subseteq ledger
  BY DEF RunnerInv, ControlOk, RunOk
<1>2. Files \subseteq Nat
  BY DEF Files
<1> HIDE DEF F
<1>3. \E m \in F : \A g \in F : m <= g
  BY <1>1, <1>2, LeastNumber
<1>4. Min(F) \in F /\ \A g \in F : Min(F) <= g
  BY <1>3 DEF Min
<1>5. Min(F) \in Files /\ Min(F) \in Nat
  BY <1>1, <1>2, <1>4
<1>6. ASSUME NEW g \in 1 .. (Min(F) - 1) PROVE g \in ledger
  <2>1. g \in Files /\ ~ (Min(F) <= g)
    BY <1>5, MigrationRunnerAssumption DEF Files
  <2> QED BY <1>1, <1>4, <2>1
<1> QED BY <1>1, <1>4, <1>5, <1>6 DEF F, Current, OthersLeft

\* One process goes to `l`; the others stay as they were.
LEMMA OneGoes ==
  ASSUME RunnerInv, NEW p \in Processes, NEW l \in {"idle", "waiting"} \cup Running \cup Ended,
         pc' = [pc EXCEPT ![p] = l], dialect' = dialect, ledger \subseteq ledger',
         lock' \in Processes \cup {Nobody},
         Locking => (lock' = p <=> l \in Running),
         Locking => \A q \in Processes \ {p} : lock' = q <=> lock = q,
         pending' \in [Processes -> SUBSET Files], next' \in [Processes -> Nat \ {0}],
         \A q \in Processes \ {p} : pending'[q] = pending[q],
         RunOk(p)'
  PROVE  ControlOk'
<1>1. /\ pc' \in [Processes -> {"idle", "waiting"} \cup Running \cup Ended]
      /\ pc'[p] = l /\ \A q \in Processes \ {p} : pc'[q] = pc[q]
  BY DEF RunnerInv, ControlOk
<1>2. \A q \in Processes : Locking' => (lock' = q <=> pc'[q] \in Running)
  BY <1>1 DEF RunnerInv, ControlOk, Locking
<1>3. ASSUME NEW q \in Processes \ {p} PROVE RunOk(q)'
  BY <1>1 DEF RunnerInv, ControlOk, RunOk, Current, Wrapped, TransactionalDdl
<1> QED BY <1>1, <1>2, <1>3 DEF ControlOk

\* A process goes on with the files F.
LEMMA TakesUp ==
  ASSUME RunnerInv, NEW p \in Processes, NEW F \in SUBSET Files, TakeUp(p, F), pc[p] \in Running,
         dialect' = dialect, ledger \subseteq ledger', Files \ F \subseteq ledger'
  PROVE  ControlOk'
<1>1. /\ pending' \in [Processes -> SUBSET Files] /\ next' \in [Processes -> Nat \ {0}]
      /\ pending'[p] = F /\ \A q \in Processes \ {p} : pending'[q] = pending[q]
  BY DEF TakeUp, RunnerInv, ControlOk
<1>2. lock \in Processes \cup {Nobody} /\ (Locking => lock = p) /\ Nobody # p
  BY MigrationRunnerAssumption DEF RunnerInv, ControlOk
<1>3. CASE F = {}
  <2>1. pc' = [pc EXCEPT ![p] = "done"] /\ lock' = IF lock = p THEN Nobody ELSE lock
    BY <1>3 DEF TakeUp, EndRun, Goto
  <2>2. RunOk(p)'
    BY <2>1 DEF RunOk, RunnerInv, ControlOk
  <2>3. /\ lock' \in Processes \cup {Nobody} /\ (Locking => lock' # p)
        /\ Locking => \A q \in Processes \ {p} : lock' = q <=> lock = q
    BY <1>2, <2>1, MigrationRunnerAssumption
  <2> QED BY <1>1, <2>1, <2>2, <2>3, OneGoes DEF Ended, Running
<1>4. CASE F # {}
  <2>1. pc' = [pc EXCEPT ![p] = "file"] /\ lock' = lock
    BY <1>4 DEF TakeUp, Goto
  <2>2. RunOk(p)'
    BY <1>1, <1>4, <2>1 DEF RunOk, RunnerInv, ControlOk
  <2> QED BY <1>1, <1>2, <2>1, <2>2, OneGoes DEF Ended, Running
<1> QED BY <1>3, <1>4

\* A run ends: it resolves, rejects or its process dies.
LEMMA RunEnds ==
  ASSUME RunnerInv, NEW p \in Processes, NEW how \in Ended, EndRun(p, how),
         pc[p] \in Running \cup {"waiting"},
         dialect' = dialect, ledger' = ledger, pending' = pending, next' = next
  PROVE  ControlOk'
<1>1. pc' = [pc EXCEPT ![p] = how] /\ lock' = IF lock = p THEN Nobody ELSE lock
  BY DEF EndRun, Goto
<1>2. /\ pending' \in [Processes -> SUBSET Files] /\ next' \in [Processes -> Nat \ {0}]
      /\ lock \in Processes \cup {Nobody} /\ pc'[p] = how
  BY <1>1 DEF RunnerInv, ControlOk
<1>3. RunOk(p)'
  BY <1>2 DEF RunOk, Ended
<1>4. /\ lock' \in Processes \cup {Nobody} /\ lock' # p /\ how \notin Running
      /\ \A q \in Processes \ {p} : lock' = q <=> lock = q
  BY <1>1, <1>2, MigrationRunnerAssumption DEF Ended, Running
<1> QED BY <1>1, <1>2, <1>3, <1>4, OneGoes

\* What a run does at an error: it ends, or the file was applied before.
LEMMA CatchesError ==
  ASSUME RunnerInv, NEW p \in Processes, pc[p] = "file", NEW error, Caught(p, error),
         dialect' = dialect,
         error = "exists" /\ Wrapped(Current(p)) => Current(p) \in ledger
  PROVE  ControlOk' /\ UNCHANGED <<schema, ledger, times>>
<1>1. CASE AlreadyApplied(Current(p), error)
  <2>1. /\ pc' = [pc EXCEPT ![p] = "recorded?"]
        /\ UNCHANGED <<schema, ledger, lock, pending, next, times>>
    BY <1>1 DEF Caught, Goto
  <2>2. /\ pending' \in [Processes -> SUBSET Files] /\ next' \in [Processes -> Nat \ {0}]
        /\ lock \in Processes \cup {Nobody} /\ pc'[p] = "recorded?" /\ (Locking => lock = p)
    BY <2>1 DEF RunnerInv, ControlOk, Running
  <2>3. RunOk(p)'
    BY <1>1, <2>1, <2>2 DEF RunnerInv, ControlOk, RunOk, Current, Wrapped, TransactionalDdl, AlreadyApplied
  <2> QED BY <2>1, <2>2, <2>3, OneGoes DEF Running
<1>2. CASE ~AlreadyApplied(Current(p), error)
  <2>1. EndRun(p, "failed") /\ UNCHANGED <<schema, ledger, pending, next, times>>
    BY <1>2 DEF Caught, Fail
  <2> QED BY <2>1, RunEnds DEF Running, Ended
<1> QED BY <1>1, <1>2

LEMMA RejectsCall ==
  ASSUME RunnerInv, NEW p \in Processes, pc[p] \in {"file", "recorded?"}, NEW error, CallRejects(p, error),
         dialect' = dialect, error # "exists"
  PROVE  ControlOk' /\ UNCHANGED <<schema, ledger, times>>
<1>1. CASE pc[p] = "file"
  BY <1>1, CatchesError DEF CallRejects
<1>2. CASE pc[p] # "file"
  <2>1. EndRun(p, "failed") /\ UNCHANGED <<schema, ledger, pending, next, times>>
    BY <1>2 DEF CallRejects, Fail
  <2> QED BY <2>1, RunEnds DEF Running, Ended
<1> QED BY <1>1, <1>2

LEMMA DataStays ==
  ASSUME DataOk, UNCHANGED <<dialect, schema, ledger, times>>
  PROVE  DataOk'
BY DEF DataOk, SchemaIsMade, RecordedIsApplied, FilesGoInOrder, Script, TransactionalDdl

\* Statements of one file take effect: what exists afterwards was there before or
\* is made by one of them, and every earlier file is recorded.
LEMMA DataMoves ==
  ASSUME DataOk, dialect' = dialect, NEW f \in Files, 1 .. (f - 1) \subseteq ledger,
         ledger' \in SUBSET Files, ledger \subseteq ledger',
         DOMAIN times' = Files, \A g \in Files \ {f} : times'[g] = times[g],
         times'[f] \in [DOMAIN Script[f] -> Nat],
         \A i \in DOMAIN Script[f] : times[f][i] > 0 => times'[f][i] > 0,
         \A o \in schema' : o \in schema \/ \E i \in DOMAIN Script[f] :
            Creates(Script[f][i]) /\ Script[f][i].obj = o /\ times'[f][i] > 0,
         RecordedIsApplied'
  PROVE  DataOk'
<1>1. Script' = Script /\ \A g \in Files : times[g] \in [DOMAIN Script[g] -> Nat]
  BY DEF Script, DataOk
<1>2. \A g \in Files : times'[g] \in [DOMAIN Script'[g] -> Nat]
  BY <1>1
<1>3. SchemaIsMade'
  <2>1. ASSUME NEW o \in schema'
        PROVE  \E g \in Files : \E i \in DOMAIN Script[g] :
                 Creates(Script[g][i]) /\ Script[g][i].obj = o /\ times'[g][i] > 0
    <3>1. CASE o \in schema
      <4>1. PICK g \in Files : \E i \in DOMAIN Script[g] :
              Creates(Script[g][i]) /\ Script[g][i].obj = o /\ times[g][i] > 0
        BY <3>1 DEF DataOk, SchemaIsMade
      <4>2. \A i \in DOMAIN Script[g] : times[g][i] > 0 => times'[g][i] > 0
        OBVIOUS
      <4> QED BY <4>1, <4>2
    <3>2. CASE o \notin schema
      BY <3>2
    <3> QED BY <3>1, <3>2
  <2> QED BY <1>1, <2>1 DEF SchemaIsMade
<1>4. FilesGoInOrder'
  BY <1>1 DEF DataOk, FilesGoInOrder
<1> QED BY <1>2, <1>3, <1>4 DEF DataOk

LEMMA RunnerInvInit == RunnerInit => RunnerInv
<1> SUFFICES ASSUME RunnerInit PROVE RunnerInv
  OBVIOUS
<1>1. pc = [p \in Processes |-> "idle"] /\ lock = Nobody
  BY DEF RunnerInit
<1>2. ControlOk
  BY <1>1, MigrationRunnerAssumption DEF RunnerInit, ControlOk, RunOk, Running
<1>3. \A f \in Files : \A i \in DOMAIN Script[f] : times[f][i] = 0
  BY DEF RunnerInit
<1>4. /\ DOMAIN times = Files /\ \A f \in Files : times[f] \in [DOMAIN Script[f] -> Nat]
      /\ schema = {} /\ ledger = {} /\ Wrappable \subseteq Files
  BY MigrationRunnerAssumption DEF RunnerInit
<1>5. DataOk
  BY <1>3, <1>4 DEF DataOk, SchemaIsMade, RecordedIsApplied, FilesGoInOrder
<1> QED BY <1>2, <1>5, MigrationRunnerAssumption DEF RunnerInit, RunnerInv

\* A wrappable file takes effect with its record.
LEMMA WrappedFileOk ==
  ASSUME RunnerInv, NEW p \in Processes, WrappedFile(p), dialect' = dialect
  PROVE  ControlOk' /\ DataOk'
<1> DEFINE f == Current(p)
           st == ExecuteFile(f)
<1>1. /\ f \in Files /\ 1 .. (f - 1) \subseteq ledger
      /\ OthersLeft(p) \in SUBSET Files /\ Files \ OthersLeft(p) \subseteq ledger \cup {f}
      /\ pc[p] = "file" /\ Wrapped(f) /\ f \in Wrappable /\ TransactionalDdl
  BY AtItsFile DEF WrappedFile, Wrapped
<1>2. /\ MadeBy(f, Len(Script[f]), st.schema)
      /\ st.error = "exists" => Repeats(f)
  BY <1>1, WhatAScriptDoes DEF RunnerInv
<1>3. /\ DOMAIN times = Files /\ times[f] \in [DOMAIN Script[f] -> Nat]
      /\ \A i \in DOMAIN Script[f] : times[f][i] = IF f \in ledger THEN 1 ELSE 0
      /\ DataOk
  BY <1>1 DEF RunnerInv, DataOk, RecordedIsApplied
<1>4. DOMAIN Script[f] = 1 .. Len(Script[f])
  BY <1>1, ScriptIsSequence DEF RunnerInv
<1> HIDE DEF f, st
<1>5. CASE st.error # "none"
  <2>1. Caught(p, st.error)
    BY <1>5 DEF WrappedFile, f, st
  <2>2. ASSUME st.error = "exists" PROVE f \in ledger
    <3>1. PICK j \in DOMAIN Script[f] : Creates(Script[f][j]) /\ Script[f][j].obj \in schema
      BY <1>2, <2>2 DEF Repeats
    <3>2. PICK g \in Files : \E i \in DOMAIN Script[g] :
            Creates(Script[g][i]) /\ Script[g][i].obj = Script[f][j].obj /\ times[g][i] > 0
      BY <1>3, <3>1 DEF DataOk, SchemaIsMade
    <3>3. g = f
      BY <1>1, <3>1, <3>2, CreatedOnce DEF Script, RunnerInv
    <3> QED BY <1>3, <3>2, <3>3
  <2>3. ControlOk' /\ UNCHANGED <<schema, ledger, times>>
    BY <1>1, <2>1, <2>2, CatchesError DEF f
  <2> QED BY <1>3, <2>3, DataStays
<1>6. CASE st.error = "none" /\ f \in ledger
  <2>1. Caught(p, "unique")
    BY <1>6 DEF WrappedFile, f, st
  <2>2. ControlOk' /\ UNCHANGED <<schema, ledger, times>>
    BY <1>1, <2>1, CatchesError
  <2> QED BY <1>3, <2>2, DataStays
<1>7. CASE st.error = "none" /\ f \notin ledger
  <2>1. /\ schema' = st.schema /\ ledger' = ledger \cup {f}
        /\ times' = [times EXCEPT ![f] = [i \in DOMAIN @ |-> @[i] + 1]]
        /\ TakeUp(p, OthersLeft(p))
    BY <1>7 DEF WrappedFile, f, st
  <2>2. ControlOk'
    BY <1>1, <2>1, TakesUp DEF Running
  <2>3. /\ DOMAIN times' = Files /\ \A g \in Files \ {f} : times'[g] = times[g]
        /\ times'[f] = [i \in DOMAIN Script[f] |-> 1]
    <3>1. times'[f] = [i \in DOMAIN times[f] |-> times[f][i] + 1]
      BY <1>1, <1>3, <2>1
    <3>2. DOMAIN times[f] = DOMAIN Script[f] /\ \A i \in DOMAIN Script[f] : times[f][i] + 1 = 1
      BY <1>3, <1>7
    <3> QED BY <1>3, <2>1, <3>1, <3>2
  <2>4. times'[f] \in [DOMAIN Script[f] -> Nat] /\ \A i \in DOMAIN Script[f] : times'[f][i] = 1
    BY <2>3
  <2>5. RecordedIsApplied'
    <3>1. ASSUME NEW g \in Wrappable, NEW i \in DOMAIN Script[g]
          PROVE  times'[g][i] = IF g \in ledger' THEN 1 ELSE 0
      <4>1. CASE g = f
        BY <2>1, <2>4, <4>1
      <4>2. CASE g # f
        <5>1. g \in Files /\ times'[g] = times[g] /\ (g \in ledger' <=> g \in ledger)
          BY <2>1, <2>3, <4>2, MigrationRunnerAssumption
        <5> QED BY <1>1, <1>3, <5>1 DEF DataOk, RecordedIsApplied
      <4> QED BY <4>1, <4>2
    <3> QED BY <3>1 DEF RecordedIsApplied, Script
  <2>6. \A o \in schema' : o \in schema \/ \E i \in DOMAIN Script[f] :
          Creates(Script[f][i]) /\ Script[f][i].obj = o /\ times'[f][i] > 0
    <3>1. \A i \in 1 .. Len(Script[f]) : i \in DOMAIN Script[f] /\ times'[f][i] > 0
      BY <1>4, <2>4
    <3>2. \A o \in schema' : o \in schema \/ \E i \in 1 .. Len(Script[f]) :
            Creates(Script[f][i]) /\ Script[f][i].obj = o
      BY <1>2, <2>1 DEF MadeBy
    <3> QED BY <3>1, <3>2
  <2>7. ledger' \in SUBSET Files /\ ledger \subseteq ledger' /\ \A i \in DOMAIN Script[f] : times'[f][i] > 0
    BY <1>1, <1>3, <2>1, <2>4 DEF DataOk
  <2> QED BY <1>1, <1>3, <2>2, <2>3, <2>4, <2>5, <2>6, <2>7, DataMoves
<1> QED BY <1>5, <1>6, <1>7

\* A statement of a file that is not one transaction takes effect by itself.
LEMMA BareStatementOk ==
  ASSUME RunnerInv, NEW p \in Processes, BareStatement(p), dialect' = dialect
  PROVE  ControlOk' /\ DataOk'
<1> DEFINE f == Current(p)
           n == next[p]
           stmt == Script[f][n]
<1>1. /\ f \in Files /\ 1 .. (f - 1) \subseteq ledger
      /\ pc[p] = "file" /\ ~Wrapped(f) /\ n <= Len(Script[f])
  BY AtItsFile DEF BareStatement
<1>2. n \in DOMAIN Script[f] /\ DOMAIN Script[f] = 1 .. Len(Script[f])
  BY <1>1, ScriptIsSequence DEF RunnerInv, ControlOk
<1>3. DOMAIN times = Files /\ times[f] \in [DOMAIN Script[f] -> Nat] /\ DataOk
  BY <1>1 DEF RunnerInv, DataOk
<1> HIDE DEF f, n
<1>4. CASE Failing(schema, stmt) # "none"
  <2>1. Caught(p, Failing(schema, stmt))
    BY <1>4 DEF BareStatement, f, n
  <2>2. ControlOk' /\ UNCHANGED <<schema, ledger, times>>
    BY <1>1, <2>1, CatchesError DEF f
  <2> QED BY <1>3, <2>2, DataStays
<1>5. CASE Failing(schema, stmt) = "none"
  <2>1. /\ schema' = After(schema, stmt)
        /\ times' = [times EXCEPT ![f][n] = @ + 1]
        /\ next' = [next EXCEPT ![p] = @ + 1]
        /\ UNCHANGED <<ledger, lock, pc, pending>>
    BY <1>5 DEF BareStatement, f, n
  <2>2. ControlOk'
    <3>1. /\ next \in [Processes -> Nat \ {0}] /\ pending \in [Processes -> SUBSET Files]
          /\ pc \in [Processes -> {"idle", "waiting"} \cup Running \cup Ended]
      BY DEF RunnerInv, ControlOk
    <3>2. next' \in [Processes -> Nat \ {0}]
      BY <2>1, <3>1
    <3> QED BY <2>1, <3>1, <3>2 DEF RunnerInv, ControlOk, RunOk, Current, Wrapped, TransactionalDdl, Locking
  <2>3. /\ DOMAIN times' = Files /\ \A g \in Files \ {f} : times'[g] = times[g]
        /\ times'[f] = [times[f] EXCEPT ![n] = @ + 1]
    BY <1>1, <1>3, <2>1
  <2>4. /\ times'[f] \in [DOMAIN Script[f] -> Nat] /\ times'[f][n] > 0
        /\ \A i \in DOMAIN Script[f] : times[f][i] > 0 => times'[f][i] > 0
    BY <1>2, <1>3, <2>3
  <2>5. RecordedIsApplied'
    <3>1. ASSUME TransactionalDdl, NEW g \in Wrappable, NEW i \in DOMAIN Script[g]
          PROVE  times'[g][i] = IF g \in ledger' THEN 1 ELSE 0
      <4>1. g # f /\ g \in Files
        BY <1>1, <3>1, MigrationRunnerAssumption DEF Wrapped
      <4> QED BY <1>3, <2>1, <2>3, <3>1, <4>1 DEF DataOk, RecordedIsApplied
    <3> QED BY <3>1 DEF RecordedIsApplied, Script, TransactionalDdl
  <2>6. \A o \in schema' : o \in schema \/ \E i \in DOMAIN Script[f] :
          Creates(Script[f][i]) /\ Script[f][i].obj = o /\ times'[f][i] > 0
    BY <1>2, <2>1, <2>4 DEF After, Creates
  <2>7. ledger' \in SUBSET Files /\ ledger \subseteq ledger'
    BY <1>3, <2>1 DEF DataOk
  <2> QED BY <1>1, <1>3, <2>2, <2>3, <2>4, <2>5, <2>6, <2>7, DataMoves
<1> QED BY <1>4, <1>5

\* A file is recorded: after its last statement, or because it was applied before.
LEMMA RecordOk ==
  ASSUME RunnerInv, NEW p \in Processes, Record(p), dialect' = dialect
  PROVE  ControlOk' /\ DataOk'
<1> DEFINE f == Current(p)
<1>1. /\ f \in Files /\ 1 .. (f - 1) \subseteq ledger
      /\ OthersLeft(p) \in SUBSET Files /\ Files \ OthersLeft(p) \subseteq ledger \cup {f}
      /\ pc[p] \in {"file", "recorded?"}
      /\ Wrapped(f) => f \in ledger
  BY AtItsFile DEF Record, RunnerInv, ControlOk, RunOk
<1>2. DataOk
  BY DEF RunnerInv
<1>3. CASE f \in ledger
  <2>1. CallRejects(p, "unique")
    BY <1>3 DEF Record
  <2> QED BY <1>1, <1>2, <2>1, RejectsCall, DataStays
<1>4. CASE f \notin ledger
  <2>1. /\ ledger' = ledger \cup {f} /\ TakeUp(p, OthersLeft(p))
        /\ UNCHANGED <<schema, times>>
    BY <1>4 DEF Record
  <2>2. ControlOk'
    BY <1>1, <2>1, TakesUp DEF Running
  <2>3. RecordedIsApplied'
    <3>1. TransactionalDdl => f \notin Wrappable
      BY <1>1, <1>4 DEF Wrapped
    <3> HIDE DEF f
    <3> QED BY <1>2, <2>1, <3>1 DEF DataOk, RecordedIsApplied, Script, TransactionalDdl
  <2> QED BY <1>1, <1>2, <2>1, <2>2, <2>3 DEF DataOk, SchemaIsMade, FilesGoInOrder, Script
<1> QED BY <1>3, <1>4

LEMMA RunnerInvNext == RunnerInv /\ [RunnerNext]_runnerVars => RunnerInv'
<1> SUFFICES ASSUME RunnerInv, [RunnerNext]_runnerVars PROVE RunnerInv'
  OBVIOUS
<1>0. dialect \in Dialects /\ ControlOk /\ DataOk /\ blamed \subseteq Processes /\ mishaps \in 0 .. MaxMishaps
  BY DEF RunnerInv
<1>a. \A p \in Processes : Mishap(p) => blamed' \subseteq Processes /\ mishaps' \in 0 .. MaxMishaps
  BY <1>0, MigrationRunnerAssumption DEF Mishap
<1>1. CASE UNCHANGED runnerVars
  <2>1. UNCHANGED <<dialect, schema, ledger, lock, pc, pending, next, times, blamed, mishaps>>
    BY <1>1 DEF runnerVars
  <2>2. ControlOk'
    BY <1>0, <2>1 DEF ControlOk, RunOk, Current, Wrapped, TransactionalDdl, Locking
  <2> QED BY <1>0, <2>1, <2>2, DataStays DEF RunnerInv
<1>2. ASSUME NEW p \in Processes, Start(p), dialect' = dialect PROVE RunnerInv'
  <2>1. /\ pc[p] = "idle" /\ pc' = [pc EXCEPT ![p] = IF Locking THEN "waiting" ELSE "ledger"]
        /\ UNCHANGED <<schema, ledger, lock, pending, next, times, blamed, mishaps>>
    BY <1>2 DEF Start, Goto
  <2>2. /\ pending \in [Processes -> SUBSET Files] /\ next \in [Processes -> Nat \ {0}]
        /\ lock \in Processes \cup {Nobody} /\ (Locking => lock # p)
        /\ pc'[p] = IF Locking THEN "waiting" ELSE "ledger"
    BY <1>0, <2>1 DEF ControlOk, Running
  <2>3. RunOk(p)'
    BY <2>2 DEF RunOk
  <2>4. ControlOk'
    BY <1>2, <2>1, <2>2, <2>3, OneGoes DEF Running
  <2> QED BY <1>0, <1>2, <2>1, <2>4, DataStays DEF RunnerInv
<1>3. ASSUME NEW p \in Processes, AcquireLock(p), dialect' = dialect PROVE RunnerInv'
  <2>1. /\ pc[p] = "waiting" /\ lock = Nobody /\ lock' = p /\ pc' = [pc EXCEPT ![p] = "ledger"]
        /\ UNCHANGED <<schema, ledger, pending, next, times, blamed, mishaps>>
    BY <1>3 DEF AcquireLock, Goto
  <2>2. /\ pending \in [Processes -> SUBSET Files] /\ next \in [Processes -> Nat \ {0}]
        /\ pc'[p] = "ledger" /\ \A q \in Processes \ {p} : lock' # q /\ lock # q
    BY <1>0, <2>1, MigrationRunnerAssumption DEF ControlOk
  <2>3. RunOk(p)'
    BY <2>2 DEF RunOk
  <2>4. ControlOk'
    BY <1>3, <2>1, <2>2, <2>3, OneGoes DEF Running
  <2> QED BY <1>0, <1>3, <2>1, <2>4, DataStays DEF RunnerInv
<1>4. ASSUME NEW p \in Processes, ReadLedger(p), dialect' = dialect PROVE RunnerInv'
  <2>1. /\ pc[p] = "ledger" /\ TakeUp(p, Files \ ledger)
        /\ UNCHANGED <<schema, ledger, times, blamed, mishaps>>
    BY <1>4 DEF ReadLedger, PendingFiles
  <2>2. ControlOk'
    BY <1>4, <2>1, TakesUp DEF Running
  <2> QED BY <1>0, <1>4, <2>1, <2>2, DataStays DEF RunnerInv
<1>5. ASSUME NEW p \in Processes, LedgerReadFails(p), dialect' = dialect PROVE RunnerInv'
  <2>1. /\ pc[p] = "ledger" /\ TakeUp(p, Files) /\ Mishap(p)
        /\ UNCHANGED <<schema, ledger, times>>
    BY <1>5 DEF LedgerReadFails, PendingFiles
  <2>2. ControlOk'
    BY <1>5, <2>1, TakesUp DEF Running
  <2> QED BY <1>0, <1>5, <1>a, <2>1, <2>2, DataStays DEF RunnerInv
<1>6. ASSUME NEW p \in Processes, WrappedFile(p), dialect' = dialect PROVE RunnerInv'
  BY <1>0, <1>6, WrappedFileOk DEF RunnerInv, WrappedFile
<1>7. ASSUME NEW p \in Processes, BareStatement(p), dialect' = dialect PROVE RunnerInv'
  BY <1>0, <1>7, BareStatementOk DEF RunnerInv, BareStatement
<1>8. ASSUME NEW p \in Processes, Record(p), dialect' = dialect PROVE RunnerInv'
  BY <1>0, <1>8, RecordOk DEF RunnerInv, Record
<1>9. ASSUME NEW p \in Processes, CallFails(p), dialect' = dialect PROVE RunnerInv'
  <2>1. pc[p] \in {"file", "recorded?"} /\ CallRejects(p, "other") /\ Mishap(p)
    BY <1>9 DEF CallFails
  <2>2. ControlOk' /\ UNCHANGED <<schema, ledger, times>>
    BY <1>9, <2>1, RejectsCall
  <2> QED BY <1>0, <1>9, <1>a, <2>1, <2>2, DataStays DEF RunnerInv
<1>10. ASSUME NEW p \in Processes, Crash(p), dialect' = dialect PROVE RunnerInv'
  <2>1. /\ pc[p] \in Running \cup {"waiting"} /\ EndRun(p, "dead") /\ Mishap(p)
        /\ UNCHANGED <<schema, ledger, pending, next, times>>
    BY <1>10 DEF Crash
  <2>2. ControlOk'
    BY <1>10, <2>1, RunEnds DEF Ended
  <2> QED BY <1>0, <1>10, <1>a, <2>1, <2>2, DataStays DEF RunnerInv
<1>11. ASSUME NEW p \in Processes, Rerun(p), dialect' = dialect PROVE RunnerInv'
  <2>1. /\ pc[p] \in {"failed", "dead"} /\ pc' = [pc EXCEPT ![p] = "idle"] /\ blamed' = blamed \ {p}
        /\ UNCHANGED <<schema, ledger, lock, pending, next, times, mishaps>>
    BY <1>11 DEF Rerun, Goto
  <2>2. /\ pending \in [Processes -> SUBSET Files] /\ next \in [Processes -> Nat \ {0}]
        /\ lock \in Processes \cup {Nobody} /\ (Locking => lock # p) /\ pc'[p] = "idle"
    BY <1>0, <2>1 DEF ControlOk, Running
  <2>3. RunOk(p)'
    BY <2>2 DEF RunOk
  <2>4. ControlOk'
    BY <1>11, <2>1, <2>2, <2>3, OneGoes DEF Running
  <2> QED BY <1>0, <1>11, <2>1, <2>4, DataStays DEF RunnerInv
<1> QED
  BY <1>1, <1>2, <1>3, <1>4, <1>5, <1>6, <1>7, <1>8, <1>9, <1>10, <1>11 DEF RunnerNext, Advance

----------------------------------------------------------------------------
(* The lock.                                                               *)

Phases == {"start", "reserved", "locked", "unlocked", "locked sending", "unlocked sending",
           "unlocking", "done"}

InLock == {"locked", "locked sending"}

\* What a run at each point has out of its pool: the reserved session from
\* reserve() to release(), and a connection while a statement is under way.
Out(p) == IF p \in {"start", "unlocked", "done"} THEN 0
          ELSE IF p = "locked sending" THEN 2 ELSE 1

PhaseAt(r) == phase[r] \in Phases /\ inUse[r] = Out(phase[r])

\* The session that holds the lock is the one of the run between its lock and
\* its unlock, and every pool has out what its run uses.
LockInv ==
  /\ phase \in [Runs -> Phases] /\ inUse \in [Runs -> Nat]
  /\ \A r \in Runs : inUse[r] = Out(phase[r])
  /\ reserves => \A r \in Runs : phase[r] \in InLock => holder = r
  /\ holder # Unheld => holder \in Runs /\ phase[holder] \in InLock

\* A run moves on while the lock stays where it is.
LEMMA LockKept ==
  ASSUME LockInv, NEW r \in Runs,
         phase' \in [Runs -> Phases], inUse' \in [Runs -> Nat],
         \A q \in Runs \ {r} : phase'[q] = phase[q] /\ inUse'[q] = inUse[q],
         inUse'[r] = Out(phase'[r]),
         phase[r] \in InLock <=> phase'[r] \in InLock,
         reserves' = reserves, holder' = holder
  PROVE  LockInv'
<1>1. ASSUME NEW q \in Runs PROVE inUse'[q] = Out(phase'[q]) /\ (phase'[q] \in InLock <=> phase[q] \in InLock)
  BY DEF LockInv
<1> QED BY <1>1 DEF LockInv

LEMMA LockInvInit == LockInit => LockInv
BY DEF LockInit, LockInv, Phases, Out, InLock

LEMMA LockInvNext == LockInv /\ [LockNext]_lockVars => LockInv'
<1> SUFFICES ASSUME LockInv, [LockNext]_lockVars PROVE LockInv'
  OBVIOUS
<1>u. Unheld \notin Runs
  BY LockAssumption
<1>0. /\ phase \in [Runs -> Phases] /\ inUse \in [Runs -> Nat]
      /\ \A r \in Runs : inUse[r] = Out(phase[r]) /\ inUse[r] \in Nat
  BY DEF LockInv
<1>a. phase \in [Runs -> Phases] /\ inUse \in [Runs -> Nat]
  BY DEF LockInv
<1>1. CASE UNCHANGED lockVars
  BY <1>1 DEF lockVars, LockInv
<1>2. ASSUME NEW r \in Runs, Reserve(r) PROVE LockInv'
  <2>1. inUse'[r] = Out(phase'[r])
    <3>1. inUse[r] = 0
      BY <1>2, <1>0 DEF Reserve, Out
    <3>2. phase'[r] = IF reserves THEN "reserved" ELSE "unlocked"
      BY <1>2, <1>0 DEF Reserve, Move
    <3>3. inUse'[r] = IF reserves THEN 1 ELSE 0
      BY <1>2, <1>0, <3>1 DEF Reserve
    <3> QED BY <1>2, <3>1, <3>2, <3>3 DEF Reserve, Out
  <2>2. phase' \in [Runs -> Phases] /\ (phase[r] \in InLock <=> phase'[r] \in InLock)
    BY <1>2, <1>0 DEF Reserve, Move, Phases, InLock
  <2>3. inUse' \in [Runs -> Nat]
    BY <1>2, <1>0, <2>1 DEF Reserve, Move
  <2>4. \A q \in Runs \ {r} : phase'[q] = phase[q] /\ inUse'[q] = inUse[q]
    BY <1>2, <1>0 DEF Reserve, Move
  <2>5. reserves' = reserves /\ holder' = holder
    BY <1>2 DEF Reserve
  <2> QED BY <2>1, <2>2, <2>3, <2>4, <2>5, LockKept
<1>3. ASSUME NEW r \in Runs, AdvisoryLock(r) PROVE LockInv'
  <2>1. phase' \in [Runs -> Phases] /\ inUse' \in [Runs -> Nat]
    BY <1>3 DEF AdvisoryLock, Move, LockInv, Phases
  <2>2. \A q \in Runs : inUse'[q] = Out(phase'[q])
    BY <1>3 DEF AdvisoryLock, Move, LockInv, Phases, Out
  <2> QED BY <1>3, <1>u, <2>1, <2>2 DEF AdvisoryLock, Move, LockInv, InLock
<1>4. ASSUME NEW r \in Runs, SendStatement(r) PROVE LockInv'
  <2>0. inUse' = [inUse EXCEPT ![r] = @ + 1]
    BY <1>4 DEF SendStatement, Working
  <2>1. inUse'[r] = Out(phase'[r])
    <3>1. CASE phase[r] = "locked"
      <4>1. inUse[r] = 1
        BY <1>0, <3>1 DEF Out
      <4>2. inUse'[r] = 2
        BY <2>0, <1>a, <4>1
      <4>3. phase'[r] = "locked sending"
        BY <1>4, <1>0, <3>1 DEF SendStatement, Working, Move
      <4> QED BY <4>2, <4>3 DEF Out
    <3>2. CASE phase[r] = "unlocked"
      <4>1. inUse[r] = 0
        BY <1>0, <3>2 DEF Out
      <4>2. inUse'[r] = 1
        BY <2>0, <1>a, <4>1
      <4>3. phase'[r] = "unlocked sending"
        BY <1>4, <1>0, <3>2 DEF SendStatement, Working, Move
      <4> QED BY <4>2, <4>3 DEF Out
    <3> QED BY <1>4, <3>1, <3>2 DEF SendStatement, Working
  <2>2. phase' \in [Runs -> Phases] /\ (phase[r] \in InLock <=> phase'[r] \in InLock)
    BY <1>4, <1>0 DEF SendStatement, Working, Move, Phases, InLock
  <2>3. inUse' \in [Runs -> Nat]
    BY <2>0, <1>a
  <2>4. \A q \in Runs \ {r} : phase'[q] = phase[q] /\ inUse'[q] = inUse[q]
    BY <1>4, <1>0 DEF SendStatement, Working, Move
  <2>5. reserves' = reserves /\ holder' = holder
    BY <1>4 DEF SendStatement, Working
  <2> QED BY <2>1, <2>2, <2>3, <2>4, <2>5, LockKept
<1>5. ASSUME NEW r \in Runs, StatementDone(r) \/ StatementFails(r) PROVE LockInv'
  <2>0. inUse' = [inUse EXCEPT ![r] = @ - 1]
    BY <1>5 DEF StatementDone, StatementFails
  <2>a. inUse[r] = 1 \/ inUse[r] = 2
    BY <1>5, <1>0 DEF StatementDone, StatementFails, Out
  <2>b. inUse[r] - 1 \in Nat
    BY <2>a
  <2>1. inUse'[r] = Out(phase'[r])
    <3>1. CASE phase[r] = "locked sending"
      <4>1. inUse[r] = 2
        BY <1>0, <3>1 DEF Out
      <4>2. inUse'[r] = 1
        BY <2>0, <1>a, <4>1
      <4>3. phase'[r] = "locked"
        BY <1>5, <1>0, <3>1 DEF StatementDone, StatementFails, Move
      <4> QED BY <4>2, <4>3 DEF Out
    <3>2. CASE phase[r] = "unlocked sending"
      <4>1. inUse[r] = 1
        BY <1>0, <3>2 DEF Out
      <4>2. inUse'[r] = 0
        BY <2>0, <1>a, <4>1
      <4>3. phase'[r] = "unlocked"
        BY <1>5, <1>0, <3>2 DEF StatementDone, StatementFails, Move
      <4> QED BY <4>2, <4>3 DEF Out
    <3> QED BY <1>5, <3>1, <3>2 DEF StatementDone, StatementFails
  <2>2. phase' \in [Runs -> Phases] /\ (phase[r] \in InLock <=> phase'[r] \in InLock)
    BY <1>5, <1>0 DEF StatementDone, StatementFails, Move, Phases, InLock
  <2>3. inUse' \in [Runs -> Nat]
    BY <2>0, <1>a, <2>b
  <2>4. \A q \in Runs \ {r} : phase'[q] = phase[q] /\ inUse'[q] = inUse[q]
    BY <1>5, <1>0 DEF StatementDone, StatementFails, Move
  <2>5. reserves' = reserves /\ holder' = holder
    BY <1>5 DEF StatementDone, StatementFails
  <2> QED BY <2>1, <2>2, <2>3, <2>4, <2>5, LockKept
<1>6. ASSUME NEW r \in Runs, AdvisoryUnlock(r) PROVE LockInv'
  <2>1. phase' \in [Runs -> Phases] /\ inUse' \in [Runs -> Nat]
    BY <1>6 DEF AdvisoryUnlock, Move, LockInv, Phases
  <2>2. \A q \in Runs : inUse'[q] = Out(phase'[q])
    BY <1>6 DEF AdvisoryUnlock, Move, LockInv, Phases, Out
  <2>3. reserves => \A q \in Runs : phase'[q] \notin InLock
    BY <1>6 DEF AdvisoryUnlock, Move, LockInv, InLock
  <2> QED BY <1>6, <2>1, <2>2, <2>3 DEF AdvisoryUnlock, LockInv
<1>7. ASSUME NEW r \in Runs, Release(r) PROVE LockInv'
  <2>0. inUse' = [inUse EXCEPT ![r] = @ - 1] /\ inUse[r] = 1
    BY <1>7, <1>0 DEF Release, Out
  <2>1. inUse'[r] = Out(phase'[r])
    <3>1. phase'[r] = "done"
      BY <1>7, <1>0 DEF Release, Move
    <3>2. inUse'[r] = 0
      BY <1>a, <2>0
    <3> QED BY <3>1, <3>2 DEF Out
  <2>2. phase' \in [Runs -> Phases] /\ (phase[r] \in InLock <=> phase'[r] \in InLock)
    BY <1>7, <1>0 DEF Release, Move, Phases, InLock
  <2>3. inUse' \in [Runs -> Nat]
    BY <1>a, <2>0
  <2>4. \A q \in Runs \ {r} : phase'[q] = phase[q] /\ inUse'[q] = inUse[q]
    BY <1>7, <1>0 DEF Release, Move
  <2>5. reserves' = reserves /\ holder' = holder
    BY <1>7 DEF Release
  <2> QED BY <2>1, <2>2, <2>3, <2>4, <2>5, LockKept
<1>8. ASSUME NEW r \in Runs, EndUnlocked(r) PROVE LockInv'
  <2>1. inUse'[r] = Out(phase'[r])
    BY <1>8, <1>0 DEF EndUnlocked, Move, Out
  <2>2. phase' \in [Runs -> Phases] /\ (phase[r] \in InLock <=> phase'[r] \in InLock)
    BY <1>8, <1>0 DEF EndUnlocked, Move, Phases, InLock
  <2>3. inUse' \in [Runs -> Nat]
    BY <1>8, <1>0, <2>1 DEF EndUnlocked, Move
  <2>4. \A q \in Runs \ {r} : phase'[q] = phase[q] /\ inUse'[q] = inUse[q]
    BY <1>8, <1>0 DEF EndUnlocked, Move
  <2>5. reserves' = reserves /\ holder' = holder
    BY <1>8 DEF EndUnlocked
  <2> QED BY <2>1, <2>2, <2>3, <2>4, <2>5, LockKept
<1>9. ASSUME NEW r \in Runs, Die(r) PROVE LockInv'
  <2>1. phase' \in [Runs -> Phases] /\ inUse' \in [Runs -> Nat]
    BY <1>9 DEF Die, Move, LockInv, Phases
  <2>2. ASSUME NEW q \in Runs PROVE inUse'[q] = Out(phase'[q])
    BY <1>9 DEF Die, Move, LockInv, Phases, Out
  <2>3. ASSUME NEW q \in Runs, reserves, phase'[q] \in InLock PROVE holder' = q
    BY <1>9, <2>3 DEF Die, Move, LockInv, InLock
  <2>4. holder' # Unheld => holder' \in Runs /\ phase'[holder'] \in InLock
    BY <1>9 DEF Die, Move, LockInv
  <2>5. reserves' = reserves
    BY <1>9 DEF Die
  <2> QED BY <2>1, <2>2, <2>3, <2>4, <2>5 DEF LockInv
<1> QED
  BY <1>1, <1>2, <1>3, <1>4, <1>5, <1>6, <1>7, <1>8, <1>9 DEF LockNext, RunStep

LEMMA LockInvImplies == LockInv => LockIsSound
<1> SUFFICES ASSUME LockInv PROVE LockIsSound
  OBVIOUS
<1>1. ASSUME reserves PROVE Cardinality({r \in Runs : phase[r] \in {"locked", "locked sending"}}) <= 1
  <2> DEFINE In == {r \in Runs : phase[r] \in {"locked", "locked sending"}}
  <2>1. In \in SUBSET {holder}
    BY <1>1 DEF LockInv, InLock
  <2>2. IsFiniteSet({holder}) /\ Cardinality({holder}) = 1
    BY FS_Singleton
  <2> QED BY <2>1, <2>2, FS_Subset
<1>2. \A r \in Runs : phase[r] = "done" => inUse[r] = 0
  BY DEF LockInv, Out
<1> QED BY <1>1, <1>2 DEF LockInv, InLock, LockIsSound, OneRunAtATime, NothingIsStranded

\* A pool never has out more than its size, and a statement under way is one of
\* those a run has left.
LockSizes ==
  /\ max \in PoolSizes /\ left \in [Runs -> 0 .. Sends]
  /\ \A r \in Runs : /\ inUse[r] <= max
                     /\ phase[r] \in {"locked sending", "unlocked sending"} => left[r] > 0

LEMMA LockSizesInit == LockInit => LockSizes
BY LockAssumption DEF LockInit, LockSizes

LEMMA LockSizesNext == LockInv /\ LockSizes /\ [LockNext]_lockVars => LockSizes'
<1> SUFFICES ASSUME LockInv, LockSizes, [LockNext]_lockVars PROVE LockSizes'
  OBVIOUS
<1>0. /\ max \in PoolSizes /\ max \in Nat \ {0} /\ Sends \in Nat
      /\ left \in [Runs -> 0 .. Sends] /\ inUse \in [Runs -> Nat] /\ phase \in [Runs -> Phases]
      /\ \A r \in Runs : /\ inUse[r] <= max
                         /\ phase[r] \in {"locked sending", "unlocked sending"} => left[r] > 0
  BY LockAssumption DEF LockInv, LockSizes
<1>1. CASE UNCHANGED lockVars
  BY <1>1 DEF lockVars, LockSizes
<1>2. ASSUME NEW r \in Runs,
             left' \in [Runs -> 0 .. Sends], max' = max, inUse'[r] <= max,
             phase'[r] \in {"locked sending", "unlocked sending"} => left'[r] > 0,
             \A q \in Runs \ {r} : phase'[q] = phase[q] /\ inUse'[q] = inUse[q] /\ left'[q] = left[q]
      PROVE  LockSizes'
  BY <1>0, <1>2 DEF LockSizes
<1>3. ASSUME NEW r \in Runs,
             \/ Reserve(r) \/ AdvisoryLock(r) \/ SendStatement(r) \/ AdvisoryUnlock(r)
             \/ Release(r) \/ EndUnlocked(r) \/ Die(r)
      PROVE  LockSizes'
  <2>1. left' = left /\ max' = max
    BY <1>3 DEF Reserve, AdvisoryLock, SendStatement, AdvisoryUnlock, Release, EndUnlocked, Die
  <2>2. \A q \in Runs \ {r} : phase'[q] = phase[q] /\ inUse'[q] = inUse[q]
    BY <1>0, <1>3 DEF Reserve, AdvisoryLock, SendStatement, AdvisoryUnlock, Release, EndUnlocked, Die, Move
  <2>3. phase'[r] \in {"locked sending", "unlocked sending"} => left[r] > 0
    BY <1>0, <1>3 DEF Reserve, AdvisoryLock, SendStatement, AdvisoryUnlock, Release, EndUnlocked, Die, Move
  <2>4. inUse'[r] <= max
    <3>1. inUse[r] \in Nat /\ inUse[r] <= max /\ max \in Nat
      BY <1>0
    <3>2. CASE (Reserve(r) \/ SendStatement(r)) /\ inUse' # inUse
      <4>1. inUse[r] < max /\ inUse' = [inUse EXCEPT ![r] = @ + 1]
        BY <3>2 DEF Reserve, SendStatement
      <4>2. inUse'[r] = inUse[r] + 1
        BY <1>0, <4>1
      <4> QED BY <3>1, <4>1, <4>2
    <3>3. CASE inUse' = inUse
      BY <3>1, <3>3
    <3>4. CASE Release(r)
      <4>1. inUse'[r] = inUse[r] - 1
        BY <1>0, <3>4 DEF Release
      <4> QED BY <3>1, <4>1
    <3>5. CASE Die(r)
      <4>1. inUse'[r] = 0
        BY <1>0, <3>5 DEF Die
      <4> QED BY <3>1, <4>1
    <3> QED BY <1>3, <3>2, <3>3, <3>4, <3>5 DEF AdvisoryLock, AdvisoryUnlock, EndUnlocked
  <2> QED BY <1>0, <1>2, <2>1, <2>2, <2>3, <2>4
<1>4. ASSUME NEW r \in Runs, StatementDone(r) \/ StatementFails(r) PROVE LockSizes'
  <2>1. /\ left[r] > 0 /\ left[r] \in 0 .. Sends /\ inUse[r] \in Nat /\ inUse[r] <= max
        /\ inUse' = [inUse EXCEPT ![r] = @ - 1] /\ max' = max
        /\ phase'[r] \in {"locked", "unlocked"}
        /\ \A q \in Runs \ {r} : phase'[q] = phase[q]
    BY <1>0, <1>4 DEF StatementDone, StatementFails, Move
  <2>2. left' \in [Runs -> 0 .. Sends] /\ \A q \in Runs \ {r} : left'[q] = left[q]
    <3>1. left[r] - 1 \in 0 .. Sends /\ 0 \in 0 .. Sends
      <4>1. left[r] \in Nat /\ left[r] > 0 /\ left[r] <= Sends /\ Sends \in Nat
        BY <2>1, LockAssumption
      <4> QED BY <4>1
    <3>2. \/ left' = [left EXCEPT ![r] = left[r] - 1]
          \/ left' = [left EXCEPT ![r] = 0]
      BY <1>4 DEF StatementDone, StatementFails
    <3>3. left \in [Runs -> 0 .. Sends]
      BY <1>0
    <3> QED BY <3>1, <3>2, <3>3
  <2>3. inUse'[r] <= max /\ \A q \in Runs \ {r} : inUse'[q] = inUse[q]
    <3>1. inUse'[r] = inUse[r] - 1 /\ \A q \in Runs \ {r} : inUse'[q] = inUse[q]
      BY <1>0, <2>1
    <3>2. max \in Nat /\ inUse[r] - 1 <= max
      <4>1. max \in Nat
        BY <1>0
      <4> QED BY <2>1, <4>1
    <3> QED BY <3>1, <3>2
  <2> QED BY <1>2, <2>1, <2>2, <2>3
<1> QED BY <1>1, <1>3, <1>4 DEF LockNext, RunStep

LEMMA LockInvariant == Spec => [](LockInv /\ LockSizes)
<1>1. Init => LockInv /\ LockSizes
  BY LockInvInit, LockSizesInit DEF Init
<1>2. LockInv /\ LockSizes /\ [Next]_vars => LockInv' /\ LockSizes'
  BY LockInvNext, LockSizesNext DEF Next, vars, lockVars
<1> QED BY <1>1, <1>2, PTL DEF Spec

\* withMigrationLock excludes: however many processes migrate, fail or die, no
\* two are between their advisoryLock and their advisoryUnlock, the lock is never
\* left with a run that ended, and every run that ended gave back its session.
THEOREM LockIsSafe == Spec => []LockIsSound
BY LockInvariant, LockInvImplies, PTL

----------------------------------------------------------------------------
(* The connection manager.                                                 *)

Connection == [cfg : Configs, memory : BOOLEAN, state : {"open", "closed", "dropped"}]
Call == [pc : {"idle", "running", "done", "failed", "rejected"}, tries : 0 .. 2, conn : Nat, want : Configs \cup {"none"}]

\* Connections are numbered as they are opened.
Numbered == \E k \in Nat : Opened = 1 .. k

\* What the cached connection and the others are.
ConnsOk ==
  /\ Numbered /\ conns \in [Opened -> Connection]
  /\ config \in Configs /\ drops \in Nat /\ failures \in Nat
  /\ instance \in Opened \cup {NoConn}
  /\ instance # NoConn =>
       ConnectionSignature(conns[instance].cfg) = signature /\ conns[instance].state # "closed"
  /\ \A c \in Opened : conns[c].state = "open" => c = instance \/ c \in replaced
  /\ \A c \in Opened : conns[c].state = "dropped" => drops >= 1 /\ conns[c].cfg.dialect # "sqlite"
  /\ \A c \in Opened : conns[c].memory => conns[c].cfg.dialect = "sqlite" /\ failures > 0

\* A call is on a connection of the configuration it began under; when that is
\* gone somebody closed it under the call, or the server dropped it - twice by
\* the time the call is on its second connection.
CallOk(u) ==
  /\ user[u].conn \in Opened \cup {NoConn}
  /\ user[u].pc = "running" =>
       /\ user[u].conn \in Opened /\ user[u].tries \in 1 .. 2
       /\ ConnectionSignature(conns[user[u].conn].cfg) = ConnectionSignature(user[u].want)
  /\ user[u].pc = "running" /\ conns[user[u].conn].state = "closed" => u \in hit
  /\ user[u].pc = "running" /\ user[u].tries = 2 =>
       \/ u \in hit
       \/ drops >= 1 /\ (conns[user[u].conn].state = "dropped" => drops >= 2)
  /\ user[u].pc = "failed" => u \in hit \/ drops >= 2

ManagerInv == ConnsOk /\ user \in [Users -> Call] /\ \A u \in Users : CallOk(u)

LEMMA NextNumber ==
  ASSUME Numbered
  PROVE  \E k \in Nat : Opened = 1 .. k /\ Cardinality(Opened) + 1 = k + 1 /\ k + 1 \notin Opened
<1>1. PICK k \in Nat : Opened = 1 .. k
  BY DEF Numbered
<1>2. Cardinality(1 .. k) = k
  BY FS_Interval
<1> QED BY <1>1, <1>2

\* What closing a connection leaves of the others.
LEMMA ClosedLeaves ==
  ASSUME conns \in [Opened -> Connection], NEW c
  PROVE  /\ Closed(c) \in [Opened -> Connection]
         /\ \A d \in Opened : /\ Closed(c)[d].cfg = conns[d].cfg /\ Closed(c)[d].memory = conns[d].memory
                              /\ \/ Closed(c)[d].state = conns[d].state /\ (d = c => conns[d].state # "open")
                                 \/ d = c /\ conns[d].state = "open" /\ Closed(c)[d].state = "closed"
BY DEF Closed, Connection

\* What may become of the connections there are while a call is under way.
Kept ==
  /\ Opened \subseteq Opened' /\ hit \subseteq hit' /\ drops' = drops
  /\ \A c \in Opened : /\ conns'[c].cfg = conns[c].cfg
                       /\ \/ conns'[c].state = conns[c].state
                          \/ conns'[c].state = "closed" /\ On(c) \subseteq hit' /\ conns[c].state = "open"

\* A call that does not move stays as it was while connections are closed under
\* their calls and new ones opened.
LEMMA CallKept ==
  ASSUME NEW u \in Users, CallOk(u), user'[u] = user[u], Kept
  PROVE  CallOk(u)'
BY DEF CallOk, On, Kept

\* Opening a connection while the ones in `gone` are closed.
LEMMA OpenNew ==
  ASSUME Numbered, NEW cs \in [Opened -> Connection], NEW new, new = Cardinality(Opened) + 1,
         NEW cfg \in Configs, NEW memory \in BOOLEAN, conns' = With(new, cfg, memory, cs)
  PROVE  /\ Numbered' /\ conns' \in [Opened' -> Connection]
         /\ Opened' = Opened \cup {new} /\ new \notin Opened
         /\ new \in Nat /\ new # NoConn
         /\ conns'[new].cfg = cfg /\ conns'[new].memory = memory /\ conns'[new].state = "open"
         /\ \A c \in Opened : conns'[c] = cs[c]
<1>1. PICK k \in Nat : Opened = 1 .. k /\ new = k + 1 /\ new \notin Opened
  BY NextNumber
<1>2. DOMAIN cs = Opened /\ Opened' = Opened \cup {new}
  BY DEF With, Opened
<1>3. Opened' = 1 .. (k + 1)
  BY <1>1, <1>2
<1>4. Numbered'
  <2>1. k + 1 \in Nat
    OBVIOUS
  <2> QED BY <1>3, <2>1 DEF Numbered
<1>5. conns'[new] = [cfg |-> cfg, memory |-> memory, state |-> "open"] /\ \A c \in Opened : conns'[c] = cs[c]
  BY <1>1, <1>2 DEF With
<1>6. conns' \in [Opened' -> Connection]
  BY <1>1, <1>2, <1>5 DEF With, Connection
<1> QED BY <1>1, <1>2, <1>4, <1>5, <1>6 DEF NoConn

\* What is left when the cached connection has been detached and closed.
LEMMA DetachedLeaves ==
  ASSUME ConnsOk
  PROVE  /\ Detached \in [Opened -> Connection]
         /\ \A d \in Opened :
              /\ Detached[d].cfg = conns[d].cfg /\ Detached[d].memory = conns[d].memory
              /\ \/ Detached[d].state = conns[d].state
                 \/ d = instance /\ conns[d].state = "open" /\ Detached[d].state = "closed"
              /\ Detached[d].state = "open" => d \in replaced
<1>1. conns \in [Opened -> Connection] /\ NoConn \notin Opened
  BY DEF ConnsOk, Numbered, NoConn
<1>2. \A d \in Opened : conns[d].state = "open" => d = instance \/ d \in replaced
  BY DEF ConnsOk
<1>3. CASE instance = NoConn
  BY <1>1, <1>2, <1>3 DEF Detached
<1>4. CASE instance # NoConn
  <2>1. Detached = Closed(instance)
    BY <1>4 DEF Detached
  <2>2. /\ Closed(instance) \in [Opened -> Connection]
        /\ \A d \in Opened : /\ Closed(instance)[d].cfg = conns[d].cfg
                             /\ Closed(instance)[d].memory = conns[d].memory
                             /\ \/ Closed(instance)[d].state = conns[d].state /\ (d = instance => conns[d].state # "open")
                                \/ d = instance /\ conns[d].state = "open" /\ Closed(instance)[d].state = "closed"
    BY <1>1, ClosedLeaves
  <2> QED BY <1>2, <2>1, <2>2
<1> QED BY <1>3, <1>4

\* getOrCreateBunSql hands out the cached connection of the present signature, a
\* fresh one, or none; what it closes it closes under the calls it counts.
LEMMA GotConnection ==
  ASSUME ConnsOk, NEW forceNew \in BOOLEAN, NEW new, GetOrCreate(forceNew, new),
         config' = config, drops' = drops, replaced' = replaced
  PROVE  /\ ConnsOk' /\ Kept
         /\ \/ new = NoConn
            \/ /\ new \in Opened' /\ new \in Nat /\ new # NoConn /\ conns'[new].state # "closed"
               /\ ConnectionSignature(conns'[new].cfg) = ConnectionSignature(config)
               /\ forceNew => conns'[new].state = "open"
<1>1. CASE ~Stale(forceNew)
  <2>1. UNCHANGED <<instance, signature, conns, hit, failures>> /\ new = instance /\ ~forceNew
    BY <1>1 DEF GetOrCreate, Stale
  <2>2. instance # NoConn /\ signature = ConnectionSignature(config)
    BY <1>1 DEF Stale
  <2>3. instance \in Nat /\ instance \in Opened
    BY <2>2 DEF ConnsOk, Numbered
  <2>4. ConnsOk' /\ Opened' = Opened
    BY <2>1 DEF ConnsOk, Numbered, Opened
  <2>5. Kept
    BY <2>1, <2>4 DEF Kept
  <2> QED BY <2>1, <2>2, <2>3, <2>4, <2>5 DEF ConnsOk
<1>2. CASE Stale(forceNew)
  <2>1. /\ hit' = hit \cup (IF instance = NoConn THEN {} ELSE On(instance))
        /\ \/ /\ failures' = failures
              /\ OpenFresh(new, FALSE)
           \/ /\ failures < MaxFailures /\ failures' = failures + 1
              /\ \/ config.dialect = "sqlite" /\ OpenFresh(new, TRUE)
                 \/ OpenNone(new)
    BY <1>2 DEF GetOrCreate
  <2>2. /\ Detached \in [Opened -> Connection]
        /\ \A d \in Opened :
             /\ Detached[d].cfg = conns[d].cfg /\ Detached[d].memory = conns[d].memory
             /\ \/ Detached[d].state = conns[d].state
                \/ d = instance /\ conns[d].state = "open" /\ Detached[d].state = "closed"
             /\ Detached[d].state = "open" => d \in replaced
    BY DetachedLeaves
  <2>3. failures \in Nat /\ failures' \in Nat /\ (failures > 0 => failures' > 0) /\ NoConn \notin Opened
    <3>1. failures \in Nat /\ NoConn \notin Opened
      BY DEF ConnsOk, Numbered, NoConn
    <3>2. failures' = failures \/ failures' = failures + 1
      BY <2>1
    <3> QED BY <3>1, <3>2
  <2>4. ASSUME NEW memory \in BOOLEAN, OpenFresh(new, memory), memory => config.dialect = "sqlite" /\ failures' > 0
        PROVE  /\ ConnsOk' /\ Kept
               /\ new \in Opened' /\ new \in Nat /\ new # NoConn /\ conns'[new].state = "open"
               /\ ConnectionSignature(conns'[new].cfg) = ConnectionSignature(config)
    <3>1. /\ new = Cardinality(Opened) + 1 /\ conns' = With(new, config, memory, Detached)
          /\ instance' = new /\ signature' = ConnectionSignature(config)
      BY <2>4 DEF OpenFresh
    <3>2. /\ Numbered' /\ conns' \in [Opened' -> Connection]
          /\ Opened' = Opened \cup {new} /\ new \notin Opened /\ new \in Nat /\ new # NoConn
          /\ conns'[new].cfg = config /\ conns'[new].memory = memory /\ conns'[new].state = "open"
          /\ \A c \in Opened : conns'[c] = Detached[c]
      BY <2>2, <3>1, OpenNew DEF ConnsOk
    <3>3. Kept
      BY <2>1, <2>2, <2>3, <3>2 DEF Kept
    <3>4. \A c \in Opened' : conns'[c].state = "open" => c = instance' \/ c \in replaced'
      BY <2>2, <3>1, <3>2
    <3>5. \A c \in Opened' : conns'[c].state = "dropped" => drops' >= 1 /\ conns'[c].cfg.dialect # "sqlite"
      BY <2>2, <3>2 DEF ConnsOk
    <3>6. \A c \in Opened' : conns'[c].memory => conns'[c].cfg.dialect = "sqlite" /\ failures' > 0
      BY <2>2, <2>3, <2>4, <3>2 DEF ConnsOk
    <3>7. ConnectionSignature(conns'[new].cfg)  = ConnectionSignature(config)
      BY <3>2
    <3>8. /\ ConnectionSignature(conns'[instance'].cfg) = signature'
          /\ conns'[instance'].state # "closed" /\ instance' \in Opened'
      BY <3>1, <3>2
    <3> QED BY <2>3, <3>2, <3>3, <3>4, <3>5, <3>6, <3>7, <3>8 DEF ConnsOk, ConnectionSignature
  <2>5. ASSUME OpenNone(new) PROVE ConnsOk' /\ Kept /\ new = NoConn
    <3>1. new = NoConn /\ conns' = Detached /\ instance' = NoConn
      BY <2>5 DEF OpenNone
    <3>2. Opened' = Opened
      BY <2>2, <3>1 DEF Opened
    <3>3. Kept
      BY <2>1, <2>2, <2>3, <3>1, <3>2 DEF Kept
    <3>4. ConnsOk'
      BY <2>2, <2>3, <3>1, <3>2 DEF ConnsOk, Numbered
    <3> QED BY <3>1, <3>3, <3>4
  <2>6. CASE OpenFresh(new, FALSE)
    BY <2>4, <2>6
  <2>7. CASE OpenNone(new)
    BY <2>5, <2>7
  <2>8. CASE config.dialect = "sqlite" /\ OpenFresh(new, TRUE) /\ failures' = failures + 1
    <3>1. failures' > 0
      BY <2>3, <2>8
    <3> QED BY <2>4, <2>8, <3>1
  <2> QED BY <2>1, <2>6, <2>7, <2>8
<1> QED BY <1>1, <1>2

\* The call under way on the connection handed out, or rejected without one.
LEMMA CallRuns ==
  ASSUME NEW u \in Users, user \in [Users -> Call], NEW tries \in 1 .. 2, NEW c \in Nat, config \in Configs,
         Run(u, tries, c)
  PROVE  \E call \in Call :
           /\ user' = [user EXCEPT ![u] = call] /\ user'[u] = call
           /\ IF c = NoConn
              THEN call.pc = "rejected" /\ call.conn = NoConn
              ELSE call.pc = "running" /\ call.tries = tries /\ call.conn = c /\ call.want = config
<1> DEFINE call == IF c = NoConn THEN Settled("rejected")
                   ELSE [pc |-> "running", tries |-> tries, conn |-> c, want |-> config]
<1>1. user' = [user EXCEPT ![u] = call]
  BY DEF Run
<1>2. call \in Call
  <2>1. tries \in 0 .. 2 /\ 0 \in 0 .. 2 /\ NoConn \in Nat
    BY DEF NoConn
  <2> QED BY <2>1 DEF Call, Settled, NoUser
<1>3. user'[u] = call
  BY <1>1
<1>4. /\ c = NoConn => call.pc = "rejected" /\ call.conn = NoConn
      /\ c # NoConn => call.pc = "running" /\ call.tries = tries /\ call.conn = c /\ call.want = config
  BY DEF Settled, NoUser
<1> QED BY <1>1, <1>2, <1>3, <1>4

LEMMA CallEnds ==
  ASSUME NEW u \in Users, user \in [Users -> Call], NEW how \in {"done", "failed"},
         user' = [user EXCEPT ![u] = Settled(how)]
  PROVE  \E call \in Call : user' = [user EXCEPT ![u] = call] /\ user'[u] = call /\ call.pc = how /\ call.conn = NoConn
<1>1. Settled(how) \in Call /\ Settled(how).pc = how /\ Settled(how).conn = NoConn
  BY DEF Settled, NoUser, NoConn, Call
<1>2. user'[u] = Settled(how)
  OBVIOUS
<1> QED BY <1>1, <1>2

LEMMA ManagerInvInit == ManagerInit => ManagerInv
<1> SUFFICES ASSUME ManagerInit PROVE ManagerInv
  OBVIOUS
<1>1. Opened = 1 .. 0 /\ Opened = {}
  BY DEF ManagerInit, Opened
<1>2. Numbered
  BY <1>1 DEF Numbered
<1>3. conns \in [Opened -> Connection]
  BY <1>1 DEF ManagerInit, Opened
<1>4. ConnsOk
  BY <1>1, <1>2, <1>3 DEF ManagerInit, ConnsOk
<1>5. user \in [Users -> Call] /\ \A u \in Users : user[u].pc = "idle" /\ user[u].conn = NoConn
  BY DEF ManagerInit, NoUser, NoConn, Call
<1>6. \A u \in Users : CallOk(u)
  BY <1>5 DEF CallOk
<1> QED BY <1>4, <1>5, <1>6 DEF ManagerInv

\* Only the connections moved.
LEMMA CallsStay ==
  ASSUME ManagerInv, ConnsOk', user' = user, Kept
  PROVE  ManagerInv'
<1>1. \A u \in Users : CallOk(u)'
  BY CallKept DEF ManagerInv
<1> QED BY <1>1 DEF ManagerInv

\* One call moved, the others stayed.
LEMMA OneMoves ==
  ASSUME ManagerInv, ConnsOk', NEW u \in Users, NEW call \in Call,
         user' = [user EXCEPT ![u] = call], CallOk(u)', Kept
  PROVE  ManagerInv'
<1>1. user' \in [Users -> Call] /\ \A v \in Users \ {u} : user'[v] = user[v]
  BY DEF ManagerInv
<1>2. \A v \in Users \ {u} : CallOk(v)'
  BY <1>1, CallKept DEF ManagerInv
<1> QED BY <1>1, <1>2 DEF ManagerInv

LEMMA ManagerInvNext == ManagerInv /\ [ManagerNext]_managerVars => ManagerInv'
<1> SUFFICES ASSUME ManagerInv, [ManagerNext]_managerVars PROVE ManagerInv'
  OBVIOUS
<1>0. ConnsOk /\ user \in [Users -> Call] /\ \A u \in Users : CallOk(u)
  BY DEF ManagerInv
<1>1. CASE UNCHANGED managerVars
  BY <1>1 DEF managerVars, ManagerInv, ConnsOk, Numbered, Opened, CallOk
<1>2. ASSUME NEW u \in Users, Use(u) PROVE ManagerInv'
  <2>1. PICK c \in 0 .. MaxConns : GetOrCreate(FALSE, c) /\ Run(u, 1, c)
    BY <1>2 DEF Use
  <2>2. config' = config /\ drops' = drops /\ replaced' = replaced
    BY <1>2 DEF Use
  <2>3. /\ ConnsOk' /\ Kept
        /\ \/ c = NoConn
           \/ /\ c \in Opened' /\ c # NoConn /\ conns'[c].state # "closed"
              /\ ConnectionSignature(conns'[c].cfg) = ConnectionSignature(config)
    BY <1>0, <2>1, <2>2, GotConnection
  <2>4. PICK call \in Call :
          /\ user' = [user EXCEPT ![u] = call] /\ user'[u] = call
          /\ IF c = NoConn
             THEN call.pc = "rejected" /\ call.conn = NoConn
             ELSE call.pc = "running" /\ call.tries = 1 /\ call.conn = c /\ call.want = config
    <3>1. c \in Nat /\ 1 \in 1 .. 2 /\ config \in Configs
      BY <1>0, <2>1 DEF ConnsOk
    <3> QED BY <1>0, <2>1, <3>1, CallRuns
  <2>5. CallOk(u)'
    BY <2>3, <2>4 DEF CallOk
  <2> QED BY <2>3, <2>4, <2>5, OneMoves
<1>3. ASSUME NEW u \in Users, RetryOnce(u) PROVE ManagerInv'
  <2>1. PICK c \in 0 .. MaxConns : GetOrCreate(TRUE, c) /\ Run(u, 2, c)
    BY <1>3 DEF RetryOnce
  <2>2. config' = config /\ drops' = drops /\ replaced' = replaced
    BY <1>3 DEF RetryOnce
  <2>3. /\ ConnsOk' /\ Kept
        /\ \/ c = NoConn
           \/ /\ c \in Opened' /\ c # NoConn /\ conns'[c].state = "open"
              /\ ConnectionSignature(conns'[c].cfg) = ConnectionSignature(config)
    BY <1>0, <2>1, <2>2, GotConnection
  <2>4. PICK call \in Call :
          /\ user' = [user EXCEPT ![u] = call] /\ user'[u] = call
          /\ IF c = NoConn
             THEN call.pc = "rejected" /\ call.conn = NoConn
             ELSE call.pc = "running" /\ call.tries = 2 /\ call.conn = c /\ call.want = config
    <3>1. c \in Nat /\ 2 \in 1 .. 2 /\ config \in Configs
      BY <1>0, <2>1 DEF ConnsOk
    <3> QED BY <1>0, <2>1, <3>1, CallRuns
  <2>5. u \in hit' \/ drops' >= 1
    <3>1. user[u].conn \in Opened /\ conns[user[u].conn].state \in {"closed", "dropped"}
      BY <1>0, <1>3 DEF RetryOnce, CallOk, ConnsOk, Connection
    <3>2. u \in hit \/ drops >= 1
      BY <1>0, <1>3, <3>1 DEF RetryOnce, CallOk, ConnsOk
    <3> QED BY <2>3, <3>2 DEF Kept
  <2>6. CallOk(u)'
    BY <2>3, <2>4, <2>5 DEF CallOk
  <2> QED BY <2>3, <2>4, <2>6, OneMoves
<1>4. ASSUME NEW u \in Users, Finish(u) PROVE ManagerInv'
  <2>1. UNCHANGED <<config, instance, signature, conns, drops, failures, replaced, hit>> /\ user' = [user EXCEPT ![u] = Settled("done")]
    BY <1>4 DEF Finish
  <2>2. ConnsOk' /\ Opened' = Opened /\ Kept
    BY <1>0, <2>1 DEF ConnsOk, Numbered, Opened, Kept
  <2>3. PICK call \in Call : user' = [user EXCEPT ![u] = call] /\ user'[u] = call /\ call.pc = "done" /\ call.conn = NoConn
    BY <1>0, <2>1, CallEnds
  <2>4. CallOk(u)'
    BY <2>3 DEF CallOk
  <2> QED BY <2>2, <2>3, <2>4, OneMoves
<1>5. ASSUME NEW u \in Users, GiveUp(u) PROVE ManagerInv'
  <2>1. UNCHANGED <<config, instance, signature, conns, drops, failures, replaced, hit>> /\ user' = [user EXCEPT ![u] = Settled("failed")]
    BY <1>5 DEF GiveUp
  <2>2. ConnsOk' /\ Opened' = Opened /\ Kept
    BY <1>0, <2>1 DEF ConnsOk, Numbered, Opened, Kept
  <2>3. PICK call \in Call : user' = [user EXCEPT ![u] = call] /\ user'[u] = call /\ call.pc = "failed" /\ call.conn = NoConn
    BY <1>0, <2>1, CallEnds
  <2>4. u \in hit \/ drops >= 2
    <3> DEFINE c == user[u].conn
    <3>1. /\ c \in Opened /\ conns[c].state \in {"closed", "dropped"} /\ user[u].pc = "running"
          /\ user[u].tries \in 1 .. 2 /\ (conns[c].state = "dropped" => conns[c].cfg.dialect # "sqlite")
      BY <1>0, <1>5 DEF GiveUp, CallOk, ConnsOk, Connection
    <3>2. CASE conns[c].state = "closed"
      BY <1>0, <3>1, <3>2 DEF CallOk
    <3>3. CASE conns[c].state = "dropped"
      <4>1. user[u].tries = 2
        BY <1>5, <3>1, <3>3 DEF GiveUp, Retriable
      <4> QED BY <1>0, <3>1, <3>3, <4>1 DEF CallOk
    <3> QED BY <3>1, <3>2, <3>3
  <2>5. CallOk(u)'
    BY <2>1, <2>3, <2>4 DEF CallOk
  <2> QED BY <2>2, <2>3, <2>5, OneMoves
<1>6. ASSUME NEW cfg \in Configs, SetConfig(cfg) PROVE ManagerInv'
  <2>1. config' = cfg /\ UNCHANGED <<instance, signature, conns, user, drops, failures, replaced, hit>>
    BY <1>6 DEF SetConfig
  <2>2. ConnsOk' /\ Kept
    BY <1>0, <2>1 DEF ConnsOk, Numbered, Opened, Kept
  <2> QED BY <2>1, <2>2, CallsStay
<1>7. CASE DetachCachedConnection
  <2>1. /\ conns' = Detached /\ hit' = hit \cup On(instance) /\ instance' = NoConn
        /\ UNCHANGED <<config, user, drops, failures, replaced>>
    BY <1>7 DEF DetachCachedConnection, Detached
  <2>2. /\ Detached \in [Opened -> Connection]
        /\ \A d \in Opened :
             /\ Detached[d].cfg = conns[d].cfg /\ Detached[d].memory = conns[d].memory
             /\ \/ Detached[d].state = conns[d].state
                \/ d = instance /\ conns[d].state = "open" /\ Detached[d].state = "closed"
             /\ Detached[d].state = "open" => d \in replaced
    BY <1>0, DetachedLeaves
  <2>3. Opened' = Opened
    BY <2>1, <2>2 DEF Opened
  <2>4. ConnsOk'
    BY <1>0, <2>1, <2>2, <2>3 DEF ConnsOk, Numbered
  <2>5. Kept
    BY <2>1, <2>2, <2>3 DEF Kept
  <2> QED BY <2>1, <2>4, <2>5, CallsStay
<1>8. CASE SetSqlInstance
  <2> DEFINE new == Cardinality(Opened) + 1
  <2>1. /\ conns' = With(new, config, FALSE, conns) /\ instance' = new
        /\ signature' = ConnectionSignature(config)
        /\ replaced' = replaced \cup ({instance} \ {NoConn})
        /\ UNCHANGED <<config, user, drops, failures, hit>>
    BY <1>8 DEF SetSqlInstance
  <2> HIDE DEF new
  <2>2. /\ Numbered' /\ conns' \in [Opened' -> Connection]
        /\ Opened' = Opened \cup {new} /\ new # NoConn
        /\ conns'[new].cfg = config /\ conns'[new].memory = FALSE /\ conns'[new].state = "open"
        /\ \A c \in Opened : conns'[c] = conns[c]
    <3>1. new = Cardinality(Opened) + 1
      BY DEF new
    <3>2. Numbered /\ conns \in [Opened -> Connection] /\ config \in Configs
      BY <1>0 DEF ConnsOk
    <3>3. FALSE \in BOOLEAN
      OBVIOUS
    <3>4. PICK no \in BOOLEAN : no = FALSE /\ conns' = With(new, config, no, conns)
      BY <2>1, <3>3
    <3> QED BY <3>1, <3>2, <3>4, OpenNew
  <2>4. \A c \in Opened' : conns'[c].state = "open" => c = instance' \/ c \in replaced'
    <3>1. \A c \in Opened : conns[c].state = "open" => c = instance \/ c \in replaced
      BY <1>0 DEF ConnsOk
    <3>2. NoConn \notin Opened
      BY <1>0 DEF ConnsOk, Numbered, NoConn
    <3> QED BY <2>1, <2>2, <3>1, <3>2
  <2>5. \A c \in Opened' : conns'[c].state = "dropped" => drops' >= 1 /\ conns'[c].cfg.dialect # "sqlite"
    BY <1>0, <2>1, <2>2 DEF ConnsOk
  <2>6. \A c \in Opened' : conns'[c].memory => conns'[c].cfg.dialect = "sqlite" /\ failures' > 0
    BY <1>0, <2>1, <2>2 DEF ConnsOk
  <2>7. ConnsOk'
    BY <1>0, <2>1, <2>2, <2>4, <2>5, <2>6 DEF ConnsOk
  <2>8. Kept
    BY <2>1, <2>2 DEF Kept
  <2> QED BY <2>1, <2>7, <2>8, CallsStay
<1>9. ASSUME NEW c \in Opened, Drop(c) PROVE ManagerInv'
  <2>1. /\ conns' = [conns EXCEPT ![c].state = "dropped"] /\ drops' = drops + 1
        /\ conns[c].cfg.dialect # "sqlite"
        /\ UNCHANGED <<config, instance, signature, user, failures, injected, replaced, hit>>
    BY <1>9 DEF Drop
  <2>2. /\ Opened' = Opened /\ conns' \in [Opened -> Connection]
        /\ conns'[c].cfg = conns[c].cfg /\ conns'[c].memory = conns[c].memory /\ conns'[c].state = "dropped"
        /\ \A d \in Opened \ {c} : conns'[d] = conns[d]
    BY <1>0, <2>1 DEF Opened, ConnsOk, Connection
  <2>3. drops \in Nat /\ drops' \in Nat /\ drops' >= 1
    BY <1>0, <2>1 DEF ConnsOk
  <2>4. ConnsOk'
    BY <1>0, <2>1, <2>2, <2>3 DEF ConnsOk, Numbered
  <2>5. ASSUME NEW u \in Users PROVE CallOk(u)'
    <3>1. drops >= 1 => drops' >= 2
      BY <2>1, <2>3
    <3>2. CallOk(u) /\ user'[u] = user[u]
      BY <1>0, <2>1
    <3> QED BY <1>0, <2>1, <2>2, <2>3, <3>1, <3>2 DEF CallOk
  <2> QED BY <1>0, <2>1, <2>4, <2>5 DEF ManagerInv
<1> QED
  BY <1>1, <1>2, <1>3, <1>4, <1>5, <1>6, <1>7, <1>8, <1>9 DEF ManagerNext, UserStep

LEMMA ManagerInvariant == Spec => []ManagerInv
<1>1. Init => ManagerInv
  BY ManagerInvInit DEF Init
<1>2. ManagerInv /\ [Next]_vars => ManagerInv'
  BY ManagerInvNext DEF Next, vars, managerVars
<1> QED BY <1>1, <1>2, PTL DEF Spec

\* Whatever setConfig, resets, injections, retries, drops and failing openings come
\* in between, a call under way works on a connection of the dialect and address
\* that were configured when it took it (getOrCreateBunSql's signature check covers
\* every way to it), and on an empty database in memory only where it was SQLite and
\* an opening failed.
THEOREM ConfiguredDatabase == Spec => []CallsReachTheConfiguredDatabase
<1>1. ASSUME ManagerInv, NEW u \in Users, user[u].pc = "running"
      PROVE  LET c == conns[user[u].conn] want == user[u].want
             IN  /\ c.cfg.dialect = want.dialect /\ c.cfg.address = want.address
                 /\ c.memory => want.dialect = "sqlite" /\ failures > 0
  <2>1. CallOk(u) /\ ConnsOk
    BY <1>1 DEF ManagerInv
  <2>2. user[u].conn \in Opened /\ ConnectionSignature(conns[user[u].conn].cfg) = ConnectionSignature(user[u].want)
    BY <1>1, <2>1 DEF CallOk
  <2>3. /\ conns[user[u].conn].cfg.dialect = user[u].want.dialect
        /\ conns[user[u].conn].cfg.address = user[u].want.address
    BY <2>2 DEF ConnectionSignature
  <2> QED BY <2>1, <2>2, <2>3 DEF ConnsOk
<1>2. ManagerInv => CallsReachTheConfiguredDatabase
  BY <1>1 DEF CallsReachTheConfiguredDatabase
<1> QED BY <1>2, ManagerInvariant, PTL

\* withFreshConnection's one retry is enough for one dropped connection, unless
\* this module itself closed the fresh one, and what the module replaces it closes.
THEOREM DropSurvived == Spec => []OneDropIsSurvived
<1>1. ASSUME ManagerInv PROVE OneDropIsSurvived
  <2>1. drops \in Nat /\ \A u \in Users : user[u].pc = "failed" => u \in hit \/ drops >= 2
    BY <1>1 DEF ManagerInv, ConnsOk, CallOk
  <2>2. NothingIsLeftOpen
    BY <1>1 DEF ManagerInv, ConnsOk, NothingIsLeftOpen
  <2> QED BY <2>1, <2>2 DEF OneDropIsSurvived
<1> QED BY <1>1, ManagerInvariant, PTL

----------------------------------------------------------------------------
(* The run of the files, and the three together.                           *)

LEMMA RunnerInvariant == Spec => []RunnerInv
<1>1. Init => RunnerInv
  BY RunnerInvInit DEF Init
<1>2. RunnerInv /\ [Next]_vars => RunnerInv'
  BY RunnerInvNext DEF Next, vars, runnerVars
<1> QED BY <1>1, <1>2, PTL DEF Spec

\* Whoever dies, fails, runs at the same time or starts over, with whatever files:
\* a statement takes effect only after every earlier file is on record; and where DDL
\* can be rolled back a wrappable file takes effect as a whole and once, and the
\* recovery that records an "already applied" one is right about it.
THEOREM FilesGoAsUnits == Spec => []FilesAreUnitsInOrder
BY RunnerInvariant, RunnerInvMeans, PTL

\* Every variable of the manager, the lock and the runner keeps its type.
THEOREM ConnectionsTypes == Spec => []TypeOK
<1>1. ManagerInv => ManagerTypes
  BY DEF ManagerInv, ConnsOk, CallOk, ManagerTypes, Connection, Call
<1>2. LockInv /\ LockSizes => LockTypes
  <2> SUFFICES ASSUME LockInv, LockSizes PROVE LockTypes
    OBVIOUS
  <2>1. max \in Nat /\ \A r \in Runs : inUse[r] \in Nat /\ inUse[r] <= max
    BY LockAssumption DEF LockInv, LockSizes
  <2>2. \A r \in Runs : inUse[r] \in 0 .. max
    BY <2>1
  <2> QED BY <2>2 DEF LockInv, LockSizes, LockTypes
<1>3. ManagerInv /\ LockInv /\ LockSizes /\ RunnerInv => TypeOK
  BY <1>1, <1>2, RunnerInvTypes DEF TypeOK
<1> QED BY <1>3, ManagerInvariant, LockInvariant, RunnerInvariant, PTL

============================================================================
