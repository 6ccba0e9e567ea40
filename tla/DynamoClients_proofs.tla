------------------------- MODULE DynamoClients_proofs -------------------------
(***************************************************************************)
(* DynamoMigration: versions of the record that no late driver writes over,   *)
(* and migrations that answer success leave the table as their models ask.     *)
(* DynamoReads: the answers of the read builders are what their chains ask for.  *)
(* DynamoItems: what the writes of models, builders and repositories promise.   *)
(***************************************************************************)
EXTENDS DynamoMigration, DynamoReads, DynamoItems, SharedLemmas, SequenceTheorems

(* The versions are 1 to the newest, and a driver that is about to put and whose   *)
(* read showed all of them holds the one after it.                              *)
Record == [definition : Definitions, by : Drivers]
Full(r) == DOMAIN r = {"pc", "target", "ops", "version"} /\ r.target \in Definitions
Ready(r, late, newest) ==
  r.pc = "put" => r.version \in 1 .. newest + 1 /\ (late \/ r.version = newest + 1)
RunOk(r, late, newest) == r = NoRun \/ (Full(r) /\ Ready(r, late, newest))
VersionInv ==
  /\ wanted \in Definitions /\ records \in Seq(Record)
  /\ DOMAIN runs = Drivers /\ DOMAIN outrun = Drivers
  /\ \A d \in Drivers : RunOk(runs[d], outrun[d], Len(records))

LEMMA RunMoveKeeps ==
  ASSUME VersionInv, NEW d \in Drivers, NEW r, r = NoRun \/ (Full(r) /\ r.pc # "put"),
         runs' = [runs EXCEPT ![d] = r], records' = records, outrun' = outrun, wanted' \in Definitions
  PROVE  VersionInv'
<1>1. DOMAIN runs' = Drivers /\ DOMAIN outrun' = Drivers /\ records' \in Seq(Record)
  BY DEF VersionInv
<1>2. runs'[d] = r /\ \A e \in Drivers \ {d} : runs'[e] = runs[e]
  BY DEF VersionInv
<1>3. \A e \in Drivers \ {d} : RunOk(runs'[e], outrun'[e], Len(records'))
  BY <1>2 DEF VersionInv
<1>4. RunOk(r, outrun'[d], Len(records'))
  BY DEF RunOk, Ready
<1> QED BY <1>1, <1>2, <1>3, <1>4 DEF VersionInv

\* A step of one driver within its run, or to its end.
LEMMA RunStepKeeps ==
  ASSUME VersionInv, NEW d \in Drivers, ~At(d, "idle"), UNCHANGED <<records, outrun, wanted>>,
         \/ runs' = [runs EXCEPT ![d] = NoRun]
         \/ \E pc : pc # "put" /\ runs' = [runs EXCEPT ![d].pc = pc]
         \/ \E pc, ops : pc # "put" /\ runs' = [runs EXCEPT ![d].pc = pc, ![d].ops = ops]
  PROVE  VersionInv'
<1>1. Full(runs[d]) /\ wanted' \in Definitions
  BY DEF VersionInv, RunOk, At, NoRun
<1>2. CASE runs' = [runs EXCEPT ![d] = NoRun]
  BY <1>1, <1>2, RunMoveKeeps
<1>3. ASSUME NEW pc, pc # "put", runs' = [runs EXCEPT ![d].pc = pc] PROVE VersionInv'
  <2>1. Full([runs[d] EXCEPT !.pc = pc]) /\ [runs[d] EXCEPT !.pc = pc].pc = pc
    BY <1>1 DEF Full
  <2> QED BY <1>1, <1>3, <2>1, RunMoveKeeps
<1>4. ASSUME NEW pc, NEW ops, pc # "put", runs' = [runs EXCEPT ![d].pc = pc, ![d].ops = ops] PROVE VersionInv'
  <2> DEFINE r == [runs[d] EXCEPT !.pc = pc, !.ops = ops]
  <2>1. Full(r) /\ r.pc = pc
    BY <1>1 DEF Full
  <2>2. runs' = [runs EXCEPT ![d] = r]
    BY <1>4
  <2> HIDE DEF r
  <2> QED BY <1>1, <1>4, <2>1, <2>2, RunMoveKeeps
<1> QED BY <1>2, <1>3, <1>4

\* A request of an operation, whatever it asks for and however it ends.
LEMMA RequestKeeps ==
  ASSUME VersionInv, NEW d \in Drivers, NEW refusal, NEW changed, NEW next,
         Full(next), next.pc # "put", Ask(d, refusal, changed, next), Deployed, Untracked
  PROVE  VersionInv'
<1>1. wanted' \in Definitions /\ records' = records /\ outrun' = outrun
  BY DEF VersionInv, Deployed, Untracked
<1>2. runs' = [runs EXCEPT ![d] = NoRun] \/ runs' = [runs EXCEPT ![d] = next]
  BY DEF Ask, End
<1> QED BY <1>1, <1>2, RunMoveKeeps

LEMMA OperationsKeep ==
  ASSUME VersionInv, NEW d \in Drivers,
         \/ CreateTable(d) \/ AddGsi(d) \/ DeleteGsi(d) \/ UpdateBillingMode(d) \/ EnableStream(d)
         \/ DisableStream(d) \/ UpdateTtl(d)
  PROVE  VersionInv'
<1>1. ~At(d, "idle")
  BY DEF CreateTable, AddGsi, DeleteGsi, UpdateBillingMode, EnableStream, DisableStream, UpdateTtl,
         UpdateTable, Executing, At
<1>2. Full(runs[d])
  BY <1>1 DEF VersionInv, RunOk, At, NoRun
<1>3. \A pc \in {"table", "index"} : Full([runs[d] EXCEPT !.pc = pc]) /\ [runs[d] EXCEPT !.pc = pc].pc # "put"
  BY <1>2 DEF Full
<1>4. Full(AfterOp(d)) /\ AfterOp(d).pc # "put"
  BY <1>2 DEF Full, AfterOp
<1>5. CASE CreateTable(d)
  BY <1>3, <1>5, RequestKeeps DEF CreateTable
<1>6. CASE AddGsi(d)
  BY <1>3, <1>6, RequestKeeps DEF AddGsi
<1>7. CASE DeleteGsi(d)
  BY <1>4, <1>7, RequestKeeps DEF DeleteGsi
<1>8. ASSUME NEW type, NEW changed, UpdateTable(d, type, changed) PROVE VersionInv'
  BY <1>3, <1>8, RequestKeeps DEF UpdateTable
<1>9. CASE UpdateBillingMode(d) \/ EnableStream(d) \/ DisableStream(d)
  BY <1>8, <1>9 DEF UpdateBillingMode, EnableStream, DisableStream
<1>10. CASE UpdateTtl(d)
  BY <1>4, <1>10, RequestKeeps DEF UpdateTtl
<1> QED BY <1>5, <1>6, <1>7, <1>9, <1>10

LEMMA WaitsKeep ==
  ASSUME VersionInv, NEW d \in Drivers,
         \/ Describe(d) \/ TableActive(d) \/ IndexActive(d) \/ EnsureMigrationsTable(d)
         \/ CreateMigrationsTable(d) \/ MigrationsTableActive(d) \/ Crash(d)
  PROVE  VersionInv'
<1>1. ~At(d, "idle") /\ UNCHANGED <<records, outrun, wanted>>
  BY DEF Describe, TableActive, IndexActive, EnsureMigrationsTable, CreateMigrationsTable,
         MigrationsTableActive, Crash, At, Deployed, Untracked
<1>2. CASE Describe(d)
  BY <1>1, <1>2, RunStepKeeps DEF Describe
<1>3. CASE TableActive(d)
  BY <1>1, <1>3, RunStepKeeps DEF TableActive, AfterOp, End
<1>4. CASE IndexActive(d)
  BY <1>1, <1>4, RunStepKeeps DEF IndexActive, AfterOp, End
<1>5. CASE EnsureMigrationsTable(d)
  BY <1>1, <1>5, RunStepKeeps DEF EnsureMigrationsTable, Goto
<1>6. CASE CreateMigrationsTable(d)
  BY <1>1, <1>6, RunStepKeeps DEF CreateMigrationsTable, Goto, End
<1>7. CASE MigrationsTableActive(d)
  BY <1>1, <1>7, RunStepKeeps DEF MigrationsTableActive, Goto, End
<1>8. CASE Crash(d)
  BY <1>1, <1>8, RunStepKeeps DEF Crash
<1> QED BY <1>2, <1>3, <1>4, <1>5, <1>6, <1>7, <1>8

LEMMA StartKeeps ==
  ASSUME VersionInv, NEW d \in Drivers, Start(d)
  PROVE  VersionInv'
<1> DEFINE r == [pc |-> "describe", target |-> wanted, ops |-> <<>>, version |-> 0]
<1>1. Full(r) /\ r.pc # "put"
  BY DEF VersionInv, Full
<1>2. runs' = [runs EXCEPT ![d] = r] /\ UNCHANGED <<records, outrun, wanted>> /\ wanted' \in Definitions
  BY DEF Start, VersionInv
<1> HIDE DEF r
<1> QED BY <1>1, <1>2, RunMoveKeeps

LEMMA LatestKeeps ==
  ASSUME VersionInv, NEW d \in Drivers, GetLatestState(d)
  PROVE  VersionInv'
<1>1. Full(runs[d]) /\ ~At(d, "idle")
  BY DEF VersionInv, RunOk, GetLatestState, At, NoRun
<1>2. UNCHANGED <<records, wanted>>
  BY DEF GetLatestState, Deployed
<1>3. CASE tracking # "ACTIVE"
  BY <1>1, <1>2, <1>3, RunStepKeeps DEF GetLatestState, End
<1>4. CASE tracking = "ACTIVE"
  <2>1. PICK late, newest :
          /\ late \in BOOLEAN /\ newest \in Shows(late)
          /\ runs' = [runs EXCEPT ![d].pc = "put", ![d].version = newest + 1]
          /\ outrun' = [outrun EXCEPT ![d] = late]
    BY <1>4 DEF GetLatestState
  <2>2. Len(records) \in Nat /\ DOMAIN runs = Drivers /\ DOMAIN outrun = Drivers
    BY DEF VersionInv
  <2>3. newest + 1 \in 1 .. Len(records) + 1 /\ (late \/ newest + 1 = Len(records) + 1)
    BY <2>1, <2>2 DEF Shows, LatestVersion
  <2> DEFINE version == newest + 1
             r == [runs[d] EXCEPT !.pc = "put", !.version = version]
  <2> HIDE DEF version
  <2>4. Full(r) /\ r.version = version
    BY <1>1 DEF Full
  <2>5. runs' = [runs EXCEPT ![d] = r]
    BY <2>1, <2>2 DEF version
  <2> HIDE DEF r
  <2>6. RunOk(r, late, Len(records))
    BY <2>3, <2>4 DEF RunOk, Ready, version
  <2>7. runs'[d] = r /\ outrun'[d] = late /\ DOMAIN runs' = Drivers /\ DOMAIN outrun' = Drivers
    BY <2>1, <2>2, <2>5
  <2>8. \A e \in Drivers \ {d} : runs'[e] = runs[e] /\ outrun'[e] = outrun[e]
    BY <2>1, <2>2, <2>5
  <2>9. \A e \in Drivers : RunOk(runs'[e], outrun'[e], Len(records'))
    BY <1>2, <2>6, <2>7, <2>8 DEF VersionInv
  <2> QED BY <1>2, <2>7, <2>9 DEF VersionInv
<1> QED BY <1>3, <1>4

\* What a put that is carried out leaves: a driver whose read was not late appends.
LEMMA PutAppends ==
  ASSUME VersionInv, NEW d \in Drivers, PutRecord(d), records' # records
  PROVE  /\ records' \in Seq(Record) /\ Len(records') >= Len(records)
         /\ \A n \in DOMAIN records : n # runs[d].version => n \in DOMAIN records' /\ records'[n] = records[n]
         /\ ~outrun[d] => runs[d].version \notin DOMAIN records
<1> DEFINE v == runs[d].version
           top == IF v > Len(records) THEN v ELSE Len(records)
           entry == [definition |-> runs[d].target, by |-> d]
<1>1. At(d, "put") /\ runs[d] # NoRun
  <2>1. runs[d].pc = "put"
    BY DEF PutRecord, At
  <2> QED BY <2>1 DEF At, NoRun
<1>2. Full(runs[d]) /\ Ready(runs[d], outrun[d], Len(records))
  BY <1>1 DEF VersionInv, RunOk
<1>3. v \in 1 .. Len(records) + 1 /\ (outrun[d] \/ v = Len(records) + 1)
  BY <1>1, <1>2 DEF Ready, At
<1>4. records' = [n \in 1 .. top |-> IF n = v THEN entry ELSE records[n]]
  BY DEF PutRecord
<1>5. entry \in Record
  BY <1>2 DEF Full, Record
<1>6. records \in Seq(Record)
  BY DEF VersionInv
<1>7. Len(records) \in Nat /\ DOMAIN records = 1 .. Len(records)
  BY <1>6
<1>8. top \in Nat /\ top >= Len(records) /\ top <= Len(records) + 1 /\ (top > Len(records) => top = v)
  BY <1>3, <1>7
<1> HIDE DEF v, top, entry
<1>9. \A n \in 1 .. top : n # v => n \in DOMAIN records
  BY <1>3, <1>7, <1>8
<1>10. \A n \in DOMAIN records : records[n] \in Record
  BY <1>6
<1>11. \A n \in 1 .. top : (IF n = v THEN entry ELSE records[n]) \in Record
  BY <1>5, <1>9, <1>10
<1>12. records' \in [1 .. top -> Record]
  BY <1>4, <1>11
<1>13. records' \in Seq(Record) /\ Len(records') = top
  BY <1>8, <1>12
<1>14. \A n \in DOMAIN records : n # v => n \in DOMAIN records' /\ records'[n] = records[n]
  <2>1. \A n \in DOMAIN records : n \in 1 .. top
    BY <1>7, <1>8
  <2> QED BY <1>4, <2>1
<1>15. ~outrun[d] => v \notin DOMAIN records
  BY <1>3, <1>7
<1> QED BY <1>8, <1>13, <1>14, <1>15 DEF v

LEMMA PutKeeps ==
  ASSUME VersionInv, NEW d \in Drivers, PutRecord(d)
  PROVE  VersionInv'
<1>1. runs' = [runs EXCEPT ![d] = NoRun] /\ wanted' = wanted
  BY DEF PutRecord, End, Deployed
<1>2. CASE records' = records /\ outrun' = outrun
  BY <1>1, <1>2, RunMoveKeeps DEF VersionInv
<1>3. ASSUME records' # records \/ outrun' # outrun PROVE outrun' = [e \in Drivers |-> outrun[e] \/ e # d]
  BY <1>3 DEF PutRecord
<1>4. CASE records' = records /\ outrun' # outrun
  <2>1. \A e \in Drivers \ {d} : runs'[e] = runs[e] /\ outrun'[e] = TRUE
    BY <1>1, <1>3, <1>4 DEF VersionInv
  <2>2. \A e \in Drivers \ {d} : RunOk(runs[e], TRUE, Len(records))
    BY DEF VersionInv, RunOk, Ready
  <2>3. runs'[d] = NoRun /\ DOMAIN runs' = Drivers
    BY <1>1 DEF VersionInv
  <2>4. \A e \in Drivers : RunOk(runs'[e], outrun'[e], Len(records'))
    BY <1>4, <2>1, <2>2, <2>3 DEF RunOk
  <2> QED BY <1>1, <1>3, <1>4, <2>3, <2>4 DEF VersionInv
<1>5. CASE records' # records
  <2>1. records' \in Seq(Record) /\ Len(records') >= Len(records)
    BY <1>5, PutAppends
  <2>2. Len(records) \in Nat /\ Len(records') \in Nat
    BY <2>1 DEF VersionInv
  <2>3. \A e \in Drivers \ {d} : runs'[e] = runs[e] /\ outrun'[e] = TRUE
    BY <1>1, <1>3, <1>5 DEF VersionInv
  <2>4. \A e \in Drivers \ {d} : RunOk(runs[e], TRUE, Len(records'))
    BY <2>1, <2>2 DEF VersionInv, RunOk, Ready
  <2>5. runs'[d] = NoRun /\ DOMAIN runs' = Drivers
    BY <1>1 DEF VersionInv
  <2>6. \A e \in Drivers : RunOk(runs'[e], outrun'[e], Len(records'))
    BY <2>3, <2>4, <2>5 DEF RunOk
  <2> QED BY <1>1, <1>3, <1>5, <2>1, <2>5, <2>6 DEF VersionInv
<1> QED BY <1>2, <1>3, <1>4, <1>5

\* No other step touches the records.
LEMMA OnlyPutsRecord ==
  ASSUME DynamoNext, records' # records
  PROVE  \E d \in Drivers : PutRecord(d)
BY DEF DynamoNext, DriverStep, Deploy, Settle, Start, Describe, CreateTable, AddGsi, DeleteGsi,
       UpdateBillingMode, EnableStream, DisableStream, UpdateTtl, UpdateTable, TableActive, IndexActive,
       EnsureMigrationsTable, CreateMigrationsTable, MigrationsTableActive, GetLatestState, Crash,
       Untracked

LEMMA VersionInvHolds == DynamoSpec => []VersionInv
<1>1. DynamoInit => VersionInv
  <2>1. <<>> \in Seq(Record)
    OBVIOUS
  <2> QED BY <2>1 DEF DynamoInit, VersionInv, RunOk
<1>2. VersionInv /\ [DynamoNext]_dynamoVars => VersionInv'
  <2> SUFFICES ASSUME VersionInv, [DynamoNext]_dynamoVars PROVE VersionInv'
    OBVIOUS
  <2>1. CASE Deploy
    BY <2>1 DEF Deploy, VersionInv
  <2>2. CASE Settle
    BY <2>2 DEF Settle, Deployed, VersionInv
  <2>3. ASSUME NEW d \in Drivers, Start(d) \/ DriverStep(d) \/ Crash(d) PROVE VersionInv'
    BY <2>3, StartKeeps, OperationsKeep, WaitsKeep, LatestKeeps, PutKeeps DEF DriverStep
  <2>4. CASE UNCHANGED dynamoVars
    BY <2>4 DEF dynamoVars, VersionInv
  <2> QED BY <2>1, <2>2, <2>3, <2>4 DEF DynamoNext
<1> QED BY <1>1, <1>2, PTL DEF DynamoSpec

(* A version another migration recorded is never lost to a driver whose read showed  *)
(* it: only one that was overtaken, or whose read was late, writes over a record.    *)
THEOREM VersionsStay == DynamoSpec => VersionsAreNotReused
<1> DEFINE Kept ==
      \A n \in DOMAIN records :
        \/ n \in DOMAIN records' /\ records'[n] = records[n]
        \/ \E d \in Drivers : At(d, "put") /\ runs[d].version = n /\ outrun[d]
<1>1. VersionInv /\ [DynamoNext]_dynamoVars => Kept
  <2> SUFFICES ASSUME VersionInv, [DynamoNext]_dynamoVars PROVE Kept
    OBVIOUS
  <2>1. CASE records' = records
    BY <2>1
  <2>2. CASE records' # records
    <3>1. PICK d \in Drivers : PutRecord(d)
      BY <2>2, OnlyPutsRecord DEF dynamoVars
    <3>2. At(d, "put")
      BY <3>1 DEF PutRecord
    <3>3. \A n \in DOMAIN records : n # runs[d].version => n \in DOMAIN records' /\ records'[n] = records[n]
      BY <2>2, <3>1, PutAppends
    <3>4. ~outrun[d] => runs[d].version \notin DOMAIN records
      BY <2>2, <3>1, PutAppends
    <3> QED BY <3>2, <3>3, <3>4
  <2> QED BY <2>1, <2>2
<1>2. VersionInv /\ [DynamoNext]_dynamoVars => [Kept]_dynamoVars
  BY <1>1
<1> QED BY <1>2, VersionInvHolds, PTL DEF DynamoSpec, VersionsAreNotReused

----------------------------------------------------------------------------
(* What a driver whose table nobody touched has left to do is what the table      *)
(* differs by from what it wants: operation by operation, with an index on its way *)
(* out counted as gone.  The TTL is apart, because an unreported one is set again. *)
SettingTtl == Op("UPDATE_TTL", "")
Present(t) == {i \in Range(Indexes) : t.gsis[i] \in {"CREATING", "ACTIVE"}}
Differing(t, target) ==
  {Op("ADD_GSI", i) : i \in target.gsis \ Present(t)}
    \cup {Op("DELETE_GSI", i) : i \in Present(t) \ target.gsis}
    \cup (IF t.billing # target.billing THEN {Op("UPDATE_BILLING_MODE", "")} ELSE {})
    \cup (IF t.stream # target.stream
          THEN {Op(IF target.stream THEN "ENABLE_STREAM" ELSE "DISABLE_STREAM", "")} ELSE {})
TtlOnCourse(shown, left, target, t) ==
  IF shown THEN SettingTtl \in left <=> t.ttl # target.ttl
  ELSE SettingTtl \in left \/ target.ttl = NoTtl \/ t.ttl = target.ttl
OnCourse(shown, left, target, t) ==
  /\ t.status # "absent" /\ \A i \in target.gsis : t.gsis[i] # "DELETING"
  /\ left \ {SettingTtl} = Differing(t, target)
  /\ TtlOnCourse(shown, left, target, t)

Creating(r) == r.ops # <<>> /\ Head(r.ops).type = "CREATE_TABLE"
\* The operations of a run that have not been sent.
Left(r) ==
  IF r.pc = "createttl" \/ (r.pc = "table" /\ Creating(r) /\ r.target.ttl # NoTtl) THEN {SettingTtl}
  ELSE IF r.pc \in {"table", "index"} THEN Range(Tail(r.ops)) ELSE Range(r.ops)
Course(shown, r, t) ==
  IF r.pc = "op" /\ Creating(r) THEN t = Absent ELSE OnCourse(shown, Left(r), r.target, t)

Recording == {"createtracking", "awaittracking", "latest", "put"}
Described == {"op", "table", "index", "createttl"} \cup Recording
OpTypes == {"CREATE_TABLE", "ADD_GSI", "DELETE_GSI", "UPDATE_BILLING_MODE", "UPDATE_TTL", "ENABLE_STREAM", "DISABLE_STREAM"}
Ops == [type : OpTypes, index : Range(Indexes) \cup {""}]
Once(s) == \A m, n \in DOMAIN s : m # n => s[m] # s[n]
OpsOk(r) ==
  /\ r.ops \in Seq(Ops) /\ Once(r.ops)
  /\ \A n \in DOMAIN r.ops : r.ops[n].type = "CREATE_TABLE" => Len(r.ops) = 1
  /\ \A n \in DOMAIN r.ops : r.ops[n].type \in {"ADD_GSI", "DELETE_GSI"} => r.ops[n].index \in Range(Indexes)
  /\ r.pc \in {"table", "index", "createttl"} => r.ops # <<>>
  /\ r.pc \in Recording => r.ops = <<>>
  /\ r.pc = "index" => ~Creating(r)
  /\ r.pc = "createttl" => Creating(r) /\ r.target.ttl # NoTtl
ResultOk(shown, res, moved, t) ==
  /\ res.success /\ ~moved => \E target \in res.target : OnCourse(shown, {}, target, t)
  /\ res.why = "duplicate" => moved
  /\ res.why = "ttl" => moved \/ ~shown \/ t.ttl # NoTtl
DriverOk(shown, r, res, moved, t) ==
  \/ r = NoRun /\ ResultOk(shown, res, moved, t) /\ res.target \subseteq Definitions
  \/ /\ Full(r) /\ res = NoResult
     /\ \/ r.pc = "describe"
        \/ r.pc \in Described /\ OpsOk(r) /\ (~moved => Course(shown, r, t))

DynamoTables ==
  [status : {"absent", "CREATING", "ACTIVE", "UPDATING"}, key : {""} \cup {definition.key : definition \in Definitions},
   gsis : [Range(Indexes) -> {"none", "CREATING", "ACTIVE", "DELETING"}],
   ttl : {NoTtl, "ttl"} \cup {definition.ttl : definition \in Definitions}, stream : BOOLEAN,
   billing : {""} \cup {definition.billing : definition \in Definitions}]
CourseInv ==
  /\ dynamoTable \in DynamoTables /\ (dynamoTable.status = "absent" => dynamoTable = Absent)
  /\ reportsTtl \in BOOLEAN /\ wanted \in Definitions /\ touched \in [Drivers -> BOOLEAN]
  /\ DOMAIN runs = Drivers /\ results = [d \in Drivers |-> results[d]]
  /\ \A d \in Drivers : DriverOk(reportsTtl, runs[d], results[d], touched[d], dynamoTable)

LEMMA AppendOnce ==
  ASSUME NEW X, NEW s \in Seq(X), NEW x \in X, x \notin Range(s), Once(s)
  PROVE  Append(s, x) \in Seq(X) /\ Once(Append(s, x)) /\ Range(Append(s, x)) = Range(s) \cup {x}
<1> DEFINE a == Append(s, x)
<1>1. Len(s) \in Nat /\ DOMAIN s = 1 .. Len(s) /\ a \in Seq(X) /\ DOMAIN a = 1 .. Len(s) + 1
  OBVIOUS
<1>2. a[Len(s) + 1] = x /\ \A i \in 1 .. Len(s) : a[i] = s[i]
  OBVIOUS
<1> HIDE DEF a
<1>3. \A i \in 1 .. Len(s) : s[i] # x
  BY <1>1 DEF Range
<1>4. \A i \in 1 .. Len(s) + 1 : i \in 1 .. Len(s) \/ i = Len(s) + 1
  BY <1>1
<1>5. Once(a)
  BY <1>1, <1>2, <1>3, <1>4 DEF Once
<1>6. Range(a) \subseteq Range(s) \cup {x}
  BY <1>1, <1>2, <1>4 DEF Range
<1>7. Range(s) \subseteq Range(a) /\ x \in Range(a)
  <2>1. \A i \in 1 .. Len(s) : i \in 1 .. Len(s) + 1
    BY <1>1
  <2>2. Len(s) + 1 \in 1 .. Len(s) + 1
    BY <1>1
  <2> QED BY <1>1, <1>2, <2>1, <2>2 DEF Range
<1> QED BY <1>1, <1>5, <1>6, <1>7 DEF a

LEMMA JoinOnce ==
  ASSUME NEW X, NEW s \in Seq(X), NEW t \in Seq(X), Once(s), Once(t), Range(s) \cap Range(t) = {}
  PROVE  s \o t \in Seq(X) /\ Once(s \o t) /\ Range(s \o t) = Range(s) \cup Range(t)
<1> DEFINE j == s \o t
           m == Len(s)
           n == Len(t)
<1>1. m \in Nat /\ n \in Nat /\ DOMAIN s = 1 .. m /\ DOMAIN t = 1 .. n /\ j \in Seq(X) /\ DOMAIN j = 1 .. m + n
  OBVIOUS
<1>2. /\ \A i \in 1 .. m : j[i] = s[i]
      /\ \A i \in m + 1 .. m + n : j[i] = t[i - m]
  OBVIOUS
<1> HIDE DEF j, m, n
<1>3. \A i \in 1 .. m + n : i \in 1 .. m \/ (i \in m + 1 .. m + n /\ i - m \in 1 .. n)
  BY <1>1
<1>4. \A i \in 1 .. m, k \in 1 .. n : s[i] # t[k]
  <2>1. \A i \in 1 .. m : s[i] \in Range(s)
    BY <1>1 DEF Range
  <2>2. \A k \in 1 .. n : t[k] \in Range(t)
    BY <1>1 DEF Range
  <2> QED BY <2>1, <2>2
<1>5. Once(j)
  <2> SUFFICES ASSUME NEW i \in 1 .. m + n, NEW k \in 1 .. m + n, i # k PROVE j[i] # j[k]
    BY <1>1 DEF Once
  <2>1. CASE i \in 1 .. m /\ k \in 1 .. m
    BY <1>1, <1>2, <2>1 DEF Once
  <2>2. CASE i \notin 1 .. m /\ k \notin 1 .. m
    <3>1. i - m # k - m
      BY <1>1
    <3>2. j[i] = t[i - m] /\ j[k] = t[k - m] /\ i - m \in DOMAIN t /\ k - m \in DOMAIN t
      BY <1>1, <1>2, <1>3, <2>2
    <3> QED BY <3>1, <3>2 DEF Once
  <2>3. CASE i \in 1 .. m /\ k \notin 1 .. m
    BY <1>2, <1>3, <1>4, <2>3
  <2>4. CASE i \notin 1 .. m /\ k \in 1 .. m
    BY <1>2, <1>3, <1>4, <2>4
  <2> QED BY <2>1, <2>2, <2>3, <2>4
<1>6. Range(j) \subseteq Range(s) \cup Range(t)
  BY <1>1, <1>2, <1>3 DEF Range
<1>7. Range(s) \subseteq Range(j)
  <2>1. \A i \in 1 .. m : i \in 1 .. m + n
    BY <1>1
  <2> QED BY <1>1, <1>2, <2>1 DEF Range
<1>8. Range(t) \subseteq Range(j)
  <2>1. \A k \in 1 .. n : k + m \in m + 1 .. m + n /\ k + m \in 1 .. m + n /\ k + m - m = k
    BY <1>1
  <2>2. ASSUME NEW k \in 1 .. n PROVE j[k + m] = t[k]
    <3> DEFINE i == k + m
    <3>1. i \in m + 1 .. m + n /\ i - m = k
      BY <1>1
    <3> HIDE DEF i
    <3>2. j[i] = t[i - m]
      BY <1>2, <3>1
    <3> QED BY <3>1, <3>2 DEF i
  <2> QED BY <1>1, <2>1, <2>2 DEF Range
<1> QED BY <1>1, <1>5, <1>6, <1>7, <1>8 DEF j

LEMMA TailOnce ==
  ASSUME NEW X, NEW s \in Seq(X), s # <<>>, Once(s)
  PROVE  /\ Head(s) \in Range(s) /\ Tail(s) \in Seq(X) /\ Once(Tail(s)) /\ Len(Tail(s)) = Len(s) - 1
         /\ Range(Tail(s)) = Range(s) \ {Head(s)}
<1> DEFINE t == Tail(s)
           n == Len(s)
<1>1. n \in Nat \ {0} /\ DOMAIN s = 1 .. n /\ Head(s) = s[1] /\ t \in Seq(X) /\ Len(t) = n - 1 /\ DOMAIN t = 1 .. n - 1
  OBVIOUS
<1>2. \A i \in 1 .. n - 1 : t[i] = s[i + 1]
  OBVIOUS
<1> HIDE DEF t, n
<1>3. 1 \in 1 .. n /\ \A i \in 1 .. n - 1 : i + 1 \in 1 .. n /\ i + 1 # 1
  BY <1>1
<1>4. Once(t)
  <2>1. \A i, k \in 1 .. n - 1 : i # k => i + 1 # k + 1
    BY <1>1
  <2> QED BY <1>1, <1>2, <1>3, <2>1 DEF Once
<1>5. Range(t) \subseteq Range(s) \ {Head(s)}
  BY <1>1, <1>2, <1>3 DEF Range, Once
<1>6. Range(s) \ {Head(s)} \subseteq Range(t)
  <2> SUFFICES ASSUME NEW i \in 1 .. n, s[i] # Head(s) PROVE s[i] \in Range(t)
    BY <1>1 DEF Range
  <2>1. i # 1
    BY <1>1
  <2>2. i - 1 \in 1 .. n - 1 /\ i - 1 + 1 = i
    BY <1>1, <2>1
  <2>3. t[i - 1] = s[i]
    BY <1>2, <2>2
  <2> QED BY <1>1, <2>2, <2>3 DEF Range
<1>7. Head(s) \in Range(s)
  BY <1>1, <1>3 DEF Range
<1> QED BY <1>1, <1>4, <1>5, <1>6, <1>7 DEF t, n

\* What buildMigrationPlan lists for a set of indexes.
LEMMA EachIs ==
  ASSUME NEW type \in OpTypes, NEW S
  PROVE  /\ Each(type, S) \in Seq(Ops) /\ Once(Each(type, S))
         /\ Range(Each(type, S)) = {Op(type, i) : i \in S \cap Range(Indexes)}
<1> DEFINE N == Len(Indexes)
           V == Seq(Ops)
           Longer(s, n) == IF Indexes[n] \in S THEN Append(s, Op(type, Indexes[n])) ELSE s
           step == [n \in 1 .. N |-> [s \in V |-> Longer(s, n)]]
           Grows(g) == [n \in 0 .. N |->
                          IF n = 0 THEN <<>>
                          ELSE IF Indexes[n] \in S THEN Append(g[n - 1], Op(type, Indexes[n])) ELSE g[n - 1]]
<1>1. N \in Nat /\ DOMAIN Indexes = 1 .. N /\ \A n \in 1 .. N : Indexes[n] \in Range(Indexes)
  <2>1. Indexes \in Seq(Range(Indexes))
    BY DynamoMigrationAssumption
  <2> QED BY <2>1
<1>2. \A n \in 1 .. N : Op(type, Indexes[n]) \in Ops
  BY <1>1 DEF Op, Ops
<1>3. <<>> \in V
  OBVIOUS
<1>4. step \in [1 .. N -> [V -> V]] /\ \A n \in 1 .. N, s \in V : step[n][s] = Longer(s, n)
  <2>1. \A n \in 1 .. N, s \in V : Longer(s, n) \in V
    BY <1>2
  <2> HIDE DEF Longer, V
  <2> QED BY <2>1
<1> DEFINE s0 == <<>>
<1> HIDE DEF step, V
<1>5. \E t : TraceOf(t, N, V, s0, step)
  <2>1. Stepwise(N, V, s0, step)
    BY <1>1, <1>3, <1>4 DEF Stepwise
  <2> HIDE DEF N, s0
  <2> QED BY <2>1, StepByStep
<1>6. PICK t \in [0 .. N -> V] : t[0] = <<>> /\ \A n \in 1 .. N : t[n] = step[n][t[n - 1]]
  BY <1>5 DEF TraceOf
<1>7. \A n \in 1 .. N : n - 1 \in 0 .. N /\ t[n - 1] \in V
  BY <1>1, <1>6
<1>8. \A n \in 1 .. N : t[n] = Longer(t[n - 1], n)
  BY <1>4, <1>6, <1>7
<1>9. t = Grows(t)
  <2>1. \A n \in 0 .. N : n = 0 \/ n \in 1 .. N
    BY <1>1
  <2>2. \A n \in 0 .. N : t[n] = IF n = 0 THEN <<>> ELSE Longer(t[n - 1], n)
    <3> HIDE DEF Longer
    <3> QED BY <1>6, <1>8, <2>1
  <2> QED BY <1>6, <2>2
<1> DEFINE upTo == CHOOSE g : g = Grows(g)
<1>10. upTo = Grows(upTo)
  BY <1>9
<1>11. Each(type, S) = upTo[N]
  BY DEF Each
<1> HIDE DEF upTo
<1>12. upTo[0] = <<>> /\ \A n \in 1 .. N : upTo[n] = Longer(upTo[n - 1], n)
  <2>1. 0 \in 0 .. N /\ \A n \in 1 .. N : n \in 0 .. N /\ n # 0
    BY <1>1
  <2>2. \A n \in 0 .. N : upTo[n] = IF n = 0 THEN <<>> ELSE Longer(upTo[n - 1], n)
    BY ONLY <1>10
  <2> HIDE DEF Longer
  <2> QED BY <2>1, <2>2
<1> DEFINE Listed(n) == {Op(type, Indexes[m]) : m \in {l \in 1 .. n : Indexes[l] \in S}}
           T == {n \in 0 .. N : upTo[n] \in Seq(Ops) /\ Once(upTo[n]) /\ Range(upTo[n]) = Listed(n)}
<1>13. 0 \in T
  <2>1. Listed(0) = {} /\ Range(<<>>) = {} /\ Once(<<>>) /\ <<>> \in Seq(Ops)
    BY DEF Range, Once
  <2>2. upTo[0] = <<>> /\ 0 \in 0 .. N
    BY <1>1, <1>12
  <2> HIDE DEF Listed, N
  <2> QED BY <2>1, <2>2
<1>14. ASSUME NEW n \in 0 .. N - 1, n \in T PROVE n + 1 \in T
  <2>1. n + 1 \in 1 .. N /\ n + 1 - 1 = n /\ n + 1 \in 0 .. N
    BY <1>1
  <2>2. upTo[n + 1] = Longer(upTo[n], n + 1)
    BY <1>12, <2>1
  <2>3. upTo[n] \in Seq(Ops) /\ Once(upTo[n]) /\ Range(upTo[n]) = Listed(n)
    BY <1>14
  <2>4. CASE Indexes[n + 1] \in S
    <3>1. Listed(n + 1) = Listed(n) \cup {Op(type, Indexes[n + 1])}
      <4>1. {l \in 1 .. n + 1 : Indexes[l] \in S} = {l \in 1 .. n : Indexes[l] \in S} \cup {n + 1}
        BY <1>1, <2>4
      <4> QED BY <4>1
    <3>2. Op(type, Indexes[n + 1]) \notin Listed(n)
      <4> SUFFICES ASSUME NEW m \in 1 .. n, Op(type, Indexes[m]) = Op(type, Indexes[n + 1]) PROVE FALSE
        OBVIOUS
      <4>1. Indexes[m] = Indexes[n + 1]
        BY DEF Op
      <4>2. m \in 1 .. N /\ m # n + 1
        BY <1>1
      <4> QED BY <1>1, <2>1, <4>1, <4>2, DynamoMigrationAssumption
    <3> HIDE DEF Listed
    <3>3. upTo[n + 1] = Append(upTo[n], Op(type, Indexes[n + 1]))
      BY <2>2, <2>4
    <3>4. upTo[n + 1] \in Seq(Ops) /\ Once(upTo[n + 1]) /\ Range(upTo[n + 1]) = Range(upTo[n]) \cup {Op(type, Indexes[n + 1])}
      BY <1>2, <2>1, <2>3, <3>2, <3>3, AppendOnce
    <3> QED BY <2>1, <2>3, <3>1, <3>4
  <2>5. CASE Indexes[n + 1] \notin S
    <3>1. {l \in 1 .. n + 1 : Indexes[l] \in S} = {l \in 1 .. n : Indexes[l] \in S}
      BY <1>1, <2>5
    <3>2. Listed(n + 1) = Listed(n)
      BY <3>1
    <3> HIDE DEF Listed
    <3> QED BY <2>1, <2>2, <2>3, <2>5, <3>2
  <2> QED BY <2>4, <2>5
<1> HIDE DEF T, N
<1>15. N \in T
  <2>1. 0 .. N \subseteq T
    BY <1>1, <1>13, <1>14, CountingUp
  <2>2. N \in 0 .. N
    BY <1>1
  <2> QED BY <2>1, <2>2
<1>16. Listed(N) = {Op(type, i) : i \in S \cap Range(Indexes)}
  BY <1>1 DEF Range
<1> HIDE DEF Listed
<1> QED BY <1>11, <1>15, <1>16 DEF T

LEMMA OneIsOnce ==
  ASSUME NEW X, NEW x \in X
  PROVE  <<x>> \in Seq(X) /\ Once(<<x>>) /\ Range(<<x>>) = {x}
<1>1. <<x>> \in Seq(X) /\ DOMAIN <<x>> = {1} /\ <<x>>[1] = x
  OBVIOUS
<1> QED BY <1>1 DEF Once, Range

LEMMA WhenIs ==
  ASSUME NEW type \in OpTypes, NEW changed \in BOOLEAN
  PROVE  LET w == IF changed THEN <<Op(type, "")>> ELSE <<>>
         IN  w \in Seq(Ops) /\ Once(w) /\ Range(w) = IF changed THEN {Op(type, "")} ELSE {}
<1> DEFINE w == IF changed THEN <<Op(type, "")>> ELSE <<>>
<1>1. Op(type, "") \in Ops
  BY DEF Op, Ops
<1>2. <<Op(type, "")>> \in Seq(Ops) /\ Once(<<Op(type, "")>>) /\ Range(<<Op(type, "")>>) = {Op(type, "")}
  BY <1>1, OneIsOnce
<1>3. <<>> \in Seq(Ops) /\ Once(<<>>) /\ Range(<<>>) = {}
  BY DEF Once, Range
<1> QED BY <1>2, <1>3

\* The plan has each operation by which the table differs, once.
LEMMA PlanIs ==
  ASSUME NEW t \in DynamoTables, NEW target \in Definitions, t.status # "absent", reportsTtl \in BOOLEAN,
         NEW P, P = BuildMigrationPlan(t, target)
  PROVE  /\ P \in Seq(Ops) /\ Once(P)
         /\ \A op \in Range(P) : op.type # "CREATE_TABLE"
         /\ \A op \in Range(P) : op.type \in {"ADD_GSI", "DELETE_GSI"} => op.index \in Range(Indexes)
         /\ (\A i \in Range(Indexes) : t.gsis[i] # "DELETING") => OnCourse(reportsTtl, Range(P), target, t)
<1> DEFINE now == TableInfoToDefinition(t)
           streaming == IF target.stream THEN "ENABLE_STREAM" ELSE "DISABLE_STREAM"
           A == Each("ADD_GSI", target.gsis \ now.gsis)
           D == Each("DELETE_GSI", now.gsis \ target.gsis)
           B == IF now.billing # target.billing THEN <<Op("UPDATE_BILLING_MODE", "")>> ELSE <<>>
           T == IF now.ttl # target.ttl THEN <<Op("UPDATE_TTL", "")>> ELSE <<>>
           S == IF now.stream # target.stream THEN <<Op(streaming, "")>> ELSE <<>>
           rA == {Op("ADD_GSI", i) : i \in (target.gsis \ now.gsis) \cap Range(Indexes)}
           rD == {Op("DELETE_GSI", i) : i \in (now.gsis \ target.gsis) \cap Range(Indexes)}
           rB == IF now.billing # target.billing THEN {Op("UPDATE_BILLING_MODE", "")} ELSE {}
           rT == IF now.ttl # target.ttl THEN {Op("UPDATE_TTL", "")} ELSE {}
           rS == IF now.stream # target.stream THEN {Op(streaming, "")} ELSE {}
           Listed(s, r) == s \in Seq(Ops) /\ Once(s) /\ Range(s) = r
<1>1. P = A \o D \o B \o T \o S
  BY DEF BuildMigrationPlan, PlanOfDifference
<1>2. Listed(A, rA) /\ Listed(D, rD)
  BY EachIs DEF OpTypes
<1>3. Listed(B, rB) /\ Listed(T, rT) /\ Listed(S, rS)
  <2>1. streaming \in OpTypes /\ "UPDATE_BILLING_MODE" \in OpTypes /\ "UPDATE_TTL" \in OpTypes
    BY DEF OpTypes
  <2> HIDE DEF now, streaming
  <2> QED BY <2>1, WhenIs
<1>4. /\ \A op \in rA : op.type = "ADD_GSI" /\ op.index \in Range(Indexes)
      /\ \A op \in rD : op.type = "DELETE_GSI" /\ op.index \in Range(Indexes)
      /\ \A op \in rB : op.type = "UPDATE_BILLING_MODE"
      /\ \A op \in rT : op.type = "UPDATE_TTL"
      /\ \A op \in rS : op.type \in {"ENABLE_STREAM", "DISABLE_STREAM"}
  <2>1. \A type, i : Op(type, i).type = type /\ Op(type, i).index = i
    BY DEF Op
  <2>2. streaming \in {"ENABLE_STREAM", "DISABLE_STREAM"}
    OBVIOUS
  <2> HIDE DEF now, streaming
  <2>3. \A op \in rA : op.type = "ADD_GSI" /\ op.index \in Range(Indexes)
    BY <2>1
  <2>4. \A op \in rD : op.type = "DELETE_GSI" /\ op.index \in Range(Indexes)
    BY <2>1
  <2>5. \A op \in rB : op.type = "UPDATE_BILLING_MODE"
    BY <2>1
  <2>6. \A op \in rT : op.type = "UPDATE_TTL"
    BY <2>1
  <2>7. \A op \in rS : op.type \in {"ENABLE_STREAM", "DISABLE_STREAM"}
    <3>1. Op(streaming, "").type = streaming /\ \A op \in rS : op = Op(streaming, "")
      BY <2>1
    <3> QED BY <2>2, <3>1, Zenon
  <2> QED BY <2>3, <2>4, <2>5, <2>6, <2>7
<1> HIDE DEF A, D, B, T, S, rA, rD, rB, rT, rS
<1>5. ASSUME NEW s, NEW r, NEW s2, NEW r2, Listed(s, r), Listed(s2, r2), r \cap r2 = {} PROVE Listed(s \o s2, r \cup r2)
  BY <1>5, JoinOnce
<1> HIDE DEF Listed
<1>6. Listed(A \o D, rA \cup rD)
  BY <1>2, <1>4, <1>5
<1>7. Listed(A \o D \o B, rA \cup rD \cup rB)
  BY <1>3, <1>4, <1>5, <1>6
<1>8. Listed(A \o D \o B \o T, rA \cup rD \cup rB \cup rT)
  BY <1>3, <1>4, <1>5, <1>7
<1>9. Listed(A \o D \o B \o T \o S, rA \cup rD \cup rB \cup rT \cup rS)
  BY <1>3, <1>4, <1>5, <1>8
<1>10. P \in Seq(Ops) /\ Once(P) /\ Range(P) = rA \cup rD \cup rB \cup rT \cup rS
  BY <1>1, <1>9 DEF Listed
<1>11. ASSUME \A i \in Range(Indexes) : t.gsis[i] # "DELETING" PROVE OnCourse(reportsTtl, Range(P), target, t)
  <2>1. /\ now.gsis = Names(t) /\ now.stream = t.stream /\ now.billing = t.billing
        /\ now.ttl = IF reportsTtl THEN t.ttl ELSE NoTtl
    BY DEF TableInfoToDefinition
  <2>2. target.gsis \subseteq Range(Indexes) /\ DOMAIN t.gsis = Range(Indexes)
    BY DynamoMigrationAssumption DEF DynamoTables
  <2>3. Names(t) = Present(t)
    BY <1>11, <2>2 DEF Names, Present, DynamoTables
  <2>4. rA = {Op("ADD_GSI", i) : i \in target.gsis \ Present(t)}
    <3>1. (target.gsis \ now.gsis) \cap Range(Indexes) = target.gsis \ Present(t)
      BY <2>1, <2>2, <2>3
    <3> QED BY <3>1 DEF rA
  <2>5. rD = {Op("DELETE_GSI", i) : i \in Present(t) \ target.gsis}
    <3>1. (now.gsis \ target.gsis) \cap Range(Indexes) = Present(t) \ target.gsis
      BY <2>1, <2>3 DEF Present
    <3> QED BY <3>1 DEF rD
  <2> HIDE DEF now
  <2>6. rB = (IF t.billing # target.billing THEN {Op("UPDATE_BILLING_MODE", "")} ELSE {})
    BY <2>1 DEF rB
  <2>7. rS = (IF t.stream # target.stream
              THEN {Op(IF target.stream THEN "ENABLE_STREAM" ELSE "DISABLE_STREAM", "")} ELSE {})
    BY <2>1 DEF rS
  <2>8. Range(P) \ {SettingTtl} = rA \cup rD \cup rB \cup rS
    <3>1. SettingTtl.type = "UPDATE_TTL" /\ rT \subseteq {SettingTtl}
      BY DEF SettingTtl, Op, rT
    <3> QED BY <1>4, <1>10, <3>1
  <2>9. Range(P) \ {SettingTtl} = Differing(t, target)
    BY <2>4, <2>5, <2>6, <2>7, <2>8 DEF Differing
  <2>10. SettingTtl \in Range(P) <=> now.ttl # target.ttl
    <3>1. SettingTtl.type = "UPDATE_TTL"
      BY DEF SettingTtl, Op
    <3>2. SettingTtl \in rT <=> now.ttl # target.ttl
      BY DEF rT, SettingTtl
    <3> QED BY <1>4, <1>10, <3>1, <3>2
  <2>11. TtlOnCourse(reportsTtl, Range(P), target, t)
    <3>1. CASE reportsTtl
      BY <2>1, <2>10, <3>1 DEF TtlOnCourse
    <3>2. CASE ~reportsTtl
      BY <2>1, <2>10, <3>2 DEF TtlOnCourse
    <3> QED BY <3>1, <3>2
  <2> QED BY <1>11, <2>2, <2>9, <2>11 DEF OnCourse
<1> QED BY <1>4, <1>10, <1>11

\* A driver whose table another changes, or that has not looked at it yet, is held
\* to nothing about it.
LEMMA OthersKeep ==
  ASSUME NEW shown, NEW r, NEW res, NEW moved, NEW t, DriverOk(shown, r, res, moved, t),
         NEW now, NEW t2, now \/ r.pc = "describe"
  PROVE  DriverOk(shown, r, res, now, t2)
<1>1. CASE r = NoRun
  <2>1. now
    BY <1>1 DEF NoRun
  <2>2. res.target \subseteq Definitions
    BY <1>1 DEF DriverOk, Full, NoRun
  <2> QED BY <1>1, <2>1, <2>2 DEF DriverOk, ResultOk
<1>2. CASE r # NoRun
  <2>1. Full(r) /\ res = NoResult /\ (r.pc = "describe" \/ (r.pc \in Described /\ OpsOk(r)))
    BY <1>2 DEF DriverOk
  <2> QED BY <2>1 DEF DriverOk
<1> QED BY <1>1, <1>2

Settles(t, t2) ==
  /\ t # Absent /\ t2.status # "absent" /\ Present(t2) = Present(t)
  /\ t2.stream = t.stream /\ t2.billing = t.billing /\ t2.ttl = t.ttl
  /\ \A i \in Range(Indexes) : t2.gsis[i] = "DELETING" => t.gsis[i] = "DELETING"

\* What the service finishes by itself leaves a driver on its course.
LEMMA SettledOnCourse ==
  ASSUME NEW shown, NEW left, NEW target \in Definitions, NEW t, NEW t2, Settles(t, t2), OnCourse(shown, left, target, t)
  PROVE  OnCourse(shown, left, target, t2)
<1>1. Differing(t2, target) = Differing(t, target)
  BY DEF Differing, Settles
<1>2. TtlOnCourse(shown, left, target, t2)
  BY DEF OnCourse, TtlOnCourse, Settles
<1>3. target.gsis \subseteq Range(Indexes)
  BY DynamoMigrationAssumption
<1> QED BY <1>1, <1>2, <1>3 DEF OnCourse, Settles

LEMMA SettlingKeeps ==
  ASSUME NEW shown, NEW r, NEW res, NEW moved, NEW t, NEW t2, Settles(t, t2), DriverOk(shown, r, res, moved, t)
  PROVE  DriverOk(shown, r, res, moved, t2)
<1>1. CASE r = NoRun
  <2>1. ResultOk(shown, res, moved, t) /\ res.target \subseteq Definitions
    BY <1>1 DEF DriverOk, Full, NoRun
  <2>2. ResultOk(shown, res, moved, t2)
    <3>1. ASSUME NEW target \in res.target, OnCourse(shown, {}, target, t) PROVE OnCourse(shown, {}, target, t2)
      BY <2>1, <3>1, SettledOnCourse
    <3>2. t2.ttl = t.ttl
      BY DEF Settles
    <3> QED BY <2>1, <3>1, <3>2 DEF ResultOk
  <2> QED BY <1>1, <2>1, <2>2 DEF DriverOk
<1>2. CASE r # NoRun
  <2>1. Full(r) /\ res = NoResult /\ r.target \in Definitions
    BY <1>2 DEF DriverOk, Full
  <2>2. CASE r.pc = "describe"
    BY <2>1, <2>2 DEF DriverOk
  <2>3. CASE r.pc # "describe"
    <3>1. r.pc \in Described /\ OpsOk(r) /\ (~moved => Course(shown, r, t))
      BY <1>2, <2>3 DEF DriverOk
    <3>2. Course(shown, r, t) => Course(shown, r, t2)
      <4>1. t # Absent
        BY DEF Settles
      <4> QED BY <2>1, <4>1, SettledOnCourse DEF Course
    <3> QED BY <2>1, <3>1, <3>2 DEF DriverOk
  <2> QED BY <2>2, <2>3
<1> QED BY <1>1, <1>2

\* A driver's own step that asks nothing of the table.
LEMMA OwnStepKeeps ==
  ASSUME CourseInv, NEW d \in Drivers, NEW r, NEW res, DriverOk(reportsTtl, r, res, touched[d], dynamoTable),
         runs' = [runs EXCEPT ![d] = r], results' = [results EXCEPT ![d] = res],
         UNCHANGED <<dynamoTable, reportsTtl, touched>>, wanted' \in Definitions
  PROVE  CourseInv'
<1>1. DOMAIN runs' = Drivers /\ results' = [e \in Drivers |-> results'[e]]
  BY DEF CourseInv
<1>2. runs'[d] = r /\ results'[d] = res /\ \A e \in Drivers \ {d} : runs'[e] = runs[e] /\ results'[e] = results[e]
  BY DEF CourseInv
<1>3. \A e \in Drivers : DriverOk(reportsTtl', runs'[e], results'[e], touched'[e], dynamoTable')
  <2> SUFFICES ASSUME NEW e \in Drivers PROVE DriverOk(reportsTtl, runs'[e], results'[e], touched[e], dynamoTable)
    OBVIOUS
  <2>1. CASE e = d
    BY <1>2, <2>1
  <2>2. CASE e # d
    <3>1. runs'[e] = runs[e] /\ results'[e] = results[e]
      BY <1>2, <2>2
    <3> QED BY <3>1 DEF CourseInv
  <2> QED BY <2>1, <2>2
<1>4. /\ dynamoTable' \in DynamoTables /\ (dynamoTable'.status = "absent" => dynamoTable' = Absent)
      /\ reportsTtl' \in BOOLEAN /\ touched' \in [Drivers -> BOOLEAN]
  BY DEF CourseInv
<1> QED BY <1>1, <1>3, <1>4 DEF CourseInv

\* A request for a change of the table, whatever it asks for and however it ends.
LEMMA AskKeeps ==
  ASSUME CourseInv, NEW d \in Drivers, runs[d] # NoRun, NEW refusal, NEW changed, NEW next,
         refusal = "duplicate" => touched[d],
         refusal = "ttl" => touched[d] \/ ~reportsTtl \/ dynamoTable.ttl # NoTtl,
         refusal = "" => /\ changed \in DynamoTables /\ changed.status # "absent"
                         /\ DriverOk(reportsTtl, next, NoResult, touched[d], changed),
         Ask(d, refusal, changed, next), UNCHANGED <<reportsTtl, wanted>>
  PROVE  CourseInv'
<1>1. Full(runs[d]) /\ results[d] = NoResult /\ runs[d].target \in Definitions
  BY DEF CourseInv, DriverOk, Full
<1>2. results = [results EXCEPT ![d] = NoResult] /\ wanted' \in Definitions /\ reportsTtl \in BOOLEAN
  BY <1>1 DEF CourseInv
<1> DEFINE Ended(why) == [success |-> FALSE, why |-> why, target |-> {runs[d].target}]
<1>3. ASSUME NEW why \in {refusal, "fault"}, NEW moved, NEW t, why = "duplicate" => moved,
             why = "ttl" => moved \/ ~reportsTtl \/ t.ttl # NoTtl
      PROVE  DriverOk(reportsTtl, NoRun, Ended(why), moved, t)
  <2>1. ~Ended(why).success /\ Ended(why).why = why /\ Ended(why).target = {runs[d].target}
    BY DEF Ended
  <2> HIDE DEF Ended
  <2> QED BY <1>1, <1>3, <2>1 DEF DriverOk, ResultOk
<1>4. ASSUME NEW why, End(d, FALSE, why)
      PROVE  runs' = [runs EXCEPT ![d] = NoRun] /\ results' = [results EXCEPT ![d] = Ended(why)]
  BY <1>4 DEF End
<1> HIDE DEF Ended
<1>5. CASE refusal # "" /\ End(d, FALSE, refusal) /\ Untouched
  <2>1. DriverOk(reportsTtl, NoRun, Ended(refusal), touched[d], dynamoTable)
    BY <1>3
  <2> QED BY <1>2, <1>4, <1>5, <2>1, OwnStepKeeps DEF Untouched
<1>6. CASE End(d, FALSE, "fault") /\ Untouched
  <2>1. DriverOk(reportsTtl, NoRun, Ended("fault"), touched[d], dynamoTable)
    BY <1>3
  <2> QED BY <1>2, <1>4, <1>6, <2>1, OwnStepKeeps DEF Untouched
<1>7. CASE /\ refusal = "" /\ dynamoTable' = changed /\ touched' = Others(d)
           /\ \/ runs' = [runs EXCEPT ![d] = next] /\ NotEnded
              \/ End(d, FALSE, "fault")
  <2>1. PICK r, res : /\ runs' = [runs EXCEPT ![d] = r] /\ results' = [results EXCEPT ![d] = res]
                      /\ DriverOk(reportsTtl, r, res, touched[d], changed)
    <3>1. CASE runs' = [runs EXCEPT ![d] = next] /\ NotEnded
      BY <1>2, <1>7, <3>1 DEF NotEnded
    <3>2. CASE End(d, FALSE, "fault")
      <4>1. DriverOk(reportsTtl, NoRun, Ended("fault"), touched[d], changed)
        BY <1>3
      <4> QED BY <1>4, <3>2, <4>1
    <3> QED BY <1>7, <3>1, <3>2
  <2>2. touched'[d] = touched[d] /\ touched' \in [Drivers -> BOOLEAN]
        /\ \A e \in Drivers \ {d} : touched'[e] \/ runs[e].pc = "describe"
    BY <1>7 DEF Others, At, CourseInv
  <2>3. DOMAIN runs' = Drivers /\ results' = [e \in Drivers |-> results'[e]]
    BY <2>1 DEF CourseInv
  <2>4. \A e \in Drivers : DriverOk(reportsTtl', runs'[e], results'[e], touched'[e], dynamoTable')
    <3> SUFFICES ASSUME NEW e \in Drivers PROVE DriverOk(reportsTtl, runs'[e], results'[e], touched'[e], changed)
      BY <1>7
    <3>1. CASE e = d
      <4>1. runs'[e] = r /\ results'[e] = res
        BY <2>1, <3>1 DEF CourseInv
      <4>2. touched'[e] = touched[d]
        BY <2>2, <3>1
      <4> QED BY <2>1, <4>1, <4>2
    <3>2. CASE e # d
      <4>1. runs'[e] = runs[e] /\ results'[e] = results[e]
        BY <2>1, <3>2 DEF CourseInv
      <4>2. DriverOk(reportsTtl, runs[e], results[e], touched[e], dynamoTable)
        BY DEF CourseInv
      <4>3. touched'[e] \/ runs[e].pc = "describe"
        BY <2>2, <3>2
      <4>4. DriverOk(reportsTtl, runs[e], results[e], touched'[e], changed)
        BY <4>2, <4>3, OthersKeep
      <4> QED BY <4>1, <4>4
    <3> QED BY <3>1, <3>2
  <2>5. dynamoTable' \in DynamoTables /\ dynamoTable'.status # "absent"
    BY <1>7
  <2> QED BY <1>2, <2>2, <2>3, <2>4, <2>5 DEF CourseInv
<1> QED BY <1>5, <1>6, <1>7 DEF Ask

LEMMA OpsDiffer ==
  ASSUME NEW a, NEW i, NEW b, NEW j, Op(a, i) = Op(b, j)
  PROVE  a = b /\ i = j
BY DEF Op

Streaming(target) == IF target.stream THEN "ENABLE_STREAM" ELSE "DISABLE_STREAM"
Differs(type, i, t, target) ==
  \/ type = "ADD_GSI" /\ i \in target.gsis \ Present(t)
  \/ type = "DELETE_GSI" /\ i \in Present(t) \ target.gsis
  \/ type = "UPDATE_BILLING_MODE" /\ i = "" /\ t.billing # target.billing
  \/ type = Streaming(target) /\ i = "" /\ t.stream # target.stream

LEMMA DifferingHas ==
  ASSUME NEW t, NEW target
  PROVE  /\ \A op \in Differing(t, target) : \E type, i : op = Op(type, i)
         /\ \A type, i : Op(type, i) \in Differing(t, target) <=> Differs(type, i, t, target)
<1> DEFINE rA == {Op("ADD_GSI", i) : i \in target.gsis \ Present(t)}
           rD == {Op("DELETE_GSI", i) : i \in Present(t) \ target.gsis}
           rB == IF t.billing # target.billing THEN {Op("UPDATE_BILLING_MODE", "")} ELSE {}
           rS == IF t.stream # target.stream THEN {Op(Streaming(target), "")} ELSE {}
<1>1. Differing(t, target) = rA \cup rD \cup rB \cup rS
  BY DEF Differing, Streaming
<1>2. \A type, i : Op(type, i) \in rA <=> type = "ADD_GSI" /\ i \in target.gsis \ Present(t)
  BY OpsDiffer
<1>3. \A type, i : Op(type, i) \in rD <=> type = "DELETE_GSI" /\ i \in Present(t) \ target.gsis
  BY OpsDiffer
<1>4. \A type, i : Op(type, i) \in rB <=> type = "UPDATE_BILLING_MODE" /\ i = "" /\ t.billing # target.billing
  BY OpsDiffer
<1>5. \A type, i : Op(type, i) \in rS <=> type = Streaming(target) /\ i = "" /\ t.stream # target.stream
  BY OpsDiffer
<1>6. \A op \in rA \cup rD \cup rB \cup rS : \E type, i : op = Op(type, i)
  OBVIOUS
<1> HIDE DEF rA, rD, rB, rS
<1> QED BY <1>1, <1>2, <1>3, <1>4, <1>5, <1>6 DEF Differs

LEMMA LessOne ==
  ASSUME NEW t, NEW t2, NEW target, NEW type, NEW i,
         \A ty, j : Differs(ty, j, t2, target) <=> Differs(ty, j, t, target) /\ ~(ty = type /\ j = i)
  PROVE  Differing(t2, target) = Differing(t, target) \ {Op(type, i)}
<1>1. \A ty, j : Op(ty, j) = Op(type, i) <=> ty = type /\ j = i
  BY OpsDiffer
<1>2. \A ty, j : Op(ty, j) \in Differing(t2, target) <=> Op(ty, j) \in Differing(t, target) \ {Op(type, i)}
  BY <1>1, DifferingHas
<1>3. /\ \A op \in Differing(t, target) : \E ty, j : op = Op(ty, j)
      /\ \A op \in Differing(t2, target) : \E ty, j : op = Op(ty, j)
  BY DifferingHas
<1> QED BY <1>2, <1>3

\* What makes an operation done: its part of the difference is gone, the rest is not.
LEMMA AddDone ==
  ASSUME NEW shown, NEW left, NEW target \in Definitions, NEW t \in DynamoTables,
         OnCourse(shown, left, target, t), NEW i, Op("ADD_GSI", i) \in left
  PROVE  /\ i \in Range(Indexes) /\ t.gsis[i] = "none"
         /\ OnCourse(shown, left \ {Op("ADD_GSI", i)}, target, [t EXCEPT !.gsis[i] = "CREATING"])
<1> DEFINE op == Op("ADD_GSI", i)
           t2 == [t EXCEPT !.gsis[i] = "CREATING"]
<1>1. op # SettingTtl
  BY OpsDiffer DEF SettingTtl
<1>2. op \in Differing(t, target)
  BY <1>1 DEF OnCourse
<1>3. i \in target.gsis \ Present(t)
  <2>1. Differs("ADD_GSI", i, t, target)
    BY <1>2, DifferingHas
  <2> QED BY <2>1 DEF Differs, Streaming
<1>4. i \in Range(Indexes) /\ target.gsis \subseteq Range(Indexes)
  BY <1>3, DynamoMigrationAssumption
<1>5. t.gsis[i] \in {"none", "CREATING", "ACTIVE", "DELETING"} /\ DOMAIN t.gsis = Range(Indexes)
  BY <1>4 DEF DynamoTables
<1>6. t.gsis[i] = "none"
  BY <1>3, <1>4, <1>5 DEF OnCourse, Present
<1>7. /\ t2.status = t.status /\ t2.stream = t.stream /\ t2.billing = t.billing /\ t2.ttl = t.ttl
      /\ t2.gsis[i] = "CREATING" /\ \A j \in Range(Indexes) \ {i} : t2.gsis[j] = t.gsis[j]
  BY <1>4, <1>5 DEF DynamoTables
<1> HIDE DEF t2
<1>8. Present(t2) = Present(t) \cup {i}
  BY <1>4, <1>7 DEF Present
<1>9. Differing(t2, target) = Differing(t, target) \ {op}
  <2>1. target.gsis \ Present(t2) = (target.gsis \ Present(t)) \ {i} /\ Present(t2) \ target.gsis = Present(t) \ target.gsis
    BY <1>3, <1>8
  <2>2. \A ty, j : Differs(ty, j, t2, target) <=> Differs(ty, j, t, target) /\ ~(ty = "ADD_GSI" /\ j = i)
    BY <1>7, <2>1 DEF Differs, Streaming
  <2> QED BY <2>2, LessOne
<1> HIDE DEF op
<1>10. TtlOnCourse(shown, left \ {op}, target, t2)
  BY <1>1, <1>7 DEF OnCourse, TtlOnCourse
<1>11. \A j \in target.gsis : t2.gsis[j] # "DELETING"
  BY <1>4, <1>7 DEF OnCourse
<1>12. OnCourse(shown, left \ {op}, target, t2)
  BY <1>7, <1>9, <1>10, <1>11 DEF OnCourse
<1> QED BY <1>4, <1>6, <1>12 DEF op, t2

LEMMA DeleteDone ==
  ASSUME NEW shown, NEW left, NEW target \in Definitions, NEW t \in DynamoTables,
         OnCourse(shown, left, target, t), NEW i, Op("DELETE_GSI", i) \in left
  PROVE  /\ i \in Range(Indexes) /\ t.gsis[i] # "none"
         /\ OnCourse(shown, left \ {Op("DELETE_GSI", i)}, target, [t EXCEPT !.gsis[i] = "DELETING"])
<1> DEFINE op == Op("DELETE_GSI", i)
           t2 == [t EXCEPT !.gsis[i] = "DELETING"]
<1>1. op # SettingTtl
  BY OpsDiffer DEF SettingTtl
<1>2. op \in Differing(t, target)
  BY <1>1 DEF OnCourse
<1>3. i \in Present(t) \ target.gsis
  <2>1. Differs("DELETE_GSI", i, t, target)
    BY <1>2, DifferingHas
  <2> QED BY <2>1 DEF Differs, Streaming
<1>4. i \in Range(Indexes) /\ target.gsis \subseteq Range(Indexes) /\ t.gsis[i] # "none"
  BY <1>3, DynamoMigrationAssumption DEF Present
<1>5. DOMAIN t.gsis = Range(Indexes)
  BY DEF DynamoTables
<1>6. /\ t2.status = t.status /\ t2.stream = t.stream /\ t2.billing = t.billing /\ t2.ttl = t.ttl
      /\ t2.gsis[i] = "DELETING" /\ \A j \in Range(Indexes) \ {i} : t2.gsis[j] = t.gsis[j]
  BY <1>4, <1>5 DEF DynamoTables
<1> HIDE DEF t2
<1>7. Present(t2) = Present(t) \ {i}
  BY <1>4, <1>6 DEF Present
<1>8. Differing(t2, target) = Differing(t, target) \ {op}
  <2>1. target.gsis \ Present(t2) = target.gsis \ Present(t) /\ Present(t2) \ target.gsis = (Present(t) \ target.gsis) \ {i}
    BY <1>3, <1>7
  <2>2. \A ty, j : Differs(ty, j, t2, target) <=> Differs(ty, j, t, target) /\ ~(ty = "DELETE_GSI" /\ j = i)
    BY <1>6, <2>1 DEF Differs, Streaming
  <2> QED BY <2>2, LessOne
<1> HIDE DEF op
<1>9. TtlOnCourse(shown, left \ {op}, target, t2)
  BY <1>1, <1>6 DEF OnCourse, TtlOnCourse
<1>10. \A j \in target.gsis : t2.gsis[j] # "DELETING"
  BY <1>3, <1>4, <1>6 DEF OnCourse
<1>11. OnCourse(shown, left \ {op}, target, t2)
  BY <1>6, <1>8, <1>9, <1>10 DEF OnCourse
<1> QED BY <1>4, <1>11 DEF op, t2

\* An operation of the plan that one request of UpdateTable carries out.
LEMMA UpdateDone ==
  ASSUME NEW shown, NEW left, NEW target \in Definitions, NEW t \in DynamoTables, OnCourse(shown, left, target, t),
         NEW type, Op(type, "") \in left, NEW t2,
         t2.status # "absent", t2.gsis = t.gsis, t2.ttl = t.ttl,
         \/ type = "UPDATE_BILLING_MODE" /\ t2.billing = target.billing /\ t2.stream = t.stream
         \/ type = "ENABLE_STREAM" /\ t2.billing = t.billing /\ t2.stream = TRUE
         \/ type = "DISABLE_STREAM" /\ t2.billing = t.billing /\ t2.stream = FALSE
  PROVE  OnCourse(shown, left \ {Op(type, "")}, target, t2)
<1> DEFINE op == Op(type, "")
<1>1. op # SettingTtl
  BY OpsDiffer DEF SettingTtl
<1>2. Differs(type, "", t, target)
  BY <1>1, DifferingHas DEF OnCourse
<1>3. Present(t2) = Present(t)
  BY DEF Present
<1>4. target.stream \in BOOLEAN /\ t.stream \in BOOLEAN
  BY DynamoMigrationAssumption DEF DynamoTables
<1>5. /\ t2.billing = IF type = "UPDATE_BILLING_MODE" THEN target.billing ELSE t.billing
      /\ t2.stream = IF type = Streaming(target) THEN target.stream ELSE t.stream
      /\ type \in {"UPDATE_BILLING_MODE", Streaming(target)}
  BY <1>2, <1>4 DEF Differs, Streaming
<1>6. Streaming(target) \notin {"ADD_GSI", "DELETE_GSI", "UPDATE_BILLING_MODE"}
  BY DEF Streaming
<1>7. \A ty, j : Differs(ty, j, t2, target) <=> Differs(ty, j, t, target) /\ ~(ty = type /\ j = "")
  BY <1>3, <1>5, <1>6 DEF Differs
<1>8. Differing(t2, target) = Differing(t, target) \ {op}
  <2> DEFINE i == ""
  <2>1. \A ty, j : Differs(ty, j, t2, target) <=> Differs(ty, j, t, target) /\ ~(ty = type /\ j = i)
    BY <1>7
  <2> HIDE DEF i
  <2>2. Differing(t2, target) = Differing(t, target) \ {Op(type, i)}
    BY ONLY <2>1, LessOne
  <2> QED BY <2>2 DEF i
<1> HIDE DEF op
<1>9. TtlOnCourse(shown, left \ {op}, target, t2)
  BY <1>1 DEF OnCourse, TtlOnCourse
<1>10. OnCourse(shown, left \ {op}, target, t2)
  BY <1>8, <1>9 DEF OnCourse
<1> QED BY <1>10 DEF op

LEMMA TtlDone ==
  ASSUME NEW shown, NEW left, NEW target \in Definitions, NEW t, OnCourse(shown, left, target, t), NEW t2,
         t2.status # "absent", t2.gsis = t.gsis, t2.stream = t.stream, t2.billing = t.billing, t2.ttl = target.ttl
  PROVE  OnCourse(shown, left \ {SettingTtl}, target, t2)
<1>1. Present(t2) = Present(t)
  BY DEF Present
<1>2. Differing(t2, target) = Differing(t, target)
  BY <1>1 DEF Differing
<1>3. TtlOnCourse(shown, left \ {SettingTtl}, target, t2)
  BY DEF TtlOnCourse
<1>4. (left \ {SettingTtl}) \ {SettingTtl} = left \ {SettingTtl}
  OBVIOUS
<1> QED BY <1>2, <1>3, <1>4 DEF OnCourse

LEMMA HeadOk ==
  ASSUME NEW r, OpsOk(r), r.ops # <<>>
  PROVE  /\ Head(r.ops) \in Ops /\ Head(r.ops) \in Range(r.ops) /\ Head(r.ops) = Op(Head(r.ops).type, Head(r.ops).index)
         /\ Head(r.ops).type \in {"ADD_GSI", "DELETE_GSI"} => Head(r.ops).index \in Range(Indexes)
         /\ Tail(r.ops) \in Seq(Ops) /\ Once(Tail(r.ops)) /\ Range(Tail(r.ops)) = Range(r.ops) \ {Head(r.ops)}
         /\ IF Creating(r) THEN Tail(r.ops) = <<>> ELSE \A n \in DOMAIN r.ops : r.ops[n].type # "CREATE_TABLE"
<1> DEFINE s == r.ops
<1>1. s \in Seq(Ops) /\ s # <<>> /\ Once(s)
  BY DEF OpsOk
<1>2. /\ \A n \in DOMAIN s : s[n].type = "CREATE_TABLE" => Len(s) = 1
      /\ \A n \in DOMAIN s : s[n].type \in {"ADD_GSI", "DELETE_GSI"} => s[n].index \in Range(Indexes)
  BY DEF OpsOk
<1>3. Creating(r) <=> Head(s).type = "CREATE_TABLE"
  BY DEF Creating
<1> HIDE DEF s
<1>4. Len(s) \in Nat \ {0} /\ DOMAIN s = 1 .. Len(s) /\ Head(s) = s[1] /\ 1 \in DOMAIN s /\ s[1] \in Ops
  BY <1>1
<1>5. Head(s) = Op(Head(s).type, Head(s).index)
  BY <1>4 DEF Ops, Op
<1>6. /\ Head(s) \in Range(s) /\ Tail(s) \in Seq(Ops) /\ Once(Tail(s)) /\ Len(Tail(s)) = Len(s) - 1
      /\ Range(Tail(s)) = Range(s) \ {Head(s)}
  BY <1>1, TailOnce
<1>7. CASE Creating(r)
  <2>1. Len(Tail(s)) = 0
    BY <1>2, <1>3, <1>4, <1>6, <1>7
  <2>2. Tail(s) = <<>>
    BY <1>6, <2>1
  <2> QED BY <1>2, <1>4, <1>5, <1>6, <1>7, <2>2 DEF s
<1>8. CASE ~Creating(r)
  <2>1. ASSUME NEW n \in DOMAIN s, s[n].type = "CREATE_TABLE" PROVE FALSE
    <3>1. n = 1
      BY <1>2, <1>4, <2>1
    <3> QED BY <1>3, <1>4, <1>8, <2>1, <3>1
  <2> QED BY <1>2, <1>4, <1>5, <1>6, <1>8, <2>1 DEF s
<1> QED BY <1>7, <1>8

NextOp(r) == [r EXCEPT !.pc = "op", !.ops = Tail(@)]

\* A run whose operation is done, with the table on course for the others.
LEMMA NextKeeps ==
  ASSUME NEW shown, NEW r, Full(r), OpsOk(r), r.ops # <<>>, NEW moved, NEW t,
         ~moved => OnCourse(shown, Range(Tail(r.ops)), r.target, t)
  PROVE  DriverOk(shown, NextOp(r), NoResult, moved, t)
<1> DEFINE r2 == NextOp(r)
<1>1. Full(r2) /\ r2.pc = "op" /\ r2.ops = Tail(r.ops) /\ r2.target = r.target
  BY DEF Full, NextOp
<1>2. Tail(r.ops) \in Seq(Ops) /\ Once(Tail(r.ops))
  BY HeadOk
<1>3. \A n \in DOMAIN Tail(r.ops) : n + 1 \in DOMAIN r.ops /\ Tail(r.ops)[n] = r.ops[n + 1]
  BY DEF OpsOk
<1>4. \A n \in DOMAIN Tail(r.ops) : Tail(r.ops)[n].type # "CREATE_TABLE"
  <2>1. CASE Creating(r)
    <3>1. DOMAIN Tail(r.ops) = {}
      BY <2>1, HeadOk
    <3> QED BY <3>1
  <2>2. CASE ~Creating(r)
    BY <1>3, <2>2, HeadOk
  <2> QED BY <2>1, <2>2
<1>5. \A n \in DOMAIN Tail(r.ops) : Tail(r.ops)[n].type \in {"ADD_GSI", "DELETE_GSI"} => Tail(r.ops)[n].index \in Range(Indexes)
  BY <1>3 DEF OpsOk
<1> HIDE DEF r2
<1>6. OpsOk(r2)
  BY <1>1, <1>2, <1>4, <1>5 DEF OpsOk, Recording
<1>7. ~Creating(r2)
  <2>1. Tail(r.ops) # <<>> => Head(Tail(r.ops)) = Tail(r.ops)[1] /\ 1 \in DOMAIN Tail(r.ops)
    BY <1>2
  <2> QED BY <1>1, <1>4, <2>1 DEF Creating
<1>8. Left(r2) = Range(Tail(r.ops))
  BY <1>1 DEF Left
<1>9. ~moved => Course(shown, r2, t)
  BY <1>1, <1>7, <1>8 DEF Course
<1>10. "op" \in Described
  BY DEF Described
<1> QED BY <1>1, <1>6, <1>9, <1>10 DEF DriverOk, r2

\* A run that waits for what it asked.
LEMMA AwaitKeeps ==
  ASSUME NEW shown, NEW r, Full(r), OpsOk(r), r.pc = "op", r.ops # <<>>, NEW moved, NEW t,
         NEW pc \in {"table", "index"}, pc = "index" => ~Creating(r),
         ~moved => OnCourse(shown, IF Creating(r) /\ r.target.ttl # NoTtl THEN {SettingTtl} ELSE Range(Tail(r.ops)), r.target, t)
  PROVE  DriverOk(shown, [r EXCEPT !.pc = pc], NoResult, moved, t)
<1> DEFINE r2 == [r EXCEPT !.pc = pc]
<1>1. Full(r2) /\ r2.pc = pc /\ r2.ops = r.ops /\ r2.target = r.target
  BY DEF Full
<1> HIDE DEF r2
<1>2. Creating(r2) <=> Creating(r)
  BY <1>1 DEF Creating
<1>3. OpsOk(r2)
  BY <1>1, <1>2 DEF OpsOk, Recording
<1>4. Left(r2) = IF Creating(r) /\ r.target.ttl # NoTtl THEN {SettingTtl} ELSE Range(Tail(r.ops))
  BY <1>1, <1>2 DEF Left
<1>5. ~moved => Course(shown, r2, t)
  BY <1>1, <1>4 DEF Course
<1>6. pc \in Described /\ pc # "describe"
  BY DEF Described
<1> QED BY <1>1, <1>3, <1>5, <1>6 DEF DriverOk, r2

\* What CourseInv says of a driver that has described the table.
LEMMA UnderWay ==
  ASSUME CourseInv, NEW d \in Drivers, runs[d].pc \in Described
  PROVE  /\ Full(runs[d]) /\ OpsOk(runs[d]) /\ results[d] = NoResult /\ runs[d] # NoRun
         /\ ~touched[d] => Course(reportsTtl, runs[d], dynamoTable)
<1>1. "idle" \notin Described /\ "describe" \notin Described
  BY DEF Described, Recording
<1>2. runs[d] # NoRun /\ runs[d].pc # "describe"
  BY <1>1 DEF NoRun
<1>3. DriverOk(reportsTtl, runs[d], results[d], touched[d], dynamoTable)
  BY DEF CourseInv
<1> QED BY <1>2, <1>3 DEF DriverOk

\* What it says of one that executes an operation on the table as it stands.
LEMMA Executes ==
  ASSUME CourseInv, NEW d \in Drivers, NEW type, Executing(d, type)
  PROVE  LET r == runs[d]
             index == Head(r.ops).index
         IN  /\ Full(r) /\ OpsOk(r) /\ r # NoRun /\ r.pc = "op" /\ r.ops # <<>> /\ r.target \in Definitions
             /\ Creating(r) <=> type = "CREATE_TABLE"
             /\ ~touched[d] /\ type # "CREATE_TABLE" =>
                  /\ OnCourse(reportsTtl, Range(r.ops), r.target, dynamoTable)
                  /\ Op(type, index) \in Range(r.ops)
                  /\ Range(Tail(r.ops)) = Range(r.ops) \ {Op(type, index)}
                  /\ type = "UPDATE_TTL" \/ Differs(type, index, dynamoTable, r.target)
                  /\ type \notin {"ADD_GSI", "DELETE_GSI"} => index = ""
<1> DEFINE r == runs[d]
           index == Head(r.ops).index
<1>1. r.pc = "op" /\ r.ops # <<>> /\ Head(r.ops).type = type /\ "op" \in Described
  BY DEF Executing, At, Described
<1>2. Full(r) /\ OpsOk(r) /\ r # NoRun /\ (~touched[d] => Course(reportsTtl, r, dynamoTable))
  BY <1>1, UnderWay
<1>3. r.target \in Definitions
  BY <1>2 DEF Full
<1>4. Creating(r) <=> type = "CREATE_TABLE"
  BY <1>1 DEF Creating
<1>5. ASSUME ~touched[d], type # "CREATE_TABLE"
      PROVE  /\ OnCourse(reportsTtl, Range(r.ops), r.target, dynamoTable)
             /\ Op(type, index) \in Range(r.ops)
             /\ Range(Tail(r.ops)) = Range(r.ops) \ {Op(type, index)}
             /\ type = "UPDATE_TTL" \/ Differs(type, index, dynamoTable, r.target)
             /\ type \notin {"ADD_GSI", "DELETE_GSI"} => index = ""
  <2>1. Left(r) = Range(r.ops)
    BY <1>1 DEF Left
  <2>2. OnCourse(reportsTtl, Range(r.ops), r.target, dynamoTable)
    BY <1>2, <1>4, <1>5, <2>1 DEF Course
  <2>3. Op(type, index) \in Range(r.ops) /\ Range(Tail(r.ops)) = Range(r.ops) \ {Op(type, index)}
    BY <1>1, <1>2, HeadOk
  <2>4. CASE Op(type, index) = SettingTtl
    <3>1. Op(type, index) = Op("UPDATE_TTL", "")
      BY <2>4 DEF SettingTtl
    <3> HIDE DEF index
    <3>2. type = "UPDATE_TTL" /\ index = ""
      BY ONLY <3>1, OpsDiffer
    <3> QED BY <2>2, <2>3, <3>2
  <2>5. CASE Op(type, index) # SettingTtl
    <3>1. Op(type, index) \in Differing(dynamoTable, r.target)
      BY <2>2, <2>3, <2>5 DEF OnCourse
    <3>2. Differs(type, index, dynamoTable, r.target)
      BY <3>1, DifferingHas
    <3>3. type \notin {"ADD_GSI", "DELETE_GSI"} => index = ""
      BY <3>2 DEF Differs
    <3> QED BY <2>2, <2>3, <3>2, <3>3
  <2> QED BY <2>4, <2>5
<1> QED BY <1>1, <1>2, <1>3, <1>4, <1>5

LEMMA CreateTableKeeps ==
  ASSUME CourseInv, NEW d \in Drivers, CreateTable(d)
  PROVE  CourseInv'
<1> DEFINE r == runs[d]
           target == r.target
           t2 == Created(target)
           refusal == IF dynamoTable = Absent THEN "" ELSE "duplicate"
           left == IF target.ttl # NoTtl THEN {SettingTtl} ELSE {}
<1>1. /\ Full(r) /\ OpsOk(r) /\ r # NoRun /\ r.pc = "op" /\ r.ops # <<>> /\ target \in Definitions /\ Creating(r)
      /\ UNCHANGED <<reportsTtl, wanted>> /\ Executing(d, "CREATE_TABLE")
  BY Executes DEF CreateTable, Deployed
<1>2. refusal = "duplicate" => touched[d]
  <2>1. ~touched[d] => Course(reportsTtl, r, dynamoTable)
    BY <1>1, UnderWay DEF Described
  <2> QED BY <1>1, <2>1 DEF Course
<1>3. /\ t2.status = "CREATING" /\ t2.key = target.key /\ t2.ttl = NoTtl /\ t2.stream = target.stream /\ t2.billing = target.billing
      /\ t2.gsis = [i \in Range(Indexes) |-> IF i \in target.gsis THEN "ACTIVE" ELSE "none"]
  BY DEF Created
<1>4. target.gsis \subseteq Range(Indexes) /\ target.stream \in BOOLEAN
  BY <1>1, DynamoMigrationAssumption
<1>5. t2 \in DynamoTables
  <2>1. t2.gsis \in [Range(Indexes) -> {"none", "CREATING", "ACTIVE", "DELETING"}]
    BY <1>3
  <2>2. t2 = [status |-> t2.status, key |-> t2.key, ttl |-> t2.ttl, gsis |-> t2.gsis, stream |-> t2.stream, billing |-> t2.billing]
    BY DEF Created
  <2> HIDE DEF t2
  <2> QED BY <1>1, <1>3, <1>4, <2>1, <2>2 DEF DynamoTables
<1> HIDE DEF t2
<1>6. Present(t2) = target.gsis
  BY <1>3, <1>4 DEF Present
<1>7. Differing(t2, target) = {}
  BY <1>3, <1>6 DEF Differing
<1>8. OnCourse(reportsTtl, left, target, t2)
  <2>1. left \ {SettingTtl} = {}
    OBVIOUS
  <2>2. TtlOnCourse(reportsTtl, left, target, t2)
    BY <1>3 DEF TtlOnCourse
  <2>3. \A i \in target.gsis : t2.gsis[i] # "DELETING"
    BY <1>3, <1>4
  <2> QED BY <1>3, <1>7, <2>1, <2>2, <2>3 DEF OnCourse
<1>9. DriverOk(reportsTtl, [r EXCEPT !.pc = "table"], NoResult, touched[d], t2)
  <2>1. Range(Tail(r.ops)) = {}
    BY <1>1, HeadOk DEF Range
  <2>2. OnCourse(reportsTtl, IF Creating(r) /\ r.target.ttl # NoTtl THEN {SettingTtl} ELSE Range(Tail(r.ops)), r.target, t2)
    BY <1>1, <1>8, <2>1
  <2> HIDE DEF target, r
  <2> QED BY <1>1, <2>2, AwaitKeeps
<1>10. Ask(d, refusal, t2, [r EXCEPT !.pc = "table"])
  BY DEF CreateTable, t2
<1>11. refusal \in {"", "duplicate"}
  OBVIOUS
<1> HIDE DEF refusal
<1> QED BY <1>1, <1>2, <1>3, <1>5, <1>9, <1>10, <1>11, AskKeeps

\* A table that can take another change.
LEMMA NotBusy ==
  ASSUME Busy = ""
  PROVE  dynamoTable.status = "ACTIVE"
BY DEF Busy, Settled

LEMMA AddGsiKeeps ==
  ASSUME CourseInv, NEW d \in Drivers, AddGsi(d)
  PROVE  CourseInv'
<1> DEFINE r == runs[d]
           target == r.target
           index == Head(r.ops).index
           t2 == [dynamoTable EXCEPT !.gsis[index] = "CREATING"]
           refusal == IF dynamoTable.gsis[index] # "none" THEN "duplicate" ELSE Busy
<1>1. /\ Full(r) /\ OpsOk(r) /\ r # NoRun /\ r.pc = "op" /\ r.ops # <<>> /\ target \in Definitions /\ ~Creating(r)
      /\ UNCHANGED <<reportsTtl, wanted>> /\ Executing(d, "ADD_GSI") /\ dynamoTable \in DynamoTables
  <2> DEFINE type == "ADD_GSI"
  <2>1. UNCHANGED <<reportsTtl, wanted>> /\ Executing(d, type) /\ dynamoTable \in DynamoTables
    BY DEF AddGsi, Deployed, CourseInv
  <2>2. type # "CREATE_TABLE"
    OBVIOUS
  <2> HIDE DEF type
  <2>3. Full(r) /\ OpsOk(r) /\ r # NoRun /\ r.pc = "op" /\ r.ops # <<>> /\ target \in Definitions /\ ~Creating(r)
    BY <2>1, <2>2, Executes
  <2> QED BY <2>1, <2>3 DEF type
<1>2. index \in Range(Indexes)
  BY <1>1, HeadOk DEF Executing
<1>3. ~touched[d] => /\ OnCourse(reportsTtl, Range(r.ops), target, dynamoTable) /\ Op("ADD_GSI", index) \in Range(r.ops)
                     /\ Range(Tail(r.ops)) = Range(r.ops) \ {Op("ADD_GSI", index)}
  BY <1>1, Executes
<1>4. t2 \in DynamoTables /\ t2.status = dynamoTable.status
  BY <1>1, <1>2 DEF DynamoTables
<1>5. ~touched[d] => dynamoTable.gsis[index] = "none" /\ OnCourse(reportsTtl, Range(Tail(r.ops)), target, t2)
  <2> HIDE DEF index, target
  <2> QED BY <1>1, <1>3, AddDone
<1>6. Ask(d, refusal, t2, [r EXCEPT !.pc = "index"])
  BY DEF AddGsi
<1>7. refusal = "duplicate" => touched[d]
  <2>1. Busy # "duplicate"
    BY DEF Busy
  <2> QED BY <1>5, <2>1
<1>8. refusal # "ttl" /\ (refusal = "" => t2.status # "absent")
  <2>1. Busy # "ttl"
    BY DEF Busy
  <2>2. Busy = "" => t2.status = "ACTIVE"
    BY <1>4, NotBusy
  <2> HIDE DEF t2
  <2> QED BY <2>1, <2>2
<1> HIDE DEF t2, refusal
<1>9. DriverOk(reportsTtl, [r EXCEPT !.pc = "index"], NoResult, touched[d], t2)
  <2> HIDE DEF r
  <2> QED BY <1>1, <1>5, AwaitKeeps
<1> HIDE DEF target
<1> QED BY <1>1, <1>4, <1>6, <1>7, <1>8, <1>9, AskKeeps

LEMMA DeleteGsiKeeps ==
  ASSUME CourseInv, NEW d \in Drivers, DeleteGsi(d)
  PROVE  CourseInv'
<1> DEFINE r == runs[d]
           target == r.target
           index == Head(r.ops).index
           t2 == [dynamoTable EXCEPT !.gsis[index] = "DELETING"]
           refusal == IF dynamoTable.gsis[index] = "none" THEN "duplicate" ELSE Busy
<1>1. /\ Full(r) /\ OpsOk(r) /\ r # NoRun /\ r.pc = "op" /\ r.ops # <<>> /\ target \in Definitions /\ ~Creating(r)
      /\ UNCHANGED <<reportsTtl, wanted>> /\ Executing(d, "DELETE_GSI") /\ dynamoTable \in DynamoTables
  <2> DEFINE type == "DELETE_GSI"
  <2>1. UNCHANGED <<reportsTtl, wanted>> /\ Executing(d, type) /\ dynamoTable \in DynamoTables
    BY DEF DeleteGsi, Deployed, CourseInv
  <2>2. type # "CREATE_TABLE"
    OBVIOUS
  <2> HIDE DEF type
  <2>3. Full(r) /\ OpsOk(r) /\ r # NoRun /\ r.pc = "op" /\ r.ops # <<>> /\ target \in Definitions /\ ~Creating(r)
    BY <2>1, <2>2, Executes
  <2> QED BY <2>1, <2>3 DEF type
<1>2. index \in Range(Indexes)
  BY <1>1, HeadOk DEF Executing
<1>3. ~touched[d] => /\ OnCourse(reportsTtl, Range(r.ops), target, dynamoTable) /\ Op("DELETE_GSI", index) \in Range(r.ops)
                     /\ Range(Tail(r.ops)) = Range(r.ops) \ {Op("DELETE_GSI", index)}
  BY <1>1, Executes
<1>4. t2 \in DynamoTables /\ t2.status = dynamoTable.status
  BY <1>1, <1>2 DEF DynamoTables
<1>5. ~touched[d] => dynamoTable.gsis[index] # "none" /\ OnCourse(reportsTtl, Range(Tail(r.ops)), target, t2)
  <2> HIDE DEF index, target
  <2> QED BY <1>1, <1>3, DeleteDone
<1>6. Ask(d, refusal, t2, NextOp(r))
  BY DEF DeleteGsi, AfterOp, NextOp
<1>7. refusal = "duplicate" => touched[d]
  <2>1. Busy # "duplicate"
    BY DEF Busy
  <2> QED BY <1>5, <2>1
<1>8. refusal # "ttl" /\ (refusal = "" => t2.status # "absent")
  <2>1. Busy # "ttl"
    BY DEF Busy
  <2>2. Busy = "" => t2.status = "ACTIVE"
    BY <1>4, NotBusy
  <2> HIDE DEF t2
  <2> QED BY <2>1, <2>2
<1> HIDE DEF t2, refusal
<1>9. DriverOk(reportsTtl, NextOp(r), NoResult, touched[d], t2)
  <2> HIDE DEF r
  <2> QED BY <1>1, <1>5, NextKeeps
<1> HIDE DEF target
<1> QED BY <1>1, <1>4, <1>6, <1>7, <1>8, <1>9, AskKeeps

LEMMA UpdateTableKeeps ==
  ASSUME CourseInv, NEW d \in Drivers, NEW type, NEW changed, UpdateTable(d, type, changed),
         changed \in DynamoTables, changed.gsis = dynamoTable.gsis, changed.ttl = dynamoTable.ttl,
         \/ type = "UPDATE_BILLING_MODE" /\ changed.billing = runs[d].target.billing /\ changed.stream = dynamoTable.stream
         \/ type = "ENABLE_STREAM" /\ changed.billing = dynamoTable.billing /\ changed.stream = TRUE
         \/ type = "DISABLE_STREAM" /\ changed.billing = dynamoTable.billing /\ changed.stream = FALSE
  PROVE  CourseInv'
<1> DEFINE r == runs[d]
           target == r.target
           t2 == [changed EXCEPT !.status = "UPDATING"]
<1>1. UNCHANGED <<reportsTtl, wanted>> /\ Executing(d, type) /\ dynamoTable \in DynamoTables
  BY DEF UpdateTable, Deployed, CourseInv
<1>2. type \notin {"CREATE_TABLE", "ADD_GSI", "DELETE_GSI", "UPDATE_TTL"}
  OBVIOUS
<1>3. Full(r) /\ OpsOk(r) /\ r # NoRun /\ r.pc = "op" /\ r.ops # <<>> /\ target \in Definitions /\ ~Creating(r)
  BY <1>1, <1>2, Executes
<1>4. ~touched[d] => /\ OnCourse(reportsTtl, Range(r.ops), target, dynamoTable) /\ Op(type, "") \in Range(r.ops)
                     /\ Range(Tail(r.ops)) = Range(r.ops) \ {Op(type, "")}
  BY <1>1, <1>2, Executes
<1>5. t2 \in DynamoTables
  BY DEF DynamoTables
<1>6. /\ t2.status = "UPDATING" /\ t2.gsis = dynamoTable.gsis /\ t2.ttl = dynamoTable.ttl
      /\ t2.billing = changed.billing /\ t2.stream = changed.stream
  BY DEF DynamoTables
<1>7. Ask(d, Busy, t2, [r EXCEPT !.pc = "table"])
  BY DEF UpdateTable
<1> HIDE DEF t2
<1>8. ~touched[d] => OnCourse(reportsTtl, Range(Tail(r.ops)), target, t2)
  <2> SUFFICES ASSUME ~touched[d] PROVE OnCourse(reportsTtl, Range(r.ops) \ {Op(type, "")}, target, t2)
    BY <1>4
  <2>1. t2.status # "absent"
    BY <1>6
  <2>2. \/ type = "UPDATE_BILLING_MODE" /\ t2.billing = target.billing /\ t2.stream = dynamoTable.stream
        \/ type = "ENABLE_STREAM" /\ t2.billing = dynamoTable.billing /\ t2.stream = TRUE
        \/ type = "DISABLE_STREAM" /\ t2.billing = dynamoTable.billing /\ t2.stream = FALSE
    BY <1>6
  <2> HIDE DEF target
  <2> QED BY <1>1, <1>3, <1>4, <1>6, <2>1, <2>2, UpdateDone
<1>9. DriverOk(reportsTtl, [r EXCEPT !.pc = "table"], NoResult, touched[d], t2)
  <2> HIDE DEF r
  <2> QED BY <1>3, <1>8, AwaitKeeps
<1>10. Busy \notin {"duplicate", "ttl"} /\ t2.status # "absent"
  BY <1>6 DEF Busy
<1> HIDE DEF target
<1> QED BY <1>1, <1>3, <1>5, <1>7, <1>9, <1>10, AskKeeps

LEMMA UpdatesKeep ==
  ASSUME CourseInv, NEW d \in Drivers, UpdateBillingMode(d) \/ EnableStream(d) \/ DisableStream(d)
  PROVE  CourseInv'
<1>1. dynamoTable \in DynamoTables
  BY DEF CourseInv
<1>2. CASE UpdateBillingMode(d)
  <2> DEFINE changed == [dynamoTable EXCEPT !.billing = runs[d].target.billing]
  <2>1. UpdateTable(d, "UPDATE_BILLING_MODE", changed)
    BY <1>2 DEF UpdateBillingMode
  <2>2. runs[d].target \in Definitions
    BY <2>1, Executes DEF UpdateTable
  <2>3. /\ changed \in DynamoTables /\ changed.gsis = dynamoTable.gsis /\ changed.ttl = dynamoTable.ttl
        /\ changed.billing = runs[d].target.billing /\ changed.stream = dynamoTable.stream
    BY <1>1, <2>2 DEF DynamoTables
  <2> HIDE DEF changed
  <2> QED BY <2>1, <2>3, UpdateTableKeeps
<1>3. CASE EnableStream(d)
  <2> DEFINE changed == [dynamoTable EXCEPT !.stream = TRUE]
  <2>1. UpdateTable(d, "ENABLE_STREAM", changed)
    BY <1>3 DEF EnableStream
  <2>2. /\ changed \in DynamoTables /\ changed.gsis = dynamoTable.gsis /\ changed.ttl = dynamoTable.ttl
        /\ changed.billing = dynamoTable.billing /\ changed.stream = TRUE
    BY <1>1 DEF DynamoTables
  <2> HIDE DEF changed
  <2> QED BY <2>1, <2>2, UpdateTableKeeps
<1>4. CASE DisableStream(d)
  <2> DEFINE changed == [dynamoTable EXCEPT !.stream = FALSE]
  <2>1. UpdateTable(d, "DISABLE_STREAM", changed)
    BY <1>4 DEF DisableStream
  <2>2. /\ changed \in DynamoTables /\ changed.gsis = dynamoTable.gsis /\ changed.ttl = dynamoTable.ttl
        /\ changed.billing = dynamoTable.billing /\ changed.stream = FALSE
    BY <1>1 DEF DynamoTables
  <2> HIDE DEF changed
  <2> QED BY <2>1, <2>2, UpdateTableKeeps
<1> QED BY <1>2, <1>3, <1>4

LEMMA UpdateTtlKeeps ==
  ASSUME CourseInv, NEW d \in Drivers, UpdateTtl(d)
  PROVE  CourseInv'
<1> DEFINE r == runs[d]
           ttl == r.target.ttl
           t2 == [dynamoTable EXCEPT !.ttl = ttl]
           refusal == IF dynamoTable.status # "ACTIVE" THEN "busy"
                      ELSE IF ttl # NoTtl THEN (IF dynamoTable.ttl # NoTtl THEN "ttl" ELSE "")
                      ELSE IF dynamoTable.ttl # "ttl" THEN "ttl" ELSE ""
<1>1. /\ UNCHANGED <<reportsTtl, wanted>> /\ dynamoTable \in DynamoTables /\ reportsTtl \in BOOLEAN
      /\ Executing(d, "UPDATE_TTL") \/ r.pc = "createttl"
  BY DEF UpdateTtl, Deployed, CourseInv, At
<1>2. r.pc \in Described
  BY <1>1 DEF Executing, At, Described
<1>3. Full(r) /\ OpsOk(r) /\ r # NoRun /\ r.target \in Definitions /\ (~touched[d] => Course(reportsTtl, r, dynamoTable))
  BY <1>2, UnderWay DEF Full
<1>4. r.ops # <<>>
  BY <1>1, <1>3 DEF Executing, OpsOk
<1>5. ASSUME ~touched[d]
      PROVE  \E left : /\ OnCourse(reportsTtl, left, r.target, dynamoTable) /\ SettingTtl \in left
                       /\ Range(Tail(r.ops)) = left \ {SettingTtl}
  <2>1. CASE Executing(d, "UPDATE_TTL")
    <3> DEFINE type == "UPDATE_TTL"
    <3>1. Executing(d, type) /\ type \notin {"CREATE_TABLE", "ADD_GSI", "DELETE_GSI"} /\ SettingTtl = Op(type, "")
      BY <2>1 DEF SettingTtl
    <3> HIDE DEF type
    <3>2. /\ OnCourse(reportsTtl, Range(r.ops), r.target, dynamoTable) /\ SettingTtl \in Range(r.ops)
          /\ Range(Tail(r.ops)) = Range(r.ops) \ {SettingTtl}
      BY <1>5, <3>1, Executes
    <3> QED BY <3>2
  <2>2. CASE r.pc = "createttl"
    <3>1. Left(r) = {SettingTtl}
      BY <2>2 DEF Left
    <3>2. OnCourse(reportsTtl, {SettingTtl}, r.target, dynamoTable)
      BY <1>3, <1>5, <2>2, <3>1 DEF Course
    <3>3. Creating(r)
      BY <1>3, <2>2 DEF OpsOk
    <3>4. Range(Tail(r.ops)) = {}
      BY <1>3, <1>4, <3>3, HeadOk DEF Range
    <3> QED BY <3>2, <3>4
  <2> QED BY <1>1, <2>1, <2>2
<1>6. t2 \in DynamoTables
  BY <1>1, <1>3 DEF DynamoTables
<1>7. /\ t2.status = dynamoTable.status /\ t2.gsis = dynamoTable.gsis /\ t2.stream = dynamoTable.stream
      /\ t2.billing = dynamoTable.billing /\ t2.ttl = ttl
  BY <1>1 DEF DynamoTables
<1>8. Ask(d, refusal, t2, NextOp(r))
  BY DEF UpdateTtl, AfterOp, NextOp
<1>9. refusal = "ttl" => touched[d] \/ ~reportsTtl \/ dynamoTable.ttl # NoTtl
  <2> SUFFICES ASSUME refusal = "ttl", ~touched[d], reportsTtl PROVE dynamoTable.ttl # NoTtl
    OBVIOUS
  <2>1. dynamoTable.ttl # ttl
    BY <1>5 DEF OnCourse, TtlOnCourse
  <2> QED BY <2>1
<1>10. refusal # "duplicate" /\ (refusal = "" => dynamoTable.status = "ACTIVE")
  OBVIOUS
<1> HIDE DEF t2, refusal
<1>11. ASSUME refusal = "" PROVE t2.status # "absent" /\ DriverOk(reportsTtl, NextOp(r), NoResult, touched[d], t2)
  <2>1. t2.status # "absent"
    BY <1>7, <1>10, <1>11
  <2>2. ~touched[d] => OnCourse(reportsTtl, Range(Tail(r.ops)), r.target, t2)
    <3> SUFFICES ASSUME ~touched[d] PROVE OnCourse(reportsTtl, Range(Tail(r.ops)), r.target, t2)
      OBVIOUS
    <3>1. PICK left : /\ OnCourse(reportsTtl, left, r.target, dynamoTable) /\ SettingTtl \in left
                      /\ Range(Tail(r.ops)) = left \ {SettingTtl}
      BY <1>5
    <3>2. OnCourse(reportsTtl, left \ {SettingTtl}, r.target, t2)
      BY <1>3, <1>7, <2>1, <3>1, TtlDone
    <3> QED BY <3>1, <3>2
  <2> HIDE DEF r
  <2> QED BY <1>3, <1>4, <2>1, <2>2, NextKeeps
<1> QED BY <1>1, <1>3, <1>6, <1>8, <1>9, <1>10, <1>11, AskKeeps

\* A run that ends, of itself or by a crash.
LEMMA EndKeeps ==
  ASSUME CourseInv, NEW d \in Drivers, runs[d].pc \in Described, NEW why, why \notin {"duplicate", "ttl"},
         \/ End(d, FALSE, why)
         \/ runs' = [runs EXCEPT ![d] = NoRun] /\ NotEnded,
         Untouched, Deployed
  PROVE  CourseInv'
<1>1. Full(runs[d]) /\ results[d] = NoResult
  BY UnderWay
<1>2. UNCHANGED <<dynamoTable, reportsTtl, touched>> /\ wanted' \in Definitions
  BY DEF Untouched, Deployed, CourseInv
<1> DEFINE Ended == [success |-> FALSE, why |-> why, target |-> {runs[d].target}]
<1>3. ASSUME NEW res \in {Ended, NoResult} PROVE DriverOk(reportsTtl, NoRun, res, touched[d], dynamoTable)
  <2>1. ~res.success /\ res.why \notin {"duplicate", "ttl"} /\ res.target \subseteq Definitions
    <3>1. CASE res = Ended
      BY <1>1, <3>1 DEF Full
    <3>2. CASE res = NoResult
      BY <3>2 DEF NoResult
    <3> QED BY <3>1, <3>2
  <2> QED BY <2>1 DEF DriverOk, ResultOk
<1>4. CASE End(d, FALSE, why)
  <2>1. runs' = [runs EXCEPT ![d] = NoRun] /\ results' = [results EXCEPT ![d] = Ended]
    BY <1>4 DEF End
  <2> HIDE DEF Ended
  <2> QED BY <1>2, <1>3, <2>1, OwnStepKeeps
<1>5. CASE runs' = [runs EXCEPT ![d] = NoRun] /\ NotEnded
  <2>1. results' = [results EXCEPT ![d] = NoResult]
    BY <1>1, <1>5 DEF NotEnded, CourseInv
  <2> HIDE DEF Ended
  <2> QED BY <1>2, <1>3, <1>5, <2>1, OwnStepKeeps
<1> QED BY <1>4, <1>5

\* A run that goes on without asking anything of the table.
LEMMA GoOnKeeps ==
  ASSUME CourseInv, NEW d \in Drivers, NEW r, DriverOk(reportsTtl, r, NoResult, touched[d], dynamoTable),
         runs[d].pc \in Described, runs' = [runs EXCEPT ![d] = r], NotEnded, Untouched, Deployed
  PROVE  CourseInv'
<1>1. results' = [results EXCEPT ![d] = NoResult]
  BY UnderWay DEF NotEnded, CourseInv
<1>2. UNCHANGED <<dynamoTable, reportsTtl, touched>> /\ wanted' \in Definitions
  BY DEF Untouched, Deployed, CourseInv
<1> QED BY <1>1, <1>2, OwnStepKeeps

LEMMA TableActiveKeeps ==
  ASSUME CourseInv, NEW d \in Drivers, TableActive(d)
  PROVE  CourseInv'
<1> DEFINE r == runs[d]
<1>1. r.pc = "table" /\ r.pc \in Described /\ Untouched /\ Deployed
  BY DEF TableActive, At, Described
<1>2. Full(r) /\ OpsOk(r) /\ (~touched[d] => Course(reportsTtl, r, dynamoTable)) /\ r.ops # <<>>
  BY <1>1, UnderWay DEF OpsOk
<1>3. ~touched[d] => OnCourse(reportsTtl, Left(r), r.target, dynamoTable)
  BY <1>1, <1>2 DEF Course
<1>4. CASE End(d, FALSE, "timeout")
  <2> DEFINE why == "timeout"
  <2>1. End(d, FALSE, why) /\ why \notin {"duplicate", "ttl"}
    BY <1>4
  <2> HIDE DEF why
  <2> QED BY <1>1, <2>1, EndKeeps
<1>5. CASE Creating(r) /\ r.target.ttl # NoTtl /\ NotEnded /\ runs' = [runs EXCEPT ![d] = [r EXCEPT !.pc = "createttl"]]
  <2> DEFINE r2 == [r EXCEPT !.pc = "createttl"]
  <2>1. Full(r2) /\ r2.pc = "createttl" /\ r2.ops = r.ops /\ r2.target = r.target
    BY <1>2 DEF Full
  <2>2. runs' = [runs EXCEPT ![d] = r2]
    BY <1>5
  <2> HIDE DEF r2
  <2>3. OpsOk(r2)
    BY <1>2, <1>5, <2>1 DEF OpsOk, Recording, Creating
  <2>4. Left(r) = {SettingTtl} /\ Left(r2) = {SettingTtl}
    BY <1>1, <1>5, <2>1 DEF Left
  <2>5. ~touched[d] => Course(reportsTtl, r2, dynamoTable)
    BY <1>3, <2>1, <2>4 DEF Course
  <2>6. DriverOk(reportsTtl, r2, NoResult, touched[d], dynamoTable)
    BY <2>1, <2>3, <2>5 DEF DriverOk, Described
  <2> HIDE DEF r
  <2> QED BY <1>1, <1>5, <2>2, <2>6, GoOnKeeps DEF r
<1>6. CASE ~(Creating(r) /\ r.target.ttl # NoTtl) /\ NotEnded /\ runs' = [runs EXCEPT ![d] = NextOp(r)]
  <2>1. Left(r) = Range(Tail(r.ops))
    BY <1>1, <1>6 DEF Left
  <2>2. DriverOk(reportsTtl, NextOp(r), NoResult, touched[d], dynamoTable)
    BY <1>2, <1>3, <2>1, NextKeeps
  <2> QED BY <1>1, <1>6, <2>2, GoOnKeeps
<1>7. Creating(r) <=> Head(r.ops).type = "CREATE_TABLE"
  BY <1>2 DEF Creating
<1>8. AfterOp(d) = NextOp(r)
  BY DEF AfterOp, NextOp
<1> HIDE DEF r
<1>9. \/ End(d, FALSE, "timeout")
      \/ NotEnded /\ runs' = [runs EXCEPT ![d] = IF Creating(r) /\ r.target.ttl # NoTtl THEN [r EXCEPT !.pc = "createttl"] ELSE NextOp(r)]
  BY <1>7, <1>8 DEF TableActive, r
<1> QED BY <1>4, <1>5, <1>6, <1>9

LEMMA IndexActiveKeeps ==
  ASSUME CourseInv, NEW d \in Drivers, IndexActive(d)
  PROVE  CourseInv'
<1> DEFINE r == runs[d]
<1>1. r.pc = "index" /\ r.pc \in Described /\ Untouched /\ Deployed
  BY DEF IndexActive, At, Described
<1>2. Full(r) /\ OpsOk(r) /\ (~touched[d] => Course(reportsTtl, r, dynamoTable)) /\ r.ops # <<>>
  BY <1>1, UnderWay DEF OpsOk
<1>3. Left(r) = Range(Tail(r.ops))
  BY <1>1 DEF Left
<1>4. ~touched[d] => OnCourse(reportsTtl, Range(Tail(r.ops)), r.target, dynamoTable)
  BY <1>1, <1>2, <1>3 DEF Course
<1>5. CASE End(d, FALSE, "timeout")
  <2> DEFINE why == "timeout"
  <2>1. End(d, FALSE, why) /\ why \notin {"duplicate", "ttl"}
    BY <1>5
  <2> HIDE DEF why
  <2> QED BY <1>1, <2>1, EndKeeps
<1>6. CASE NotEnded /\ runs' = [runs EXCEPT ![d] = NextOp(r)]
  <2>1. DriverOk(reportsTtl, NextOp(r), NoResult, touched[d], dynamoTable)
    BY <1>2, <1>4, NextKeeps
  <2> QED BY <1>1, <1>6, <2>1, GoOnKeeps
<1>7. AfterOp(d) = NextOp(r)
  BY DEF AfterOp, NextOp
<1> QED BY <1>5, <1>6, <1>7 DEF IndexActive

\* The steps of recordMigration, before its put.
LEMMA RecordingKeeps ==
  ASSUME CourseInv, NEW d \in Drivers, NEW r,
         runs[d].pc \in Recording \/ (runs[d].pc = "op" /\ runs[d].ops = <<>>),
         Full(r), r.pc \in Recording, r.ops = runs[d].ops, r.target = runs[d].target,
         runs' = [runs EXCEPT ![d] = r], NotEnded, Untouched, Deployed
  PROVE  CourseInv'
<1> DEFINE r0 == runs[d]
<1>1. r0.pc \in Described
  BY DEF Described
<1>2. OpsOk(r0) /\ (~touched[d] => Course(reportsTtl, r0, dynamoTable)) /\ r0.ops = <<>>
  BY <1>1, UnderWay DEF OpsOk
<1>3. ~Creating(r0) /\ ~Creating(r)
  BY <1>2 DEF Creating
<1>4. r.pc \notin {"table", "index", "createttl", "op"} /\ r0.pc \notin {"table", "index", "createttl"}
  BY DEF Recording
<1>5. OpsOk(r)
  BY <1>2, <1>4 DEF OpsOk
<1>6. Left(r) = Left(r0)
  BY <1>2, <1>4 DEF Left
<1>7. ~touched[d] => Course(reportsTtl, r, dynamoTable)
  BY <1>2, <1>3, <1>6 DEF Course
<1>8. DriverOk(reportsTtl, r, NoResult, touched[d], dynamoTable)
  BY <1>5, <1>7 DEF DriverOk, Described
<1> QED BY <1>1, <1>8, GoOnKeeps

LEMMA GotoIs ==
  ASSUME CourseInv, NEW d \in Drivers, runs[d].pc \in Described, NEW pc
  PROVE  /\ Full([runs[d] EXCEPT !.pc = pc]) /\ [runs[d] EXCEPT !.pc = pc].pc = pc
         /\ [runs[d] EXCEPT !.pc = pc].ops = runs[d].ops /\ [runs[d] EXCEPT !.pc = pc].target = runs[d].target
<1>1. Full(runs[d])
  BY UnderWay
<1> QED BY <1>1 DEF Full

LEMMA GotoKeeps ==
  ASSUME CourseInv, NEW d \in Drivers, NEW pc \in Recording, Goto(d, pc),
         runs[d].pc \in Recording \/ (runs[d].pc = "op" /\ runs[d].ops = <<>>), NotEnded, Untouched, Deployed
  PROVE  CourseInv'
<1> DEFINE r == [runs[d] EXCEPT !.pc = pc]
<1>1. Full(r) /\ r.pc = pc /\ r.ops = runs[d].ops /\ r.target = runs[d].target
  BY GotoIs DEF Described
<1>2. runs' = [runs EXCEPT ![d] = r]
  BY DEF Goto
<1> HIDE DEF r
<1> QED BY <1>1, <1>2, RecordingKeeps

LEMMA RecordStepsKeep ==
  ASSUME CourseInv, NEW d \in Drivers,
         EnsureMigrationsTable(d) \/ CreateMigrationsTable(d) \/ MigrationsTableActive(d) \/ GetLatestState(d)
  PROVE  CourseInv'
<1>1. /\ Untouched /\ Deployed
      /\ runs[d].pc \in Recording \/ (runs[d].pc = "op" /\ runs[d].ops = <<>>)
  BY DEF EnsureMigrationsTable, CreateMigrationsTable, MigrationsTableActive, GetLatestState, At, Recording
<1>2. runs[d].pc \in Described
  BY <1>1 DEF Described
<1>3. \/ \E pc \in Recording : Goto(d, pc) /\ NotEnded
      \/ \E why \in {"tracked", "fault", "timeout", "busy"} : End(d, FALSE, why)
      \/ NotEnded /\ \E version : runs' = [runs EXCEPT ![d].pc = "put", ![d].version = version]
  BY DEF EnsureMigrationsTable, CreateMigrationsTable, MigrationsTableActive, GetLatestState, Recording
<1>4. ASSUME NEW pc \in Recording, Goto(d, pc), NotEnded PROVE CourseInv'
  BY <1>1, <1>4, GotoKeeps
<1>5. ASSUME NEW why \in {"tracked", "fault", "timeout", "busy"}, End(d, FALSE, why) PROVE CourseInv'
  <2>1. why \notin {"duplicate", "ttl"}
    OBVIOUS
  <2> QED BY <1>1, <1>2, <1>5, <2>1, EndKeeps
<1>6. ASSUME NotEnded, NEW version, runs' = [runs EXCEPT ![d].pc = "put", ![d].version = version] PROVE CourseInv'
  <2> DEFINE r == [runs[d] EXCEPT !.pc = "put", !.version = version]
  <2>1. Full(runs[d])
    BY <1>2, UnderWay
  <2>2. Full(r) /\ r.pc = "put" /\ r.ops = runs[d].ops /\ r.target = runs[d].target
    BY <2>1 DEF Full
  <2>3. runs' = [runs EXCEPT ![d] = r]
    BY <1>6
  <2> HIDE DEF r
  <2> QED BY <1>1, <1>6, <2>2, <2>3, RecordingKeeps DEF Recording
<1> QED BY <1>3, <1>4, <1>5, <1>6

LEMMA RecordedKeeps ==
  ASSUME CourseInv, NEW d \in Drivers, PutRecord(d)
  PROVE  CourseInv'
<1> DEFINE r == runs[d]
           Ended == [success |-> TRUE, why |-> "", target |-> {r.target}]
<1>1. r.pc = "put" /\ r.pc \in Described /\ Untouched /\ Deployed
  BY DEF PutRecord, At, Described, Recording
<1>2. CASE End(d, FALSE, "fault")
  <2> DEFINE why == "fault"
  <2>1. End(d, FALSE, why) /\ why \notin {"duplicate", "ttl"}
    BY <1>2
  <2> HIDE DEF why
  <2> QED BY <1>1, <2>1, EndKeeps
<1>3. CASE End(d, TRUE, "")
  <2>1. Full(r) /\ OpsOk(r) /\ (~touched[d] => Course(reportsTtl, r, dynamoTable)) /\ r.target \in Definitions
    BY <1>1, UnderWay DEF Full
  <2>2. r.ops = <<>>
    BY <1>1, <2>1 DEF OpsOk, Recording
  <2>3. Left(r) = {}
    BY <1>1, <2>2 DEF Left, Range
  <2>4. ~touched[d] => OnCourse(reportsTtl, {}, r.target, dynamoTable)
    BY <1>1, <2>1, <2>3 DEF Course
  <2>5. Ended.why = "" /\ Ended.target = {r.target}
    OBVIOUS
  <2>6. runs' = [runs EXCEPT ![d] = NoRun] /\ results' = [results EXCEPT ![d] = Ended]
    BY <1>3 DEF End
  <2>7. UNCHANGED <<dynamoTable, reportsTtl, touched>> /\ wanted' \in Definitions
    BY <1>1 DEF Untouched, Deployed, CourseInv
  <2> HIDE DEF Ended
  <2>8. DriverOk(reportsTtl, NoRun, Ended, touched[d], dynamoTable)
    BY <2>1, <2>4, <2>5 DEF DriverOk, ResultOk
  <2> QED BY <2>6, <2>7, <2>8, OwnStepKeeps
<1> QED BY <1>2, <1>3 DEF PutRecord

LEMMA StartsKeep ==
  ASSUME CourseInv, NEW d \in Drivers, Start(d)
  PROVE  CourseInv'
<1> DEFINE r == [pc |-> "describe", target |-> wanted, ops |-> <<>>, version |-> 0]
<1>1. runs' = [runs EXCEPT ![d] = r] /\ results' = [results EXCEPT ![d] = NoResult]
  BY DEF Start
<1>2. UNCHANGED <<dynamoTable, reportsTtl, touched>> /\ wanted' \in Definitions
  BY DEF Start, CourseInv
<1>3. Full(r) /\ r.pc = "describe"
  BY DEF Full, CourseInv
<1> HIDE DEF r
<1>4. DriverOk(reportsTtl, r, NoResult, touched[d], dynamoTable)
  BY <1>3 DEF DriverOk
<1> QED BY <1>1, <1>2, <1>4, OwnStepKeeps

LEMMA DescribeKeeps ==
  ASSUME CourseInv, NEW d \in Drivers, Describe(d)
  PROVE  CourseInv'
<1> DEFINE r == runs[d]
           t == dynamoTable
           plan == BuildMigrationPlan(t, r.target)
           r2 == [r EXCEPT !.pc = "op", !.ops = plan]
           leaving == \E i \in Range(Indexes) : t.gsis[i] = "DELETING"
<1>1. r.pc = "describe" /\ r # NoRun
  BY DEF Describe, At, NoRun
<1>2. Full(r) /\ results[d] = NoResult /\ r.target \in Definitions
  BY <1>1 DEF CourseInv, DriverOk, Full
<1>3. /\ UNCHANGED <<dynamoTable, reportsTtl>> /\ results' = results /\ wanted' = wanted
      /\ runs' = [runs EXCEPT ![d] = r2] /\ touched' = [touched EXCEPT ![d] = leaving]
  BY DEF Describe, NotEnded, Deployed
<1>4. Full(r2) /\ r2.pc = "op" /\ r2.ops = plan /\ r2.target = r.target
  BY <1>2 DEF Full
<1>5. t \in DynamoTables /\ (t.status = "absent" => t = Absent) /\ reportsTtl \in BOOLEAN
  BY DEF CourseInv
<1>6. OpsOk(r2) /\ (~leaving => Course(reportsTtl, r2, t))
  <2>1. CASE t.status = "absent"
    <3>1. plan = <<Op("CREATE_TABLE", "")>>
      BY <2>1 DEF BuildMigrationPlan
    <3> HIDE DEF plan, r2
    <3>2. Op("CREATE_TABLE", "") \in Ops /\ Op("CREATE_TABLE", "").type = "CREATE_TABLE"
      BY DEF Op, Ops, OpTypes
    <3>3. plan \in Seq(Ops) /\ Once(plan) /\ plan # <<>> /\ Len(plan) = 1 /\ Head(plan) = Op("CREATE_TABLE", "")
          /\ DOMAIN plan = {1} /\ plan[1] = Op("CREATE_TABLE", "")
      <4> DEFINE create == Op("CREATE_TABLE", "")
      <4>1. plan = <<create>> /\ create \in Ops
        BY <3>1, <3>2
      <4> HIDE DEF create
      <4>2. plan \in Seq(Ops) /\ Once(plan)
        BY <4>1, OneIsOnce
      <4>3. plan # <<>> /\ Len(plan) = 1 /\ Head(plan) = create /\ DOMAIN plan = {1} /\ plan[1] = create
        BY <4>1
      <4> QED BY <4>2, <4>3 DEF create
    <3>4. OpsOk(r2)
      BY <1>4, <3>2, <3>3 DEF OpsOk, Recording
    <3>5. Creating(r2)
      BY <1>4, <3>2, <3>3 DEF Creating
    <3> QED BY <1>4, <1>5, <2>1, <3>4, <3>5 DEF Course
  <2>2. CASE t.status # "absent"
    <3> HIDE DEF plan, r2
    <3>1. /\ plan \in Seq(Ops) /\ Once(plan)
          /\ \A op \in Range(plan) : op.type # "CREATE_TABLE"
          /\ \A op \in Range(plan) : op.type \in {"ADD_GSI", "DELETE_GSI"} => op.index \in Range(Indexes)
          /\ ~leaving => OnCourse(reportsTtl, Range(plan), r.target, t)
      <4>1. plan = BuildMigrationPlan(t, r.target)
        BY DEF plan
      <4> HIDE DEF t, r
      <4> QED BY <1>2, <1>5, <2>2, <4>1, PlanIs
    <3>2. \A n \in DOMAIN plan : plan[n] \in Range(plan)
      BY DEF Range
    <3>3. OpsOk(r2)
      BY <1>4, <3>1, <3>2 DEF OpsOk, Recording
    <3>4. ~Creating(r2)
      <4>1. plan # <<>> => Head(plan) \in Range(plan)
        BY <3>1, TailOnce
      <4> QED BY <1>4, <3>1, <4>1 DEF Creating
    <3>5. Left(r2) = Range(plan)
      BY <1>4 DEF Left
    <3> QED BY <1>4, <3>1, <3>3, <3>4, <3>5 DEF Course
  <2> QED BY <2>1, <2>2
<1> HIDE DEF r2, plan, leaving
<1>7. DriverOk(reportsTtl, r2, NoResult, leaving, t)
  BY <1>4, <1>6 DEF DriverOk, Described
<1>8. DOMAIN runs' = Drivers /\ results' = [e \in Drivers |-> results'[e]] /\ runs'[d] = r2 /\ touched'[d] = leaving
  BY <1>3 DEF CourseInv
<1>9. touched' \in [Drivers -> BOOLEAN]
  <2>1. leaving \in BOOLEAN
    BY DEF leaving
  <2> QED BY <1>3, <2>1 DEF CourseInv
<1>10. \A e \in Drivers : DriverOk(reportsTtl', runs'[e], results'[e], touched'[e], dynamoTable')
  <2> SUFFICES ASSUME NEW e \in Drivers PROVE DriverOk(reportsTtl, runs'[e], results[e], touched'[e], t)
    BY <1>3
  <2>1. CASE e = d
    BY <1>2, <1>7, <1>8, <2>1
  <2>2. CASE e # d
    <3>1. runs'[e] = runs[e] /\ touched'[e] = touched[e]
      BY <1>3, <2>2 DEF CourseInv
    <3> QED BY <3>1 DEF CourseInv
  <2> QED BY <2>1, <2>2
<1> QED BY <1>3, <1>8, <1>9, <1>10 DEF CourseInv

LEMMA SettleKeeps ==
  ASSUME CourseInv, Settle
  PROVE  CourseInv'
<1> DEFINE t == dynamoTable
           t2 == dynamoTable'
<1>1. UNCHANGED <<reportsTtl, wanted, results, runs, touched>>
  BY DEF Settle, Deployed, NotEnded
<1>2. t \in DynamoTables /\ (t.status = "absent" => t = Absent)
  BY DEF CourseInv
<1>3. CASE t2 = t
  BY <1>1, <1>3 DEF CourseInv
<1>4. CASE t2 # t
  <2>1. t2 \in DynamoTables /\ Settles(t, t2)
    <3>1. CASE t.status \in {"CREATING", "UPDATING"} /\ t2 = [t EXCEPT !.status = "ACTIVE"]
      <4>1. t # Absent
        <5>1. Absent.status = "absent"
          BY DEF Absent
        <5> HIDE DEF t
        <5> QED BY <3>1, <5>1
      <4>2. t2 \in DynamoTables
        BY <1>2, <3>1 DEF DynamoTables
      <4>3. /\ t2.status = "ACTIVE" /\ t2.gsis = t.gsis /\ t2.stream = t.stream /\ t2.billing = t.billing /\ t2.ttl = t.ttl
        BY <1>2, <3>1 DEF DynamoTables
      <4>4. Present(t2) = Present(t)
        BY <4>3 DEF Present
      <4> HIDE DEF t, t2
      <4> QED BY <4>1, <4>2, <4>3, <4>4 DEF Settles
    <3>2. ASSUME NEW i \in DOMAIN t.gsis, t.gsis[i] \in {"CREATING", "DELETING"},
                 t2 = [t EXCEPT !.gsis[i] = IF t.gsis[i] = "CREATING" THEN "ACTIVE" ELSE "none"]
          PROVE  t2 \in DynamoTables /\ Settles(t, t2)
      <4> DEFINE new == IF t.gsis[i] = "CREATING" THEN "ACTIVE" ELSE "none"
      <4>1. i \in Range(Indexes)
        BY <1>2 DEF DynamoTables
      <4>2. t # Absent
        <5>1. Absent.gsis[i] = "none"
          BY <4>1 DEF Absent
        <5> HIDE DEF t
        <5> QED BY <3>2, <5>1
      <4>3. t2 \in DynamoTables
        BY <1>2, <3>2 DEF DynamoTables
      <4>4. /\ t2.status = t.status /\ t2.stream = t.stream /\ t2.billing = t.billing /\ t2.ttl = t.ttl
            /\ t2.gsis[i] = new /\ \A j \in Range(Indexes) \ {i} : t2.gsis[j] = t.gsis[j]
        BY <1>2, <3>2, <4>1 DEF DynamoTables
      <4> HIDE DEF t, t2
      <4>5. new \in {"CREATING", "ACTIVE"} <=> t.gsis[i] \in {"CREATING", "ACTIVE"}
        BY <3>2
      <4>6. new # "DELETING"
        OBVIOUS
      <4> HIDE DEF new
      <4>7. Present(t2) = Present(t)
        BY <4>1, <4>4, <4>5 DEF Present
      <4>8. \A j \in Range(Indexes) : t2.gsis[j] = "DELETING" => t.gsis[j] = "DELETING"
        BY <4>1, <4>4, <4>6
      <4> QED BY <1>2, <4>2, <4>3, <4>4, <4>7, <4>8 DEF Settles
    <3> QED BY <1>4, <3>1, <3>2 DEF Settle
  <2>2. \A d \in Drivers : DriverOk(reportsTtl, runs[d], results[d], touched[d], t2)
    <3> SUFFICES ASSUME NEW d \in Drivers PROVE DriverOk(reportsTtl, runs[d], results[d], touched[d], t2)
      OBVIOUS
    <3>1. DriverOk(reportsTtl, runs[d], results[d], touched[d], t)
      BY DEF CourseInv
    <3> HIDE DEF t, t2
    <3> QED BY <2>1, <3>1, SettlingKeeps
  <2>3. t2.status # "absent"
    BY <2>1 DEF Settles
  <2> QED BY <1>1, <2>1, <2>2, <2>3 DEF CourseInv
<1> QED BY <1>3, <1>4

LEMMA CourseInvInit ==
  ASSUME DynamoInit
  PROVE  CourseInv
<1>1. Absent \in DynamoTables
  BY DEF Absent, DynamoTables
<1>2. DriverOk(reportsTtl, NoRun, NoResult, FALSE, dynamoTable)
  <2>1. ~NoResult.success /\ NoResult.why = "" /\ NoResult.target = {}
    BY DEF NoResult
  <2> QED BY <2>1 DEF DriverOk, ResultOk
<1> QED BY <1>1, <1>2 DEF DynamoInit, CourseInv

LEMMA CourseInvNext ==
  ASSUME CourseInv, [DynamoNext]_dynamoVars
  PROVE  CourseInv'
<1>1. CASE Deploy
  BY <1>1 DEF Deploy, CourseInv
<1>2. CASE Settle
  BY <1>2, SettleKeeps
<1>3. ASSUME NEW d \in Drivers, Start(d) \/ DriverStep(d) PROVE CourseInv'
  BY <1>3, StartsKeep, DescribeKeeps, CreateTableKeeps, AddGsiKeeps, DeleteGsiKeeps, UpdatesKeep, UpdateTtlKeeps,
     TableActiveKeeps, IndexActiveKeeps, RecordStepsKeep, RecordedKeeps DEF DriverStep
<1>4. ASSUME NEW d \in Drivers, Crash(d) PROVE CourseInv'
  <2>1. runs' = [runs EXCEPT ![d] = NoRun] /\ NotEnded /\ Deployed /\ Untouched /\ runs[d].pc # "idle"
    BY <1>4 DEF Crash, At
  <2>2. CASE runs[d].pc \in Described
    <3> DEFINE why == "crash"
    <3>1. why \notin {"duplicate", "ttl"}
      OBVIOUS
    <3> HIDE DEF why
    <3> QED BY <2>1, <2>2, <3>1, EndKeeps
  <2>3. CASE runs[d].pc \notin Described
    <3>1. results[d] = NoResult
      BY <2>1, <2>3 DEF CourseInv, DriverOk, NoRun
    <3>2. results' = [results EXCEPT ![d] = NoResult]
      BY <2>1, <3>1 DEF NotEnded, CourseInv
    <3>3. ~NoResult.success /\ NoResult.why = "" /\ NoResult.target = {}
      BY DEF NoResult
    <3>4. DriverOk(reportsTtl, NoRun, NoResult, touched[d], dynamoTable)
      BY <3>3 DEF DriverOk, ResultOk
    <3>5. UNCHANGED <<dynamoTable, reportsTtl, touched>> /\ wanted' \in Definitions
      BY <2>1 DEF Untouched, Deployed, CourseInv
    <3> QED BY <2>1, <3>2, <3>4, <3>5, OwnStepKeeps
  <2> QED BY <2>2, <2>3
<1>5. CASE UNCHANGED dynamoVars
  BY <1>5 DEF dynamoVars, CourseInv
<1> QED BY <1>1, <1>2, <1>3, <1>4, <1>5 DEF DynamoNext

\* Nothing left to do is what a model asks for.
LEMMA NothingLeft ==
  ASSUME NEW target \in Definitions, NEW t \in DynamoTables, reportsTtl \in BOOLEAN, OnCourse(reportsTtl, {}, target, t)
  PROVE  Satisfies(t, target)
<1>1. \A type, i : ~Differs(type, i, t, target)
  <2>1. Differing(t, target) = {}
    BY DEF OnCourse
  <2> QED BY <2>1, DifferingHas
<1>2. t.billing = target.billing
  BY <1>1 DEF Differs
<1>3. t.stream = target.stream
  <2>1. ~Differs(Streaming(target), "", t, target)
    BY <1>1
  <2> QED BY <2>1 DEF Differs
<1>4. \A i \in Range(Indexes) : IF i \in target.gsis THEN t.gsis[i] # "none" ELSE t.gsis[i] \in {"none", "DELETING"}
  <2> SUFFICES ASSUME NEW i \in Range(Indexes)
               PROVE  IF i \in target.gsis THEN t.gsis[i] # "none" ELSE t.gsis[i] \in {"none", "DELETING"}
    OBVIOUS
  <2>1. t.gsis[i] \in {"none", "CREATING", "ACTIVE", "DELETING"}
    BY DEF DynamoTables
  <2>2. ~(i \in target.gsis \ Present(t)) /\ ~(i \in Present(t) \ target.gsis)
    BY <1>1 DEF Differs
  <2> QED BY <2>1, <2>2 DEF Present
<1>5. (reportsTtl \/ target.ttl # NoTtl) => t.ttl = target.ttl
  BY DEF OnCourse, TtlOnCourse
<1> QED BY <1>2, <1>3, <1>4, <1>5 DEF Satisfies, OnCourse

(* Whatever runs side by side, fails, is lost or crashes: a migration that answers *)
(* success leaves the table as its models ask, if nobody else changed it in between *)
(* (migrateModel: describe, plan, execute, record).                              *)
THEOREM SuccessIsTarget == DynamoSpec => []SuccessMeansTarget
<1>1. DynamoInit => CourseInv
  BY CourseInvInit
<1>2. CourseInv /\ [DynamoNext]_dynamoVars => CourseInv'
  BY CourseInvNext
<1>3. CourseInv => SuccessMeansTarget
  <2> SUFFICES ASSUME CourseInv PROVE SuccessMeansTarget
    OBVIOUS
  <2>1. ASSUME NEW d \in Drivers
        PROVE  /\ results[d].success /\ ~touched[d] => \E definition \in results[d].target : Satisfies(dynamoTable, definition)
               /\ results[d].why = "duplicate" => touched[d]
               /\ results[d].why = "ttl" => touched[d] \/ ~reportsTtl \/ dynamoTable.ttl # NoTtl
    <3>1. DriverOk(reportsTtl, runs[d], results[d], touched[d], dynamoTable) /\ dynamoTable \in DynamoTables /\ reportsTtl \in BOOLEAN
      BY DEF CourseInv
    <3>2. CASE results[d] = NoResult
      <4>1. ~NoResult.success /\ NoResult.why = ""
        BY DEF NoResult
      <4> QED BY <3>2, <4>1
    <3>3. CASE ResultOk(reportsTtl, results[d], touched[d], dynamoTable) /\ results[d].target \subseteq Definitions
      BY <3>1, <3>3, NothingLeft DEF ResultOk
    <3> QED BY <3>1, <3>2, <3>3 DEF DriverOk
  <2> QED BY <2>1 DEF SuccessMeansTarget, RefusalsNeedAnother
<1> QED BY <1>1, <1>2, <1>3, PTL DEF DynamoSpec

----------------------------------------------------------------------------
(* Writes of items.  A column an instance was told of, and nobody wrote since, is in   *)
(* the table as the instance holds it saved; so is what a call was answered and has   *)
(* not taken over yet; an item an instance knows, or a read may show, is there or was   *)
(* deleted; what updateOrCreate missed is missing, unless its read was late.           *)
Whole(columns) == columns = [c \in Columns |-> columns[c]]
Stores(its, id, c, v) == \E item \in its[id] : item.columns[c] = v
Made(its, gone, id) == its[id] # {} \/ id \in gone
ItemOk(its, id, halves) ==
  /\ \A x, y \in its[id] : x = y
  /\ \A x \in its[id] : DOMAIN x = {"type", "made", "columns"} /\ Whole(x.columns) /\ (x.type = "" => id \in halves)
PastOk(before, its, gone, id) == \A contents \in before[id] : \A columns \in contents : Whole(columns) /\ Made(its, gone, id)
InstanceOk(x, its, gone, told) ==
  /\ DOMAIN x = {"id", "exists", "attributes", "original"} /\ x.id \in Ids
  /\ Whole(x.attributes) /\ Whole(x.original)
  /\ x.exists => Made(its, gone, x.id)
  /\ told \subseteq Columns /\ \A c \in told : Stores(its, x.id, c, x.original[c])
Reads == {"find", "refresh", "seek"}
CallOk(q, its, gone) ==
  /\ DOMAIN q = {"what", "pc", "on", "new", "id", "values", "read", "since"}
  /\ q.on \in Instances /\ q.id \in Ids /\ q.pc \in {"sent", "done", "failed", "refused"}
  /\ q.what = "create" => Whole(q.values)
  /\ q.what = "update" => DOMAIN q.values # {} /\ DOMAIN q.values \subseteq Columns
  /\ q.what = "create" /\ q.pc = "sent" /\ q.since = {} => its[q.id] = {}
  /\ q.what = "seek" /\ q.pc # "done" => q.since # {}
  /\ q.pc = "refused" => q.since # {}
  /\ q.pc = "done" /\ q.what \in {"create", "update"} =>
       Made(its, gone, q.id) /\ \A c \in (DOMAIN q.values) \ q.since : Stores(its, q.id, c, q.values[c])
  /\ q.pc = "done" /\ q.what \in Reads =>
       /\ \A columns \in q.read : /\ Whole(columns) /\ Made(its, gone, q.id)
                                  /\ \A c \in Columns \ q.since : Stores(its, q.id, c, columns[c])
       /\ q.read = {} /\ q.since = {} => its[q.id] = {}
TableOk == /\ DOMAIN items = Ids /\ \A id \in Ids : ItemOk(items, id, dropped \cup blind)
           /\ DOMAIN past = Ids /\ \A id \in Ids : PastOk(past, items, dropped, id)
InstancesOk == /\ DOMAIN instances = Instances /\ DOMAIN current = Instances /\ DOMAIN overtaken = Instances
               /\ \A i \in Instances : InstanceOk(instances[i], items, dropped, current[i] \ overtaken[i])
CallsOk == DOMAIN requests = MethodCalls /\ \A k \in MethodCalls : requests[k] = NoCall \/ CallOk(requests[k], items, dropped)
OwnerOk(q, x) == (q.new /\ q.what # "update") \/ q.id = x.id
Together(q, r) == q # NoCall /\ r # NoCall /\ q.on = r.on
OwnersOk == /\ \A k \in MethodCalls : requests[k] # NoCall => OwnerOk(requests[k], instances[requests[k].on])
            /\ \A k, l \in MethodCalls : k # l /\ Together(requests[k], requests[l]) => ~requests[k].new
ItemInv == TableOk /\ InstancesOk /\ CallsOk /\ OwnersOk

LEMMA NoCallIs == NoCall.pc = "idle" /\ NoCall.since = {}
BY DEF NoCall

\* What a write does to an item: columns it does not write hold what they held, and
\* an item that was there goes only to be known as deleted.
Spares(its, its2, id, columns) ==
  /\ columns = {} => its2[id] = its[id]
  /\ \A c \in Columns \ columns : \A v : Stores(its, id, c, v) => Stores(its2, id, c, v)
Goes(its, its2, gone, gone2, id) == Made(its, gone, id) => Made(its2, gone2, id)

\* An instance of which less is claimed, and a call that was told of the write, keep
\* their parts.
LEMMA InstanceStays ==
  ASSUME NEW x, NEW its, NEW its2, NEW gone, NEW gone2, NEW told, NEW told2, NEW columns,
         InstanceOk(x, its, gone, told), told2 \subseteq told \ columns,
         Spares(its, its2, x.id, columns), Goes(its, its2, gone, gone2, x.id)
  PROVE  InstanceOk(x, its2, gone2, told2)
<1>1. ASSUME NEW c \in told2 PROVE Stores(its2, x.id, c, x.original[c])
  <2>1. c \in Columns \ columns /\ Stores(its, x.id, c, x.original[c])
    BY DEF InstanceOk
  <2> QED BY <2>1 DEF Spares
<1>2. x.exists => Made(its2, gone2, x.id)
  BY DEF InstanceOk, Goes
<1> QED BY <1>1, <1>2 DEF InstanceOk

SameCall(q, r) == /\ q.what = r.what /\ q.pc = r.pc /\ q.on = r.on /\ q.new = r.new /\ q.id = r.id
                  /\ q.values = r.values /\ q.read = r.read
Tells(r, q, columns) == DOMAIN r = DOMAIN q /\ SameCall(r, q) /\ r.since = q.since \cup columns
LEMMA ToldIs ==
  ASSUME NEW q, DOMAIN q = {"what", "pc", "on", "new", "id", "values", "read", "since"}, NEW columns
  PROVE  Tells([q EXCEPT !.since = @ \cup columns], q, columns)
BY DEF Tells, SameCall
LEMMA CallStays ==
  ASSUME NEW q, NEW its, NEW its2, NEW gone, NEW gone2, NEW columns, NEW r,
         CallOk(q, its, gone), Tells(r, q, columns),
         Spares(its, its2, q.id, columns), Goes(its, its2, gone, gone2, q.id)
  PROVE  CallOk(r, its2, gone2) /\ SameCall(r, q)
<1>1. DOMAIN r = DOMAIN q /\ SameCall(r, q) /\ r.since = q.since \cup columns
  BY DEF Tells
<1>2. /\ DOMAIN r = {"what", "pc", "on", "new", "id", "values", "read", "since"}
      /\ r.on \in Instances /\ r.id \in Ids /\ r.pc \in {"sent", "done", "failed", "refused"}
      /\ r.what = "create" => Whole(r.values)
      /\ r.what = "update" => DOMAIN r.values # {} /\ DOMAIN r.values \subseteq Columns
      /\ r.what = "seek" /\ r.pc # "done" => r.since # {}
      /\ r.pc = "refused" => r.since # {}
  BY <1>1 DEF CallOk, SameCall
<1>3. r.since = {} => q.since = {} /\ its2[q.id] = its[q.id]
  BY <1>1 DEF Spares
<1>4. r.what = "create" /\ r.pc = "sent" /\ r.since = {} => its2[r.id] = {}
  BY <1>1, <1>3 DEF CallOk, SameCall
<1>5. ASSUME r.pc = "done", r.what \in {"create", "update"}, NEW c \in (DOMAIN r.values) \ r.since
      PROVE  Stores(its2, r.id, c, r.values[c])
  <2>1. c \in Columns
    <3>1. CASE r.what = "create"
      BY <1>2, <1>5, <3>1 DEF Whole
    <3>2. CASE r.what = "update"
      BY <1>2, <1>5, <3>2
    <3> QED BY <1>5, <3>1, <3>2
  <2>2. c \in (DOMAIN q.values) \ q.since /\ c \in Columns \ columns
    BY <1>1, <1>5, <2>1 DEF SameCall
  <2>3. Stores(its, q.id, c, q.values[c])
    BY <1>1, <1>5, <2>2 DEF CallOk, SameCall
  <2>4. Stores(its2, q.id, c, q.values[c])
    BY <2>2, <2>3 DEF Spares
  <2> QED BY <1>1, <2>4 DEF SameCall
<1>6. ASSUME r.pc = "done", r.what \in Reads
      PROVE  /\ \A columns2 \in r.read : /\ Whole(columns2) /\ Made(its2, gone2, r.id)
                                         /\ \A c \in Columns \ r.since : Stores(its2, r.id, c, columns2[c])
             /\ r.read = {} /\ r.since = {} => its2[r.id] = {}
  <2>1. q.pc = "done" /\ q.what \in Reads /\ r.read = q.read /\ r.id = q.id
    BY <1>1, <1>6 DEF SameCall
  <2>2. q.read = {} /\ q.since = {} => its[q.id] = {}
    BY <2>1 DEF CallOk
  <2>3. ASSUME NEW read \in q.read
        PROVE  Whole(read) /\ Made(its2, gone2, q.id) /\ \A c \in Columns \ r.since : Stores(its2, q.id, c, read[c])
    <3>1. Whole(read) /\ Made(its, gone, q.id) /\ \A c \in Columns \ q.since : Stores(its, q.id, c, read[c])
      BY <2>1 DEF CallOk
    <3>2. \A c \in Columns \ r.since : c \in Columns \ columns /\ c \in Columns \ q.since
      BY <1>1
    <3> QED BY <3>1, <3>2 DEF Spares, Goes
  <2> QED BY <1>3, <2>1, <2>2, <2>3
<1>7. r.pc = "done" /\ r.what \in {"create", "update"} => Made(its2, gone2, r.id)
  BY <1>1 DEF CallOk, SameCall, Goes
<1>8. CallOk(r, its2, gone2)
  BY <1>2, <1>4, <1>5, <1>6, <1>7 DEF CallOk
<1> QED BY <1>1, <1>8

\* The invariant after whatever writes items, and tells instances and calls of it. The
\* call whose request it was has the answer on its way.
LEMMA WritesKeep ==
  ASSUME ItemInv, NEW touch, NEW moved, moved \subseteq MethodCalls,
         DOMAIN items' = Ids, \A id \in Ids : ItemOk(items', id, dropped' \cup blind'),
         \A id \in Ids : Spares(items, items', id, touch[id]) /\ Goes(items, items', dropped, dropped', id),
         DOMAIN past' = Ids, \A id \in Ids : past'[id] \subseteq past[id] \cup {Contents(id)},
         UNCHANGED <<instances, overtaken>>, DOMAIN current' = Instances,
         \A i \in Instances : current'[i] = current[i] \ touch[instances[i].id],
         DOMAIN requests' = MethodCalls,
         \A k \in MethodCalls \ moved :
           IF requests[k] = NoCall THEN requests'[k] = NoCall ELSE Tells(requests'[k], requests[k], touch[requests[k].id]),
         \A k \in moved : /\ requests[k] # NoCall /\ CallOk(requests'[k], items', dropped')
                          /\ requests'[k].on = requests[k].on /\ requests'[k].new = requests[k].new
                          /\ requests'[k].id = requests[k].id /\ requests'[k].what = requests[k].what
  PROVE  ItemInv'
<1>1. TableOk'
  <2>1. ASSUME NEW id \in Ids PROVE PastOk(past', items', dropped', id)
    <3>1. ASSUME NEW contents \in past'[id], NEW columns \in contents
          PROVE  Whole(columns) /\ Made(items', dropped', id)
      <4>1. CASE contents \in past[id]
        BY <3>1, <4>1 DEF ItemInv, TableOk, PastOk, Goes
      <4>2. CASE contents = Contents(id)
        <5>1. PICK item \in items[id] : columns = item.columns
          BY <3>1, <4>2 DEF Contents
        <5>2. Whole(columns) /\ Made(items, dropped, id)
          BY <5>1 DEF ItemInv, TableOk, ItemOk, Made
        <5> QED BY <5>2 DEF Goes
      <4> QED BY <3>1, <4>1, <4>2
    <3> QED BY <3>1 DEF PastOk
  <2> QED BY <2>1 DEF TableOk
<1>2. InstancesOk'
  <2>1. ASSUME NEW i \in Instances
        PROVE  InstanceOk(instances'[i], items', dropped', current'[i] \ overtaken'[i])
    <3> DEFINE x == instances[i]
    <3>1. InstanceOk(x, items, dropped, current[i] \ overtaken[i]) /\ x.id \in Ids
      BY DEF ItemInv, InstancesOk, InstanceOk
    <3>2. current'[i] \ overtaken'[i] \subseteq (current[i] \ overtaken[i]) \ touch[x.id]
      OBVIOUS
    <3>3. Spares(items, items', x.id, touch[x.id]) /\ Goes(items, items', dropped, dropped', x.id)
      BY <3>1
    <3>4. instances'[i] = x
      OBVIOUS
    <3> HIDE DEF x
    <3> QED BY ONLY <3>1, <3>2, <3>3, <3>4, InstanceStays
  <2> QED BY <2>1 DEF InstancesOk, ItemInv
<1>3. ASSUME NEW k \in MethodCalls
      PROVE  /\ requests'[k] = NoCall \/ CallOk(requests'[k], items', dropped')
             /\ requests'[k] = NoCall <=> requests[k] = NoCall
             /\ requests[k] # NoCall => /\ requests'[k].on = requests[k].on /\ requests'[k].new = requests[k].new
                                        /\ requests'[k].id = requests[k].id /\ requests'[k].what = requests[k].what
  <2>1. CASE k \in moved
    BY <2>1, NoCallIs DEF CallOk
  <2>2. CASE k \notin moved /\ requests[k] = NoCall
    BY <2>2
  <2>3. CASE k \notin moved /\ requests[k] # NoCall
    <3> DEFINE q == requests[k]
    <3>1. CallOk(q, items, dropped) /\ q.id \in Ids
      BY <2>3 DEF ItemInv, CallsOk, CallOk
    <3>2. Tells(requests'[k], q, touch[q.id])
      BY <2>3
    <3>3. Spares(items, items', q.id, touch[q.id]) /\ Goes(items, items', dropped, dropped', q.id)
      BY <3>1
    <3> HIDE DEF q
    <3>4. CallOk(requests'[k], items', dropped') /\ SameCall(requests'[k], q)
      BY ONLY <3>1, <3>2, <3>3, CallStays
    <3> QED BY <2>3, <3>4, NoCallIs DEF q, CallOk, SameCall
  <2> QED BY <2>1, <2>2, <2>3
<1>4. CallsOk'
  BY <1>3 DEF CallsOk
<1>5. OwnersOk'
  <2>1. ASSUME NEW k \in MethodCalls, requests'[k] # NoCall
        PROVE  OwnerOk(requests'[k], instances'[requests'[k].on])
    <3>1. requests[k] # NoCall
      BY <1>3, <2>1
    <3>2. OwnerOk(requests[k], instances[requests[k].on])
      BY <3>1 DEF ItemInv, OwnersOk
    <3>3. instances' = instances
      OBVIOUS
    <3> QED BY <1>3, <3>1, <3>2, <3>3 DEF OwnerOk
  <2>2. ASSUME NEW k \in MethodCalls, NEW l \in MethodCalls, k # l, Together(requests'[k], requests'[l])
        PROVE  ~requests'[k].new
    <3>1. Together(requests[k], requests[l])
      BY <1>3, <2>2 DEF Together
    <3>2. ~requests[k].new
      BY <2>2, <3>1 DEF ItemInv, OwnersOk
    <3> QED BY <1>3, <3>1, <3>2 DEF Together
  <2> QED BY <2>1, <2>2 DEF OwnersOk
<1> QED BY <1>1, <1>2, <1>4, <1>5 DEF ItemInv

\* What each write leaves of an item.
LEMMA PutIs ==
  ASSUME NEW its, NEW id, NEW columns, its[id] = Put(id, columns), Whole(columns)
  PROVE  /\ its[id] # {} /\ \A halves : ItemOk(its, id, halves)
         /\ \A c : Stores(its, id, c, columns[c])
<1> DEFINE new == Item("model", clock, columns)
<1>1. new.columns = columns /\ new.type # "" /\ DOMAIN new = {"type", "made", "columns"}
  BY DEF Item
<1>2. its[id] = {new}
  BY DEF Put
<1> HIDE DEF new
<1> QED BY <1>1, <1>2 DEF ItemOk, Stores

LEMMA NoneIs ==
  ASSUME NEW its, NEW id, its[id] = {}
  PROVE  \A halves : ItemOk(its, id, halves)
BY DEF ItemOk

LEMMA WithValuesIs ==
  ASSUME ItemInv, NEW id \in Ids, NEW values, NEW its, its[id] = WithValues(id, values)
  PROVE  /\ its[id] # {}
         /\ \A halves : (\A x \in items[id] : x.type = "" => id \in halves) /\ (items[id] # {} \/ id \in halves)
              => ItemOk(its, id, halves)
         /\ \A c \in Columns \cap DOMAIN values : Stores(its, id, c, values[c])
         /\ \A c \in Columns \ DOMAIN values : \A v : Stores(items, id, c, v) => Stores(its, id, c, v)
<1>1. ItemOk(items, id, dropped \cup blind)
  BY DEF ItemInv, TableOk
<1> DEFINE was == items[id]
           Changed(x) == Item(x.type, x.made, Over(x.columns, values))
<1>2. its[id] = IF was = {} THEN {Item("", 0, Over(Nothing, values))} ELSE {Changed(x) : x \in was}
  BY DEF WithValues
<1>3. /\ \A old : Whole(Over(old, values))
      /\ \A old : \A c \in Columns : Over(old, values)[c] = IF c \in DOMAIN values THEN values[c] ELSE old[c]
  BY DEF Whole, Over
<1>4. \A type, made, columns : /\ Item(type, made, columns).columns = columns /\ Item(type, made, columns).type = type
                               /\ Item(type, made, columns).made = made
                               /\ DOMAIN Item(type, made, columns) = {"type", "made", "columns"}
  BY DEF Item
<1>5. CASE was = {}
  <2> DEFINE new == Item("", 0, Over(Nothing, values))
  <2>1. new.columns = Over(Nothing, values) /\ new.type = "" /\ DOMAIN new = {"type", "made", "columns"}
    BY ONLY <1>4
  <2>2. its[id] = {new}
    BY <1>2, <1>5
  <2> HIDE DEF new
  <2>3. Whole(new.columns) /\ \A c \in Columns \cap DOMAIN values : new.columns[c] = values[c]
    BY <1>3, <2>1
  <2>4. \A halves : id \in halves => ItemOk(its, id, halves)
    BY <2>1, <2>2, <2>3 DEF ItemOk
  <2>5. \A c \in Columns \cap DOMAIN values : Stores(its, id, c, values[c])
    BY <2>2, <2>3 DEF Stores
  <2> QED BY <1>5, <2>2, <2>4, <2>5 DEF Stores
<1>6. CASE was # {}
  <2>1. PICK x : was = {x} /\ DOMAIN x = {"type", "made", "columns"}
    BY <1>1, <1>6 DEF ItemOk
  <2> DEFINE new == Changed(x)
  <2>2. its[id] = {new}
    BY <1>2, <2>1
  <2>3. Whole(new.columns) /\ DOMAIN new = {"type", "made", "columns"} /\ new.type = x.type /\ new.made = x.made
    BY <1>3, <1>4
  <2>4. \A c \in Columns : new.columns[c] = IF c \in DOMAIN values THEN values[c] ELSE x.columns[c]
    BY <1>3, <1>4
  <2> HIDE DEF new
  <2>5. \A halves : (x.type = "" => id \in halves) => ItemOk(its, id, halves)
    BY <2>2, <2>3 DEF ItemOk
  <2>6. \A c \in Columns \cap DOMAIN values : Stores(its, id, c, values[c])
    BY <2>2, <2>4 DEF Stores
  <2>7. \A c \in Columns \ DOMAIN values : \A v : Stores(items, id, c, v) => Stores(its, id, c, v)
    BY <2>1, <2>2, <2>4 DEF Stores
  <2> QED BY <2>1, <2>2, <2>3, <2>5, <2>6, <2>7
<1> QED BY <1>5, <1>6

\* One item is written: of the others nothing is claimed anew, and everyone who has to
\* do with this one is told.
LEMMA OneWrite ==
  ASSUME ItemInv, NEW id \in Ids, NEW new, NEW columns, columns # {}, WriteItem(id, new, columns),
         ItemOk(items', id, dropped' \cup blind'), blind \subseteq blind',
         \A c \in Columns \ columns : \A v : Stores(items, id, c, v) => Stores(items', id, c, v),
         UNCHANGED <<instances, overtaken>>, NEW moved, moved \subseteq MethodCalls, DOMAIN requests' = MethodCalls,
         \A k \in MethodCalls \ moved : requests'[k] = Seen(id, columns)[k],
         \A k \in moved : /\ requests[k] # NoCall /\ CallOk(requests'[k], items', dropped')
                          /\ requests'[k].on = requests[k].on /\ requests'[k].new = requests[k].new
                          /\ requests'[k].id = requests[k].id /\ requests'[k].what = requests[k].what
  PROVE  ItemInv'
<1> DEFINE touch == [x \in Ids |-> IF x = id THEN columns ELSE {}]
<1>1. /\ DOMAIN items' = Ids /\ items'[id] = new /\ \A x \in Ids \ {id} : items'[x] = items[x]
      /\ DOMAIN past' = Ids /\ \A x \in Ids : past'[x] \subseteq past[x] \cup {Contents(x)}
      /\ dropped \subseteq dropped' /\ (new = {} /\ items[id] # {} => id \in dropped')
  BY DEF WriteItem, ItemInv, TableOk
<1>2. ASSUME NEW x \in Ids
      PROVE  /\ ItemOk(items', x, dropped' \cup blind')
             /\ Spares(items, items', x, touch[x]) /\ Goes(items, items', dropped, dropped', x)
  <2>1. CASE x = id
    BY <1>1, <2>1 DEF Spares, Goes, Made
  <2>2. CASE x # id
    <3>1. items'[x] = items[x] /\ ItemOk(items, x, dropped \cup blind)
      BY <1>1, <2>2 DEF ItemInv, TableOk
    <3>2. ItemOk(items', x, dropped' \cup blind')
      BY <1>1, <3>1 DEF ItemOk
    <3>3. Spares(items, items', x, touch[x]) /\ Goes(items, items', dropped, dropped', x)
      BY <1>1, <3>1 DEF Spares, Goes, Made, Stores
    <3> QED BY <3>2, <3>3
  <2> QED BY <2>1, <2>2
<1>3. DOMAIN current' = Instances /\ \A i \in Instances : current'[i] = current[i] \ touch[instances[i].id]
  <2>1. \A i \in Instances : instances[i].id \in Ids
    BY DEF ItemInv, InstancesOk, InstanceOk
  <2> QED BY <2>1 DEF WriteItem
<1>4. ASSUME NEW k \in MethodCalls \ moved
      PROVE  IF requests[k] = NoCall THEN requests'[k] = NoCall ELSE Tells(requests'[k], requests[k], touch[requests[k].id])
  <2>1. requests'[k] = IF requests[k] # NoCall /\ requests[k].id = id
                       THEN [requests[k] EXCEPT !.since = @ \cup columns] ELSE requests[k]
    BY DEF Seen
  <2>2. CASE requests[k] # NoCall
    <3>1. requests[k].id \in Ids /\ DOMAIN requests[k] = {"what", "pc", "on", "new", "id", "values", "read", "since"}
      BY <2>2 DEF ItemInv, CallsOk, CallOk
    <3>2. CASE requests[k].id = id
      BY <2>1, <2>2, <3>1, <3>2, ToldIs
    <3>3. CASE requests[k].id # id
      BY <2>1, <2>2, <3>1, <3>3 DEF Tells, SameCall
    <3> QED BY <3>2, <3>3
  <2> QED BY <2>1, <2>2
<1> HIDE DEF touch
<1> QED BY <1>1, <1>2, <1>3, <1>4, WritesKeep

\* A request takes effect, and its answer comes or is lost.
LEMMA EffectKeeps ==
  ASSUME ItemInv, NEW k \in MethodCalls, NEW new, NEW columns, columns # {},
         requests[k].pc = "sent", requests[k].what \in {"create", "update", "delete"}, Effect(k, new, columns),
         ItemOk(items', requests[k].id, dropped' \cup blind'), blind \subseteq blind',
         \A c \in Columns \ columns : \A v : Stores(items, requests[k].id, c, v) => Stores(items', requests[k].id, c, v),
         requests[k].what # "delete" => items'[requests[k].id] # {} /\
           \A c \in DOMAIN requests[k].values : Stores(items', requests[k].id, c, requests[k].values[c])
  PROVE  ItemInv'
<1> DEFINE q == requests[k]
           id == q.id
<1>1. CallOk(q, items, dropped) /\ id \in Ids /\ q # NoCall
  BY NoCallIs DEF ItemInv, CallsOk, CallOk
<1>2. PICK pc \in {"done", "failed"} : requests' = [Seen(id, columns) EXCEPT ![k] = [q EXCEPT !.pc = pc, !.since = {}]]
  BY DEF Effect
<1> DEFINE r == [q EXCEPT !.pc = pc, !.since = {}]
<1>3. /\ DOMAIN r = DOMAIN q /\ r.pc = pc /\ r.since = {} /\ r.what = q.what /\ r.on = q.on /\ r.new = q.new
      /\ r.id = q.id /\ r.values = q.values
  BY <1>1 DEF CallOk
<1>4. DOMAIN requests' = MethodCalls /\ requests'[k] = r /\ \A l \in MethodCalls \ {k} : requests'[l] = Seen(id, columns)[l]
  BY <1>2 DEF Seen
<1> DEFINE its2 == items'
           gone2 == dropped'
<1>5. CallOk(r, its2, gone2)
  <2>1. q.what # "delete" => Made(its2, gone2, id) /\ \A c \in DOMAIN q.values : Stores(its2, id, c, q.values[c])
    BY DEF Made
  <2>2. q.what \in {"create", "update", "delete"}
    OBVIOUS
  <2> HIDE DEF r, its2, gone2, q
  <2> QED BY ONLY <1>1, <1>2, <1>3, <2>1, <2>2 DEF CallOk, Reads, id
<1>6. CallOk(requests'[k], items', dropped')
  BY <1>4, <1>5
<1> HIDE DEF r, its2, gone2
<1>7. WriteItem(id, new, columns) /\ UNCHANGED <<instances, overtaken>>
  BY DEF Effect
<1> DEFINE moved == {k}
<1>8. \A l \in moved : /\ requests[l] # NoCall /\ CallOk(requests'[l], items', dropped')
                       /\ requests'[l].on = requests[l].on /\ requests'[l].new = requests[l].new
                       /\ requests'[l].id = requests[l].id /\ requests'[l].what = requests[l].what
  BY <1>1, <1>3, <1>4, <1>6
<1>9. moved \subseteq MethodCalls /\ \A l \in MethodCalls \ moved : requests'[l] = Seen(id, columns)[l]
  BY <1>4
<1>10. /\ ItemOk(items', id, dropped' \cup blind') /\ blind \subseteq blind' /\ id \in Ids
       /\ \A c \in Columns \ columns : \A v : Stores(items, id, c, v) => Stores(items', id, c, v)
       /\ DOMAIN requests' = MethodCalls /\ ItemInv /\ columns # {}
  BY <1>1, <1>4
<1> HIDE DEF moved, id, q
<1> QED BY ONLY <1>7, <1>8, <1>9, <1>10, OneWrite

LEMMA PutItemKeeps ==
  ASSUME ItemInv, NEW k \in MethodCalls, PutItem(k), AttributeNotExists(requests[k].id)
  PROVE  ItemInv'
<1> DEFINE id == requests[k].id
           values == requests[k].values
<1>1. Sent(k, "create") /\ Effect(k, Put(id, values), Columns) /\ UNCHANGED blind
  BY DEF PutItem
<1>2. requests[k].pc = "sent" /\ requests[k].what = "create" /\ CallOk(requests[k], items, dropped)
  BY <1>1, NoCallIs DEF Sent, ItemInv, CallsOk
<1>3. id \in Ids /\ Whole(values)
  BY <1>2 DEF CallOk
<1>4. items'[id] = Put(id, values)
  BY <1>1, <1>3 DEF Effect, WriteItem, ItemInv, TableOk
<1>5. items'[id] # {} /\ ItemOk(items', id, dropped' \cup blind') /\ \A c : Stores(items', id, c, values[c])
  BY <1>3, <1>4, PutIs
<1> QED BY <1>1, <1>2, <1>5, EffectKeeps, DynamoItemsAssumption

LEMMA UpdateItemKeeps ==
  ASSUME ItemInv, NEW k \in MethodCalls, UpdateItem(k)
  PROVE  ItemInv'
<1> DEFINE id == requests[k].id
           values == requests[k].values
<1>1. Sent(k, "update") /\ Effect(k, WithValues(id, values), DOMAIN values)
  BY DEF UpdateItem
<1>2. requests[k].pc = "sent" /\ requests[k].what = "update" /\ CallOk(requests[k], items, dropped) /\ requests[k] # NoCall
  BY <1>1, NoCallIs DEF Sent, ItemInv, CallsOk
<1>3. id \in Ids /\ DOMAIN values # {} /\ DOMAIN values \subseteq Columns
  BY <1>2 DEF CallOk
<1>4. items'[id] = WithValues(id, values)
  BY <1>1, <1>3 DEF Effect, WriteItem, ItemInv, TableOk
<1>5. dropped \subseteq dropped' /\ blind \subseteq blind' /\ (items[id] # {} \/ id \in dropped' \cup blind')
  <2>1. dropped \subseteq dropped' /\ blind \subseteq blind'
    BY <1>1 DEF Effect, WriteItem, UpdateItem
  <2>2. CASE items[id] = {} /\ instances[requests[k].on].exists
    <3> DEFINE i == requests[k].on
    <3>1. i \in Instances /\ instances[i].id = id
      BY <1>2 DEF ItemInv, OwnersOk, OwnerOk, CallOk
    <3>2. InstanceOk(instances[i], items, dropped, current[i] \ overtaken[i])
      BY <3>1 DEF ItemInv, InstancesOk
    <3>3. Made(items, dropped, id)
      BY <2>2, <3>1, <3>2 DEF InstanceOk
    <3> QED BY <2>1, <2>2, <3>3 DEF Made
  <2>3. CASE items[id] = {} /\ ~instances[requests[k].on].exists
    BY <2>1, <2>3 DEF UpdateItem
  <2> QED BY <2>1, <2>2, <2>3
<1>6. \A x \in items[id] : x.type = "" => id \in dropped' \cup blind'
  BY <1>3, <1>5 DEF ItemInv, TableOk, ItemOk
<1>7. /\ items'[id] # {} /\ ItemOk(items', id, dropped' \cup blind')
      /\ \A c \in DOMAIN values : Stores(items', id, c, values[c])
      /\ \A c \in Columns \ DOMAIN values : \A v : Stores(items, id, c, v) => Stores(items', id, c, v)
  BY <1>3, <1>4, <1>5, <1>6, WithValuesIs
<1> QED BY <1>1, <1>2, <1>3, <1>5, <1>7, EffectKeeps

LEMMA DeleteItemKeeps ==
  ASSUME ItemInv, NEW k \in MethodCalls, DeleteItem(k)
  PROVE  ItemInv'
<1> DEFINE id == requests[k].id
<1>1. Sent(k, "delete") /\ Effect(k, {}, Columns) /\ UNCHANGED blind
  BY DEF DeleteItem
<1>2. requests[k].pc = "sent" /\ requests[k].what = "delete" /\ CallOk(requests[k], items, dropped)
  BY <1>1, NoCallIs DEF Sent, ItemInv, CallsOk
<1>3. id \in Ids
  BY <1>2 DEF CallOk
<1>4. items'[id] = {}
  BY <1>1, <1>3 DEF Effect, WriteItem, ItemInv, TableOk
<1>5. ItemOk(items', id, dropped' \cup blind')
  BY <1>4, NoneIs
<1> QED BY <1>1, <1>2, <1>5, EffectKeeps, DynamoItemsAssumption

\* The invariant where no item is written: calls move, and one instance at most.
LEMMA MovesKeep ==
  ASSUME ItemInv, UNCHANGED <<items, past, dropped, blind>>, NEW i, NEW moved,
         DOMAIN instances' = Instances, DOMAIN current' = Instances, DOMAIN overtaken' = Instances,
         \A j \in Instances \ {i} : instances'[j] = instances[j] /\ current'[j] = current[j] /\ overtaken'[j] = overtaken[j],
         i \in Instances => InstanceOk(instances'[i], items, dropped, current'[i] \ overtaken'[i]),
         DOMAIN requests' = MethodCalls, \A l \in MethodCalls \ moved : requests'[l] = requests[l],
         \A l \in MethodCalls \cap moved :
           \/ requests'[l] = NoCall
           \/ /\ CallOk(requests'[l], items, dropped) /\ OwnerOk(requests'[l], instances'[requests'[l].on])
              /\ \A k \in MethodCalls \ {l} : Together(requests'[l], requests'[k]) => ~requests'[l].new /\ ~requests'[k].new,
         i \in Instances => \/ instances'[i].id = instances[i].id
                            \/ \A l \in MethodCalls \ moved : requests[l] # NoCall => requests[l].on # i
  PROVE  ItemInv'
<1>1. TableOk'
  BY DEF ItemInv, TableOk, PastOk, ItemOk
<1>2. InstancesOk'
  <2>1. ASSUME NEW j \in Instances PROVE InstanceOk(instances'[j], items, dropped, current'[j] \ overtaken'[j])
    BY DEF ItemInv, InstancesOk
  <2> QED BY <2>1 DEF InstancesOk
<1>3. CallsOk'
  <2>1. ASSUME NEW l \in MethodCalls PROVE requests'[l] = NoCall \/ CallOk(requests'[l], items, dropped)
    BY DEF ItemInv, CallsOk
  <2> QED BY <2>1 DEF CallsOk
<1>4. ASSUME NEW l \in MethodCalls, requests'[l] # NoCall
      PROVE  OwnerOk(requests'[l], instances'[requests'[l].on])
  <2>1. CASE l \in moved
    BY <1>4, <2>1
  <2>2. CASE l \notin moved
    <3> DEFINE j == requests[l].on
    <3>1. requests'[l] = requests[l] /\ j \in Instances /\ OwnerOk(requests[l], instances[j])
      BY <1>4, <2>2 DEF ItemInv, CallsOk, CallOk, OwnersOk
    <3>2. instances'[j].id = instances[j].id
      BY <1>4, <2>2, <3>1
    <3> QED BY <3>1, <3>2 DEF OwnerOk
  <2> QED BY <2>1, <2>2
<1>5. ASSUME NEW k \in MethodCalls, NEW l \in MethodCalls, k # l, Together(requests'[k], requests'[l])
      PROVE  ~requests'[k].new
  <2>1. CASE k \in moved
    BY <1>5, <2>1 DEF Together
  <2>2. CASE k \notin moved /\ l \in moved
    <3>1. Together(requests'[l], requests'[k])
      BY <1>5 DEF Together
    <3> QED BY <1>5, <2>2, <3>1 DEF Together
  <2>3. CASE k \notin moved /\ l \notin moved
    BY <1>5, <2>3 DEF ItemInv, OwnersOk
  <2> QED BY <2>1, <2>2, <2>3
<1> QED BY <1>1, <1>2, <1>3, <1>4, <1>5 DEF ItemInv, OwnersOk

\* An answer: the instance the call is on takes what it was told, and the call ends or
\* goes on.
LEMMA AnswersKeep ==
  ASSUME ItemInv, UNCHANGED <<items, past, dropped, blind>>, NEW k \in MethodCalls, requests[k] # NoCall,
         NEW q, requests' = [requests EXCEPT ![k] = q],
         DOMAIN instances' = Instances, DOMAIN current' = Instances, DOMAIN overtaken' = Instances,
         \A j \in Instances \ {requests[k].on} :
           instances'[j] = instances[j] /\ current'[j] = current[j] /\ overtaken'[j] = overtaken[j],
         LET i == requests[k].on IN
           /\ InstanceOk(instances'[i], items, dropped, current'[i] \ overtaken'[i])
           /\ instances'[i].id \in {instances[i].id, requests[k].id}
           /\ q = NoCall \/ (CallOk(q, items, dropped) /\ q.on = i /\ q.new = requests[k].new /\ OwnerOk(q, instances'[i]))
  PROVE  ItemInv'
<1> DEFINE i == requests[k].on
           moved == {k}
<1>1. requests'[k] = q /\ DOMAIN requests' = MethodCalls /\ \A l \in MethodCalls \ moved : requests'[l] = requests[l]
  BY DEF ItemInv, CallsOk
<1>2. ASSUME requests[k].new, NEW l \in MethodCalls \ moved, requests[l] # NoCall PROVE requests[l].on # i
  BY <1>2 DEF ItemInv, OwnersOk, Together
<1>3. ASSUME ~requests[k].new PROVE instances'[i].id = instances[i].id
  <2>1. OwnerOk(requests[k], instances[i])
    BY DEF ItemInv, OwnersOk
  <2> QED BY <1>3, <2>1 DEF OwnerOk
<1>4. instances'[i].id = instances[i].id \/ \A l \in MethodCalls \ moved : requests[l] # NoCall => requests[l].on # i
  BY <1>2, <1>3
<1>5. ASSUME q # NoCall, NEW l \in MethodCalls \ {k}, Together(q, requests[l]) PROVE ~q.new /\ ~requests[l].new
  <2>1. Together(requests[k], requests[l])
    BY <1>5 DEF Together
  <2>2. Together(requests[l], requests[k])
    BY <2>1 DEF Together
  <2>3. ~requests[k].new /\ ~requests[l].new
    BY <2>1, <2>2 DEF ItemInv, OwnersOk
  <2> QED BY <1>5, <2>3
<1>6. \A l \in MethodCalls \cap moved :
        \/ requests'[l] = NoCall
        \/ /\ CallOk(requests'[l], items, dropped) /\ OwnerOk(requests'[l], instances'[requests'[l].on])
           /\ \A m \in MethodCalls \ {l} : Together(requests'[l], requests'[m]) => ~requests'[l].new /\ ~requests'[m].new
  BY <1>1, <1>5
<1>7. InstanceOk(instances'[i], items, dropped, current'[i] \ overtaken'[i])
  OBVIOUS
<1>8. \A j \in Instances \ {i} : instances'[j] = instances[j] /\ current'[j] = current[j] /\ overtaken'[j] = overtaken[j]
  OBVIOUS
<1> HIDE DEF i, moved
<1> QED BY <1>1, <1>4, <1>6, <1>7, <1>8, MovesKeep

\* The service's answer is on its way, and nothing else moved.
LEMMA ReplyKeeps ==
  ASSUME ItemInv, UNCHANGED <<items, past, dropped, blind, instances, current, overtaken>>, NEW k \in MethodCalls,
         requests[k] # NoCall, NEW q, requests' = [requests EXCEPT ![k] = q], CallOk(q, items, dropped),
         q.on = requests[k].on, q.new = requests[k].new, q.id = requests[k].id, q.what # "update" \/ requests[k].what = "update"
  PROVE  ItemInv'
<1> DEFINE i == requests[k].on
<1>1. i \in Instances /\ OwnerOk(requests[k], instances[i]) /\ DOMAIN instances = Instances
      /\ DOMAIN current = Instances /\ DOMAIN overtaken = Instances
      /\ InstanceOk(instances[i], items, dropped, current[i] \ overtaken[i])
  BY DEF ItemInv, OwnersOk, CallsOk, CallOk, InstancesOk
<1>2. OwnerOk(q, instances[i])
  BY <1>1 DEF OwnerOk
<1> QED BY <1>1, <1>2, AnswersKeep

LEMMA RefusedKeeps ==
  ASSUME ItemInv, NEW k \in MethodCalls, PutItem(k), ~AttributeNotExists(requests[k].id)
  PROVE  ItemInv'
<1> DEFINE q == requests[k]
           r == [q EXCEPT !.pc = "refused"]
<1>1. q.pc = "sent" /\ q.what = "create" /\ requests' = [requests EXCEPT ![k] = r] /\ UNCHANGED <<stored, owned>>
  BY DEF PutItem, Sent
<1>2. CallOk(q, items, dropped) /\ q # NoCall /\ items[q.id] # {}
  BY <1>1, NoCallIs DEF ItemInv, CallsOk, AttributeNotExists
<1>3. /\ DOMAIN r = DOMAIN q /\ r.pc = "refused" /\ r.since = q.since /\ r.what = q.what /\ r.on = q.on /\ r.new = q.new
      /\ r.id = q.id /\ r.values = q.values
  BY <1>2 DEF CallOk
<1> HIDE DEF q, r
<1>4. CallOk(r, items, dropped)
  BY <1>1, <1>2, <1>3 DEF CallOk, Reads
<1> QED BY <1>1, <1>2, <1>3, <1>4, ReplyKeeps DEF q, stored, owned

LEMMA LostKeeps ==
  ASSUME ItemInv, NEW k \in MethodCalls, Lost(k)
  PROVE  ItemInv'
<1> DEFINE q == requests[k]
           r == [q EXCEPT !.pc = "failed"]
<1>1. q.pc = "sent" /\ requests' = [requests EXCEPT ![k] = r] /\ UNCHANGED <<stored, owned>>
  BY DEF Lost
<1>2. CallOk(q, items, dropped) /\ q # NoCall
  BY <1>1, NoCallIs DEF ItemInv, CallsOk
<1>3. /\ DOMAIN r = DOMAIN q /\ r.pc = "failed" /\ r.since = q.since /\ r.what = q.what /\ r.on = q.on /\ r.new = q.new
      /\ r.id = q.id /\ r.values = q.values
  BY <1>2 DEF CallOk
<1> HIDE DEF q, r
<1>4. CallOk(r, items, dropped)
  BY <1>1, <1>2, <1>3 DEF CallOk, Reads
<1> QED BY <1>1, <1>2, <1>3, <1>4, ReplyKeeps DEF q, stored, owned

\* A read shows the item as it is, or as it was.
LEMMA GetItemKeeps ==
  ASSUME ItemInv, NEW k \in MethodCalls, GetItem(k)
  PROVE  ItemInv'
<1> DEFINE q == requests[k]
           id == q.id
<1>1. q.pc = "sent" /\ q.what \in Reads /\ UNCHANGED <<stored, owned>>
  BY DEF GetItem, Reads
<1>2. CallOk(q, items, dropped) /\ q # NoCall /\ id \in Ids
  BY <1>1, NoCallIs DEF ItemInv, CallsOk, CallOk
<1>3. PICK seen \in {Contents(id)} \cup past[id] :
        requests' = [requests EXCEPT ![k].pc = "done", ![k].read = seen,
                                     ![k].since = IF seen = Contents(id) THEN {} ELSE Columns]
  BY DEF GetItem
<1> DEFINE since == IF seen = Contents(id) THEN {} ELSE Columns
           r == [q EXCEPT !.pc = "done", !.read = seen, !.since = since]
<1>4. requests' = [requests EXCEPT ![k] = r]
  BY <1>2, <1>3 DEF ItemInv, CallsOk
<1>5. /\ DOMAIN r = DOMAIN q /\ r.pc = "done" /\ r.since = since /\ r.read = seen
      /\ r.what = q.what /\ r.on = q.on /\ r.new = q.new /\ r.id = q.id /\ r.values = q.values
  BY <1>2 DEF CallOk
<1>6. /\ \A columns \in seen : /\ Whole(columns) /\ Made(items, dropped, id)
                               /\ \A c \in Columns \ since : Stores(items, id, c, columns[c])
      /\ seen = {} /\ since = {} => items[id] = {}
  <2>1. ItemOk(items, id, dropped \cup blind) /\ PastOk(past, items, dropped, id)
    BY <1>2 DEF ItemInv, TableOk
  <2>2. CASE seen = Contents(id)
    BY <2>1, <2>2 DEF ItemOk, Contents, Made, Stores
  <2>3. CASE seen # Contents(id)
    <3>1. seen \in past[id] /\ since = Columns /\ Columns # {}
      BY <2>3, DynamoItemsAssumption
    <3> HIDE DEF since
    <3> QED BY <2>1, <3>1 DEF PastOk
  <2> QED BY <2>2, <2>3
<1> HIDE DEF q, r, since
<1>7. CallOk(r, items, dropped)
  BY <1>1, <1>2, <1>5, <1>6 DEF CallOk, Reads, id
<1> QED BY <1>1, <1>2, <1>4, <1>5, <1>7, ReplyKeeps DEF q, stored, owned, Reads

\* What an instance has become of an answer.
LEMMA BecomesKeeps ==
  ASSUME ItemInv, UNCHANGED <<items, past, dropped, blind>>, NEW k \in MethodCalls, requests[k] # NoCall,
         NEW q, requests' = [requests EXCEPT ![k] = q], NEW x, NEW told, Becomes(requests[k].on, x, told),
         InstanceOk(x, items, dropped, told), x.id = requests[k].id,
         q = NoCall \/ (CallOk(q, items, dropped) /\ q.on = requests[k].on /\ q.new = requests[k].new /\ OwnerOk(q, x))
  PROVE  ItemInv'
<1> DEFINE i == requests[k].on
<1>1. i \in Instances /\ DOMAIN instances = Instances /\ DOMAIN current = Instances /\ DOMAIN overtaken = Instances
  BY DEF ItemInv, CallsOk, CallOk, InstancesOk
<1>2. instances'[i] = x /\ current'[i] = told /\ overtaken'[i] = {}
  BY <1>1 DEF Becomes
<1>3. current'[i] \ overtaken'[i] = told
  BY <1>2
<1>4. /\ DOMAIN instances' = Instances /\ DOMAIN current' = Instances /\ DOMAIN overtaken' = Instances
      /\ \A j \in Instances \ {i} : instances'[j] = instances[j] /\ current'[j] = current[j] /\ overtaken'[j] = overtaken[j]
  BY <1>1 DEF Becomes
<1> QED BY <1>2, <1>3, <1>4, AnswersKeep

LEMMA KnownIs ==
  ASSUME NEW id, NEW columns
  PROVE  /\ DOMAIN Known(id, columns) = {"id", "exists", "attributes", "original"} /\ Known(id, columns).id = id
         /\ Known(id, columns).attributes = columns /\ Known(id, columns).original = columns
BY DEF Known, Fresh

\* An answer that changes no instance ends a call.
LEMMA EndKeepsItems ==
  ASSUME ItemInv, NEW k \in MethodCalls, requests[k] # NoCall, UNCHANGED <<items, past, dropped, blind>>, Ends(k),
         UNCHANGED owned
  PROVE  ItemInv'
<1> DEFINE i == requests[k].on
<1>1. i \in Instances /\ DOMAIN instances = Instances /\ DOMAIN current = Instances /\ DOMAIN overtaken = Instances
      /\ InstanceOk(instances[i], items, dropped, current[i] \ overtaken[i])
  BY DEF ItemInv, CallsOk, CallOk, InstancesOk
<1> QED BY <1>1, AnswersKeep DEF Ends, owned

\* What is read is as it was, or told to be late.
LEMMA ShownIs ==
  ASSUME ItemInv, NEW k \in MethodCalls, requests[k] # NoCall, requests[k].what \in Reads, NEW columns \in Shown(k), NEW x,
         DOMAIN x = {"id", "exists", "attributes", "original"}, x.id = requests[k].id, x.attributes = columns, x.original = columns
  PROVE  InstanceOk(x, items, dropped, Columns \ requests[k].since)
<1>1. CallOk(requests[k], items, dropped) /\ requests[k].pc = "done" /\ columns \in requests[k].read
  BY DEF ItemInv, CallsOk, Shown
<1>2. /\ Whole(columns) /\ Made(items, dropped, requests[k].id) /\ requests[k].id \in Ids
      /\ \A c \in Columns \ requests[k].since : Stores(items, requests[k].id, c, columns[c])
  BY <1>1 DEF CallOk
<1> QED BY <1>2 DEF InstanceOk

LEMMA CreateAnsweredKeeps ==
  ASSUME ItemInv, NEW k \in MethodCalls, CreateAnswered(k)
  PROVE  ItemInv'
<1> DEFINE q == requests[k]
           x == Known(q.id, q.values)
<1>1. q.what = "create" /\ q # NoCall /\ CallOk(q, items, dropped) /\ UNCHANGED <<items, past, dropped, blind>> /\ Ends(k)
  BY NoCallIs DEF CreateAnswered, Answered, Done, stored, ItemInv, CallsOk
<1>2. CASE q.pc = "done"
  <2>1. Whole(q.values) /\ Made(items, dropped, q.id) /\ q.id \in Ids /\ DOMAIN q.values = Columns
        /\ \A c \in (DOMAIN q.values) \ q.since : Stores(items, q.id, c, q.values[c])
    BY <1>1, <1>2 DEF CallOk, Whole
  <2>2. InstanceOk(x, items, dropped, Columns \ q.since) /\ x.id = q.id
    <3>1. /\ DOMAIN x = {"id", "exists", "attributes", "original"} /\ x.id = q.id
          /\ x.attributes = q.values /\ x.original = q.values
      BY KnownIs
    <3> HIDE DEF x, q
    <3> QED BY <2>1, <3>1 DEF InstanceOk
  <2>3. Becomes(q.on, x, Columns \ q.since)
    BY <1>2 DEF CreateAnswered
  <2> HIDE DEF x
  <2> QED BY <1>1, <2>2, <2>3, BecomesKeeps DEF Ends
<1>3. CASE q.pc # "done"
  BY <1>1, <1>3, EndKeepsItems DEF CreateAnswered
<1> QED BY <1>2, <1>3

LEMMA UpdateAnsweredKeeps ==
  ASSUME ItemInv, NEW k \in MethodCalls, UpdateAnswered(k)
  PROVE  ItemInv'
<1> DEFINE q == requests[k]
           i == q.on
           x == instances[i]
           sent == DOMAIN q.values
<1>1. q.what = "update" /\ q # NoCall /\ CallOk(q, items, dropped) /\ UNCHANGED <<items, past, dropped, blind>> /\ Ends(k)
  BY NoCallIs DEF UpdateAnswered, Answered, Done, stored, ItemInv, CallsOk
<1>2. CASE q.pc = "done"
  <2>1. /\ i \in Instances /\ DOMAIN instances = Instances /\ DOMAIN current = Instances /\ DOMAIN overtaken = Instances
        /\ InstanceOk(x, items, dropped, current[i] \ overtaken[i]) /\ x.id = q.id
    BY <1>1 DEF ItemInv, InstancesOk, CallOk, OwnersOk, OwnerOk
  <2>2. sent \subseteq Columns /\ \A c \in sent \ q.since : Stores(items, q.id, c, q.values[c])
    BY <1>1, <1>2 DEF CallOk
  <2> DEFINE y == [x EXCEPT !.attributes = Over(@, q.values), !.original = Over(x.attributes, q.values)]
             told == ((current[i] \ sent) \cup (sent \ q.since)) \ ((overtaken[i] \cup Dirty(x)) \ sent)
  <2>3. /\ instances' = [instances EXCEPT ![i].attributes = Over(@, q.values), ![i].original = Over(x.attributes, q.values)]
        /\ current' = [current EXCEPT ![i] = (@ \ sent) \cup (sent \ q.since)]
        /\ overtaken' = [overtaken EXCEPT ![i] = (@ \cup Dirty(x)) \ sent]
    BY <1>2 DEF UpdateAnswered, TakesOver
  <2>4. /\ instances'[i] = y /\ current'[i] \ overtaken'[i] = told
        /\ DOMAIN instances' = Instances /\ DOMAIN current' = Instances /\ DOMAIN overtaken' = Instances
        /\ \A j \in Instances \ {i} : instances'[j] = instances[j] /\ current'[j] = current[j] /\ overtaken'[j] = overtaken[j]
    <3>1. instances'[i] = y /\ DOMAIN instances' = Instances /\ \A j \in Instances \ {i} : instances'[j] = instances[j]
      BY <2>1, <2>3
    <3>2. /\ current'[i] \ overtaken'[i] = told /\ DOMAIN current' = Instances /\ DOMAIN overtaken' = Instances
          /\ \A j \in Instances \ {i} : current'[j] = current[j] /\ overtaken'[j] = overtaken[j]
      BY <2>1, <2>3
    <3> QED BY <3>1, <3>2
  <2>5. DOMAIN x = {"id", "exists", "attributes", "original"}
    BY <2>1 DEF InstanceOk
  <2>6. /\ DOMAIN y = DOMAIN x /\ y.id = x.id /\ y.exists = x.exists /\ y.attributes = Over(x.attributes, q.values)
        /\ y.original = Over(x.attributes, q.values)
    BY <2>5
  <2>7. \A old : Whole(Over(old, q.values)) /\ \A c \in Columns : Over(old, q.values)[c] = IF c \in sent THEN q.values[c] ELSE old[c]
    BY DEF Whole, Over
  <2>8. told \subseteq Columns
    BY <2>1, <2>2 DEF InstanceOk
  <2> DEFINE values == q.values
             since == q.since
             id == q.id
  <2>9. ASSUME NEW c \in told PROVE Stores(items, x.id, c, y.original[c])
    <3>1. CASE c \in sent
      <4>1. c \in sent \ since
        BY <2>9, <3>1
      <4> QED BY <2>1, <2>2, <2>6, <2>7, <2>8, <2>9, <3>1, <4>1
    <3>2. CASE c \notin sent
      <4>1. c \in current[i] \ overtaken[i] /\ c \notin Dirty(x) /\ c \in Columns
        BY <2>8, <2>9, <3>2
      <4>2. x.attributes[c] = x.original[c] /\ Stores(items, x.id, c, x.original[c])
        BY <2>1, <4>1 DEF Dirty, InstanceOk
      <4>3. y.original[c] = x.attributes[c]
        BY <2>6, <2>7, <3>2, <4>1
      <4> QED BY <4>2, <4>3
    <3> QED BY <3>1, <3>2
  <2>10. InstanceOk(y, items, dropped, told)
    <3> HIDE DEF y, told
    <3> QED BY <2>1, <2>5, <2>6, <2>7, <2>8, <2>9 DEF InstanceOk
  <2> HIDE DEF y, told
  <2> QED BY <1>1, <2>1, <2>4, <2>6, <2>10, AnswersKeep DEF Ends
<1>3. CASE q.pc # "done"
  BY <1>1, <1>3, EndKeepsItems DEF UpdateAnswered, TakesOver
<1> QED BY <1>2, <1>3

LEMMA DeleteAnsweredKeeps ==
  ASSUME ItemInv, NEW k \in MethodCalls, DeleteAnswered(k)
  PROVE  ItemInv'
<1> DEFINE q == requests[k]
           i == q.on
           x == instances[i]
<1>1. q.what = "delete" /\ q # NoCall /\ CallOk(q, items, dropped) /\ UNCHANGED <<items, past, dropped, blind>> /\ Ends(k)
      /\ UNCHANGED <<current, overtaken>>
  BY NoCallIs DEF DeleteAnswered, Answered, Done, stored, ItemInv, CallsOk
<1>2. CASE q.pc = "done"
  <2>1. /\ i \in Instances /\ DOMAIN instances = Instances /\ DOMAIN current = Instances /\ DOMAIN overtaken = Instances
        /\ InstanceOk(x, items, dropped, current[i] \ overtaken[i])
    BY <1>1 DEF ItemInv, InstancesOk, CallOk
  <2> DEFINE y == [x EXCEPT !.exists = FALSE]
  <2>2. instances' = [instances EXCEPT ![i] = y]
    BY <1>2, <2>1 DEF DeleteAnswered
  <2>3. DOMAIN x = {"id", "exists", "attributes", "original"}
    BY <2>1 DEF InstanceOk
  <2>4. DOMAIN y = DOMAIN x /\ y.id = x.id /\ ~y.exists /\ y.attributes = x.attributes /\ y.original = x.original
    BY <2>3
  <2> HIDE DEF y
  <2>5. InstanceOk(y, items, dropped, current[i] \ overtaken[i])
    BY <2>1, <2>3, <2>4 DEF InstanceOk
  <2>6. instances'[i] = y /\ DOMAIN instances' = Instances /\ \A j \in Instances \ {i} : instances'[j] = instances[j]
    BY <2>1, <2>2
  <2> QED BY <1>1, <2>1, <2>4, <2>5, <2>6, AnswersKeep DEF Ends
<1>3. CASE q.pc # "done"
  BY <1>1, <1>3, EndKeepsItems DEF DeleteAnswered, owned
<1> QED BY <1>2, <1>3

LEMMA ReadAnsweredKeeps ==
  ASSUME ItemInv, NEW k \in MethodCalls, ReadAnswered(k)
  PROVE  ItemInv'
<1> DEFINE q == requests[k]
<1>1. q.what \in Reads /\ q # NoCall /\ UNCHANGED <<items, past, dropped, blind>> /\ Ends(k)
  BY NoCallIs DEF ReadAnswered, Answered, Done, stored, Reads
<1>2. CASE UNCHANGED owned
  BY <1>1, <1>2, EndKeepsItems
<1>3. ASSUME NEW columns \in Shown(k),
             Becomes(q.on, [Known(q.id, columns) EXCEPT !.exists = (q.what = "find") \/ instances[q.on].exists], Columns \ q.since)
      PROVE  ItemInv'
  <2> DEFINE exists == (q.what = "find") \/ instances[q.on].exists
             x == [Known(q.id, columns) EXCEPT !.exists = exists]
  <2>1. DOMAIN x = {"id", "exists", "attributes", "original"} /\ x.id = q.id /\ x.attributes = columns /\ x.original = columns
    <3> HIDE DEF exists
    <3> QED BY KnownIs
  <2> HIDE DEF x
  <2>2. InstanceOk(x, items, dropped, Columns \ q.since)
    BY <1>1, <1>3, <2>1, ShownIs
  <2>3. Becomes(q.on, x, Columns \ q.since)
    BY <1>3 DEF x
  <2> QED BY <1>1, <2>1, <2>2, <2>3, BecomesKeeps DEF Ends
<1> QED BY <1>2, <1>3 DEF ReadAnswered

\* updateOrCreate goes on with an update of what its read showed,
LEMMA UpdateFoundKeeps ==
  ASSUME ItemInv, NEW k \in MethodCalls, UpdateFound(k)
  PROVE  ItemInv'
<1> DEFINE q == requests[k]
<1>1. q.what = "seek" /\ q # NoCall /\ UNCHANGED <<items, past, dropped, blind>>
  BY NoCallIs DEF UpdateFound, Answered, Done, stored
<1>2. PICK columns \in Shown(k), c \in Columns, v \in Values :
        /\ Becomes(q.on, Known(q.id, columns), Columns \ q.since)
        /\ requests' = [requests EXCEPT ![k].what = "update", ![k].pc = "sent", ![k].values = [d \in {c} |-> v], ![k].read = {}]
  BY DEF UpdateFound
<1> DEFINE x == Known(q.id, columns)
           values == [d \in {c} |-> v]
           r == [q EXCEPT !.what = "update", !.pc = "sent", !.values = values, !.read = {}]
<1>3. CallOk(q, items, dropped) /\ DOMAIN q = {"what", "pc", "on", "new", "id", "values", "read", "since"}
  BY <1>1 DEF ItemInv, CallsOk, CallOk
<1>4. requests' = [requests EXCEPT ![k] = r]
  BY <1>2, <1>3 DEF ItemInv, CallsOk
<1>5. /\ DOMAIN r = DOMAIN q /\ r.what = "update" /\ r.pc = "sent" /\ r.on = q.on /\ r.new = q.new /\ r.id = q.id
      /\ r.values = values /\ r.since = q.since
  BY <1>3
<1>6. DOMAIN values = {c}
  OBVIOUS
<1> HIDE DEF r, values
<1>7. CallOk(r, items, dropped)
  <2> HIDE DEF q
  <2> QED BY <1>3, <1>5, <1>6 DEF CallOk, Reads
<1>8. /\ DOMAIN x = {"id", "exists", "attributes", "original"} /\ x.id = q.id
      /\ x.attributes = columns /\ x.original = columns
  BY KnownIs
<1> HIDE DEF x
<1>9. InstanceOk(x, items, dropped, Columns \ q.since)
  BY <1>1, <1>8, ShownIs DEF Reads
<1>10. OwnerOk(r, x)
  BY <1>5, <1>8 DEF OwnerOk
<1>11. Becomes(q.on, x, Columns \ q.since)
  BY <1>2 DEF x
<1> QED BY <1>1, <1>4, <1>5, <1>7, <1>8, <1>9, <1>10, <1>11, BecomesKeeps

\* ... or with a creation of what it did not show.
LEMMA CreateMissingKeeps ==
  ASSUME ItemInv, NEW k \in MethodCalls, CreateMissing(k)
  PROVE  ItemInv'
<1> DEFINE q == requests[k]
<1>1. q.what = "seek" /\ q # NoCall /\ q.pc \in {"done", "failed", "refused"} /\ Shown(k) = {}
      /\ UNCHANGED <<items, past, dropped, blind, instances, current, overtaken>>
  BY NoCallIs DEF CreateMissing, Answered, Done, stored, owned
<1>2. PICK columns \in NewItems :
        requests' = [requests EXCEPT ![k].what = "create", ![k].pc = "sent", ![k].values = columns]
  BY DEF CreateMissing
<1> DEFINE r == [q EXCEPT !.what = "create", !.pc = "sent", !.values = columns]
<1>3. CallOk(q, items, dropped) /\ DOMAIN q = {"what", "pc", "on", "new", "id", "values", "read", "since"}
  BY <1>1 DEF ItemInv, CallsOk, CallOk
<1>4. requests' = [requests EXCEPT ![k] = r]
  BY <1>2, <1>3 DEF ItemInv, CallsOk
<1>5. /\ DOMAIN r = DOMAIN q /\ r.what = "create" /\ r.pc = "sent" /\ r.on = q.on /\ r.new = q.new /\ r.id = q.id
      /\ r.values = columns /\ r.since = q.since
  BY <1>3
<1>6. Whole(columns)
  BY DynamoItemsAssumption DEF Whole
<1>7. q.since = {} => items[q.id] = {}
  BY <1>1, <1>3 DEF CallOk, Shown, Reads
<1> HIDE DEF r, q
<1>8. CallOk(r, items, dropped)
  BY <1>3, <1>5, <1>6, <1>7 DEF CallOk, Reads
<1> QED BY <1>1, <1>4, <1>5, <1>8, ReplyKeeps DEF q

\* A method is called: what it will send is on its way.
LEMMA SendsKeeps ==
  ASSUME ItemInv, NEW k \in MethodCalls, NEW i \in Instances, NEW what, NEW new, NEW id \in Ids, NEW values,
         Sends(k, i, what, new, id, values), IF new THEN Unused(i) ELSE Given(i),
         what = "create" => Whole(values),
         what = "update" => DOMAIN values # {} /\ DOMAIN values \subseteq Columns,
         (new /\ what # "update") \/ id = instances[i].id
  PROVE  ItemInv'
<1> DEFINE q == [what |-> what, pc |-> "sent", on |-> i, new |-> new, id |-> id, values |-> values, read |-> {}, since |-> Columns]
           moved == {k}
<1>1. requests' = [requests EXCEPT ![k] = q] /\ requests[k] = NoCall /\ UNCHANGED <<stored, owned>>
  BY DEF Sends
<1>2. CallOk(q, items, dropped) /\ q.on = i /\ q.new = new /\ q.id = id /\ q.what = what
  BY DynamoItemsAssumption DEF CallOk, Reads
<1>3. requests'[k] = q /\ DOMAIN requests' = MethodCalls /\ \A l \in MethodCalls \ moved : requests'[l] = requests[l]
  BY <1>1 DEF ItemInv, CallsOk
<1>4. /\ DOMAIN instances = Instances /\ DOMAIN current = Instances /\ DOMAIN overtaken = Instances
      /\ InstanceOk(instances[i], items, dropped, current[i] \ overtaken[i])
  BY DEF ItemInv, InstancesOk
<1> HIDE DEF q
<1>5. \A l \in MethodCalls \ {k} : Together(q, requests'[l]) => ~q.new /\ ~requests'[l].new
  BY <1>2, <1>3 DEF Unused, Given, Together
<1>6. OwnerOk(q, instances'[q.on])
  BY <1>1, <1>2 DEF OwnerOk, owned
<1>7. \A l \in MethodCalls \cap moved :
        \/ requests'[l] = NoCall
        \/ /\ CallOk(requests'[l], items, dropped) /\ OwnerOk(requests'[l], instances'[requests'[l].on])
           /\ \A m \in MethodCalls \ {l} : Together(requests'[l], requests'[m]) => ~requests'[l].new /\ ~requests'[m].new
  BY <1>2, <1>3, <1>5, <1>6
<1>8. UNCHANGED <<items, past, dropped, blind, instances, current, overtaken>>
  BY <1>1 DEF stored, owned
<1> HIDE DEF moved
<1> QED BY <1>3, <1>4, <1>7, <1>8, MovesKeep

LEMMA CallStepKeeps ==
  ASSUME ItemInv, NEW k \in MethodCalls, NEW i \in Instances, CallStep(k, i)
  PROVE  ItemInv'
<1> DEFINE x == instances[i]
<1>1. x.id \in Ids /\ Whole(x.attributes)
  BY DEF ItemInv, InstancesOk, InstanceOk
<1>2. CASE Save(k, i)
  <2>1. CASE Dirty(x) # {} /\ Sends(k, i, "update", FALSE, x.id, [c \in Dirty(x) |-> x.attributes[c]])
    <3> DEFINE values == [c \in Dirty(x) |-> x.attributes[c]]
    <3>1. DOMAIN values # {} /\ DOMAIN values \subseteq Columns
      BY <2>1 DEF Dirty
    <3> HIDE DEF values
    <3>2. Sends(k, i, "update", FALSE, x.id, values)
      BY <2>1 DEF values
    <3> QED BY <1>1, <1>2, <3>1, <3>2, SendsKeeps DEF Save
  <2>2. CASE Sends(k, i, "create", FALSE, x.id, x.attributes)
    BY <1>1, <1>2, <2>2, SendsKeeps DEF Save
  <2> QED BY <1>2, <2>1, <2>2 DEF Save
<1>3. CASE Update(k, i)
  <2>1. PICK c \in Columns, v \in Values : Sends(k, i, "update", FALSE, x.id, [d \in {c} |-> v])
    BY <1>3 DEF Update
  <2> DEFINE values == [d \in {c} |-> v]
  <2>2. DOMAIN values # {} /\ DOMAIN values \subseteq Columns
    OBVIOUS
  <2>3. Sends(k, i, "update", FALSE, x.id, values)
    BY <2>1
  <2>4. Given(i) /\ "update" # "create"
    BY <1>3 DEF Update
  <2> HIDE DEF values
  <2> QED BY <1>1, <2>2, <2>3, <2>4, SendsKeeps
<1>4. CASE Delete(k, i)
  <2>1. Given(i) /\ Sends(k, i, "delete", FALSE, x.id, Nothing)
    BY <1>4 DEF Delete
  <2>2. "delete" # "create" /\ "delete" # "update"
    OBVIOUS
  <2> QED BY <1>1, <2>1, <2>2, SendsKeeps
<1>5. CASE Refresh(k, i)
  <2>1. Given(i) /\ Sends(k, i, "refresh", FALSE, x.id, Nothing)
    BY <1>5 DEF Refresh
  <2>2. "refresh" # "create" /\ "refresh" # "update"
    OBVIOUS
  <2> QED BY <1>1, <2>1, <2>2, SendsKeeps
<1>6. CASE \E id \in Ids : Find(k, i, id) \/ UpdateOrCreate(k, i, id)
  <2>1. PICK id \in Ids : Find(k, i, id) \/ UpdateOrCreate(k, i, id)
    BY <1>6
  <2>2. CASE Find(k, i, id)
    <3>1. Unused(i) /\ Sends(k, i, "find", TRUE, id, Nothing)
      BY <2>2 DEF Find
    <3>2. "find" # "create" /\ "find" # "update"
      OBVIOUS
    <3> QED BY <3>1, <3>2, SendsKeeps
  <2>3. CASE UpdateOrCreate(k, i, id)
    <3>1. Unused(i) /\ Sends(k, i, "seek", TRUE, id, Nothing)
      BY <2>3 DEF UpdateOrCreate
    <3>2. "seek" # "create" /\ "seek" # "update"
      OBVIOUS
    <3> QED BY <3>1, <3>2, SendsKeeps
  <2> QED BY <2>1, <2>2, <2>3
<1> QED BY <1>2, <1>3, <1>4, <1>5, <1>6 DEF CallStep

LEMMA NewInstanceKeeps ==
  ASSUME ItemInv, NEW i \in Instances, New(i)
  PROVE  ItemInv'
<1>1. /\ UNCHANGED <<items, past, dropped, blind, requests>> /\ Unused(i)
      /\ current' = [current EXCEPT ![i] = {}] /\ overtaken' = [overtaken EXCEPT ![i] = {}]
  BY DEF New, stored
<1>2. PICK id \in Ids, columns \in NewItems : instances' = [instances EXCEPT ![i] = Fresh(id, columns)]
  BY DEF New
<1>3. DOMAIN instances = Instances /\ DOMAIN current = Instances /\ DOMAIN overtaken = Instances /\ DOMAIN requests = MethodCalls
  BY DEF ItemInv, InstancesOk, CallsOk
<1> DEFINE x == Fresh(id, columns)
<1>4. Whole(columns)
  BY DynamoItemsAssumption DEF Whole
<1>5. /\ DOMAIN x = {"id", "exists", "attributes", "original"} /\ x.id = id /\ ~x.exists
      /\ x.attributes = columns /\ x.original = columns
  BY DEF Fresh
<1> HIDE DEF x
<1>6. InstanceOk(x, items, dropped, {})
  BY <1>4, <1>5 DEF InstanceOk
<1>7. /\ instances'[i] = x /\ current'[i] \ overtaken'[i] = {}
      /\ DOMAIN instances' = Instances /\ DOMAIN current' = Instances /\ DOMAIN overtaken' = Instances
      /\ \A j \in Instances \ {i} : instances'[j] = instances[j] /\ current'[j] = current[j] /\ overtaken'[j] = overtaken[j]
  <2>1. instances' = [instances EXCEPT ![i] = x]
    BY <1>2 DEF x
  <2> QED BY <1>1, <1>3, <2>1
<1> DEFINE moved == {}
<1>8. \A l \in MethodCalls \ moved : requests'[l] = requests[l] /\ (requests[l] # NoCall => requests[l].on # i)
  BY <1>1 DEF Unused
<1>9. InstanceOk(instances'[i], items, dropped, current'[i] \ overtaken'[i]) /\ MethodCalls \cap moved = {}
  BY <1>6, <1>7
<1> HIDE DEF moved
<1> QED BY <1>1, <1>3, <1>7, <1>8, <1>9, MovesKeep

LEMMA SetAttributeKeeps ==
  ASSUME ItemInv, NEW i \in Instances, SetAttribute(i)
  PROVE  ItemInv'
<1>1. UNCHANGED <<items, past, dropped, blind, requests, current, overtaken>>
  BY DEF SetAttribute, stored
<1> DEFINE x == instances[i]
<1>2. PICK c \in Columns, v \in Values : instances' = [instances EXCEPT ![i].attributes[c] = v]
  BY DEF SetAttribute
<1>3. /\ DOMAIN instances = Instances /\ DOMAIN current = Instances /\ DOMAIN overtaken = Instances
      /\ DOMAIN requests = MethodCalls /\ InstanceOk(x, items, dropped, current[i] \ overtaken[i])
  BY DEF ItemInv, InstancesOk, CallsOk
<1> DEFINE attributes == [x.attributes EXCEPT ![c] = v]
           y == [x EXCEPT !.attributes = attributes]
<1>4. DOMAIN x = {"id", "exists", "attributes", "original"} /\ Whole(x.attributes)
  BY <1>3 DEF InstanceOk
<1>5. instances'[i] = y /\ DOMAIN instances' = Instances /\ \A j \in Instances \ {i} : instances'[j] = instances[j]
  BY <1>2, <1>3
<1>6. Whole(attributes)
  BY <1>4 DEF Whole
<1> HIDE DEF attributes
<1>7. DOMAIN y = DOMAIN x /\ y.id = x.id /\ y.exists = x.exists /\ y.attributes = attributes /\ y.original = x.original
  BY <1>4
<1> HIDE DEF y
<1>8. InstanceOk(y, items, dropped, current[i] \ overtaken[i])
  BY <1>3, <1>4, <1>6, <1>7 DEF InstanceOk
<1> DEFINE moved == {}
<1>9. MethodCalls \cap moved = {} /\ \A l \in MethodCalls \ moved : requests'[l] = requests[l]
  BY <1>1
<1>10. InstanceOk(instances'[i], items, dropped, current'[i] \ overtaken'[i]) /\ instances'[i].id = instances[i].id
  BY <1>1, <1>5, <1>7, <1>8
<1> HIDE DEF moved, x
<1> QED BY <1>1, <1>3, <1>5, <1>9, <1>10, MovesKeep

\* What the repository writes.
LEMMA OthersWrite ==
  ASSUME ItemInv, NEW id \in Ids, NEW new, NEW columns, columns # {}, ByOthers(id, new, columns), UNCHANGED blind,
         \A its : its[id] = new => /\ ItemOk(its, id, dropped \cup blind)
                                   /\ \A c \in Columns \ columns : \A v : Stores(items, id, c, v) => Stores(its, id, c, v)
  PROVE  ItemInv'
<1>1. WriteItem(id, new, columns) /\ requests' = Seen(id, columns) /\ UNCHANGED <<instances, overtaken>>
  BY DEF ByOthers
<1> DEFINE its2 == items'
<1>2. its2[id] = new /\ dropped \subseteq dropped'
  BY <1>1 DEF WriteItem, ItemInv, TableOk
<1>3. /\ ItemOk(its2, id, dropped \cup blind)
      /\ \A c \in Columns \ columns : \A v : Stores(items, id, c, v) => Stores(its2, id, c, v)
  BY <1>2
<1>4. ItemOk(its2, id, dropped' \cup blind')
  <2> DEFINE halves == dropped' \cup blind'
  <2>1. dropped \cup blind \subseteq halves
    BY <1>2
  <2> HIDE DEF its2, halves
  <2>2. ItemOk(its2, id, halves)
    BY <1>3, <2>1 DEF ItemOk
  <2> QED BY <2>2 DEF halves
<1> DEFINE moved == {}
<1>5. DOMAIN requests' = MethodCalls /\ moved \subseteq MethodCalls /\ (\A k \in moved : FALSE)
      /\ \A k \in MethodCalls \ moved : requests'[k] = Seen(id, columns)[k]
  BY <1>1 DEF Seen
<1> HIDE DEF moved
<1> QED BY <1>1, <1>3, <1>4, <1>5, OneWrite

LEMMA RepositoryKeeps ==
  ASSUME ItemInv, NEW id \in Ids, RepositoryCreate(id) \/ RepositoryUpdate(id) \/ RepositoryDelete(id)
  PROVE  ItemInv'
<1>1. Columns # {}
  BY DynamoItemsAssumption
<1>2. CASE RepositoryCreate(id)
  <2>1. PICK columns \in NewItems : ByOthers(id, Put(id, columns), Columns) /\ UNCHANGED blind
    BY <1>2 DEF RepositoryCreate
  <2>2. Whole(columns)
    BY DynamoItemsAssumption DEF Whole
  <2> QED BY <1>1, <2>1, <2>2, PutIs, OthersWrite
<1>3. CASE RepositoryUpdate(id)
  <2>1. PICK c \in Columns, v \in Values : ByOthers(id, WithValues(id, [d \in {c} |-> v]), {c}) /\ UNCHANGED blind
    BY <1>3 DEF RepositoryUpdate
  <2> DEFINE values == [d \in {c} |-> v]
  <2>2. items[id] # {} /\ \A x \in items[id] : x.type = "" => id \in dropped \cup blind
    BY <1>3 DEF RepositoryUpdate, AttributeExists, ItemInv, TableOk, ItemOk
  <2>3. DOMAIN values = {c}
    OBVIOUS
  <2>4. ByOthers(id, WithValues(id, values), {c})
    BY <2>1
  <2> HIDE DEF values
  <2>5. \A its : its[id] = WithValues(id, values) =>
          /\ ItemOk(its, id, dropped \cup blind)
          /\ \A d \in Columns \ {c} : \A w : Stores(items, id, d, w) => Stores(its, id, d, w)
    BY <2>2, <2>3, WithValuesIs
  <2> QED BY <2>1, <2>4, <2>5, OthersWrite
<1>4. CASE RepositoryDelete(id)
  BY <1>1, <1>4, NoneIs, OthersWrite DEF RepositoryDelete
<1> QED BY <1>2, <1>3, <1>4

\* What a batch or a transaction carries out.
LEMMA CarriedKeeps ==
  ASSUME ItemInv, NEW operations, NEW values, DOMAIN values # {}, DOMAIN values \subseteq Columns,
         \A id \in Ids : operations[id] \in {"", "put", "delete", "update"},
         Carried(operations, values), UNCHANGED <<instances, overtaken>>
  PROVE  ItemInv'
<1> DEFINE touch == [id \in Ids |-> Touched(operations[id], values)]
<1>1. /\ DOMAIN items' = Ids /\ \A id \in Ids : items'[id] = Result(id, operations[id], values)
      /\ DOMAIN past' = Ids /\ \A id \in Ids : past'[id] \subseteq past[id] \cup {Contents(id)}
      /\ dropped \subseteq dropped' /\ blind \subseteq blind'
      /\ \A id \in Ids : operations[id] = "delete" /\ items[id] # {} => id \in dropped'
      /\ \A id \in Ids : operations[id] = "update" /\ items[id] = {} => id \in blind'
  BY DEF Carried
<1> DEFINE its2 == items'
           halves2 == dropped' \cup blind'
           gone2 == dropped'
<1>2. ASSUME NEW id \in Ids
      PROVE  ItemOk(its2, id, halves2) /\ Spares(items, its2, id, touch[id]) /\ Goes(items, its2, dropped, gone2, id)
  <2>1. ItemOk(items, id, dropped \cup blind)
    BY DEF ItemInv, TableOk
  <2>2. its2[id] = Result(id, operations[id], values) /\ touch[id] = Touched(operations[id], values)
    BY <1>1
  <2>3. /\ dropped \cup blind \subseteq halves2 /\ dropped \subseteq gone2
        /\ operations[id] = "delete" /\ items[id] # {} => id \in gone2
        /\ operations[id] = "update" /\ items[id] = {} => id \in halves2
    BY <1>1
  <2> HIDE DEF its2, halves2, gone2, touch
  <2>4. CASE operations[id] = ""
    <3>1. its2[id] = items[id] /\ touch[id] = {}
      BY <2>2, <2>4 DEF Result, Touched
    <3>2. ItemOk(its2, id, halves2)
      BY <2>1, <2>3, <3>1 DEF ItemOk
    <3> QED BY <2>3, <3>1, <3>2 DEF Spares, Goes, Made, Stores
  <2>5. CASE operations[id] = "put"
    <3>1. its2[id] = Put(id, Nothing) /\ touch[id] = Columns /\ Whole(Nothing)
      BY <2>2, <2>5 DEF Result, Touched, Whole, Nothing
    <3>2. its2[id] # {} /\ ItemOk(its2, id, halves2)
      BY <3>1, PutIs
    <3> QED BY <3>1, <3>2, DynamoItemsAssumption DEF Spares, Goes, Made
  <2>6. CASE operations[id] = "delete"
    <3>1. its2[id] = {} /\ touch[id] = Columns
      BY <2>2, <2>6 DEF Result, Touched
    <3> QED BY <2>3, <2>6, <3>1, NoneIs, DynamoItemsAssumption DEF Spares, Goes, Made
  <2>7. CASE operations[id] = "update"
    <3>1. its2[id] = WithValues(id, values) /\ touch[id] = DOMAIN values
      BY <2>2, <2>7 DEF Result, Touched
    <3>2. (\A x \in items[id] : x.type = "" => id \in halves2) /\ (items[id] # {} \/ id \in halves2)
      BY <2>1, <2>3, <2>7 DEF ItemOk
    <3>3. /\ its2[id] # {} /\ ItemOk(its2, id, halves2)
          /\ \A c \in Columns \ DOMAIN values : \A v : Stores(items, id, c, v) => Stores(its2, id, c, v)
      BY <3>1, <3>2, WithValuesIs
    <3> QED BY <3>1, <3>3 DEF Spares, Goes, Made
  <2> QED BY <2>4, <2>5, <2>6, <2>7
<1>3. DOMAIN current' = Instances /\ \A i \in Instances : current'[i] = current[i] \ touch[instances[i].id]
  <2>1. \A i \in Instances : instances[i].id \in Ids
    BY DEF ItemInv, InstancesOk, InstanceOk
  <2> QED BY <2>1 DEF Carried
<1>4. DOMAIN requests' = MethodCalls
  BY DEF Carried
<1>5. ASSUME NEW k \in MethodCalls
      PROVE  IF requests[k] = NoCall THEN requests'[k] = NoCall ELSE Tells(requests'[k], requests[k], touch[requests[k].id])
  <2>1. CASE requests[k] = NoCall
    BY <2>1 DEF Carried
  <2>2. CASE requests[k] # NoCall
    <3> DEFINE q == requests[k]
               columns == touch[q.id]
    <3>1. q.id \in Ids /\ DOMAIN q = {"what", "pc", "on", "new", "id", "values", "read", "since"}
      BY <2>2 DEF ItemInv, CallsOk, CallOk
    <3>2. columns = Touched(operations[q.id], values)
      BY <3>1
    <3>3. requests'[k] = [q EXCEPT !.since = @ \cup columns]
      BY <2>2, <3>2 DEF Carried
    <3> HIDE DEF q, columns
    <3>4. Tells(requests'[k], q, columns)
      BY ONLY <3>1, <3>3, ToldIs
    <3> QED BY <2>2, <3>4 DEF q, columns
  <2> QED BY <2>1, <2>2
<1> HIDE DEF touch
<1> DEFINE moved == {}
<1>6. moved \subseteq MethodCalls /\ (\A k \in moved : FALSE) /\ \A k \in MethodCalls \ moved : k \in MethodCalls
  OBVIOUS
<1> HIDE DEF moved
<1> QED BY <1>1, <1>2, <1>3, <1>4, <1>5, <1>6, WritesKeep

LEMMA ItemInvInit ==
  ASSUME ItemInit
  PROVE  ItemInv
<1> DEFINE first == Item("model", 0, Nothing)
<1>1. DOMAIN items = Ids /\ \A id \in Ids : items[id] \in {{}, {first}}
  BY DEF ItemInit
<1>2. first.columns = Nothing /\ first.type # "" /\ DOMAIN first = {"type", "made", "columns"} /\ Whole(Nothing)
  BY DEF Item, Whole, Nothing
<1> HIDE DEF first
<1>3. TableOk
  <2>1. past = [id \in Ids |-> {}]
    BY DEF ItemInit
  <2> QED BY <1>1, <1>2, <2>1 DEF TableOk, ItemOk, PastOk
<1>4. InstancesOk
  <2> DEFINE told == [i \in Instances |-> IF instances[i].exists THEN Columns ELSE {}]
  <2>1. current = told /\ overtaken = [i \in Instances |-> {}]
    BY DEF ItemInit
  <2>2. PICK id \in Ids : \/ instances = [i \in Instances |-> Fresh(id, Nothing)]
                          \/ items[id] # {} /\ instances = [i \in Instances |-> Known(id, Nothing)]
    BY DEF ItemInit
  <2>3. ASSUME NEW i \in Instances PROVE InstanceOk(instances[i], items, dropped, current[i] \ overtaken[i])
    <3>1. current[i] \ overtaken[i] = IF instances[i].exists THEN Columns ELSE {}
      BY <2>1
    <3>2. CASE instances[i] = Fresh(id, Nothing)
      <4> DEFINE x == Fresh(id, Nothing)
      <4>1. /\ DOMAIN x = {"id", "exists", "attributes", "original"} /\ x.id = id /\ ~x.exists
            /\ x.attributes = Nothing /\ x.original = Nothing
        BY DEF Fresh
      <4>2. current[i] \ overtaken[i] = {}
        BY <3>1, <3>2, <4>1
      <4> HIDE DEF x
      <4>3. InstanceOk(x, items, dropped, {})
        BY <1>2, <4>1 DEF InstanceOk
      <4> QED BY <3>2, <4>2, <4>3 DEF x
    <3>3. CASE items[id] # {} /\ instances[i] = Known(id, Nothing)
      <4> DEFINE x == Known(id, Nothing)
      <4>1. /\ DOMAIN x = {"id", "exists", "attributes", "original"} /\ x.id = id
            /\ x.attributes = Nothing /\ x.original = Nothing
        BY KnownIs
      <4>2. current[i] \ overtaken[i] \subseteq Columns
        BY <3>1
      <4>3. \A c : Stores(items, id, c, Nothing[c]) /\ Made(items, dropped, id)
        BY <1>1, <1>2, <3>3 DEF Stores, Made
      <4> HIDE DEF x
      <4>4. InstanceOk(x, items, dropped, current[i] \ overtaken[i])
        BY <1>2, <4>1, <4>2, <4>3 DEF InstanceOk
      <4> QED BY <3>3, <4>4 DEF x
    <3> QED BY <2>2, <3>2, <3>3
  <2>4. DOMAIN instances = Instances /\ DOMAIN current = Instances /\ DOMAIN overtaken = Instances
    BY <2>1, <2>2
  <2> QED BY <2>3, <2>4 DEF InstancesOk
<1>5. CallsOk /\ OwnersOk
  <2>1. requests = [k \in MethodCalls |-> NoCall]
    BY DEF ItemInit
  <2> QED BY <2>1 DEF CallsOk, OwnersOk, Together
<1> QED BY <1>3, <1>4, <1>5 DEF ItemInv

LEMMA ItemInvNext ==
  ASSUME ItemInv, [ItemNext]_itemVars
  PROVE  ItemInv'
<1>1. CASE \E k \in MethodCalls : ServiceStep(k)
  <2>1. PICK k \in MethodCalls : ServiceStep(k)
    BY <1>1
  <2>2. CASE PutItem(k)
    BY <2>2, PutItemKeeps, RefusedKeeps
  <2> QED BY <2>1, <2>2, UpdateItemKeeps, DeleteItemKeeps, GetItemKeeps, LostKeeps DEF ServiceStep
<1>2. CASE \E k \in MethodCalls : AnswerStep(k)
  BY <1>2, CreateAnsweredKeeps, UpdateAnsweredKeeps, DeleteAnsweredKeeps, ReadAnsweredKeeps, UpdateFoundKeeps,
     CreateMissingKeeps DEF AnswerStep
<1>3. CASE \E k \in MethodCalls : \E i \in Instances : CallStep(k, i)
  BY <1>3, CallStepKeeps
<1>4. CASE \E i \in Instances : New(i) \/ SetAttribute(i)
  BY <1>4, NewInstanceKeeps, SetAttributeKeeps
<1>5. CASE \E id \in Ids : RepositoryCreate(id) \/ RepositoryUpdate(id) \/ RepositoryDelete(id)
  BY <1>5, RepositoryKeeps
<1>6. CASE BatchWrite
  <2>1. PICK operations \in Operations({"put", "delete"}) : Carried(operations, Nothing)
    BY <1>6 DEF BatchWrite
  <2>2. \A id \in Ids : operations[id] \in {"", "put", "delete", "update"}
    BY DEF Operations
  <2>3. DOMAIN Nothing = Columns /\ Columns # {}
    BY DynamoItemsAssumption DEF Nothing
  <2> QED BY <1>6, <2>1, <2>2, <2>3, CarriedKeeps DEF BatchWrite
<1>7. CASE TransactWrite
  <2>1. PICK operations \in Operations({"put", "delete", "update"}), c \in Columns, v \in Values \cup {0} :
          Carried(operations, [d \in {c} |-> v])
    BY <1>7 DEF TransactWrite
  <2>2. \A id \in Ids : operations[id] \in {"", "put", "delete", "update"}
    BY DEF Operations
  <2> DEFINE values == [d \in {c} |-> v]
  <2>3. DOMAIN values # {} /\ DOMAIN values \subseteq Columns /\ Carried(operations, values)
    BY <2>1
  <2> HIDE DEF values
  <2> QED BY <1>7, <2>2, <2>3, CarriedKeeps DEF TransactWrite
<1>8. CASE UNCHANGED itemVars
  BY <1>8 DEF itemVars, ItemInv, TableOk, ItemOk, PastOk, InstancesOk, CallsOk, OwnersOk, OwnerOk, Together
<1> QED BY <1>1, <1>2, <1>3, <1>4, <1>5, <1>6, <1>7, <1>8 DEF ItemNext

LEMMA ItemInvMeans ==
  ASSUME ItemInv
  PROVE  CleanMeansSaved /\ HalfItemsWereDeleted /\ AloneIsNotRefused
<1>1. ASSUME NEW i \in Instances, NEW c \in current[i] \ (Dirty(instances[i]) \cup overtaken[i])
      PROVE  \E item \in items[instances[i].id] : item.columns[c] = instances[i].attributes[c]
  <2>1. InstanceOk(instances[i], items, dropped, current[i] \ overtaken[i])
    BY DEF ItemInv, InstancesOk
  <2>2. c \in Columns /\ Stores(items, instances[i].id, c, instances[i].original[c])
    BY <1>1, <2>1 DEF InstanceOk
  <2>3. instances[i].attributes[c] = instances[i].original[c]
    BY <1>1, <2>2 DEF Dirty
  <2> QED BY <2>2, <2>3 DEF Stores
<1>2. HalfItemsWereDeleted
  BY DEF HalfItemsWereDeleted, ItemInv, TableOk, ItemOk
<1>3. AloneIsNotRefused
  BY NoCallIs DEF AloneIsNotRefused, ItemInv, CallsOk, CallOk
<1> QED BY <1>1, <1>2, <1>3 DEF CleanMeansSaved

\* An update keeps the stamp.
LEMMA StampStays ==
  ASSUME ItemInv, NEW id \in Ids, NEW values, NEW its, its[id] = WithValues(id, values)
  PROVE  \A old \in items[id] : \A new \in its[id] : new.made = old.made
<1> SUFFICES ASSUME NEW old \in items[id], NEW new \in its[id] PROVE new.made = old.made
  OBVIOUS
<1>1. PICK x \in items[id] : new = Item(x.type, x.made, Over(x.columns, values))
  BY DEF WithValues
<1>2. x = old
  BY DEF ItemInv, TableOk, ItemOk
<1> QED BY <1>1, <1>2 DEF Item

\* One item as each step leaves it.
LEMMA ItemStepMeans ==
  ASSUME ItemInv, [ItemNext]_itemVars
  PROVE  [CreationsReplaceNothing]_itemVars
<1> DEFINE Kept(id) == \A old \in items[id] : \A new \in items'[id] : new.made = old.made
<1>1. ASSUME NEW id \in Ids, items'[id] = items[id] PROVE Kept(id)
  <2>1. \A x, y \in items[id] : x = y
    BY DEF ItemInv, TableOk, ItemOk
  <2> QED BY <1>1, <2>1
<1>2. ASSUME NEW id \in Ids, NEW new, NEW columns, WriteItem(id, new, columns), NEW other \in Ids
      PROVE  items'[other] = IF other = id THEN new ELSE items[other]
  BY <1>2 DEF WriteItem, ItemInv, TableOk
<1>3. ASSUME NEW id \in Ids, NEW values, NEW columns, NEW other \in Ids, WriteItem(id, WithValues(id, values), columns)
      PROVE  Kept(other)
  <2>1. CASE other = id
    <3> DEFINE its2 == items'
    <3>1. its2[id] = WithValues(id, values)
      BY <1>2, <1>3, <2>1
    <3> HIDE DEF its2
    <3>2. \A old \in items[id] : \A new \in its2[id] : new.made = old.made
      BY <1>3, <3>1, StampStays
    <3> QED BY <2>1, <3>2 DEF its2
  <2>2. CASE other # id
    BY <1>1, <1>2, <1>3, <2>2
  <2> QED BY <2>1, <2>2
<1>4. ASSUME NEW id \in Ids, NEW new, NEW columns, NEW other \in Ids, WriteItem(id, new, columns), items[id] = {} \/ new = {}
      PROVE  Kept(other)
  <2>1. CASE other = id
    <3>1. items'[id] = new
      BY <1>2, <1>4, <2>1
    <3> QED BY <1>4, <2>1, <3>1
  <2>2. CASE other # id
    BY <1>1, <1>2, <1>4, <2>2
  <2> QED BY <2>1, <2>2
<1>5. ASSUME NEW other \in Ids, ~BatchWrite, ~TransactWrite, ~UNCHANGED items PROVE Kept(other)
  <2>1. ASSUME NEW k \in MethodCalls, PutItem(k) \/ UpdateItem(k) \/ DeleteItem(k) PROVE requests[k].id \in Ids
    BY <2>1, NoCallIs DEF PutItem, UpdateItem, DeleteItem, Sent, ItemInv, CallsOk, CallOk
  <2>2. CASE \E k \in MethodCalls : ServiceStep(k)
    <3>1. PICK k \in MethodCalls : ServiceStep(k)
      BY <2>2
    <3>2. CASE PutItem(k)
      <4>1. items[requests[k].id] = {} /\ WriteItem(requests[k].id, Put(requests[k].id, requests[k].values), Columns)
        BY <1>5, <3>2 DEF PutItem, Effect, AttributeNotExists, stored
      <4>2. requests[k].id \in Ids
        BY <2>1, <3>2
      <4> QED BY <1>4, <4>1, <4>2
    <3>3. CASE UpdateItem(k)
      <4>1. WriteItem(requests[k].id, WithValues(requests[k].id, requests[k].values), DOMAIN requests[k].values)
        BY <3>3 DEF UpdateItem, Effect
      <4>2. requests[k].id \in Ids
        BY <2>1, <3>3
      <4> QED BY <1>3, <4>1, <4>2
    <3>4. CASE DeleteItem(k)
      <4>1. WriteItem(requests[k].id, {}, Columns)
        BY <3>4 DEF DeleteItem, Effect
      <4>2. requests[k].id \in Ids
        BY <2>1, <3>4
      <4> QED BY <1>4, <4>1, <4>2
    <3>5. CASE GetItem(k) \/ Lost(k)
      BY <1>5, <3>5 DEF GetItem, Lost, stored
    <3> QED BY <3>1, <3>2, <3>3, <3>4, <3>5 DEF ServiceStep
  <2>3. CASE \E k \in MethodCalls : AnswerStep(k)
    BY <1>5, <2>3 DEF AnswerStep, CreateAnswered, UpdateAnswered, DeleteAnswered, ReadAnswered, UpdateFound, CreateMissing,
                      Done, stored
  <2>4. CASE \E k \in MethodCalls : \E i \in Instances : CallStep(k, i)
    BY <1>5, <2>4 DEF CallStep, Save, Update, Delete, Refresh, Find, UpdateOrCreate, Sends, stored
  <2>5. CASE \E i \in Instances : New(i) \/ SetAttribute(i)
    BY <1>5, <2>5 DEF New, SetAttribute, stored
  <2>6. CASE \E id \in Ids : RepositoryCreate(id) \/ RepositoryUpdate(id) \/ RepositoryDelete(id)
    <3>1. PICK id \in Ids : RepositoryCreate(id) \/ RepositoryUpdate(id) \/ RepositoryDelete(id)
      BY <2>6
    <3>2. CASE RepositoryCreate(id)
      BY <1>4, <3>2 DEF RepositoryCreate, AttributeNotExists, ByOthers
    <3>3. CASE RepositoryUpdate(id)
      BY <1>3, <3>3 DEF RepositoryUpdate, ByOthers
    <3>4. CASE RepositoryDelete(id)
      BY <1>4, <3>4 DEF RepositoryDelete, ByOthers
    <3> QED BY <3>1, <3>2, <3>3, <3>4
  <2>7. CASE UNCHANGED itemVars
    BY <1>5, <2>7 DEF itemVars
  <2> QED BY <1>5, <2>2, <2>3, <2>4, <2>5, <2>6, <2>7 DEF ItemNext
<1>6. CASE UNCHANGED items
  <2>1. \A id \in Ids : Kept(id)
    BY <1>1, <1>6
  <2> QED BY <2>1 DEF CreationsReplaceNothing
<1>7. CASE ~UNCHANGED items
  <2>1. ~BatchWrite /\ ~TransactWrite => \A id \in Ids : Kept(id)
    BY <1>5, <1>7
  <2> QED BY <2>1 DEF CreationsReplaceNothing
<1> QED BY <1>6, <1>7

\* The writes of models, item builders and repositories keep what they promise of an
\* item, in whatever order their requests, their answers and the losses of either meet,
\* for every table, instance, method call and column (dynamodb/model.ts,
\* dynamodb-single-table.ts and the batches of dynamodb/index.ts).
THEOREM ItemsKeepTheirWord == ItemSpec => ItemsMeanTheirWrites
<1>1. ItemInit => ItemInv
  BY ItemInvInit
<1>2. ItemInv /\ [ItemNext]_itemVars => ItemInv'
  BY ItemInvNext
<1>3. ItemInv => CleanMeansSaved /\ HalfItemsWereDeleted /\ AloneIsNotRefused
  BY ItemInvMeans
<1>4. ItemInv /\ [ItemNext]_itemVars => [CreationsReplaceNothing]_itemVars
  BY ItemStepMeans
<1> QED BY <1>1, <1>2, <1>3, <1>4, PTL DEF ItemSpec, ItemsMeanTheirWrites

----------------------------------------------------------------------------
(* Sequences of places in the order they are read, forward or backward: what   *)
(* is in one says all about it.                                               *)
Behind(fwd, m, n) == IF fwd THEN m < n ELSE n < m
Ordered(s, fwd) == s \in Seq(Nat) /\ \A i, j \in 1 .. Len(s) : i < j => Behind(fwd, s[i], s[j])

\* Among keeps the order and takes what is in the set.
LEMMA AmongIs ==
  ASSUME NEW fwd, NEW s, Ordered(s, fwd), NEW S
  PROVE  Ordered(Among(s, S), fwd) /\ ToSet(Among(s, S)) = ToSet(s) \cap S
<1> DEFINE N == Len(s)
           V == Seq(Nat)
           Longer(r, n) == IF s[n] \in S THEN Append(r, s[n]) ELSE r
           step == [n \in 1 .. N |-> [r \in V |-> Longer(r, n)]]
           Grows(g) == [n \in 0 .. N |->
                          IF n = 0 THEN <<>> ELSE IF s[n] \in S THEN Append(g[n - 1], s[n]) ELSE g[n - 1]]
<1>1. s \in Seq(Nat) /\ N \in Nat /\ DOMAIN s = 1 .. N /\ \A n \in 1 .. N : s[n] \in Nat
  BY DEF Ordered
<1>2. <<>> \in V
  OBVIOUS
<1>3. step \in [1 .. N -> [V -> V]] /\ \A n \in 1 .. N, r \in V : step[n][r] = Longer(r, n)
  <2>1. \A n \in 1 .. N, r \in V : Longer(r, n) \in V
    BY <1>1
  <2> HIDE DEF Longer, V
  <2> QED BY <2>1
<1> DEFINE s0 == <<>>
<1> HIDE DEF step, V
<1>4. \E t : TraceOf(t, N, V, s0, step)
  <2>1. Stepwise(N, V, s0, step)
    BY <1>1, <1>2, <1>3 DEF Stepwise
  <2> HIDE DEF N, s0
  <2> QED BY <2>1, StepByStep
<1>5. PICK t \in [0 .. N -> V] : t[0] = <<>> /\ \A n \in 1 .. N : t[n] = step[n][t[n - 1]]
  BY <1>4 DEF TraceOf
<1>6. \A n \in 1 .. N : n - 1 \in 0 .. N /\ t[n - 1] \in V
  <2>1. N \in Nat
    BY <1>1
  <2> HIDE DEF N
  <2>2. \A n \in 1 .. N : n - 1 \in 0 .. N
    BY <2>1
  <2> QED BY <1>5, <2>2
<1>7. \A n \in 1 .. N : t[n] = Longer(t[n - 1], n)
  BY <1>3, <1>5, <1>6
<1>8. t = Grows(t)
  <2>1. \A n \in 0 .. N : n = 0 \/ n \in 1 .. N
    BY <1>1
  <2>2. \A n \in 0 .. N : t[n] = IF n = 0 THEN <<>> ELSE Longer(t[n - 1], n)
    <3> HIDE DEF Longer
    <3> QED BY <1>5, <1>7, <2>1
  <2> QED BY <1>5, <2>2
<1> DEFINE kept == CHOOSE g : g = Grows(g)
<1>9. kept = Grows(kept)
  BY <1>8
<1>10. Among(s, S) = kept[N]
  BY DEF Among
<1> HIDE DEF kept
<1>11. kept[0] = <<>> /\ \A n \in 1 .. N : kept[n] = Longer(kept[n - 1], n)
  <2>1. 0 \in 0 .. N /\ \A n \in 1 .. N : n \in 0 .. N /\ n # 0
    BY <1>1
  <2>2. \A n \in 0 .. N : kept[n] = IF n = 0 THEN <<>> ELSE Longer(kept[n - 1], n)
    BY ONLY <1>9
  <2> HIDE DEF Longer
  <2> QED BY <2>1, <2>2
<1> DEFINE Taken(n) == {s[m] : m \in {l \in 1 .. n : s[l] \in S}}
           T == {n \in 0 .. N : Ordered(kept[n], fwd) /\ ToSet(kept[n]) = Taken(n)}
<1>12. 0 \in T
  <2>1. Taken(0) = {} /\ ToSet(<<>>) = {} /\ Ordered(<<>>, fwd)
    BY DEF ToSet, Ordered
  <2>2. kept[0] = <<>> /\ 0 \in 0 .. N
    BY <1>1, <1>11
  <2> HIDE DEF Taken, N
  <2> QED BY <2>1, <2>2
<1>13. ASSUME NEW n \in 0 .. N - 1, n \in T PROVE n + 1 \in T
  <2>1. n + 1 \in 1 .. N /\ n + 1 - 1 = n /\ n + 1 \in 0 .. N
    BY <1>1
  <2>2. kept[n + 1] = Longer(kept[n], n + 1)
    BY <1>11, <2>1
  <2>3. Ordered(kept[n], fwd) /\ ToSet(kept[n]) = Taken(n)
    BY <1>13
  <2>4. CASE s[n + 1] \in S
    <3> DEFINE k == kept[n]
               x == s[n + 1]
               r == Append(k, x)
    <3>1. Taken(n + 1) = Taken(n) \cup {x}
      <4>1. {l \in 1 .. n + 1 : s[l] \in S} = {l \in 1 .. n : s[l] \in S} \cup {n + 1}
        BY <1>1, <2>4
      <4> QED BY <4>1
    <3>2. \A i \in 1 .. Len(k) : Behind(fwd, k[i], x)
      <4>1. \A i \in 1 .. Len(k) : k[i] \in Taken(n)
        <5>1. DOMAIN k = 1 .. Len(k)
          BY <2>3 DEF Ordered
        <5>2. \A i \in DOMAIN k : k[i] \in ToSet(k)
          BY DEF ToSet
        <5> HIDE DEF Taken
        <5> QED BY <2>3, <5>1, <5>2
      <4>2. \A y \in Taken(n) : \E m \in 1 .. n : y = s[m]
        OBVIOUS
      <4>3. \A m \in 1 .. n : Behind(fwd, s[m], x)
        BY <1>1, <2>1 DEF Ordered
      <4> QED BY <4>1, <4>2, <4>3
    <3> HIDE DEF Taken
    <3>3. k \in Seq(Nat) /\ x \in Nat /\ Len(k) \in Nat /\ DOMAIN k = 1 .. Len(k)
      BY <1>1, <2>1, <2>3 DEF Ordered
    <3>4. r \in Seq(Nat) /\ Len(r) = Len(k) + 1 /\ DOMAIN r = 1 .. Len(k) + 1 /\ r[Len(k) + 1] = x /\ \A i \in 1 .. Len(k) : r[i] = k[i]
      BY <3>3
    <3> HIDE DEF r, k, x
    <3>5. \A i \in 1 .. Len(k) + 1 : i \in 1 .. Len(k) \/ i = Len(k) + 1
      BY <3>3
    <3>6. Ordered(r, fwd)
      <4> SUFFICES ASSUME NEW i \in 1 .. Len(r), NEW j \in 1 .. Len(r), i < j PROVE Behind(fwd, r[i], r[j])
        BY <3>4 DEF Ordered
      <4>1. i \in 1 .. Len(k)
        BY <3>3, <3>4
      <4>2. CASE j \in 1 .. Len(k)
        BY <2>3, <3>4, <4>1, <4>2 DEF Ordered, k
      <4>3. CASE j = Len(k) + 1
        BY <3>2, <3>4, <4>1, <4>3
      <4> QED BY <3>4, <3>5, <4>2, <4>3
    <3>7. ToSet(r) = ToSet(k) \cup {x}
      <4>1. \A i \in 1 .. Len(k) : i \in 1 .. Len(k) + 1
        BY <3>3
      <4>2. Len(k) + 1 \in 1 .. Len(k) + 1
        BY <3>3
      <4> QED BY <3>3, <3>4, <3>5, <4>1, <4>2 DEF ToSet
    <3>8. kept[n + 1] = r
      BY <2>2, <2>4 DEF r, k, x
    <3> QED BY <2>1, <2>3, <3>1, <3>6, <3>7, <3>8 DEF k
  <2>5. CASE s[n + 1] \notin S
    <3>1. {l \in 1 .. n + 1 : s[l] \in S} = {l \in 1 .. n : s[l] \in S}
      BY <1>1, <2>5
    <3>2. Taken(n + 1) = Taken(n)
      BY <3>1
    <3> HIDE DEF Taken
    <3> QED BY <2>1, <2>2, <2>3, <2>5, <3>2
  <2> QED BY <2>4, <2>5
<1> HIDE DEF T, N
<1>14. N \in T
  <2>1. 0 .. N \subseteq T
    BY <1>1, <1>12, <1>13, CountingUp
  <2>2. N \in 0 .. N
    BY <1>1
  <2> QED BY <2>1, <2>2
<1>15. Taken(N) = ToSet(s) \cap S
  BY <1>1 DEF ToSet
<1> HIDE DEF Taken
<1> QED BY <1>10, <1>14, <1>15 DEF T

\* A sequence that holds a part of another, the part that is read first, is where the
\* other one begins.
LEMMA BeginsWith ==
  ASSUME NEW fwd, NEW p, NEW q, Ordered(p, fwd), Ordered(q, fwd), ToSet(p) \subseteq ToSet(q),
         \A x \in ToSet(q) \ ToSet(p), y \in ToSet(p) : Behind(fwd, y, x)
  PROVE  IsPrefix(p, q)
<1> DEFINE m == Len(p)
           n == Len(q)
           T == {i \in 1 .. m : i > n \/ p[i] # q[i]}
<1>1. /\ p \in Seq(Nat) /\ q \in Seq(Nat) /\ m \in Nat /\ n \in Nat /\ DOMAIN p = 1 .. m /\ DOMAIN q = 1 .. n
      /\ (\A i \in 1 .. m : p[i] \in Nat) /\ \A i \in 1 .. n : q[i] \in Nat
  BY DEF Ordered
<1>2. (\A i, j \in 1 .. m : i < j => Behind(fwd, p[i], p[j])) /\ \A i, j \in 1 .. n : i < j => Behind(fwd, q[i], q[j])
  BY DEF Ordered
<1>3. \A x, y \in Nat : Behind(fwd, x, y) => ~Behind(fwd, y, x) /\ x # y
  BY DEF Behind
<1> HIDE DEF m, n
<1>4. T = {}
  <2> SUFFICES ASSUME T # {} PROVE FALSE
    OBVIOUS
  <2>1. T \subseteq Nat
    BY <1>1
  <2>2. PICK i \in T : \A k \in T : i <= k
    BY <2>1, LeastNumber
  <2>3. i \in 1 .. m /\ \A k \in 1 .. m : k < i => k <= n /\ p[k] = q[k]
    <3>1. i \in 1 .. m
      BY <2>2
    <3>2. \A k \in 1 .. m : k < i => k \notin T
      BY <1>1, <2>2, <3>1
    <3>3. \A k \in 1 .. m : k \notin T => ~(k > n) /\ p[k] = q[k]
      OBVIOUS
    <3> HIDE DEF T
    <3>4. \A k \in 1 .. m : ~(k > n) => k <= n
      BY <1>1
    <3> QED BY <3>1, <3>2, <3>3, <3>4
  <2>4. p[i] \in ToSet(p)
    BY <1>1, <2>3 DEF ToSet
  <2>5. PICK j \in 1 .. n : q[j] = p[i]
    BY <1>1, <2>4 DEF ToSet
  <2>6. ~(j < i)
    <3> SUFFICES ASSUME j < i PROVE FALSE
      OBVIOUS
    <3>1. j \in 1 .. m
      BY <1>1, <2>3
    <3>2. p[j] = p[i]
      BY <2>3, <2>5, <3>1
    <3> QED BY <1>1, <1>2, <1>3, <2>3, <3>1, <3>2
  <2>7. i \in 1 .. n
    BY <1>1, <2>3, <2>6
  <2>8. j # i
    <3>1. p[i] # q[i]
      BY <1>1, <2>2, <2>7
    <3> QED BY <2>5, <3>1
  <2>9. Behind(fwd, q[i], p[i])
    <3>1. i < j
      BY <1>1, <2>6, <2>7, <2>8
    <3> QED BY <1>2, <2>5, <2>7, <3>1
  <2>10. CASE q[i] \in ToSet(p)
    <3>1. PICK k \in 1 .. m : p[k] = q[i]
      BY <1>1, <2>10 DEF ToSet
    <3>2. ~(k < i)
      <4> SUFFICES ASSUME k < i PROVE FALSE
        OBVIOUS
      <4>1. k \in 1 .. n /\ q[k] = q[i]
        BY <1>1, <2>3, <3>1
      <4> QED BY <1>1, <1>2, <1>3, <2>7, <4>1
    <3>3. ~(i < k)
      <4> SUFFICES ASSUME i < k PROVE FALSE
        OBVIOUS
      <4>1. Behind(fwd, p[i], q[i])
        BY <1>2, <2>3, <3>1
      <4> QED BY <1>1, <1>3, <2>3, <2>7, <2>9, <4>1
    <3>4. k = i
      BY <1>1, <2>3, <3>2, <3>3
    <3> QED BY <1>1, <1>3, <2>3, <2>9, <3>1, <3>4
  <2>11. CASE q[i] \notin ToSet(p)
    <3>1. q[i] \in ToSet(q)
      BY <1>1, <2>7 DEF ToSet
    <3>2. Behind(fwd, p[i], q[i])
      BY <2>4, <2>11, <3>1
    <3> QED BY <1>1, <1>3, <2>3, <2>7, <2>9, <3>2
  <2> QED BY <2>10, <2>11
<1>5. m <= n /\ \A i \in 1 .. m : p[i] = q[i]
  <2>1. \A i \in 1 .. m : ~(i > n) /\ p[i] = q[i]
    BY <1>4
  <2>2. m \in 1 .. m \/ m = 0
    BY <1>1
  <2> QED BY <1>1, <2>1, <2>2
<1>6. SubSeq(p, 1, m) = SubSeq(q, 1, m)
  <2>1. \A i \in 1 .. m : p[i] = q[i]
    BY <1>5
  <2>2. SubSeq(p, 1, m) \in Seq(Nat) /\ Len(SubSeq(p, 1, m)) = m /\ \A i \in 1 .. m : SubSeq(p, 1, m)[i] = p[i]
    BY <1>1
  <2>3. SubSeq(q, 1, m) \in Seq(Nat) /\ Len(SubSeq(q, 1, m)) = m /\ \A i \in 1 .. m : SubSeq(q, 1, m)[i] = q[i]
    BY <1>1, <1>5
  <2> DEFINE a == SubSeq(p, 1, m) b == SubSeq(q, 1, m)
  <2>4. a \in Seq(Nat) /\ b \in Seq(Nat) /\ Len(a) = m /\ Len(b) = m /\ \A i \in 1 .. m : a[i] = b[i]
    BY <2>1, <2>2, <2>3
  <2> HIDE DEF a, b
  <2>5. a = b
    BY <2>4, SeqEqual
  <2> QED BY <2>5 DEF a, b
<1> QED BY <1>5, <1>6 DEF IsPrefix, m, n

----------------------------------------------------------------------------
(* A request whose placeholders are all different says what the chain says.     *)
NamesIn(s) == {s[i].name : i \in DOMAIN s}
NamedOnce(s) == \A m, n \in DOMAIN s : m # n => s[m].name # s[n].name

\* Two lists with placeholders of their own: one list, each placeholder once.
LEMMA JoinNames ==
  ASSUME NEW s, NEW t, s \in Seq(ToSet(s)), t \in Seq(ToSet(t)), NamedOnce(s), NamedOnce(t), NamesIn(s) \cap NamesIn(t) = {}
  PROVE  /\ s \o t \in Seq(ToSet(s \o t)) /\ NamedOnce(s \o t) /\ NamesIn(s \o t) = NamesIn(s) \cup NamesIn(t)
         /\ ToSet(s \o t) = ToSet(s) \cup ToSet(t)
<1> DEFINE j == s \o t
           m == Len(s)
           n == Len(t)
           S == ToSet(s)
           U == ToSet(t)
<1>0. s \in Seq(S) /\ t \in Seq(U)
  OBVIOUS
<1> HIDE DEF S, U
<1>1. /\ m \in Nat /\ n \in Nat /\ DOMAIN s = 1 .. m /\ DOMAIN t = 1 .. n
      /\ j \in Seq(S \cup U) /\ DOMAIN j = 1 .. m + n
  <2>1. s \in Seq(S \cup U) /\ t \in Seq(S \cup U)
    BY <1>0
  <2> QED BY <2>1
<1>2. /\ \A i \in 1 .. m : j[i] = s[i]
      /\ \A i \in m + 1 .. m + n : j[i] = t[i - m]
  BY <1>0
<1> HIDE DEF j, m, n
<1>3. \A i \in 1 .. m + n : i \in 1 .. m \/ (i \in m + 1 .. m + n /\ i - m \in 1 .. n)
  BY <1>1
<1>4. \A i \in 1 .. n : i + m \in m + 1 .. m + n /\ i + m \in 1 .. m + n /\ (i + m) - m = i
  BY <1>1
<1>5. (\A i \in 1 .. m : i \in 1 .. m + n /\ j[i] = s[i]) /\ \A i \in 1 .. n : i + m \in 1 .. m + n /\ j[i + m] = t[i]
  <2>1. \A i \in 1 .. m : i \in 1 .. m + n
    BY <1>1
  <2>2. ASSUME NEW i \in 1 .. n PROVE j[i + m] = t[i]
    <3> DEFINE k == i + m
    <3>1. k \in m + 1 .. m + n /\ k - m = i
      BY <1>4
    <3> HIDE DEF k
    <3>2. j[k] = t[k - m]
      BY <1>2, <3>1
    <3> QED BY <3>1, <3>2 DEF k
  <2> QED BY <1>2, <1>4, <2>1, <2>2
<1>6. \A i \in 1 .. m, k \in 1 .. n : s[i].name # t[k].name
  <2>1. (\A i \in 1 .. m : s[i].name \in NamesIn(s)) /\ \A k \in 1 .. n : t[k].name \in NamesIn(t)
    BY <1>1 DEF NamesIn
  <2> QED BY <2>1
<1>7. NamedOnce(j)
  <2> SUFFICES ASSUME NEW i \in 1 .. m + n, NEW k \in 1 .. m + n, i # k PROVE j[i].name # j[k].name
    BY <1>1 DEF NamedOnce
  <2>1. CASE i \in 1 .. m /\ k \in 1 .. m
    BY <1>1, <1>2, <2>1 DEF NamedOnce
  <2>2. CASE i \notin 1 .. m /\ k \notin 1 .. m
    <3>1. i - m # k - m
      BY <1>1
    <3>2. j[i] = t[i - m] /\ j[k] = t[k - m] /\ i - m \in DOMAIN t /\ k - m \in DOMAIN t
      BY <1>1, <1>2, <1>3, <2>2
    <3> QED BY <3>1, <3>2 DEF NamedOnce
  <2>3. CASE i \in 1 .. m /\ k \notin 1 .. m
    BY <1>2, <1>3, <1>6, <2>3
  <2>4. CASE i \notin 1 .. m /\ k \in 1 .. m
    BY <1>2, <1>3, <1>6, <2>4
  <2> QED BY <2>1, <2>2, <2>3, <2>4
<1>8. NamesIn(j) = NamesIn(s) \cup NamesIn(t)
  <2>1. NamesIn(j) \subseteq NamesIn(s) \cup NamesIn(t)
    BY <1>1, <1>2, <1>3 DEF NamesIn
  <2>2. NamesIn(s) \subseteq NamesIn(j)
    <3>1. \A i \in DOMAIN s : i \in DOMAIN j /\ j[i] = s[i]
      BY <1>1, <1>5
    <3> QED BY <3>1 DEF NamesIn
  <2>3. NamesIn(t) \subseteq NamesIn(j)
    <3>1. \A i \in DOMAIN t : \E k \in DOMAIN j : j[k] = t[i]
      BY <1>1, <1>5
    <3>2. \A i \in DOMAIN t : \E k \in DOMAIN j : j[k].name = t[i].name
      BY <3>1
    <3> QED BY <3>2 DEF NamesIn
  <2> QED BY <2>1, <2>2, <2>3
<1>9. ToSet(j) = ToSet(s) \cup ToSet(t)
  <2>1. ToSet(j) \subseteq ToSet(s) \cup ToSet(t)
    BY <1>1, <1>2, <1>3 DEF ToSet
  <2>2. ToSet(s) \subseteq ToSet(j) /\ ToSet(t) \subseteq ToSet(j)
    BY <1>1, <1>5 DEF ToSet
  <2> QED BY <2>1, <2>2
<1>10. j \in Seq(ToSet(j))
  <2>1. j \in Seq(S \cup U) /\ ToSet(j) = S \cup U
    BY <1>1, <1>9 DEF S, U
  <2> HIDE DEF S, U
  <2> QED BY <2>1
<1> QED BY <1>7, <1>8, <1>9, <1>10 DEF j

\* One prefix and a counter: no two placeholders are equal.
LEMMA WritesAre ==
  ASSUME NEW conds, conds \in Seq(ToSet(conds)), NEW prefix, NEW from \in Nat
  PROVE  LET ws == Writes(conds, prefix, from)
         IN  /\ ws \in Seq(ToSet(ws)) /\ NamedOnce(ws) /\ NamesIn(ws) \subseteq {<<prefix, n>> : n \in Nat}
             /\ DOMAIN ws = DOMAIN conds /\ \A i \in DOMAIN conds : ws[i].condition = conds[i]
<1> DEFINE ws == Writes(conds, prefix, from)
<1>1. DOMAIN conds = 1 .. Len(conds) /\ Len(conds) \in Nat
  OBVIOUS
<1>2. DOMAIN ws = 1 .. Len(conds) /\ ws = [i \in 1 .. Len(conds) |-> ws[i]]
      /\ \A i \in 1 .. Len(conds) : ws[i].name = <<prefix, from + i>> /\ ws[i].condition = conds[i]
  BY <1>1 DEF Writes, Placeholder
<1> HIDE DEF ws
<1>3. ws \in Seq(ToSet(ws))
  <2>1. ws \in [1 .. Len(conds) -> ToSet(ws)]
    BY <1>2 DEF ToSet
  <2> QED BY <1>1, <2>1
<1>4. NamedOnce(ws)
  <2> SUFFICES ASSUME NEW m \in 1 .. Len(conds), NEW n \in 1 .. Len(conds), m # n PROVE ws[m].name # ws[n].name
    BY <1>2 DEF NamedOnce
  <2>1. from + m # from + n
    BY <1>1
  <2> QED BY <1>2, <2>1
<1>5. NamesIn(ws) \subseteq {<<prefix, n>> : n \in Nat}
  <2>1. \A i \in 1 .. Len(conds) : from + i \in Nat
    BY <1>1
  <2>2. \A i \in DOMAIN ws : ws[i].name \in {<<prefix, n>> : n \in Nat}
    BY <1>2, <2>1
  <2> QED BY <2>2 DEF NamesIn
<1> QED BY <1>1, <1>2, <1>3, <1>4, <1>5 DEF ws

Resolved(written, w) ==
  written[CHOOSE i \in DOMAIN written :
            written[i].name = w.name /\ \A j \in DOMAIN written : j > i => written[j].name # w.name].condition.attribute

\* A placeholder that is written once stands for what it was written for.
LEMMA ResolvesItself ==
  ASSUME NEW written, written \in Seq(ToSet(written)), NamedOnce(written), NEW w \in ToSet(written)
  PROVE  Resolved(written, w) = w.condition.attribute
<1>1. PICK k \in DOMAIN written : written[k] = w
  BY DEF ToSet
<1> DEFINE Last1(i) == written[i].name = w.name /\ \A j \in DOMAIN written : j > i => written[j].name # w.name
           last == CHOOSE i \in DOMAIN written : Last1(i)
<1>2. \A i \in DOMAIN written : written[i].name = w.name => i = k
  BY <1>1 DEF NamedOnce
<1>3. Last1(k)
  <2> SUFFICES ASSUME NEW j \in DOMAIN written, j > k, written[j].name = w.name PROVE FALSE
    BY <1>1
  <2>1. j = k
    BY <1>2
  <2>2. k \in Nat
    OBVIOUS
  <2> QED BY <2>1, <2>2
<1> HIDE DEF Last1
<1>4. Last1(last)
  BY <1>3
<1>5. last = k
  <2>1. last \in DOMAIN written
    BY <1>3
  <2> HIDE DEF last
  <2> QED BY <1>2, <1>4, <2>1 DEF Last1
<1>6. Resolved(written, w) = written[last].condition.attribute
  BY DEF Resolved, Last1
<1> QED BY <1>1, <1>5, <1>6

Conditions(s) == s \in Seq(ToSet(s)) /\ \A i \in DOMAIN s : IsCondition(s[i])
Unwritten(ws) == [i \in DOMAIN ws |-> ws[i].condition]

\* The request then says what the lists say.
LEMMA RequestSays ==
  ASSUME NEW K, NEW F, NEW P, K \in Seq(ToSet(K)), F \in Seq(ToSet(F)), P \in Seq(ToSet(P)),
         NamedOnce(K), NamedOnce(F), NamedOnce(P), NamesIn(K) \cap NamesIn(F) = {},
         (NamesIn(K) \cup NamesIn(F)) \cap NamesIn(P) = {},
         \A w \in ToSet(K) \cup ToSet(F) : IsCondition(w.condition)
  PROVE  Request(K, F, P) = [key |-> Unwritten(K), filter |-> Unwritten(F),
                             projection |-> {w.condition.attribute : w \in ToSet(P)}]
<1> DEFINE written == K \o F \o P
           Clauses(ws) == [i \in DOMAIN ws |-> [ws[i].condition EXCEPT !.attribute = Resolved(written, ws[i])]]
<1>1. written \in Seq(ToSet(written)) /\ NamedOnce(written) /\ ToSet(written) = ToSet(K) \cup ToSet(F) \cup ToSet(P)
  <2> DEFINE a == K \o F
  <2>1. /\ a \in Seq(ToSet(a)) /\ NamedOnce(a) /\ NamesIn(a) = NamesIn(K) \cup NamesIn(F)
        /\ ToSet(a) = ToSet(K) \cup ToSet(F)
    BY JoinNames
  <2> HIDE DEF a
  <2>2. a \o P \in Seq(ToSet(a \o P)) /\ NamedOnce(a \o P) /\ ToSet(a \o P) = ToSet(a) \cup ToSet(P)
    BY <2>1, JoinNames
  <2> QED BY <2>1, <2>2 DEF a
<1> HIDE DEF written
<1>2. \A w \in ToSet(K) \cup ToSet(F) \cup ToSet(P) : Resolved(written, w) = w.condition.attribute
  BY <1>1, ResolvesItself
<1>3. \A c : IsCondition(c) => [c EXCEPT !.attribute = c.attribute] = c
  BY DEF IsCondition, Condition
<1>4. Clauses(K) = Unwritten(K) /\ Clauses(F) = Unwritten(F)
  <2>1. ASSUME NEW ws, ToSet(ws) \subseteq ToSet(K) \cup ToSet(F) PROVE Clauses(ws) = Unwritten(ws)
    <3>1. \A i \in DOMAIN ws : ws[i] \in ToSet(K) \cup ToSet(F)
      BY <2>1 DEF ToSet
    <3>2. \A i \in DOMAIN ws : [ws[i].condition EXCEPT !.attribute = Resolved(written, ws[i])] = ws[i].condition
      BY <1>2, <1>3, <3>1
    <3> QED BY <3>2 DEF Unwritten
  <2> HIDE DEF Clauses
  <2> QED BY <2>1
<1>5. {Resolved(written, P[i]) : i \in DOMAIN P} = {w.condition.attribute : w \in ToSet(P)}
  <2>1. \A i \in DOMAIN P : P[i] \in ToSet(P) /\ Resolved(written, P[i]) = P[i].condition.attribute
    BY <1>2 DEF ToSet
  <2>2. \A w \in ToSet(P) : \E i \in DOMAIN P : w = P[i]
    BY DEF ToSet
  <2> QED BY <2>1, <2>2
<1>6. Request(K, F, P) = [key |-> Clauses(K), filter |-> Clauses(F), projection |-> {Resolved(written, P[i]) : i \in DOMAIN P}]
  BY DEF Request, Resolved, written
<1> HIDE DEF Clauses
<1> QED BY <1>4, <1>5, <1>6

\* Behind the placeholders stand the conditions.
LEMMA UnwritesTo ==
  ASSUME NEW conds, conds \in Seq(ToSet(conds)), NEW prefix, NEW from \in Nat
  PROVE  /\ Unwritten(Writes(conds, prefix, from)) = conds
         /\ ToSet(conds) = {w.condition : w \in ToSet(Writes(conds, prefix, from))}
<1> DEFINE ws == Writes(conds, prefix, from)
<1>1. DOMAIN ws = DOMAIN conds /\ \A i \in DOMAIN conds : ws[i].condition = conds[i]
  BY WritesAre
<1> HIDE DEF ws
<1>2. conds = [i \in DOMAIN conds |-> conds[i]]
  OBVIOUS
<1> QED BY <1>1, <1>2 DEF Unwritten, ToSet, ws

\* The places of two sequences in their sum.
LEMMA SumIs ==
  ASSUME NEW S, NEW s \in Seq(S), NEW U, NEW t \in Seq(U)
  PROVE  /\ Len(s) \in Nat /\ Len(t) \in Nat /\ DOMAIN s = 1 .. Len(s) /\ DOMAIN t = 1 .. Len(t)
         /\ DOMAIN (s \o t) = 1 .. Len(s) + Len(t) /\ s \o t = [i \in 1 .. Len(s) + Len(t) |-> (s \o t)[i]]
         /\ \A i \in 1 .. Len(s) + Len(t) : (s \o t)[i] = IF i <= Len(s) THEN s[i] ELSE t[i - Len(s)]
<1>1. s \in Seq(S \cup U) /\ t \in Seq(S \cup U)
  OBVIOUS
<1>2. s \o t \in Seq(S \cup U) /\ DOMAIN (s \o t) = 1 .. Len(s) + Len(t)
  BY <1>1
<1>3. \A X : \A q \in Seq(X) : q = [i \in DOMAIN q |-> q[i]]
  OBVIOUS
<1>4. s \o t = [i \in 1 .. Len(s) + Len(t) |-> (s \o t)[i]]
  BY <1>2, <1>3
<1>5. \A i \in 1 .. Len(s) + Len(t) : (s \o t)[i] = IF i <= Len(s) THEN s[i] ELSE t[i - Len(s)]
  OBVIOUS
<1> QED BY <1>2, <1>4, <1>5

\* The conditions of two lists of writes, one after the other.
LEMMA UnwritesJoin ==
  ASSUME NEW S, NEW s \in Seq(S), NEW U, NEW t \in Seq(U)
  PROVE  Unwritten(s \o t) = Unwritten(s) \o Unwritten(t)
<1> DEFINE m == Len(s)
           n == Len(t)
           a == Unwritten(s \o t)
           u == Unwritten(s)
           v == Unwritten(t)
           V == {s[i].condition : i \in 1 .. m} \cup {t[i].condition : i \in 1 .. n}
<1>1. /\ m \in Nat /\ n \in Nat /\ DOMAIN s = 1 .. m /\ DOMAIN t = 1 .. n /\ DOMAIN (s \o t) = 1 .. m + n
      /\ \A i \in 1 .. m + n : (s \o t)[i] = IF i <= m THEN s[i] ELSE t[i - m]
  OBVIOUS
<1>2. /\ a = [i \in 1 .. m + n |-> (s \o t)[i].condition] /\ u = [i \in 1 .. m |-> s[i].condition]
      /\ v = [i \in 1 .. n |-> t[i].condition]
  BY <1>1 DEF Unwritten
<1> HIDE DEF a, u, v, m, n
<1>3. u \in [1 .. m -> V] /\ v \in [1 .. n -> V]
  BY <1>2
<1> HIDE DEF V
<1>4. u \in Seq(V) /\ v \in Seq(V) /\ Len(u) = m /\ Len(v) = n
  <2>1. \A k \in Nat : \A g \in [1 .. k -> V] : g \in Seq(V) /\ Len(g) = k
    OBVIOUS
  <2> QED BY <1>1, <1>3, <2>1
<1>5. \A i \in 1 .. m + n : i <= m \/ i - m \in 1 .. n
  BY <1>1
<1>6. \A i \in 1 .. m + n : i <= m => i \in 1 .. m
  BY <1>1
<1>7. \A i \in 1 .. m + n : a[i] = IF i <= m THEN u[i] ELSE v[i - m]
  BY <1>1, <1>2, <1>5, <1>6
<1>8. DOMAIN a = 1 .. m + n /\ a = [i \in 1 .. m + n |-> a[i]]
  BY <1>2
<1>9. /\ DOMAIN (u \o v) = 1 .. m + n /\ (u \o v) = [i \in 1 .. m + n |-> (u \o v)[i]]
      /\ \A i \in 1 .. m + n : (u \o v)[i] = IF i <= m THEN u[i] ELSE v[i - m]
  BY <1>4, SumIs
<1> QED BY <1>7, <1>8, <1>9 DEF a, u, v

----------------------------------------------------------------------------
(* The builder.                                                              *)
BuilderFields == {"kind", "pk", "sk", "filters", "projection", "limit", "forward", "start"}
BuilderOk(b) ==
  /\ DOMAIN b = BuilderFields /\ b.kind \in Kinds
  /\ Conditions(b.pk) /\ \A i \in DOMAIN b.pk : b.pk[i].attribute = "pk"
  /\ Conditions(b.sk) /\ \A i \in DOMAIN b.sk : b.sk[i].attribute = "sk"
  /\ Conditions(b.filters) /\ b.projection \in Seq(ToSet(b.projection))
  /\ b.limit \in Nat /\ b.start \in Nat /\ b.forward \in BOOLEAN /\ (b.kind = "model" => b.sk = <<>>)

\* Conditions of two lists.
LEMMA ConditionsJoin ==
  ASSUME NEW s, NEW t, Conditions(s), Conditions(t)
  PROVE  Conditions(s \o t) /\ ToSet(s \o t) = ToSet(s) \cup ToSet(t)
<1> DEFINE j == s \o t
           m == Len(s)
           n == Len(t)
<1>1. s \in Seq(ToSet(s)) /\ t \in Seq(ToSet(t))
  BY DEF Conditions
<1>2. /\ m \in Nat /\ n \in Nat /\ DOMAIN s = 1 .. m /\ DOMAIN t = 1 .. n /\ DOMAIN j = 1 .. m + n
      /\ j = [i \in 1 .. m + n |-> j[i]] /\ \A i \in 1 .. m + n : j[i] = IF i <= m THEN s[i] ELSE t[i - m]
  BY <1>1, SumIs
<1> HIDE DEF j, m, n
<1>3. \A i \in 1 .. m + n : j[i] \in ToSet(s) \/ j[i] \in ToSet(t)
  <2>1. \A i \in 1 .. m + n : (i <= m /\ i \in 1 .. m) \/ (~(i <= m) /\ i - m \in 1 .. n)
    BY <1>2
  <2> QED BY <1>2, <2>1 DEF ToSet
<1>4. ToSet(j) \subseteq ToSet(s) \cup ToSet(t)
  BY <1>2, <1>3 DEF ToSet
<1>5. ToSet(s) \subseteq ToSet(j)
  <2>1. \A i \in DOMAIN s : i \in DOMAIN j /\ j[i] = s[i]
    BY <1>2
  <2> QED BY <2>1 DEF ToSet
<1>6. ToSet(t) \subseteq ToSet(j)
  <2>1. ASSUME NEW i \in 1 .. n PROVE i + m \in DOMAIN j /\ j[i + m] = t[i]
    <3> DEFINE k == i + m
    <3>1. k \in 1 .. m + n /\ ~(k <= m) /\ k - m = i
      BY <1>2
    <3> HIDE DEF k
    <3> QED BY <1>2, <3>1 DEF k
  <2> QED BY <1>2, <2>1 DEF ToSet
<1>7. j \in Seq(ToSet(j))
  <2>1. j \in [1 .. m + n -> ToSet(j)]
    BY <1>2 DEF ToSet
  <2> QED BY <1>2, <2>1
<1>8. \A i \in DOMAIN j : IsCondition(j[i])
  <2>1. (\A c \in ToSet(s) : IsCondition(c)) /\ \A c \in ToSet(t) : IsCondition(c)
    BY DEF Conditions, ToSet
  <2> QED BY <1>2, <1>3, <2>1
<1> QED BY <1>4, <1>5, <1>6, <1>7, <1>8 DEF Conditions, j

\* Four lists under four prefixes.
LEMMA ChainWrites ==
  ASSUME NEW K, K \in Seq(ToSet(K)), NamedOnce(K), \A w \in ToSet(K) : IsCondition(w.condition),
         NEW filters, Conditions(filters), NEW projection, projection \in Seq(ToSet(projection)),
         NEW f, NEW from \in Nat, NEW below \in Nat,
         NamesIn(K) \cap {<<f, n>> : n \in Nat} = {}, NamesIn(K) \cap {<<"proj", n>> : n \in Nat} = {}, f # "proj"
  PROVE  LET r == Request(K, Writes(filters, f, from), Writes(Selected([projection |-> projection]), "proj", below))
         IN  r.key = Unwritten(K) /\ r.filter = filters /\ r.projection = ToSet(projection)
<1> DEFINE selected == Selected([projection |-> projection])
           F == Writes(filters, f, from)
           P == Writes(selected, "proj", below)
<1>1. selected \in Seq(ToSet(selected)) /\ ToSet(selected) = {Condition(a, "", <<>>) : a \in ToSet(projection)}
  <2>1. DOMAIN projection = 1 .. Len(projection) /\ Len(projection) \in Nat
    OBVIOUS
  <2>2. selected = [i \in 1 .. Len(projection) |-> Condition(projection[i], "", <<>>)]
    BY <2>1 DEF Selected
  <2> HIDE DEF selected
  <2>3. DOMAIN selected = 1 .. Len(projection) /\ \A i \in DOMAIN selected : selected[i] = Condition(projection[i], "", <<>>)
    BY <2>2
  <2>4. selected \in [1 .. Len(projection) -> ToSet(selected)]
    BY <2>2, <2>3 DEF ToSet
  <2>5. selected \in Seq(ToSet(selected))
    BY <2>1, <2>4
  <2> QED BY <2>1, <2>3, <2>5 DEF ToSet
<1>2. filters \in Seq(ToSet(filters)) /\ \A c \in ToSet(filters) : IsCondition(c)
  BY DEF Conditions, ToSet
<1>3. F \in Seq(ToSet(F)) /\ NamedOnce(F) /\ NamesIn(F) \subseteq {<<f, n>> : n \in Nat}
  BY <1>2, WritesAre
<1>4. P \in Seq(ToSet(P)) /\ NamedOnce(P) /\ NamesIn(P) \subseteq {<<"proj", n>> : n \in Nat}
  BY <1>1, WritesAre
<1>5. Unwritten(F) = filters /\ \A w \in ToSet(F) : IsCondition(w.condition)
  BY <1>2, UnwritesTo
<1>6. {w.condition : w \in ToSet(P)} = {Condition(a, "", <<>>) : a \in ToSet(projection)}
  BY <1>1, UnwritesTo
<1> HIDE DEF F, P, selected
<1>7. {<<f, n>> : n \in Nat} \cap {<<"proj", n>> : n \in Nat} = {}
  OBVIOUS
<1>8. NamesIn(K) \cap NamesIn(F) = {} /\ (NamesIn(K) \cup NamesIn(F)) \cap NamesIn(P) = {}
  BY <1>3, <1>4, <1>7
<1>9. \A w \in ToSet(K) \cup ToSet(F) : IsCondition(w.condition)
  BY <1>5
<1>10. Request(K, F, P) = [key |-> Unwritten(K), filter |-> Unwritten(F), projection |-> {w.condition.attribute : w \in ToSet(P)}]
  BY <1>3, <1>4, <1>8, <1>9, RequestSays
<1>11. {w.condition.attribute : w \in ToSet(P)} = ToSet(projection)
  <2>1. {w.condition.attribute : w \in ToSet(P)} = {c.attribute : c \in {w.condition : w \in ToSet(P)}}
    OBVIOUS
  <2>2. \A a : Condition(a, "", <<>>).attribute = a
    BY DEF Condition
  <2>3. {c.attribute : c \in {Condition(a, "", <<>>) : a \in ToSet(projection)}} = ToSet(projection)
    BY <2>2
  <2> QED BY <1>6, <2>1, <2>3
<1> DEFINE r == Request(K, F, P)
<1>12. r.key = Unwritten(K) /\ r.filter = filters /\ r.projection = ToSet(projection)
  BY ONLY <1>5, <1>10, <1>11
<1> QED BY <1>12 DEF F, P, selected

\* Each of the four builders sends the key conditions, filters and attributes of its chain.
LEMMA RequestOfSays ==
  ASSUME NEW b, BuilderOk(b)
  PROVE  /\ RequestOf(b).key = b.pk \o b.sk /\ RequestOf(b).filter = b.filters
         /\ RequestOf(b).projection = ToSet(b.projection)
<1> DEFINE key == b.pk \o b.sk
           sel == [projection |-> b.projection]
           Prefixed(p) == {<<p, n>> : n \in Nat}
<1>1. /\ Conditions(b.pk) /\ Conditions(b.sk) /\ Conditions(b.filters) /\ b.projection \in Seq(ToSet(b.projection))
      /\ b.kind \in Kinds /\ (b.kind = "model" => b.sk = <<>>)
  BY DEF BuilderOk
<1>2. Conditions(key)
  BY <1>1, ConditionsJoin
<1>3. Selected(b) = Selected(sel)
  BY DEF Selected
<1>4. Len(b.pk) \in Nat /\ Len(b.sk) \in Nat /\ Len(b.filters) \in Nat /\ Len(key) \in Nat
  <2>1. b.pk \in Seq(ToSet(b.pk)) /\ b.sk \in Seq(ToSet(b.sk)) /\ b.filters \in Seq(ToSet(b.filters)) /\ key \in Seq(ToSet(key))
    BY <1>1, <1>2 DEF Conditions
  <2> HIDE DEF key
  <2> QED BY <2>1
<1> DEFINE lp == Len(b.pk) ls == Len(b.sk) lf == Len(b.filters) lk == Len(key)
<1> HIDE DEF lp, ls, lf, lk
<1>12. lp \in Nat /\ lp + ls \in Nat /\ lp + ls + lf \in Nat /\ lk \in Nat /\ lk + lf \in Nat /\ lp + lf \in Nat
  <2>1. lp \in Nat /\ ls \in Nat /\ lf \in Nat /\ lk \in Nat
    BY <1>4 DEF lp, ls, lf, lk
  <2> QED BY ONLY <2>1
<1>5. \A p, q : p # q => Prefixed(p) \cap Prefixed(q) = {}
  OBVIOUS
<1>6. ASSUME NEW conds, Conditions(conds), NEW p, NEW from \in Nat
      PROVE  LET ws == Writes(conds, p, from)
             IN  /\ ws \in Seq(ToSet(ws)) /\ NamedOnce(ws) /\ NamesIn(ws) \subseteq Prefixed(p)
                 /\ Unwritten(ws) = conds /\ \A w \in ToSet(ws) : IsCondition(w.condition)
  <2>1. conds \in Seq(ToSet(conds)) /\ \A c \in ToSet(conds) : IsCondition(c)
    BY <1>6 DEF Conditions, ToSet
  <2>2. /\ Writes(conds, p, from) \in Seq(ToSet(Writes(conds, p, from))) /\ NamedOnce(Writes(conds, p, from))
        /\ NamesIn(Writes(conds, p, from)) \subseteq Prefixed(p)
    BY <2>1, WritesAre
  <2>3. /\ Unwritten(Writes(conds, p, from)) = conds
        /\ ToSet(conds) = {w.condition : w \in ToSet(Writes(conds, p, from))}
    BY <2>1, UnwritesTo
  <2> QED BY <2>1, <2>2, <2>3
<1>7. ASSUME NEW K, K \in Seq(ToSet(K)), NamedOnce(K), \A w \in ToSet(K) : IsCondition(w.condition),
             NEW f \in {"flt", "attr"}, NEW from \in Nat, NEW below \in Nat,
             NamesIn(K) \cap Prefixed(f) = {}, NamesIn(K) \cap Prefixed("proj") = {}
      PROVE  LET r == Request(K, Writes(b.filters, f, from), Writes(Selected(b), "proj", below))
             IN  r.key = Unwritten(K) /\ r.filter = b.filters /\ r.projection = ToSet(b.projection)
  <2>1. f # "proj"
    OBVIOUS
  <2> HIDE DEF sel
  <2> QED BY <1>1, <1>3, <1>7, <2>1, ChainWrites DEF sel
<1>8. CASE b.kind = "entity"
  <2> DEFINE A == Writes(b.pk, "pk", 0)
             B == Writes(b.sk, "sk", lp)
             K == A \o B
  <2>1. /\ A \in Seq(ToSet(A)) /\ NamedOnce(A) /\ NamesIn(A) \subseteq Prefixed("pk")
        /\ Unwritten(A) = b.pk /\ \A w \in ToSet(A) : IsCondition(w.condition)
    BY <1>1, <1>6
  <2>2. /\ B \in Seq(ToSet(B)) /\ NamedOnce(B) /\ NamesIn(B) \subseteq Prefixed("sk")
        /\ Unwritten(B) = b.sk /\ \A w \in ToSet(B) : IsCondition(w.condition)
    BY <1>1, <1>12, <1>6
  <2> HIDE DEF A, B
  <2>3. NamesIn(A) \cap NamesIn(B) = {}
    <3>1. Prefixed("pk") \cap Prefixed("sk") = {}
      BY <1>5
    <3> HIDE DEF Prefixed
    <3> QED BY <2>1, <2>2, <3>1
  <2>4. /\ K \in Seq(ToSet(K)) /\ NamedOnce(K) /\ NamesIn(K) = NamesIn(A) \cup NamesIn(B)
        /\ ToSet(K) = ToSet(A) \cup ToSet(B)
    <3>1. A \in Seq(ToSet(A)) /\ B \in Seq(ToSet(B)) /\ NamedOnce(A) /\ NamedOnce(B) /\ NamesIn(A) \cap NamesIn(B) = {}
      BY <2>1, <2>2, <2>3
    <3> QED BY <3>1, JoinNames
  <2>5. Unwritten(K) = key
    BY <2>1, <2>2, UnwritesJoin
  <2> HIDE DEF K
  <2>6. NamesIn(K) \cap Prefixed("flt") = {} /\ NamesIn(K) \cap Prefixed("proj") = {}
    <3>1. /\ Prefixed("pk") \cap Prefixed("flt") = {} /\ Prefixed("sk") \cap Prefixed("flt") = {}
          /\ Prefixed("pk") \cap Prefixed("proj") = {} /\ Prefixed("sk") \cap Prefixed("proj") = {}
      BY <1>5
    <3> HIDE DEF Prefixed
    <3> QED BY <2>1, <2>2, <2>4, <3>1
  <2>7. K \in Seq(ToSet(K)) /\ \A w \in ToSet(K) : IsCondition(w.condition)
    BY <2>1, <2>2, <2>4
  <2>8. RequestOf(b) = Request(K, Writes(b.filters, "flt", lp + ls), Writes(Selected(b), "proj", lp + ls + lf))
    BY <1>8 DEF RequestOf, ToRequest, K, A, B, lp, ls, lf
  <2> HIDE DEF Prefixed, key
  <2>20. LET r == Request(K, Writes(b.filters, "flt", lp + ls), Writes(Selected(b), "proj", lp + ls + lf))
         IN  r.key = Unwritten(K) /\ r.filter = b.filters /\ r.projection = ToSet(b.projection)
    <3>1. "flt" \in {"flt", "attr"} /\ lp + ls \in Nat /\ lp + ls + lf \in Nat
      BY <1>12
    <3> QED BY <1>7, <3>1, <2>4, <2>6, <2>7
  <2> QED BY <2>20, <2>5, <2>8 DEF key
<1>9. CASE b.kind = "model"
  <2> DEFINE K == Writes(b.pk, "pk", 0)
  <2>1. /\ K \in Seq(ToSet(K)) /\ NamedOnce(K) /\ NamesIn(K) \subseteq Prefixed("pk")
        /\ Unwritten(K) = b.pk /\ \A w \in ToSet(K) : IsCondition(w.condition)
    BY <1>1, <1>6
  <2> HIDE DEF K
  <2>2. NamesIn(K) \cap Prefixed("flt") = {} /\ NamesIn(K) \cap Prefixed("proj") = {}
    <3>1. Prefixed("pk") \cap Prefixed("flt") = {} /\ Prefixed("pk") \cap Prefixed("proj") = {}
      BY <1>5
    <3> HIDE DEF Prefixed
    <3> QED BY <2>1, <3>1
  <2>3. key = b.pk
    <3>1. b.pk \in Seq(ToSet(b.pk)) /\ b.sk = <<>>
      BY <1>1, <1>9 DEF Conditions
    <3> QED BY <3>1
  <2>4. RequestOf(b) = Request(K, Writes(b.filters, "flt", lp), Writes(Selected(b), "proj", lp + lf))
    BY <1>9 DEF RequestOf, BuildRequest, K, lp, lf
  <2> HIDE DEF Prefixed, key
  <2>20. LET r == Request(K, Writes(b.filters, "flt", lp), Writes(Selected(b), "proj", lp + lf))
         IN  r.key = Unwritten(K) /\ r.filter = b.filters /\ r.projection = ToSet(b.projection)
    <3>1. "flt" \in {"flt", "attr"} /\ lp \in Nat /\ lp + lf \in Nat
      BY <1>12
    <3> QED BY <1>7, <3>1, <2>1, <2>2
  <2> QED BY <2>20, <2>1, <2>3, <2>4 DEF key
<1>10. CASE b.kind \notin {"entity", "model"} /\ IsQuery(b)
  <2> DEFINE K == Writes(key, "key", 0)
  <2>1. /\ K \in Seq(ToSet(K)) /\ NamedOnce(K) /\ NamesIn(K) \subseteq Prefixed("key")
        /\ Unwritten(K) = key /\ \A w \in ToSet(K) : IsCondition(w.condition)
    BY <1>2, <1>6
  <2> HIDE DEF K
  <2>2. NamesIn(K) \cap Prefixed("flt") = {} /\ NamesIn(K) \cap Prefixed("proj") = {}
    <3>1. Prefixed("key") \cap Prefixed("flt") = {} /\ Prefixed("key") \cap Prefixed("proj") = {}
      BY <1>5
    <3> HIDE DEF Prefixed
    <3> QED BY <2>1, <3>1
  <2>3. RequestOf(b) = Request(K, Writes(b.filters, "flt", lk), Writes(Selected(b), "proj", lk + lf))
    BY <1>10 DEF RequestOf, ToQueryRequest, K, lk, lf
  <2> HIDE DEF Prefixed, key
  <2>20. LET r == Request(K, Writes(b.filters, "flt", lk), Writes(Selected(b), "proj", lk + lf))
         IN  r.key = Unwritten(K) /\ r.filter = b.filters /\ r.projection = ToSet(b.projection)
    <3>1. "flt" \in {"flt", "attr"} /\ lk \in Nat /\ lk + lf \in Nat
      BY <1>12
    <3> QED BY <1>7, <3>1, <2>1, <2>2
  <2> QED BY <2>20, <2>1, <2>3 DEF key
<1>11. CASE b.kind \notin {"entity", "model"} /\ ~IsQuery(b)
  <2>1. key = <<>>
    BY <1>1, <1>11 DEF IsQuery, Kinds
  <2> DEFINE K == <<>>
  <2>2. K \in Seq(ToSet(K)) /\ NamedOnce(K) /\ NamesIn(K) = {} /\ ToSet(K) = {} /\ Unwritten(K) = <<>>
    BY DEF NamedOnce, NamesIn, ToSet, Unwritten
  <2>3. RequestOf(b) = Request(K, Writes(b.filters, "attr", 0), Writes(Selected(b), "proj", 0))
    BY <1>11 DEF RequestOf, ToScanRequest
  <2> HIDE DEF Prefixed, key, K
  <2>20. LET r == Request(K, Writes(b.filters, "attr", 0), Writes(Selected(b), "proj", 0))
         IN  r.key = Unwritten(K) /\ r.filter = b.filters /\ r.projection = ToSet(b.projection)
    <3>1. "attr" \in {"flt", "attr"} /\ 0 \in Nat /\ 0 \in Nat
      BY <1>12
    <3> QED BY <1>7, <3>1, <2>2
  <2> QED BY <2>20, <2>1, <2>2, <2>3 DEF key
<1> HIDE DEF key
<1> QED BY <1>1, <1>8, <1>9, <1>10, <1>11 DEF key

----------------------------------------------------------------------------
(* A page.                                                                   *)
Ahead(fwd, start) == {n \in DOMAIN Keys : start = 0 \/ Behind(fwd, start, n)}
Fwd(b) == b.forward \/ ~IsQuery(b)

\* The places of the keys.
LEMMA KeysAre == DOMAIN Keys = 1 .. Len(Keys) /\ Len(Keys) \in Nat
BY DynamoReadsAssumption

\* The service reads what lies ahead of the start key and satisfies the key conditions, in order.
LEMMA InOrderIs ==
  ASSUME NEW key, NEW fwd \in BOOLEAN, NEW start \in Nat, NEW held
  PROVE  LET s == InOrder(key, fwd, start, held)
         IN  Ordered(s, fwd) /\ ToSet(s) = Ahead(fwd, start) \cap Satisfying(held, key)
<1> DEFINE N == Len(Keys)
           all == [n \in DOMAIN Keys |-> n]
           way == IF fwd THEN all ELSE Reverse(all)
           after == {n \in DOMAIN Keys : start = 0 \/ IF fwd THEN n > start ELSE n < start}
<1>1. DOMAIN Keys = 1 .. N /\ N \in Nat
  BY KeysAre
<1> HIDE DEF N
<1>2. all \in Seq(Nat) /\ Len(all) = N /\ \A n \in 1 .. N : all[n] = n
  <2>1. all \in [1 .. N -> Nat]
    BY <1>1
  <2>2. all \in Seq(Nat)
    BY <1>1, <2>1
  <2> QED BY <1>1, <2>1, <2>2
<1> HIDE DEF all
<1>3. Ordered(way, fwd) /\ ToSet(way) = 1 .. N
  <2>1. CASE fwd
    <3>1. Ordered(all, TRUE)
      BY <1>2 DEF Ordered, Behind
    <3>2. DOMAIN all = 1 .. N
      BY <1>1, <1>2
    <3>3. ToSet(all) = 1 .. N
      BY <1>2, <3>2 DEF ToSet
    <3> QED BY <2>1, <3>1, <3>3
  <2>2. CASE ~fwd
    <3> DEFINE r == Reverse(all)
    <3>1. r = [i \in 1 .. N |-> all[(N - i) + 1]]
      BY <1>2 DEF Reverse
    <3>2. \A i \in 1 .. N : (N - i) + 1 \in 1 .. N
      BY <1>1
    <3>3. r = [i \in 1 .. N |-> (N - i) + 1]
      BY <1>2, <3>1, <3>2
    <3> HIDE DEF r
    <3>4. r \in [1 .. N -> Nat] /\ \A i \in 1 .. N : r[i] = (N - i) + 1
      BY <1>1, <3>2, <3>3
    <3>5. r \in Seq(Nat) /\ Len(r) = N /\ DOMAIN r = 1 .. N
      BY <1>1, <3>4
    <3>6. Ordered(r, FALSE)
      <4>1. \A i, j \in 1 .. N : i < j => r[j] < r[i]
        BY <1>1, <3>4
      <4> QED BY <3>5, <4>1 DEF Ordered, Behind
    <3>7. ToSet(r) = 1 .. N
      <4>1. \A n \in 1 .. N : r[(N - n) + 1] = n
        <5>1. \A n \in 1 .. N : (N - ((N - n) + 1)) + 1 = n
          BY <1>1
        <5> QED BY <3>2, <3>4, <5>1
      <4>2. \A i \in 1 .. N : r[i] \in 1 .. N
        BY <3>2, <3>4
      <4> QED BY <3>2, <3>5, <4>1, <4>2 DEF ToSet
    <3> QED BY <2>2, <3>6, <3>7 DEF r
  <2> QED BY <2>1, <2>2
<1>4. after = Ahead(fwd, start)
  BY <1>1 DEF Ahead, Behind
<1>5. InOrder(key, fwd, start, held) = Among(way, after \cap Satisfying(held, key))
  BY DEF InOrder, all
<1>6. Ahead(fwd, start) \subseteq 1 .. N
  BY <1>1 DEF Ahead
<1> HIDE DEF way, after
<1> DEFINE S == after \cap Satisfying(held, key)
<1>7. Ordered(Among(way, S), fwd) /\ ToSet(Among(way, S)) = ToSet(way) \cap S
  <2> HIDE DEF S
  <2> QED BY <1>3, AmongIs
<1>8. ToSet(way) \cap S = Ahead(fwd, start) \cap Satisfying(held, key)
  BY <1>3, <1>4, <1>6
<1> QED BY <1>5, <1>7, <1>8

\* What a request reads, of what lies ahead.
Cut(s, cap) == IF Len(s) <= cap THEN s ELSE SubSeq(s, 1, cap)
\* What is read is the part that comes first.
LEMMA CutIs ==
  ASSUME NEW fwd, NEW s, Ordered(s, fwd), NEW cap \in Nat \ {0}
  PROVE  LET r == Cut(s, cap)
         IN  /\ Ordered(r, fwd) /\ ToSet(r) \subseteq ToSet(s) /\ (r = <<>> => s = <<>>)
             /\ (Len(s) < cap => r = s)
             /\ \A x \in ToSet(s) \ ToSet(r) : ~(Len(s) < cap) /\ Behind(fwd, Last(r), x)
             /\ ~(Len(s) < cap) => Last(r) \in ToSet(s) /\ \A y \in ToSet(r) : y = Last(r) \/ Behind(fwd, y, Last(r))
<1> DEFINE r == Cut(s, cap)
           n == Len(s)
           m == IF n <= cap THEN n ELSE cap
<1>1. s \in Seq(Nat) /\ n \in Nat /\ DOMAIN s = 1 .. n /\ \A i, j \in 1 .. n : i < j => Behind(fwd, s[i], s[j])
  BY DEF Ordered
<1>2. r \in Seq(Nat) /\ Len(r) = m /\ DOMAIN r = 1 .. m /\ (\A i \in 1 .. m : r[i] = s[i]) /\ m \in 0 .. n
  <2>1. CASE n <= cap
    BY <1>1, <2>1 DEF Cut
  <2>2. CASE ~(n <= cap)
    BY <1>1, <2>2 DEF Cut
  <2> QED BY <2>1, <2>2
<1>3. n < cap => r = s
  <2>1. n < cap => n <= cap
    BY <1>1
  <2> QED BY <2>1 DEF Cut
<1>4. (m = n /\ n <= cap) \/ m = cap
  BY <1>1
<1>5. r = <<>> => s = <<>>
  BY <1>1, <1>2
<1> HIDE DEF r, m, n
<1>6. \A i \in 1 .. m : i \in 1 .. n
  BY <1>1, <1>2
<1>7. Ordered(r, fwd)
  BY <1>1, <1>2, <1>6 DEF Ordered
<1>8. ToSet(r) \subseteq ToSet(s)
  BY <1>1, <1>2, <1>6 DEF ToSet
<1>9. ASSUME NEW x \in ToSet(s) \ ToSet(r) PROVE ~(n < cap) /\ Behind(fwd, Last(r), x)
  <2>1. PICK i \in 1 .. n : x = s[i]
    BY <1>1 DEF ToSet
  <2>2. i \notin 1 .. m
    <3>1. \A k \in 1 .. m : s[k] \in ToSet(r)
      BY <1>2 DEF ToSet
    <3> QED BY <2>1, <3>1
  <2>3. m = cap /\ cap < i /\ cap \in 1 .. n /\ ~(n < cap)
    BY <1>1, <1>2, <1>4, <2>2
  <2>4. Last(r) = s[cap]
    <3>1. cap \in 1 .. m
      BY <2>3
    <3> QED BY <1>2, <2>3, <3>1 DEF Last
  <2> QED BY <1>1, <2>1, <2>3, <2>4
<1>10. ASSUME ~(n < cap) PROVE Last(r) \in ToSet(s) /\ \A y \in ToSet(r) : y = Last(r) \/ Behind(fwd, y, Last(r))
  <2>1. m = cap /\ cap \in 1 .. m
    <3>1. m = cap
      BY <1>1, <1>2, <1>4, <1>10
    <3> QED BY <3>1
  <2>2. Last(r) = r[m] /\ m \in 1 .. m
    BY <1>2, <2>1 DEF Last
  <2>3. ASSUME NEW y \in ToSet(r) PROVE y = Last(r) \/ Behind(fwd, y, Last(r))
    <3>1. PICK i \in 1 .. m : y = r[i]
      BY <1>2 DEF ToSet
    <3>2. i = m \/ i < m
      BY <1>1, <1>2
    <3> QED BY <1>1, <1>2, <1>6, <2>2, <3>1, <3>2
  <2>4. Last(r) \in ToSet(r)
    BY <1>2, <2>2 DEF ToSet
  <2> QED BY <1>8, <2>3, <2>4
<1> QED BY <1>3, <1>5, <1>7, <1>8, <1>9, <1>10 DEF r, n

\* A page against what the chain asks for.
LEMMA PageIs ==
  ASSUME NEW b, BuilderOk(b)
  PROVE  LET f     == Fwd(b)
             page  == Page(b)
             asked == Asked(b, table)
         IN  /\ Ordered(page.places, f) /\ Ordered(asked, f)
             /\ ToSet(asked) = (Ahead(f, b.start) \cap Satisfying(table, b.pk \o b.sk)) \cap Satisfying(table, b.filters)
             /\ ToSet(page.places) \subseteq ToSet(asked)
             /\ page.lastKey = 0 \/ page.lastKey \in Ahead(f, b.start)
             /\ \A x \in ToSet(asked) \ ToSet(page.places) : page.lastKey # 0 /\ Behind(f, page.lastKey, x)
             /\ page.lastKey # 0 => \A y \in ToSet(page.places) : y = page.lastKey \/ Behind(f, y, page.lastKey)
             /\ page.places = <<>> /\ b.filters = <<>> => asked = <<>>
             /\ page.attributes = ToSet(b.projection)
<1> DEFINE f == Fwd(b)
           key == b.pk \o b.sk
           page == Page(b)
           asked == Asked(b, table)
           s == InOrder(key, f, b.start, table)
           cap == IF b.limit # 0 /\ b.limit < PageSize THEN b.limit ELSE PageSize
           r == Cut(s, cap)
           F == Satisfying(table, b.filters)
<1>1. f \in BOOLEAN /\ b.start \in Nat /\ cap \in Nat \ {0} /\ \A k \in DOMAIN Keys : k \in Nat /\ k # 0
  <2>1. b.limit \in Nat /\ PageSize \in Nat \ {0}
    BY DynamoReadsAssumption DEF BuilderOk
  <2>2. f \in BOOLEAN /\ b.start \in Nat
    BY DEF Fwd, IsQuery, BuilderOk
  <2>3. cap \in Nat \ {0}
    BY <2>1
  <2>4. \A k \in DOMAIN Keys : k \in Nat /\ k # 0
    BY KeysAre
  <2> QED BY <2>2, <2>3, <2>4
<1>2. page = [places |-> Among(r, F), attributes |-> ToSet(b.projection), lastKey |-> IF Len(s) < cap THEN 0 ELSE Last(r)]
  <2>1. RequestOf(b).key = key /\ RequestOf(b).filter = b.filters /\ RequestOf(b).projection = ToSet(b.projection)
    BY RequestOfSays
  <2> QED BY <2>1 DEF Page, Fwd, Cut
<1>3. asked = Among(s, F)
  BY DEF Asked, Fwd
<1> HIDE DEF page, asked, F, f, cap
<1>4. Ordered(s, f) /\ ToSet(s) = Ahead(f, b.start) \cap Satisfying(table, key)
  BY <1>1, InOrderIs
<1> HIDE DEF s, key
<1>5. /\ Ordered(r, f) /\ ToSet(r) \subseteq ToSet(s) /\ (r = <<>> => s = <<>>)
      /\ (Len(s) < cap => r = s)
      /\ \A x \in ToSet(s) \ ToSet(r) : ~(Len(s) < cap) /\ Behind(f, Last(r), x)
      /\ ~(Len(s) < cap) => Last(r) \in ToSet(s) /\ \A y \in ToSet(r) : y = Last(r) \/ Behind(f, y, Last(r))
  BY <1>1, <1>4, CutIs
<1> HIDE DEF r
<1>6. Ordered(page.places, f) /\ ToSet(page.places) = ToSet(r) \cap F
  BY <1>2, <1>5, AmongIs
<1>7. Ordered(asked, f) /\ ToSet(asked) = ToSet(s) \cap F
  BY <1>3, <1>4, AmongIs
<1>8. Ahead(f, b.start) \subseteq DOMAIN Keys
  BY DEF Ahead
<1>9. page.lastKey = 0 => Len(s) < cap
  <2>1. ~(Len(s) < cap) => page.lastKey = Last(r) /\ Last(r) \in DOMAIN Keys
    BY <1>2, <1>4, <1>5, <1>8
  <2> QED BY <1>1, <2>1
<1>10. page.lastKey # 0 => ~(Len(s) < cap) /\ page.lastKey = Last(r)
  BY <1>2
<1>11. ToSet(page.places) \subseteq ToSet(asked)
  BY <1>5, <1>6, <1>7
<1>12. page.lastKey = 0 \/ page.lastKey \in Ahead(f, b.start)
  BY <1>4, <1>5, <1>10
<1>13. \A x \in ToSet(asked) \ ToSet(page.places) : page.lastKey # 0 /\ Behind(f, page.lastKey, x)
  BY <1>5, <1>6, <1>7, <1>9, <1>10
<1>14. page.lastKey # 0 => \A y \in ToSet(page.places) : y = page.lastKey \/ Behind(f, y, page.lastKey)
  BY <1>5, <1>6, <1>10
<1>15. page.places = <<>> /\ b.filters = <<>> => asked = <<>>
  <2> SUFFICES ASSUME page.places = <<>>, b.filters = <<>> PROVE asked = <<>>
    OBVIOUS
  <2>1. \A u : Ordered(u, f) /\ ToSet(u) = {} => u = <<>>
    <3>1. \A u \in Seq(Nat) : ToSet(u) = {} => u = <<>>
      <4> SUFFICES ASSUME NEW u \in Seq(Nat), ToSet(u) = {} PROVE u = <<>>
        OBVIOUS
      <4>1. \A i \in 1 .. Len(u) : u[i] \in ToSet(u)
        BY DEF ToSet
      <4>2. Len(u) \notin 1 .. Len(u)
        BY <4>1
      <4> QED BY <4>2
    <3> QED BY <3>1 DEF Ordered
  <2>2. F = {n \in DOMAIN Keys : table[n] # NoItem}
    BY DEF F, Satisfying, AllHold
  <2>3. Satisfying(table, key) \subseteq F
    BY <2>2 DEF Satisfying
  <2>4. ToSet(r) = {}
    <3>1. ToSet(page.places) = {}
      BY DEF ToSet
    <3> QED BY <1>4, <1>5, <1>6, <2>3, <3>1
  <2>5. r = <<>>
    BY <1>5, <2>1, <2>4
  <2>6. ToSet(asked) = {}
    <3>1. s = <<>>
      BY <1>5, <2>5
    <3>2. ToSet(s) = {}
      BY <3>1 DEF ToSet
    <3> QED BY <1>7, <3>2
  <2> QED BY <1>7, <2>1, <2>6
<1>16. page.attributes = ToSet(b.projection)
  BY <1>2
<1>17. ToSet(asked) = (Ahead(f, b.start) \cap Satisfying(table, key)) \cap F
  BY <1>4, <1>7
<1> QED BY <1>6, <1>7, <1>11, <1>12, <1>13, <1>14, <1>15, <1>16, <1>17 DEF f, page, asked, key, F

----------------------------------------------------------------------------
(* The invariant.                                                            *)
PageOps == {"get", "first", "count", "paginate"}
WalkIs(on, got, kept, fresh) == [on |-> on, got |-> got, kept |-> kept, fresh |-> fresh]
\* What a walk still has to bring lies before it.
Walking(w, b, held) ==
  /\ Ordered(w.got, Fwd(b))
  /\ \A y \in ToSet(w.got) : b.start # 0 /\ (y = b.start \/ Behind(Fwd(b), y, b.start))
  /\ w.fresh => \A k \in w.kept : /\ k \in Satisfying(held, b.pk \o b.sk) \cap Satisfying(held, b.filters)
                                  /\ k \in ToSet(w.got) \/ k \in Ahead(Fwd(b), b.start)
WalkOk ==
  /\ walk = WalkIs(walk.on, walk.got, walk.kept, walk.fresh)
  /\ ~walk.on => walk.got = <<>>
  /\ walk.on => answer = NoAnswer /\ Walking(walk, builder, table)
AllOk ==
  answer.op = "all" => IsInjective(answer.places) /\ (answer.fresh => answer.kept \subseteq ToSet(answer.places))
ReadInv ==
  /\ table \in [DOMAIN Keys -> Items \cup {NoItem}] /\ BuilderOk(builder)
  /\ PagesMeanTheChain /\ (answer.op \in PageOps => answer.more \in Nat)
  /\ AllOk /\ WalkOk

\* Sequences of places: injective; equal when they hold the same; and one behind the other.
LEMMA OrderedOnce ==
  ASSUME NEW fwd, NEW s, Ordered(s, fwd)
  PROVE  IsInjective(s)
<1>1. s \in Seq(Nat) /\ DOMAIN s = 1 .. Len(s) /\ Len(s) \in Nat /\ \A i, j \in 1 .. Len(s) : i < j => Behind(fwd, s[i], s[j])
  BY DEF Ordered
<1>2. \A x, y \in Nat : Behind(fwd, x, y) => x # y
  BY DEF Behind
<1> SUFFICES ASSUME NEW i \in 1 .. Len(s), NEW j \in 1 .. Len(s), s[i] = s[j] PROVE i = j
  BY <1>1 DEF IsInjective
<1>3. s[i] \in Nat /\ s[j] \in Nat
  BY <1>1
<1>4. ~(i < j) /\ ~(j < i)
  BY <1>1, <1>2, <1>3
<1> QED BY <1>4

\* In one order, what holds the same is the same.
LEMMA SameOrder ==
  ASSUME NEW fwd, NEW p, NEW q, Ordered(p, fwd), Ordered(q, fwd), ToSet(p) = ToSet(q)
  PROVE  p = q
<1>1. IsPrefix(p, q) /\ IsPrefix(q, p)
  BY BeginsWith
<1>2. p \in Seq(Nat) /\ q \in Seq(Nat)
  BY DEF Ordered
<1>3. Len(p) \in Nat /\ Len(q) \in Nat
  BY <1>2
<1>4. Len(p) <= Len(q) /\ Len(q) <= Len(p) /\ SubSeq(p, 1, Len(p)) = SubSeq(q, 1, Len(p))
  BY <1>1 DEF IsPrefix
<1>5. Len(p) = Len(q)
  BY <1>3, <1>4
<1>6. SubSeq(p, 1, Len(p)) = p /\ SubSeq(q, 1, Len(q)) = q
  <2>1. \A s \in Seq(Nat) : SubSeq(s, 1, Len(s)) = s
    OBVIOUS
  <2> QED BY <1>2, <2>1
<1> QED BY <1>4, <1>5, <1>6

\* A sequence and another one behind it.
LEMMA OneAfterTheOther ==
  ASSUME NEW fwd, NEW s, NEW t, Ordered(s, fwd), Ordered(t, fwd),
         \A y \in ToSet(s), x \in ToSet(t) : Behind(fwd, y, x)
  PROVE  Ordered(s \o t, fwd) /\ ToSet(s \o t) = ToSet(s) \cup ToSet(t)
<1> DEFINE j == s \o t
           m == Len(s)
           n == Len(t)
<1>1. /\ s \in Seq(Nat) /\ (\A i, k \in 1 .. m : i < k => Behind(fwd, s[i], s[k]))
      /\ t \in Seq(Nat) /\ (\A i, k \in 1 .. n : i < k => Behind(fwd, t[i], t[k]))
  BY DEF Ordered
<1>2. /\ m \in Nat /\ n \in Nat /\ DOMAIN s = 1 .. m /\ DOMAIN t = 1 .. n /\ DOMAIN j = 1 .. m + n
      /\ \A i \in 1 .. m + n : j[i] = IF i <= m THEN s[i] ELSE t[i - m]
  BY <1>1, SumIs
<1>3. j \in Seq(Nat) /\ Len(j) = m + n
  BY <1>1
<1> HIDE DEF j, m, n
<1>4. \A i \in 1 .. m + n : (i \in 1 .. m /\ i <= m) \/ (~(i <= m) /\ i - m \in 1 .. n)
  BY <1>2
<1>5. \A i \in 1 .. m + n : IF i <= m THEN j[i] = s[i] /\ j[i] \in ToSet(s) ELSE j[i] = t[i - m] /\ j[i] \in ToSet(t)
  BY <1>2, <1>4 DEF ToSet
<1>6. Ordered(j, fwd)
  <2> SUFFICES ASSUME NEW i \in 1 .. m + n, NEW k \in 1 .. m + n, i < k PROVE Behind(fwd, j[i], j[k])
    BY <1>3 DEF Ordered
  <2>1. CASE k <= m
    <3>1. i <= m
      BY <1>2, <2>1
    <3> QED BY <1>1, <1>4, <1>5, <2>1, <3>1
  <2>2. CASE ~(i <= m)
    <3>1. ~(k <= m) /\ i - m < k - m
      BY <1>2, <2>2
    <3>2. i - m \in 1 .. n /\ k - m \in 1 .. n /\ j[i] = t[i - m] /\ j[k] = t[k - m]
      BY <1>4, <1>5, <2>2, <3>1
    <3> QED BY <1>1, <3>1, <3>2
  <2>3. CASE i <= m /\ ~(k <= m)
    BY <1>5, <2>3
  <2> QED BY <2>1, <2>2, <2>3
<1>7. ToSet(j) \subseteq ToSet(s) \cup ToSet(t)
  BY <1>2, <1>5 DEF ToSet
<1>8. ToSet(s) \subseteq ToSet(j)
  <2>1. \A i \in DOMAIN s : i \in DOMAIN j /\ j[i] = s[i]
    BY <1>2
  <2> QED BY <2>1 DEF ToSet
<1>9. ToSet(t) \subseteq ToSet(j)
  <2>1. ASSUME NEW i \in 1 .. n PROVE i + m \in DOMAIN j /\ j[i + m] = t[i]
    <3> DEFINE k == i + m
    <3>1. k \in 1 .. m + n /\ ~(k <= m) /\ k - m = i
      BY <1>2
    <3> HIDE DEF k
    <3> QED BY <1>2, <3>1 DEF k
  <2> QED BY <1>2, <2>1 DEF ToSet
<1> QED BY <1>6, <1>7, <1>8, <1>9 DEF j

----------------------------------------------------------------------------
(* The calls on the builder.                                                 *)
LEMMA OneMore ==
  ASSUME NEW s, NEW x, s \in Seq(ToSet(s))
  PROVE  /\ Append(s, x) \in Seq(ToSet(Append(s, x))) /\ ToSet(Append(s, x)) = ToSet(s) \cup {x}
         /\ DOMAIN Append(s, x) = 1 .. Len(s) + 1 /\ Len(s) \in Nat /\ DOMAIN s = 1 .. Len(s)
         /\ \A i \in 1 .. Len(s) + 1 : Append(s, x)[i] = IF i = Len(s) + 1 THEN x ELSE s[i]
<1> DEFINE r == Append(s, x)
           n == Len(s)
           V == ToSet(s) \cup {x}
<1>1. s \in Seq(V) /\ x \in V
  OBVIOUS
<1>2. n \in Nat /\ DOMAIN s = 1 .. n
  OBVIOUS
<1> HIDE DEF V
<1>3. r \in Seq(V) /\ DOMAIN r = 1 .. n + 1 /\ \A i \in 1 .. n + 1 : r[i] = IF i = n + 1 THEN x ELSE s[i]
  BY <1>1
<1> HIDE DEF r, n
<1>4. ToSet(r) = V
  <2>1. \A i \in 1 .. n : i \in 1 .. n + 1 /\ i # n + 1
    BY <1>2
  <2>2. \A i \in 1 .. n + 1 : i = n + 1 \/ i \in 1 .. n
    BY <1>2
  <2>3. n + 1 \in 1 .. n + 1
    BY <1>2
  <2> QED BY <1>2, <1>3, <2>1, <2>2, <2>3 DEF ToSet, V
<1>5. r \in Seq(ToSet(r))
  BY <1>3, <1>4
<1> QED BY <1>2, <1>3, <1>4, <1>5 DEF r, n, V

\* A key condition is added or replaces the others.
LEMMA SlotKeeps ==
  ASSUME NEW b, NEW s, NEW c, Conditions(s), IsCondition(c), NEW a, c.attribute = a, \A i \in DOMAIN s : s[i].attribute = a
  PROVE  LET r == Slot(b, s, c) IN Conditions(r) /\ \A i \in DOMAIN r : r[i].attribute = a
<1>1. Conditions(Append(s, c)) /\ \A i \in DOMAIN Append(s, c) : Append(s, c)[i].attribute = a
  <2> DEFINE r == Append(s, c)
  <2>1. /\ r \in Seq(ToSet(r)) /\ DOMAIN r = 1 .. Len(s) + 1 /\ DOMAIN s = 1 .. Len(s) /\ Len(s) \in Nat
        /\ \A i \in 1 .. Len(s) + 1 : r[i] = IF i = Len(s) + 1 THEN c ELSE s[i]
    BY OneMore DEF Conditions
  <2> HIDE DEF r
  <2>2. \A i \in 1 .. Len(s) + 1 : i = Len(s) + 1 \/ i \in 1 .. Len(s)
    BY <2>1
  <2>3. \A i \in DOMAIN r : IsCondition(r[i]) /\ r[i].attribute = a
    BY <2>1, <2>2 DEF Conditions
  <2> QED BY <2>1, <2>3 DEF Conditions, r
<1>2. Conditions(<<c>>) /\ \A i \in DOMAIN <<c>> : <<c>>[i].attribute = a
  <2>1. <<c>> \in Seq(ToSet(<<c>>))
    BY DEF ToSet
  <2>2. \A i \in DOMAIN <<c>> : <<c>>[i] = c
    OBVIOUS
  <2> QED BY <2>1, <2>2 DEF Conditions
<1> QED BY <1>1, <1>2 DEF Slot

\* A filter is added.
LEMMA FiltersKeep ==
  ASSUME NEW s, NEW c, Conditions(s), IsCondition(c)
  PROVE  Conditions(Append(s, c))
<1> DEFINE r == Append(s, c)
<1>1. /\ r \in Seq(ToSet(r)) /\ DOMAIN r = 1 .. Len(s) + 1 /\ DOMAIN s = 1 .. Len(s) /\ Len(s) \in Nat
      /\ \A i \in 1 .. Len(s) + 1 : r[i] = IF i = Len(s) + 1 THEN c ELSE s[i]
  BY OneMore DEF Conditions
<1> HIDE DEF r
<1>2. \A i \in 1 .. Len(s) + 1 : i = Len(s) + 1 \/ i \in 1 .. Len(s)
  BY <1>1
<1>3. \A i \in DOMAIN r : IsCondition(r[i])
  BY <1>1, <1>2 DEF Conditions
<1> QED BY <1>1, <1>3 DEF Conditions, r

\* A builder without calls.
LEMMA NewBuilderOk ==
  ASSUME NEW kind \in Kinds
  PROVE  BuilderOk(NewBuilder(kind)) /\ NewBuilder(kind).start = 0 /\ NewBuilder(kind).sk = <<>> /\ NewBuilder(kind).pk = <<>>
<1>1. Conditions(<<>>)
  BY DEF Conditions, ToSet
<1>2. <<>> \in Seq(ToSet(<<>>))
  BY DEF ToSet
<1> QED BY <1>1, <1>2 DEF BuilderOk, NewBuilder, BuilderFields

KeepsBuilder ==
  /\ BuilderOk(builder') /\ UNCHANGED <<table, walk>> /\ ~walk.on
  /\ answer' = NoAnswer \/ answer' = [op |-> "throws"]

\* A call on the chain leaves a builder, and no answer.
LEMMA ChainCallIs ==
  ASSUME BuilderOk(builder), answer.op \in PageOps => answer.more \in Nat, ChainCall
  PROVE  KeepsBuilder
<1>1. ASSUME NEW b, BuilderOk(b), Chain(b) PROVE KeepsBuilder
  BY <1>1 DEF Chain, Call, KeepsBuilder
<1>2. /\ DOMAIN builder = BuilderFields /\ builder.kind \in Kinds /\ Conditions(builder.pk) /\ Conditions(builder.sk)
      /\ Conditions(builder.filters) /\ (\A i \in DOMAIN builder.pk : builder.pk[i].attribute = "pk")
      /\ (\A i \in DOMAIN builder.sk : builder.sk[i].attribute = "sk")
  BY DEF BuilderOk
<1>3. ASSUME NEW x, Conditions(x), \A i \in DOMAIN x : x[i].attribute = "pk" PROVE BuilderOk([builder EXCEPT !.pk = x])
  BY <1>2, <1>3 DEF BuilderOk, BuilderFields
<1>4. ASSUME NEW x, Conditions(x), \A i \in DOMAIN x : x[i].attribute = "sk", builder.kind # "model"
      PROVE  BuilderOk([builder EXCEPT !.sk = x])
  BY <1>2, <1>4 DEF BuilderOk, BuilderFields
<1>5. ASSUME NEW x, Conditions(x) PROVE BuilderOk([builder EXCEPT !.filters = x])
  BY <1>2, <1>5 DEF BuilderOk, BuilderFields
<1>6. \A pk : IsCondition(Condition("pk", "=", <<pk>>)) /\ Condition("pk", "=", <<pk>>).attribute = "pk"
  BY DEF IsCondition, Condition
<1>7. ASSUME NEW kind, Partition(kind) PROVE KeepsBuilder
  <2>1. PICK pk : Chain([builder EXCEPT !.pk = Slot(builder, builder.pk, Condition("pk", "=", <<pk>>))])
    BY <1>7 DEF Partition
  <2> DEFINE x == Slot(builder, builder.pk, Condition("pk", "=", <<pk>>))
  <2>2. Conditions(x) /\ \A i \in DOMAIN x : x[i].attribute = "pk"
    BY <1>2, <1>6, SlotKeeps
  <2> HIDE DEF x
  <2>3. BuilderOk([builder EXCEPT !.pk = x])
    BY <1>3, <2>2
  <2> QED BY <1>1, <2>1, <2>3 DEF x
<1>8. ASSUME NEW kind, kind # "model", SortKey(kind) PROVE KeepsBuilder
  <2>1. PICK c \in SkConditions : builder.kind = kind /\ Chain([builder EXCEPT !.sk = Slot(builder, builder.sk, c)])
    BY <1>8 DEF SortKey
  <2> DEFINE x == Slot(builder, builder.sk, c)
  <2>2. IsCondition(c) /\ c.attribute = "sk"
    BY DynamoReadsAssumption
  <2>3. Conditions(x) /\ \A i \in DOMAIN x : x[i].attribute = "sk"
    BY <1>2, <2>2, SlotKeeps
  <2> HIDE DEF x
  <2>4. BuilderOk([builder EXCEPT !.sk = x])
    BY <1>4, <1>8, <2>1, <2>3
  <2> QED BY <1>1, <2>1, <2>4 DEF x
<1>9. ASSUME NEW kind, FilterOf(kind) PROVE KeepsBuilder
  <2>1. PICK c \in FilterConditions : Chain([builder EXCEPT !.filters = Append(builder.filters, c)])
    BY <1>9 DEF FilterOf
  <2>2. Conditions(Append(builder.filters, c))
    BY <1>2, FiltersKeep, DynamoReadsAssumption
  <2>3. BuilderOk([builder EXCEPT !.filters = Append(builder.filters, c)])
    BY <1>5, <2>2
  <2> QED BY <1>1, <2>1, <2>3
<1>10. CASE WherePartitionKeyOfEntity
  <2>1. CASE answer' = [op |-> "throws"] /\ Call /\ UNCHANGED <<table, builder, walk, writes>>
    BY <2>1 DEF KeepsBuilder, Call
  <2>2. ASSUME NEW pk, builder.kind = "single", Chain([builder EXCEPT !.pk = Append(@, Condition("pk", "=", <<pk>>))])
        PROVE  KeepsBuilder
    <3> DEFINE x == Slot(builder, builder.pk, Condition("pk", "=", <<pk>>))
    <3>1. Conditions(x) /\ \A i \in DOMAIN x : x[i].attribute = "pk"
      BY <1>2, <1>6, SlotKeeps
    <3>2. x = Append(builder.pk, Condition("pk", "=", <<pk>>))
      BY <2>2 DEF Slot
    <3> HIDE DEF x
    <3>3. BuilderOk([builder EXCEPT !.pk = x])
      BY <1>3, <3>1
    <3> QED BY <1>1, <2>2, <3>2, <3>3
  <2> QED BY <1>10, <2>1, <2>2 DEF WherePartitionKeyOfEntity
<1>11. CASE Select
  <2>1. PICK a : Chain([builder EXCEPT !.projection = Append(builder.projection, a)])
    BY <1>11 DEF Select
  <2> DEFINE x == Append(builder.projection, a)
  <2>2. x \in Seq(ToSet(x))
    BY OneMore DEF BuilderOk
  <2> HIDE DEF x
  <2>3. BuilderOk([builder EXCEPT !.projection = x])
    BY <1>2, <2>2 DEF BuilderOk, BuilderFields
  <2> QED BY <1>1, <2>1, <2>3 DEF x
<1>12. CASE Limit
  <2>1. PICK limit \in Limits : Chain([builder EXCEPT !.limit = limit])
    BY <1>12 DEF Limit
  <2>2. limit \in Nat
    BY DynamoReadsAssumption
  <2>3. BuilderOk([builder EXCEPT !.limit = limit])
    BY <1>2, <2>2 DEF BuilderOk, BuilderFields
  <2> QED BY <1>1, <2>1, <2>3
<1>13. CASE Descending \/ Ascending
  <2>1. ASSUME NEW x \in BOOLEAN PROVE BuilderOk([builder EXCEPT !.forward = x])
    BY <1>2 DEF BuilderOk, BuilderFields
  <2> QED BY <1>1, <1>13, <2>1 DEF Descending, Ascending
<1>14. CASE StartFrom
  <2>1. Chain([builder EXCEPT !.start = answer.more]) /\ answer.more \in Nat
    BY <1>14 DEF StartFrom, PageOps
  <2>2. BuilderOk([builder EXCEPT !.start = answer.more])
    BY <1>2, <2>1 DEF BuilderOk, BuilderFields
  <2> QED BY <1>1, <2>1, <2>2
<1>15. CASE Reset
  <2>1. BuilderOk(NewBuilder("client"))
    BY NewBuilderOk DEF Kinds
  <2> QED BY <1>1, <1>15, <2>1 DEF Reset
<1> QED BY <1>7, <1>8, <1>9, <1>10, <1>11, <1>12, <1>13, <1>14, <1>15 DEF ChainCall, WherePartitionKey, Pk, WherePk,
          WhereSortKey, Sk, WhereSortKeyOfEntity, Where, Filter, WhereOfModel, WhereOfEntity

----------------------------------------------------------------------------
(* The answers.                                                              *)
TerminalLeaves(op, b) ==
  /\ builder' = b /\ UNCHANGED <<table, walk>> /\ ~walk.on
  /\ \/ answer' = [op |-> "refused"]
     \/ answer' = [op |-> op, places |-> Parsed(b, Page(b)), more |-> Page(b).lastKey, asked |-> Asked(b, table)]

\* The answer of a page.
LEMMA TerminalKeepsThePromise ==
  ASSUME NEW b, BuilderOk(b), NEW op \in PageOps, TerminalLeaves(op, b)
  PROVE  PagesMeanTheChain' /\ (answer'.op \in PageOps => answer'.more \in Nat) /\ AllOk'
<1> DEFINE page == Page(b)
           asked == Asked(b, table)
           f == Fwd(b)
<1>1. CASE answer' = [op |-> "refused"]
  <2>1. answer'.op = "refused"
    BY <1>1
  <2> QED BY <2>1 DEF PagesMeanTheChain, AllOk, PageOps
<1>2. CASE answer' = [op |-> op, places |-> Parsed(b, page), more |-> page.lastKey, asked |-> asked]
  <2>1. answer'.op = op /\ answer'.places = Parsed(b, page) /\ answer'.more = page.lastKey /\ answer'.asked = asked
    BY <1>2
  <2>2. /\ Ordered(page.places, f) /\ Ordered(asked, f) /\ ToSet(page.places) \subseteq ToSet(asked)
        /\ page.lastKey = 0 \/ page.lastKey \in Ahead(f, b.start)
        /\ \A x \in ToSet(asked) \ ToSet(page.places) : page.lastKey # 0 /\ Behind(f, page.lastKey, x)
        /\ page.lastKey # 0 => \A y \in ToSet(page.places) : y = page.lastKey \/ Behind(f, y, page.lastKey)
        /\ page.places = <<>> /\ b.filters = <<>> => asked = <<>>
        /\ page.attributes = ToSet(b.projection)
    BY PageIs
  <2>3. page.lastKey \in Nat /\ ToSet(page.places) \subseteq Nat /\ ToSet(asked) \subseteq Nat
    <3>1. \A n \in DOMAIN Keys : n \in Nat
      BY KeysAre
    <3>2. \A s : Ordered(s, f) => ToSet(s) \subseteq Nat
      BY DEF Ordered, ToSet
    <3> QED BY <2>2, <3>1, <3>2 DEF Ahead
  <2> HIDE DEF page, asked, f
  <2>4. \A x, y, z \in Nat : (y = z \/ Behind(f, y, z)) /\ Behind(f, z, x) => Behind(f, y, x)
    BY DEF Behind
  <2>5. IsPrefix(page.places, asked)
    <3>1. \A x \in ToSet(asked) \ ToSet(page.places), y \in ToSet(page.places) : Behind(f, y, x)
      BY <2>2, <2>3, <2>4
    <3> QED BY <2>2, <3>1, BeginsWith
  <2>6. page.lastKey = 0 => page.places = asked
    <3> SUFFICES ASSUME page.lastKey = 0 PROVE page.places = asked
      OBVIOUS
    <3>1. ToSet(page.places) = ToSet(asked)
      BY <2>2
    <3> QED BY <2>2, <3>1, SameOrder
  <2>7. ~Unparsable(b) => Parsed(b, page) = page.places
    <3>1. b.projection \in Seq(ToSet(b.projection))
      BY DEF BuilderOk
    <3>2. b.projection = <<>> => ToSet(b.projection) = {}
      BY DEF ToSet
    <3> QED BY <2>2, <3>2 DEF Unparsable, Parsed
  <2>8. PagesMeanTheChain'
    <3>1. builder' = b
      BY DEF TerminalLeaves
    <3> SUFFICES ASSUME ~Unparsable(b)
                 PROVE  /\ IsPrefix(answer'.places, answer'.asked)
                        /\ answer'.more = 0 => answer'.places = answer'.asked
                        /\ answer'.places = <<>> /\ b.filters = <<>> => answer'.asked = <<>>
      BY <3>1 DEF PagesMeanTheChain, Unparsable
    <3> QED BY <2>1, <2>2, <2>5, <2>6, <2>7
  <2>9. op # "all"
    BY DEF PageOps
  <2> QED BY <2>1, <2>3, <2>8, <2>9 DEF AllOk
<1> QED BY <1>1, <1>2 DEF TerminalLeaves

\* A terminal call asks for a page or is refused.
LEMMA TerminalIs ==
  ASSUME NEW b, NEW op, Terminal(op, b)
  PROVE  TerminalLeaves(op, b)
BY DEF Terminal, TerminalLeaves, Call, Answer

\* Every terminal call but the three that begin a walk asks for one page.
WalkBegins(b) ==
  /\ BuilderOk(b) /\ builder' = b /\ ~walk.on /\ answer' = NoAnswer /\ UNCHANGED table
  /\ walk' = WalkIs(TRUE, <<>>, ToSet(Asked(b, table)), b.start = 0)

OnePageOrAWalk == (\E op \in PageOps : \E b : BuilderOk(b) /\ TerminalLeaves(op, b)) \/ \E b : WalkBegins(b)

\* Every terminal call asks for a page or begins a walk.
LEMMA TerminalCallIs ==
  ASSUME BuilderOk(builder), answer.op \in PageOps => answer.more \in Nat, TerminalCall
  PROVE  OnePageOrAWalk
<1>1. ASSUME NEW op \in PageOps, NEW b, BuilderOk(b), Terminal(op, b) PROVE OnePageOrAWalk
  BY <1>1, TerminalIs DEF OnePageOrAWalk
<1>2. DOMAIN builder = BuilderFields
  BY DEF BuilderOk
<1>3. ASSUME NEW limit \in Nat, NEW start \in Nat PROVE BuilderOk([builder EXCEPT !.limit = limit, !.start = start])
  BY <1>2 DEF BuilderOk, BuilderFields
<1>4. ASSUME NEW limit \in Nat PROVE BuilderOk([builder EXCEPT !.limit = limit])
  BY <1>2 DEF BuilderOk, BuilderFields
<1>5. "get" \in PageOps /\ "first" \in PageOps /\ "count" \in PageOps /\ "paginate" \in PageOps
  BY DEF PageOps
<1>6. ASSUME NEW kind, TerminalOf(kind, "get") \/ TerminalOf(kind, "count") PROVE OnePageOrAWalk
  <2> QED BY <1>1, <1>5, <1>6 DEF TerminalOf
<1>7. ASSUME NEW kind, FirstOf(kind) PROVE OnePageOrAWalk
  <2>1. BuilderOk([builder EXCEPT !.limit = 1])
    BY <1>4
  <2> QED BY <1>1, <1>5, <1>7, <2>1 DEF FirstOf
<1>8. CASE Paginate
  <2>1. PICK size \in Limits, resume \in {0} \cup (IF answer.op = "paginate" THEN {answer.more} ELSE {}) :
          Terminal("paginate", [builder EXCEPT !.limit = size, !.start = IF resume = 0 THEN builder.start ELSE resume])
    BY <1>8 DEF Paginate
  <2> DEFINE start == IF resume = 0 THEN builder.start ELSE resume
  <2>2. size \in Nat /\ start \in Nat
    BY <1>5, DynamoReadsAssumption DEF BuilderOk
  <2> HIDE DEF start
  <2> DEFINE b == [builder EXCEPT !.limit = size, !.start = start]
  <2>3. BuilderOk(b)
    BY <1>3, <2>2
  <2>4. Terminal("paginate", b)
    BY <2>1 DEF start
  <2> HIDE DEF b
  <2> QED BY <1>1, <1>5, <2>3, <2>4
<1>9. ASSUME NEW kind, Walk(kind) PROVE OnePageOrAWalk
  <2>1. WalkBegins(builder)
    BY <1>9 DEF Walk, WalkBegins, WalkIs, Call
  <2> QED BY <2>1 DEF OnePageOrAWalk
<1>10. CASE FindAll
  <2> DEFINE c == Condition("type", "=", <<1>>)
             b == [NewBuilder("client") EXCEPT !.filters = <<c>>]
  <2>1. BuilderOk(NewBuilder("client")) /\ NewBuilder("client").start = 0
    BY NewBuilderOk DEF Kinds
  <2>2. Conditions(<<c>>)
    <3>1. IsCondition(c) /\ <<c>> \in Seq(ToSet(<<c>>)) /\ \A i \in DOMAIN <<c>> : <<c>>[i] = c
      BY DEF ToSet, IsCondition, Condition
    <3> QED BY <3>1 DEF Conditions
  <2>3. BuilderOk(b) /\ b.start = 0
    <3> HIDE DEF c
    <3> QED BY <2>1, <2>2 DEF BuilderOk, BuilderFields
  <2>4. /\ builder' = b /\ ~walk.on /\ answer' = NoAnswer /\ UNCHANGED table
        /\ walk' = WalkIs(TRUE, <<>>, ToSet(Asked(b, table)), TRUE)
    BY <1>10 DEF FindAll, WalkIs, Call
  <2> HIDE DEF b
  <2>5. (b.start = 0) = TRUE
    BY <2>3
  <2>6. WalkBegins(b)
    BY <2>3, <2>4, <2>5 DEF WalkBegins
  <2> QED BY <2>6 DEF OnePageOrAWalk
<1>11. \/ \E kind : TerminalOf(kind, "get") \/ TerminalOf(kind, "count")
       \/ \E kind : FirstOf(kind)
       \/ Paginate \/ FindAll
       \/ \E kind : Walk(kind)
  BY Zenon DEF TerminalCall, Query, Scan, Get, GetOfModel, Execute, First, FirstOfEntity, FirstOfModel,
     FirstParsed, Count, CountOfEntity, CountOfModel, GetAll, GetAllOfEntity
<1> QED BY <1>6, <1>7, <1>8, <1>9, <1>10, <1>11

----------------------------------------------------------------------------
(* The steps.                                                                *)
LEMMA ReadInitIs ==
  ASSUME ReadInit
  PROVE  ReadInv
<1>1. PICK kind \in Kinds : builder = NewBuilder(kind)
  BY DEF ReadInit
<1>2. BuilderOk(builder)
  BY <1>1, NewBuilderOk
<1>3. table \in [DOMAIN Keys -> Items \cup {NoItem}]
  BY DynamoReadsAssumption DEF ReadInit
<1>4. answer.op = "none"
  BY DEF ReadInit, NoAnswer
<1>5. walk = WalkIs(FALSE, <<>>, {}, FALSE) /\ ~walk.on /\ walk.got = <<>>
  BY DEF ReadInit, NoWalk, WalkIs
<1>6. PagesMeanTheChain /\ (answer.op \in PageOps => answer.more \in Nat) /\ AllOk
  BY <1>4 DEF PagesMeanTheChain, PageOps, AllOk
<1>7. WalkOk
  BY <1>5 DEF WalkOk, WalkIs
<1> QED BY <1>2, <1>3, <1>6, <1>7 DEF ReadInv

\* A call on the chain keeps the invariant.
LEMMA ChainCallKeeps ==
  ASSUME ReadInv, ChainCall
  PROVE  ReadInv'
<1>1. KeepsBuilder
  BY ChainCallIs DEF ReadInv
<1>2. answer'.op \in {"none", "throws"}
  BY <1>1 DEF KeepsBuilder, NoAnswer
<1>3. PagesMeanTheChain' /\ (answer'.op \in PageOps => answer'.more \in Nat) /\ AllOk'
  BY <1>2 DEF PagesMeanTheChain, PageOps, AllOk
<1>4. WalkOk'
  <2>1. walk' = walk /\ ~walk.on
    BY <1>1 DEF KeepsBuilder
  <2> QED BY <2>1 DEF ReadInv, WalkOk
<1> QED BY <1>1, <1>3, <1>4 DEF ReadInv, KeepsBuilder

\* So does a terminal call or the beginning of a walk.
LEMMA TerminalCallKeeps ==
  ASSUME ReadInv, TerminalCall
  PROVE  ReadInv'
<1>1. CASE \E op \in PageOps : \E b : BuilderOk(b) /\ TerminalLeaves(op, b)
  <2>0. PICK op \in PageOps : \E b : BuilderOk(b) /\ TerminalLeaves(op, b)
    BY <1>1
  <2>1. PICK b : BuilderOk(b) /\ TerminalLeaves(op, b)
    BY <2>0
  <2>2. PagesMeanTheChain' /\ (answer'.op \in PageOps => answer'.more \in Nat) /\ AllOk'
    BY <2>1, TerminalKeepsThePromise
  <2>3. walk' = walk /\ ~walk.on /\ table' = table /\ builder' = b
    BY <2>1 DEF TerminalLeaves
  <2>4. WalkOk'
    BY <2>3 DEF ReadInv, WalkOk
  <2> QED BY <2>1, <2>2, <2>3, <2>4 DEF ReadInv
<1>2. CASE \E b : WalkBegins(b)
  <2>1. PICK b : WalkBegins(b)
    BY <1>2
  <2>2. BuilderOk(b) /\ builder' = b /\ table' = table /\ answer' = NoAnswer
        /\ walk' = WalkIs(TRUE, <<>>, ToSet(Asked(b, table)), b.start = 0)
    BY <2>1 DEF WalkBegins
  <2>3. answer'.op = "none"
    BY <2>2 DEF NoAnswer
  <2>4. PagesMeanTheChain' /\ (answer'.op \in PageOps => answer'.more \in Nat) /\ AllOk'
    BY <2>3 DEF PagesMeanTheChain, PageOps, AllOk
  <2> DEFINE kept == ToSet(Asked(b, table))
             f == Fwd(b)
             w == WalkIs(TRUE, <<>>, kept, b.start = 0)
  <2>5. w.on /\ w.got = <<>> /\ w.kept = kept /\ (w.fresh => b.start = 0) /\ w = WalkIs(w.on, w.got, w.kept, w.fresh)
    BY DEF WalkIs
  <2>6. Walking(w, b, table)
    <3>1. kept = (Ahead(f, b.start) \cap Satisfying(table, b.pk \o b.sk)) \cap Satisfying(table, b.filters)
      BY <2>2, PageIs
    <3>2. Ordered(<<>>, f) /\ ToSet(<<>>) = {}
      BY DEF Ordered, ToSet
    <3> HIDE DEF w, kept
    <3>3. w.fresh => \A k \in kept : k \in Satisfying(table, b.pk \o b.sk) \cap Satisfying(table, b.filters)
                                     /\ k \in Ahead(f, b.start)
      BY <3>1
    <3> QED BY <2>5, <3>2, <3>3 DEF Walking
  <2>7. WalkOk'
    <3> HIDE DEF w
    <3>1. walk' = w
      BY <2>2 DEF w
    <3>2. w.on
      BY <2>5
    <3> QED BY <2>2, <2>5, <2>6, <3>1, <3>2 DEF WalkOk
  <2> QED BY <2>2, <2>4, <2>7 DEF ReadInv
<1>3. (\E op \in PageOps : \E b : BuilderOk(b) /\ TerminalLeaves(op, b)) \/ \E b : WalkBegins(b)
  BY TerminalCallIs DEF ReadInv, OnePageOrAWalk
<1> QED BY <1>1, <1>2, <1>3

\* The next page of a walk.
LEMMA NextPageKeeps ==
  ASSUME ReadInv, NextPage
  PROVE  ReadInv'
<1> DEFINE page == Page(builder)
           got == walk.got \o page.places
           f == Fwd(builder)
           asked == Asked(builder, table)
           sat == Satisfying(table, builder.pk \o builder.sk) \cap Satisfying(table, builder.filters)
<1>1. walk.on /\ answer = NoAnswer /\ BuilderOk(builder) /\ table' = table
  BY DEF NextPage, ReadInv, WalkOk
<1>2. Walking(walk, builder, table) /\ walk = WalkIs(walk.on, walk.got, walk.kept, walk.fresh)
  BY <1>1 DEF ReadInv, WalkOk
<1>3. /\ Ordered(page.places, f)
      /\ ToSet(asked) = (Ahead(f, builder.start) \cap Satisfying(table, builder.pk \o builder.sk))
                        \cap Satisfying(table, builder.filters)
      /\ ToSet(page.places) \subseteq ToSet(asked)
      /\ page.lastKey = 0 \/ page.lastKey \in Ahead(f, builder.start)
      /\ \A x \in ToSet(asked) \ ToSet(page.places) : page.lastKey # 0 /\ Behind(f, page.lastKey, x)
      /\ page.lastKey # 0 => \A y \in ToSet(page.places) : y = page.lastKey \/ Behind(f, y, page.lastKey)
  BY <1>1, PageIs
<1>4. /\ Ordered(walk.got, f)
      /\ \A y \in ToSet(walk.got) : builder.start # 0 /\ (y = builder.start \/ Behind(f, y, builder.start))
      /\ walk.fresh => \A k \in walk.kept : k \in sat /\ (k \in ToSet(walk.got) \/ k \in Ahead(f, builder.start))
  BY <1>2 DEF Walking
<1>5. ToSet(asked) = Ahead(f, builder.start) \cap sat
  BY <1>3
<1>6. /\ builder.start \in Nat /\ Ahead(f, builder.start) \subseteq Nat /\ ToSet(walk.got) \subseteq Nat
      /\ \A k \in Ahead(f, builder.start) : k \in DOMAIN Keys /\ (builder.start = 0 \/ Behind(f, builder.start, k))
  <2>1. \A n \in DOMAIN Keys : n \in Nat
    BY KeysAre
  <2>2. \A s : Ordered(s, f) => ToSet(s) \subseteq Nat
    BY DEF Ordered, ToSet
  <2> QED BY <1>1, <1>4, <2>1, <2>2 DEF Ahead, BuilderOk
<1>7. \A x, y, z \in Nat : (y = z \/ Behind(f, y, z)) /\ Behind(f, z, x) => Behind(f, y, x)
  BY DEF Behind
<1>8. Ordered(got, f) /\ ToSet(got) = ToSet(walk.got) \cup ToSet(page.places)
  <2> HIDE DEF page, f, asked, sat
  <2>1. \A y \in ToSet(walk.got), x \in ToSet(page.places) : Behind(f, y, x)
    BY <1>3, <1>4, <1>5, <1>6, <1>7
  <2> DEFINE t == page.places
  <2>2. Ordered(walk.got, f) /\ Ordered(t, f) /\ \A y \in ToSet(walk.got), x \in ToSet(t) : Behind(f, y, x)
    BY <1>3, <1>4, <2>1
  <2> HIDE DEF t
  <2>3. Ordered(walk.got \o t, f) /\ ToSet(walk.got \o t) = ToSet(walk.got) \cup ToSet(t)
    BY ONLY <2>2, OneAfterTheOther
  <2> QED BY <2>3 DEF t
<1> HIDE DEF page, got, f, asked, sat
<1>9. CASE Refused(builder)
  <2>1. walk' = NoWalk /\ answer' = [op |-> "refused"] /\ builder' = builder
    BY <1>9 DEF NextPage
  <2>2. answer'.op = "refused"
    BY <2>1
  <2>3. PagesMeanTheChain' /\ (answer'.op \in PageOps => answer'.more \in Nat) /\ AllOk'
    BY <2>2 DEF PagesMeanTheChain, PageOps, AllOk
  <2>4. WalkOk'
    <3>1. NoWalk = WalkIs(NoWalk.on, NoWalk.got, NoWalk.kept, NoWalk.fresh) /\ ~NoWalk.on /\ NoWalk.got = <<>>
      BY DEF NoWalk, WalkIs
    <3> QED BY <2>1, <3>1 DEF WalkOk
  <2> QED BY <1>1, <2>1, <2>3, <2>4 DEF ReadInv
<1>10. CASE ~Refused(builder) /\ GoesOn(page)
  <2> DEFINE b == [builder EXCEPT !.start = page.lastKey]
             w == WalkIs(TRUE, got, walk.kept, walk.fresh)
  <2>1. walk' = [walk EXCEPT !.got = got] /\ builder' = b /\ answer' = answer
    BY <1>10 DEF NextPage, page, got
  <2>2. page.lastKey \in Nat /\ page.lastKey # 0
    BY <1>3, <1>6, <1>10 DEF GoesOn
  <2>3. /\ BuilderOk(b) /\ b.start = page.lastKey /\ b.pk = builder.pk /\ b.sk = builder.sk /\ b.filters = builder.filters
        /\ b.kind = builder.kind /\ b.forward = builder.forward
    <3>1. DOMAIN builder = BuilderFields
      BY <1>1 DEF BuilderOk
    <3> QED BY <1>1, <2>2, <3>1 DEF BuilderOk, BuilderFields
  <2>4. Fwd(b) = f
    BY <2>3 DEF Fwd, IsQuery, f
  <2> HIDE DEF b
  <2>5. answer'.op = "none"
    BY <1>1, <2>1 DEF NoAnswer
  <2>6. PagesMeanTheChain' /\ (answer'.op \in PageOps => answer'.more \in Nat) /\ AllOk'
    BY <2>5 DEF PagesMeanTheChain, PageOps, AllOk
  <2>7. walk' = [walk EXCEPT !.got = got] /\ walk'.on = walk.on /\ walk'.got = got /\ walk'.kept = walk.kept
        /\ walk'.fresh = walk.fresh /\ walk' = WalkIs(walk'.on, walk'.got, walk'.kept, walk'.fresh)
    <3>1. [WalkIs(walk.on, walk.got, walk.kept, walk.fresh) EXCEPT !.got = got] = WalkIs(walk.on, got, walk.kept, walk.fresh)
      BY DEF WalkIs
    <3>2. walk' = WalkIs(walk.on, got, walk.kept, walk.fresh)
      BY <1>2, <2>1, <3>1
    <3> QED BY <2>1, <3>2 DEF WalkIs
  <2>8. /\ \A y \in ToSet(got) : page.lastKey # 0 /\ (y = page.lastKey \/ Behind(f, y, page.lastKey))
        /\ walk.fresh => \A k \in walk.kept : k \in sat /\ (k \in ToSet(got) \/ k \in Ahead(f, page.lastKey))
    <3>1. ASSUME NEW y \in ToSet(got) PROVE y = page.lastKey \/ Behind(f, y, page.lastKey)
      <4>1. CASE y \in ToSet(page.places)
        BY <1>3, <2>2, <4>1
      <4>2. CASE y \in ToSet(walk.got)
        <5>1. Behind(f, builder.start, page.lastKey)
          BY <1>3, <1>4, <1>6, <2>2, <4>2
        <5> QED BY <1>4, <1>6, <1>7, <2>2, <4>2, <5>1
      <4> QED BY <1>8, <4>1, <4>2
    <3>2. ASSUME walk.fresh, NEW k \in walk.kept PROVE k \in sat /\ (k \in ToSet(got) \/ k \in Ahead(f, page.lastKey))
      <4>1. k \in sat /\ (k \in ToSet(walk.got) \/ k \in Ahead(f, builder.start))
        BY <1>4, <3>2
      <4>2. CASE k \in ToSet(asked) \ ToSet(page.places)
        BY <1>3, <1>5, <1>6, <4>1, <4>2 DEF Ahead
      <4> QED BY <1>5, <1>8, <4>1, <4>2
    <3> QED BY <2>2, <3>1, <3>2
  <2>9. Walking(walk', b, table)
    BY <1>8, <2>3, <2>4, <2>7, <2>8 DEF Walking, sat
  <2>10. WalkOk'
    <3>1. answer' = NoAnswer /\ table' = table /\ builder' = b
      BY <1>1, <2>1
    <3>2. walk'.on
      BY <1>1, <2>7
    <3> QED BY <2>7, <2>9, <3>1, <3>2 DEF WalkOk
  <2> QED BY <1>1, <2>1, <2>3, <2>6, <2>10 DEF ReadInv
<1>11. CASE ~Refused(builder) /\ ~GoesOn(page)
  <2>1. walk' = NoWalk /\ builder' = builder /\ answer' = [op |-> "all", places |-> got, kept |-> walk.kept, fresh |-> walk.fresh]
    BY <1>11 DEF NextPage, page, got
  <2>2. page.lastKey = 0
    BY <1>11 DEF GoesOn
  <2>3. answer'.op = "all" /\ answer'.places = got /\ answer'.kept = walk.kept /\ answer'.fresh = walk.fresh
    BY <2>1
  <2>4. walk.fresh => walk.kept \subseteq ToSet(got)
    <3> SUFFICES ASSUME walk.fresh, NEW k \in walk.kept PROVE k \in ToSet(got)
      OBVIOUS
    <3>1. k \in sat /\ (k \in ToSet(walk.got) \/ k \in Ahead(f, builder.start))
      BY <1>4
    <3> QED BY <1>3, <1>5, <1>8, <2>2, <3>1
  <2>5. IsInjective(got)
    BY <1>8, OrderedOnce
  <2>6. AllOk'
    BY <2>3, <2>4, <2>5 DEF AllOk
  <2>7. PagesMeanTheChain' /\ (answer'.op \in PageOps => answer'.more \in Nat)
    BY <2>3 DEF PagesMeanTheChain, PageOps
  <2>8. WalkOk'
    <3>1. NoWalk = WalkIs(NoWalk.on, NoWalk.got, NoWalk.kept, NoWalk.fresh) /\ ~NoWalk.on /\ NoWalk.got = <<>>
      BY DEF NoWalk, WalkIs
    <3> QED BY <2>1, <3>1 DEF WalkOk
  <2> QED BY <1>1, <2>1, <2>6, <2>7, <2>8 DEF ReadInv
<1> QED BY <1>9, <1>10, <1>11

\* Other clients write: what the walk counts on is neither written nor gone.
LEMMA OtherWritesKeep ==
  ASSUME ReadInv, OtherWrites
  PROVE  ReadInv'
<1>1. PICK n \in DOMAIN Keys, item \in Items \cup {NoItem} :
        /\ table' = [table EXCEPT ![n] = item]
        /\ walk' = [walk EXCEPT !.kept = {k \in walk.kept : k # n \/ (item # NoItem /\ AllHold(table', builder.filters, n))}]
  BY DEF OtherWrites
<1>2. builder' = builder /\ answer' = answer
  BY DEF OtherWrites
<1>3. table \in [DOMAIN Keys -> Items \cup {NoItem}] /\ BuilderOk(builder) /\ WalkOk
  BY DEF ReadInv
<1> DEFINE kept == {k \in walk.kept : k # n \/ (item # NoItem /\ AllHold(table', builder.filters, n))}
           key == builder.pk \o builder.sk
<1>4. walk' = WalkIs(walk.on, walk.got, kept, walk.fresh)
  <2>1. \A x : [WalkIs(walk.on, walk.got, walk.kept, walk.fresh) EXCEPT !.kept = x] = WalkIs(walk.on, walk.got, x, walk.fresh)
    BY DEF WalkIs
  <2>2. walk = WalkIs(walk.on, walk.got, walk.kept, walk.fresh) /\ walk' = [walk EXCEPT !.kept = kept]
    BY <1>1, <1>3 DEF WalkOk
  <2> HIDE DEF kept
  <2> QED BY <2>1, <2>2
<1>5. table' \in [DOMAIN Keys -> Items \cup {NoItem}] /\ table'[n] = item /\ \A k \in DOMAIN Keys : k # n => table'[k] = table[k]
  BY <1>1, <1>3
<1>6. Conditions(key) /\ \A i \in DOMAIN key : key[i].attribute \in {"pk", "sk"}
  <2>1. /\ Conditions(builder.pk) /\ Conditions(builder.sk) /\ (\A i \in DOMAIN builder.pk : builder.pk[i].attribute = "pk")
        /\ \A i \in DOMAIN builder.sk : builder.sk[i].attribute = "sk"
    BY <1>3 DEF BuilderOk
  <2>2. Conditions(key) /\ ToSet(key) = ToSet(builder.pk) \cup ToSet(builder.sk)
    BY <2>1, ConditionsJoin
  <2> HIDE DEF key
  <2>3. \A c \in ToSet(key) : c.attribute \in {"pk", "sk"}
    BY <2>1, <2>2 DEF ToSet
  <2> QED BY <2>2, <2>3 DEF ToSet
<1> HIDE DEF key, kept
<1>7. ASSUME NEW k \in DOMAIN Keys, k \in Satisfying(table, key) \cap Satisfying(table, builder.filters), k \in kept
      PROVE  k \in Satisfying(table', key) \cap Satisfying(table', builder.filters)
  <2>1. table[k] # NoItem /\ AllHold(table, key, k) /\ AllHold(table, builder.filters, k)
    BY <1>7 DEF Satisfying
  <2>2. CASE k # n
    <3>1. table'[k] = table[k]
      BY <1>5, <2>2
    <3>2. \A c : Holds(table', c, k) = Holds(table, c, k)
      BY <3>1 DEF Holds, Attribute
    <3>3. AllHold(table', key, k) /\ AllHold(table', builder.filters, k)
      BY <2>1, <3>2 DEF AllHold
    <3> QED BY <2>1, <3>1, <3>3 DEF Satisfying
  <2>3. CASE k = n
    <3>1. item # NoItem /\ AllHold(table', builder.filters, k)
      BY <1>7, <2>3 DEF kept
    <3>2. \A c : c.attribute \in {"pk", "sk"} => Holds(table', c, k) = Holds(table, c, k)
      BY DEF Holds, Attribute
    <3>3. AllHold(table', key, k)
      BY <1>6, <2>1, <3>2 DEF AllHold
    <3> QED BY <1>5, <2>3, <3>1, <3>3 DEF Satisfying
  <2> QED BY <2>2, <2>3
<1>8. WalkOk'
  <2>1. /\ walk'.on = walk.on /\ walk'.got = walk.got /\ walk'.kept = kept /\ walk'.fresh = walk.fresh
        /\ walk' = WalkIs(walk'.on, walk'.got, walk'.kept, walk'.fresh)
    BY <1>4 DEF WalkIs
  <2>2. ~walk'.on => walk'.got = <<>>
    BY <1>3, <2>1 DEF WalkOk
  <2>3. ASSUME walk'.on PROVE answer' = NoAnswer /\ Walking(walk', builder', table')
    <3>1. walk.on
      BY <2>1, <2>3
    <3>2. answer = NoAnswer /\ Walking(walk, builder, table)
      BY <1>3, <3>1 DEF WalkOk
    <3>3. kept \subseteq walk.kept
      BY DEF kept
    <3>4. walk.fresh => \A k \in kept : /\ k \in Satisfying(table', key) \cap Satisfying(table', builder.filters)
                                        /\ k \in ToSet(walk.got) \/ k \in Ahead(Fwd(builder), builder.start)
      <4> SUFFICES ASSUME walk.fresh, NEW k \in kept
                   PROVE  /\ k \in Satisfying(table', key) \cap Satisfying(table', builder.filters)
                          /\ k \in ToSet(walk.got) \/ k \in Ahead(Fwd(builder), builder.start)
        OBVIOUS
      <4>1. /\ k \in Satisfying(table, key) \cap Satisfying(table, builder.filters)
            /\ k \in ToSet(walk.got) \/ k \in Ahead(Fwd(builder), builder.start)
        BY <3>2, <3>3 DEF Walking, key
      <4>2. k \in DOMAIN Keys
        BY <4>1 DEF Satisfying
      <4> QED BY <1>7, <4>1, <4>2
    <3> DEFINE w == walk'
    <3>5. w.got = walk.got /\ w.kept = kept /\ w.fresh = walk.fresh
      BY <2>1
    <3> HIDE DEF w
    <3>6. Walking(w, builder, table')
      BY <3>2, <3>4, <3>5 DEF Walking, key
    <3> QED BY <1>2, <3>2, <3>6 DEF w
  <2> QED BY <2>1, <2>2, <2>3 DEF WalkOk
<1>9. PagesMeanTheChain' /\ (answer'.op \in PageOps => answer'.more \in Nat) /\ AllOk'
  BY <1>2 DEF ReadInv, PagesMeanTheChain, Unparsable, AllOk
<1> QED BY <1>2, <1>3, <1>5, <1>8, <1>9 DEF ReadInv

\* Every step keeps the invariant.
LEMMA ReadNextKeeps ==
  ASSUME ReadInv, [ReadNext]_readVars
  PROVE  ReadInv'
<1>1. CASE ReadNext
  BY <1>1, ChainCallKeeps, TerminalCallKeeps, NextPageKeeps, OtherWritesKeep DEF ReadNext
<1>2. CASE UNCHANGED readVars
  BY <1>2 DEF readVars, ReadInv, WalkOk, AllOk, PagesMeanTheChain, Unparsable, Walking, BuilderOk, Fwd, IsQuery
<1> QED BY <1>1, <1>2

\* A page of an answer is where the chain's answer begins, and a walk misses nothing.
THEOREM ReadsMeanTheChain == ReadSpec => []AnswersMeanTheChain
<1>1. ReadInit => ReadInv
  BY ReadInitIs
<1>2. ReadInv /\ [ReadNext]_readVars => ReadInv'
  BY ReadNextKeeps
<1>3. ReadInv => AnswersMeanTheChain
  <2> SUFFICES ASSUME ReadInv PROVE AnswersMeanTheChain
    OBVIOUS
  <2>1. IsInjective(<<>>)
    BY DEF IsInjective
  <2>2. IsInjective(walk.got)
    <3>1. CASE walk.on
      BY <3>1, OrderedOnce DEF ReadInv, WalkOk, Walking
    <3>2. CASE ~walk.on
      BY <2>1, <3>2 DEF ReadInv, WalkOk
    <3> QED BY <3>1, <3>2
  <2> QED BY <2>2 DEF ReadInv, AllOk, AnswersMeanTheChain, WalksAreComplete
<1> QED BY <1>1, <1>2, <1>3, PTL DEF ReadSpec
==============================================================================
