--------------------------- MODULE DynamoMigration ---------------------------
(* DynamoDBMigrationDriver and DynamoDBMigrationTracker: drivers bring one      *)
(* table to the definition their models have, operation by operation, while    *)
(* the service works on each change for a while, and record what they did.      *)
EXTENDS Naturals, Sequences, FiniteSets, SequencesExt

CONSTANTS
  Drivers,      \* processes that migrate
  Indexes,      \* the names of secondary indexes, in the order a model lists them
  Definitions,  \* what the models may ask for: [key, gsis, ttl, stream, billing]
  MaxDeploys, MaxReruns,  \* bounds: new definitions, and migrations of an unchanged one
  MaxFaults     \* bound: crashes, lost requests, lost answers and waits that time out

(* Models index what has a name, and name an index once.                          *)
ASSUME DynamoMigrationAssumption ==
  /\ Indexes \in Seq(Range(Indexes))
  /\ \A m, n \in DOMAIN Indexes : m # n => Indexes[m] # Indexes[n]
  /\ \A definition \in Definitions : definition.gsis \subseteq Range(Indexes) /\ definition.stream \in BOOLEAN

NoTtl == "none"

VARIABLES
  wanted,      \* what the models ask for now
  dynamoTable, \* the table as the service has it
  reportsTtl,  \* DescribeTable says what the TTL attribute is
  records, tracking,  \* the migrations table: its items by version, and its status
  initialized, \* the driver has seen the migrations table
  runs,        \* migrateModel under way, by driver
  results,     \* what the last one answered
  touched,     \* ghost: the table changed by itself or by another since this driver described it
  outrun,      \* ghost: there is a record its read of the newest one did not show: another
               \* driver put it since, or it was not visible yet
  deploys, reruns, faults

dynamoVars == <<wanted, dynamoTable, reportsTtl, records, tracking, initialized, runs, results,
                touched, outrun, deploys, reruns, faults>>

Settled(table) == table.status = "ACTIVE" /\ \A i \in DOMAIN table.gsis : table.gsis[i] \in {"none", "ACTIVE"}
Names(table) == {i \in DOMAIN table.gsis : table.gsis[i] # "none"}
Absent == [status |-> "absent", key |-> "", gsis |-> [i \in Range(Indexes) |-> "none"],
           ttl |-> NoTtl, stream |-> FALSE, billing |-> ""]
Created(definition) ==
  [status |-> "CREATING", key |-> definition.key, ttl |-> NoTtl,
   gsis |-> [i \in Range(Indexes) |-> IF i \in definition.gsis THEN "ACTIVE" ELSE "none"],
   stream |-> definition.stream, billing |-> definition.billing]

(* tableInfoToDefinition: an index counts in whatever state it is.              *)
TableInfoToDefinition(table) ==
  [key |-> table.key, gsis |-> Names(table), ttl |-> IF reportsTtl THEN table.ttl ELSE NoTtl,
   stream |-> table.stream, billing |-> table.billing]

Op(type, index) == [type |-> type, index |-> index]

(* One operation for each index of S, in the order the model lists them.          *)
Each(type, S) ==
  LET upTo[n \in 0 .. Len(Indexes)] ==
        IF n = 0 THEN <<>>
        ELSE IF Indexes[n] \in S THEN Append(upTo[n - 1], Op(type, Indexes[n])) ELSE upTo[n - 1]
  IN  upTo[Len(Indexes)]

(* buildMigrationPlan: a changed key is only warned about.                       *)
PlanOfDifference(current, target) ==
  LET When(type, changed) == IF changed THEN <<Op(type, "")>> ELSE <<>>
  IN  Each("ADD_GSI", target.gsis \ current.gsis)
        \o Each("DELETE_GSI", current.gsis \ target.gsis)
        \o When("UPDATE_BILLING_MODE", current.billing # target.billing)
        \o When("UPDATE_TTL", current.ttl # target.ttl)
        \o When(IF target.stream THEN "ENABLE_STREAM" ELSE "DISABLE_STREAM", current.stream # target.stream)
PlanWithoutDeletes(table, target) ==
  IF table.status = "absent" THEN <<Op("CREATE_TABLE", "")>>
  ELSE SelectSeq(PlanOfDifference(TableInfoToDefinition(table), target), LAMBDA op : op.type # "DELETE_GSI")
BuildMigrationPlan(table, target) ==
  IF table.status = "absent" THEN <<Op("CREATE_TABLE", "")>>
  ELSE PlanOfDifference(TableInfoToDefinition(table), target)

NoRun == [pc |-> "idle"]
NoResult == [success |-> FALSE, why |-> "", target |-> {}]

DynamoInit ==
  /\ wanted \in Definitions /\ reportsTtl \in BOOLEAN
  /\ dynamoTable = Absent /\ records = <<>> /\ tracking = "absent"
  /\ initialized = [d \in Drivers |-> FALSE] /\ runs = [d \in Drivers |-> NoRun]
  /\ results = [d \in Drivers |-> NoResult]
  /\ touched = [d \in Drivers |-> FALSE] /\ outrun = [d \in Drivers |-> FALSE]
  /\ deploys = 0 /\ reruns = 0 /\ faults = 0

----------------------------------------------------------------------------
At(d, pc) == runs[d].pc = pc
Goto(d, pc) == runs' = [runs EXCEPT ![d].pc = pc]
End(d, success, why) ==
  /\ runs' = [runs EXCEPT ![d] = NoRun]
  /\ results' = [results EXCEPT ![d] = [success |-> success, why |-> why, target |-> {runs[d].target}]]
NotEnded == results' = results
Fault == faults < MaxFaults /\ faults' = faults + 1
NoFault == faults' = faults
Deployed == UNCHANGED <<wanted, reportsTtl, deploys, reruns>>
Untracked == UNCHANGED <<records, tracking, initialized, outrun>>
Untouched == UNCHANGED <<dynamoTable, touched>>

Deploy ==
  /\ deploys < MaxDeploys /\ deploys' = deploys + 1
  /\ wanted' \in Definitions \ {wanted}
  /\ UNCHANGED <<dynamoTable, reportsTtl, records, tracking, initialized, runs, results, touched, outrun, reruns, faults>>

(* migrateModel, again where the last one failed or the models changed.          *)
Start(d) ==
  /\ At(d, "idle")
  /\ IF results[d].success /\ results[d].target = {wanted}
     THEN reruns < MaxReruns /\ reruns' = reruns + 1 ELSE reruns' = reruns
  /\ runs' = [runs EXCEPT ![d] = [pc |-> "describe", target |-> wanted, ops |-> <<>>, version |-> 0]]
  /\ results' = [results EXCEPT ![d] = NoResult]
  /\ UNCHANGED <<wanted, dynamoTable, reportsTtl, records, tracking, initialized, touched, outrun, deploys, faults>>

Describe(d) ==
  /\ At(d, "describe")
  /\ runs' = [runs EXCEPT ![d].pc = "op", ![d].ops = BuildMigrationPlan(dynamoTable, runs[d].target)]
  /\ touched' = [touched EXCEPT ![d] = \E i \in Range(Indexes) : dynamoTable.gsis[i] = "DELETING"]
  /\ NotEnded /\ NoFault /\ Deployed /\ Untracked /\ UNCHANGED dynamoTable

(* A request that changes the table: refused, carried out, lost, or carried out   *)
(* with the answer lost.                                                       *)
Others(d) == [e \in Drivers |-> touched[e] \/ (e # d /\ ~At(e, "describe"))]
Ask(d, refusal, changed, next) ==
  \/ /\ refusal # "" /\ End(d, FALSE, refusal) /\ Untouched /\ NoFault
  \/ /\ refusal = "" /\ dynamoTable' = changed /\ touched' = Others(d)
     /\ \/ runs' = [runs EXCEPT ![d] = next] /\ NotEnded /\ NoFault
        \/ End(d, FALSE, "fault") /\ Fault
  \/ /\ Fault /\ End(d, FALSE, "fault") /\ Untouched

Busy == IF Settled(dynamoTable) THEN "" ELSE "busy"
AfterOp(d) == [runs[d] EXCEPT !.pc = "op", !.ops = Tail(@)]
Executing(d, type) == At(d, "op") /\ runs[d].ops # <<>> /\ Head(runs[d].ops).type = type

CreateTable(d) ==
  /\ Executing(d, "CREATE_TABLE")
  /\ Ask(d, IF dynamoTable = Absent THEN "" ELSE "duplicate", Created(runs[d].target), [runs[d] EXCEPT !.pc = "table"])
  /\ Deployed /\ Untracked

AddGsi(d) ==
  /\ Executing(d, "ADD_GSI")
  /\ LET index == Head(runs[d].ops).index
     IN  Ask(d, IF dynamoTable.gsis[index] # "none" THEN "duplicate" ELSE Busy,
                 [dynamoTable EXCEPT !.gsis[index] = "CREATING"], [runs[d] EXCEPT !.pc = "index"])
  /\ Deployed /\ Untracked

(* Nothing waits for a deletion.                                               *)
DeleteGsi(d) ==
  /\ Executing(d, "DELETE_GSI")
  /\ LET index == Head(runs[d].ops).index
     IN  Ask(d, IF dynamoTable.gsis[index] = "none" THEN "duplicate" ELSE Busy,
                 [dynamoTable EXCEPT !.gsis[index] = "DELETING"], AfterOp(d))
  /\ Deployed /\ Untracked

UpdateTable(d, type, changed) ==
  /\ Executing(d, type)
  /\ Ask(d, Busy, [changed EXCEPT !.status = "UPDATING"], [runs[d] EXCEPT !.pc = "table"])
  /\ Deployed /\ Untracked
UpdateBillingMode(d) == UpdateTable(d, "UPDATE_BILLING_MODE", [dynamoTable EXCEPT !.billing = runs[d].target.billing])
EnableStream(d)      == UpdateTable(d, "ENABLE_STREAM", [dynamoTable EXCEPT !.stream = TRUE])
DisableStream(d)     == UpdateTable(d, "DISABLE_STREAM", [dynamoTable EXCEPT !.stream = FALSE])

(* updateTTL: the service turns TTL on where it is off, and off by the name it has; *)
(* a definition without a TTL attribute turns off the one called ttl.            *)
UpdateTtl(d) ==
  /\ Executing(d, "UPDATE_TTL") \/ At(d, "createttl")
  /\ LET ttl == runs[d].target.ttl
         refusal == IF dynamoTable.status # "ACTIVE" THEN "busy"
                    ELSE IF ttl # NoTtl THEN (IF dynamoTable.ttl # NoTtl THEN "ttl" ELSE "")
                    ELSE IF dynamoTable.ttl # "ttl" THEN "ttl" ELSE ""
     IN  Ask(d, refusal, [dynamoTable EXCEPT !.ttl = ttl], AfterOp(d))
  /\ Deployed /\ Untracked

(* waitForTableActive and waitForGSIActive; an index that is not being built is   *)
(* waited for until the attempts are used up.                                    *)
TableActive(d) ==
  /\ At(d, "table")
  /\ \/ /\ dynamoTable.status = "ACTIVE" /\ NoFault /\ NotEnded
        /\ runs' = [runs EXCEPT ![d] =
             IF Head(runs[d].ops).type = "CREATE_TABLE" /\ runs[d].target.ttl # NoTtl
             THEN [runs[d] EXCEPT !.pc = "createttl"] ELSE AfterOp(d)]
     \/ dynamoTable.status # "ACTIVE" /\ Fault /\ End(d, FALSE, "timeout")
  /\ Deployed /\ Untracked /\ Untouched
IndexActive(d) ==
  /\ At(d, "index")
  /\ LET index == Head(runs[d].ops).index
     IN  \/ dynamoTable.gsis[index] = "ACTIVE" /\ NoFault /\ NotEnded /\ runs' = [runs EXCEPT ![d] = AfterOp(d)]
         \/ dynamoTable.gsis[index] # "ACTIVE" /\ End(d, FALSE, "timeout")
            /\ IF dynamoTable.gsis[index] = "CREATING" THEN Fault ELSE NoFault
  /\ Deployed /\ Untracked /\ Untouched

(* recordMigration once every operation is done: ensureMigrationsTable, then the  *)
(* newest record, then the next version, whatever has that version by then.       *)
EnsureMigrationsTable(d) ==
  /\ At(d, "op") /\ runs[d].ops = <<>>
  /\ IF initialized[d] \/ tracking # "absent"
     THEN Goto(d, "latest") /\ initialized' = [initialized EXCEPT ![d] = TRUE]
     ELSE Goto(d, "createtracking") /\ UNCHANGED initialized
  /\ NotEnded /\ NoFault /\ Deployed /\ Untouched /\ UNCHANGED <<records, tracking, outrun>>
CreateMigrationsTable(d) ==
  /\ At(d, "createtracking")
  /\ \/ tracking = "absent" /\ tracking' = "CREATING" /\ Goto(d, "awaittracking") /\ NotEnded /\ NoFault
     \/ tracking # "absent" /\ UNCHANGED tracking /\ End(d, FALSE, "tracked") /\ NoFault
     \/ Fault /\ tracking' \in {tracking, IF tracking = "absent" THEN "CREATING" ELSE tracking} /\ End(d, FALSE, "fault")
  /\ Deployed /\ Untouched /\ UNCHANGED <<records, initialized, outrun>>
MigrationsTableActive(d) ==
  /\ At(d, "awaittracking")
  /\ \/ /\ tracking = "ACTIVE" /\ Goto(d, "latest") /\ NotEnded /\ NoFault
        /\ initialized' = [initialized EXCEPT ![d] = TRUE]
     \/ tracking # "ACTIVE" /\ Fault /\ End(d, FALSE, "timeout") /\ UNCHANGED initialized
  /\ Deployed /\ Untouched /\ UNCHANGED <<records, tracking, outrun>>

OldestVersion == IF records = <<>> THEN 0 ELSE 1
LatestVersion == Len(records)
\* The Query is not ConsistentRead: it may show an earlier record as the newest, or none.
Shows(late) == IF late THEN 0 .. LatestVersion - 1 ELSE {LatestVersion}
GetLatestState(d) ==
  /\ At(d, "latest")
  /\ \/ /\ tracking = "ACTIVE" /\ NotEnded /\ NoFault
        /\ \E late \in BOOLEAN : \E newest \in Shows(late) :
             /\ runs' = [runs EXCEPT ![d].pc = "put", ![d].version = newest + 1]
             /\ outrun' = [outrun EXCEPT ![d] = late]
     \/ tracking # "ACTIVE" /\ End(d, FALSE, "busy") /\ UNCHANGED outrun /\ NoFault
  /\ Deployed /\ Untouched /\ UNCHANGED <<records, tracking, initialized>>
PutRecord(d) ==
  /\ At(d, "put")
  /\ \/ /\ records' = LET v == runs[d].version IN
             [n \in 1 .. (IF v > Len(records) THEN v ELSE Len(records)) |->
                IF n = v THEN [definition |-> runs[d].target, by |-> d] ELSE records[n]]
        /\ outrun' = [e \in Drivers |-> outrun[e] \/ e # d]
        /\ \/ End(d, TRUE, "") /\ NoFault
           \/ End(d, FALSE, "fault") /\ Fault
     \/ UNCHANGED <<records, outrun>> /\ Fault /\ End(d, FALSE, "fault")
  /\ Deployed /\ Untouched /\ UNCHANGED <<tracking, initialized>>

Crash(d) ==
  /\ ~At(d, "idle") /\ Fault
  /\ runs' = [runs EXCEPT ![d] = NoRun] /\ initialized' = [initialized EXCEPT ![d] = FALSE]
  /\ NotEnded /\ Deployed /\ Untouched /\ UNCHANGED <<records, tracking, outrun>>

(* The service finishes what it works on.                                       *)
Settle ==
  /\ \/ /\ dynamoTable.status \in {"CREATING", "UPDATING"}
        /\ dynamoTable' = [dynamoTable EXCEPT !.status = "ACTIVE"] /\ UNCHANGED tracking
     \/ \E i \in DOMAIN dynamoTable.gsis :
          /\ dynamoTable.gsis[i] \in {"CREATING", "DELETING"}
          /\ dynamoTable' = [dynamoTable EXCEPT !.gsis[i] = IF @ = "CREATING" THEN "ACTIVE" ELSE "none"]
          /\ UNCHANGED tracking
     \/ tracking = "CREATING" /\ tracking' = "ACTIVE" /\ UNCHANGED dynamoTable
  /\ Deployed /\ NotEnded /\ NoFault /\ UNCHANGED <<records, initialized, runs, touched, outrun>>

DriverStep(d) ==
  \/ Describe(d) \/ CreateTable(d) \/ AddGsi(d) \/ DeleteGsi(d) \/ UpdateBillingMode(d) \/ EnableStream(d)
  \/ DisableStream(d) \/ UpdateTtl(d) \/ TableActive(d) \/ IndexActive(d) \/ EnsureMigrationsTable(d)
  \/ CreateMigrationsTable(d) \/ MigrationsTableActive(d) \/ GetLatestState(d) \/ PutRecord(d)

DynamoNext == Deploy \/ Settle \/ \E d \in Drivers : Start(d) \/ DriverStep(d) \/ Crash(d)
DynamoSpec == DynamoInit /\ [][DynamoNext]_dynamoVars

----------------------------------------------------------------------------
Satisfies(table, definition) ==
  /\ table.status # "absent" /\ table.stream = definition.stream /\ table.billing = definition.billing
  /\ \A i \in Range(Indexes) :
       IF i \in definition.gsis THEN table.gsis[i] # "none" ELSE table.gsis[i] \in {"none", "DELETING"}
  /\ (reportsTtl \/ definition.ttl # NoTtl) => table.ttl = definition.ttl

(* A driver is told that what it adds is there, or that what it drops is not, only *)
(* where the table moved under it; a run after a failed one is never refused for   *)
(* what the failed one did (the plan is made from the table, not from the records). *)
RefusalsNeedAnother ==
  \A d \in Drivers :
    /\ results[d].why = "duplicate" => touched[d]
    /\ results[d].why = "ttl" => touched[d] \/ ~reportsTtl \/ dynamoTable.ttl # NoTtl

(* A migration that answers success leaves the table as its models ask, whatever  *)
(* earlier runs left half done, as long as nobody else changed it meanwhile and no *)
(* index was on its way out: every column of the definition but the key, and the   *)
(* TTL where the service does not report it (migrateModel, buildMigrationPlan); and  *)
(* a run that does not succeed was refused for a reason.                           *)
SuccessMeansTarget ==
  /\ \A d \in Drivers : results[d].success /\ ~touched[d] =>
       \E definition \in results[d].target : Satisfies(dynamoTable, definition)
  /\ RefusalsNeedAnother

(* A version of the record is written over only by a driver whose read of the newest  *)
(* one did not show it: another driver put it since, or it was put before and not      *)
(* visible yet (recordMigration, getLatestState).                                  *)
VersionsAreNotReused ==
  [][\A n \in DOMAIN records :
       \/ n \in DOMAIN records' /\ records'[n] = records[n]
       \/ \E d \in Drivers : At(d, "put") /\ runs[d].version = n /\ outrun[d]]_dynamoVars
=============================================================================
