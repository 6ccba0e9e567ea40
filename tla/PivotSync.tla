----------------------------- MODULE PivotSync -----------------------------
(* The many-to-many writes of a model: attach, detach, updateExistingPivot,    *)
(* sync and toggle on the pivot rows of one parent.  sync and toggle read the  *)
(* rows and then send one statement after the other, each of which may fail.   *)
EXTENDS Naturals, FiniteSets, Sequences, SequencesExt, FiniteSetsExt

CONSTANTS
  Syncers,       \* the callers
  Related,       \* the ids that may be attached
  MaxFailures,
  MaxSyncs       \* calls of each caller

ASSUME PivotAssumption ==
  MaxFailures \in Nat /\ MaxSyncs \in Nat \ {0} /\ IsFiniteSet(Related)

VARIABLES
  pivot,      \* related id -> the extras of each of its pivot rows
  job,        \* caller -> the call under way: its statements left and what it told
  syncs,      \* caller -> how many it made
  alone,      \* ghost: callers whose call overlapped no other so far
  failures

pivotVars == <<pivot, job, syncs, alone, failures>>

Rested == [pc |-> "idle", op |-> "none", want |-> {}, extras |-> 0, todo |-> <<>>,
           attached |-> {}, detached |-> {}, updated |-> {}, had |-> {}]

Busy == {c \in Syncers : job[c].pc # "idle"}
Present == {r \in Related : pivot[r] # <<>>}
MaxRows == 3

PivotInit ==
  /\ pivot \in [Related -> {<<>>, <<0>>}]
  /\ job = [c \in Syncers |-> Rested]
  /\ syncs = [c \in Syncers |-> 0]
  /\ alone = {}
  /\ failures = 0

Detach(ids) == [op |-> "detach", ids |-> ids, extras |-> 0]
Attach(id, extras) == [op |-> "attach", ids |-> {id}, extras |-> extras]
UpdatePivot(id, extras) == [op |-> "update", ids |-> {id}, extras |-> extras]

(* sync(items): detach what is missing in one statement, then attach each id   *)
(* that was not there, or update it when extras were given. One statement for  *)
(* each id, in the order of the caller's list, here any fixed one.             *)
SyncFromDesired(had, want, extras) ==
  SetToSeq({Attach(id, extras) : id \in want \ had}
             \cup {UpdatePivot(id, extras) : id \in IF extras = 0 THEN {} ELSE want \cap had})

SyncKeepsMissing(had, want, extras) == SyncFromDesired(had, want, extras)

SyncPlan(had, want, extras) ==
  (IF had \subseteq want THEN <<>> ELSE <<Detach(had \ want)>>)
    \o SyncFromDesired(had, want, extras)

(* toggle(ids): attach those that are not there, then detach those that were.  *)
TogglePlan(had, ids) ==
  SetToSeq({Attach(id, 0) : id \in ids \ had})
    \o (IF ids \cap had = {} THEN <<>> ELSE <<Detach(ids \cap had)>>)

Plan(op, had, want, extras) ==
  CASE op = "sync" -> SyncPlan(had, want, extras)
    [] op = "toggle" -> TogglePlan(had, want)
    [] op = "attach" -> SetToSeq({Attach(id, extras) : id \in want})
    [] op = "detach" -> <<Detach(want)>>
    [] op = "update" -> SetToSeq({UpdatePivot(id, extras) : id \in want})

(* The call reads what is there, except those that only write.                *)
Started(op, want, extras) ==
  [Rested EXCEPT !.pc = "running", !.op = op, !.want = want, !.extras = extras,
                 !.had = Present, !.todo = Plan(op, Present, want, extras)]

Begin(c, op, want, extras) ==
  /\ job[c].pc = "idle" /\ syncs[c] < MaxSyncs
  /\ job' = [job EXCEPT ![c] = Started(op, want, extras)]
  /\ syncs' = [syncs EXCEPT ![c] = @ + 1]
  /\ alone' = IF Busy = {} THEN alone \cup {c} ELSE alone \ (Busy \cup {c})
  /\ UNCHANGED <<pivot, failures>>

Applied(s) ==
  [r \in Related |->
    IF r \notin s.ids THEN pivot[r]
    ELSE CASE s.op = "detach" -> <<>>
           [] s.op = "attach" -> Append(pivot[r], s.extras)
           [] s.op = "update" -> [i \in DOMAIN pivot[r] |-> s.extras]]

Told(j, s) ==
  CASE s.op = "attach" -> [j EXCEPT !.attached = @ \cup s.ids]
    [] s.op = "detach" -> [j EXCEPT !.detached = @ \cup s.ids]
    [] s.op = "update" -> [j EXCEPT !.updated = @ \cup s.ids]

RunStatement(c) ==
  /\ job[c].pc = "running" /\ job[c].todo # <<>>
  /\ LET s == Head(job[c].todo)
         rest == Tail(job[c].todo)
     IN  /\ \A r \in s.ids : s.op = "attach" => Len(pivot[r]) < MaxRows
         /\ pivot' = Applied(s)
         /\ job' = [job EXCEPT ![c] = [Told(job[c], s) EXCEPT !.todo = rest]]
  /\ UNCHANGED <<syncs, alone, failures>>

(* A statement fails: the call throws and what it did before stays.           *)
StatementFails(c) ==
  /\ job[c].pc = "running" /\ job[c].todo # <<>> /\ failures < MaxFailures
  /\ failures' = failures + 1
  /\ job' = [job EXCEPT ![c].pc = "failed"]
  /\ UNCHANGED <<pivot, syncs, alone>>

Return(c) ==
  /\ job[c].pc = "running" /\ job[c].todo = <<>>
  /\ job' = [job EXCEPT ![c].pc = "returned"]
  /\ UNCHANGED <<pivot, syncs, alone, failures>>

RestAfterReturn(c) ==
  /\ job[c].pc = "returned"
  /\ job' = [job EXCEPT ![c] = Rested]
  /\ UNCHANGED <<pivot, syncs, alone, failures>>

(* The caller goes on to its next call; a sync that failed is tried again.     *)
Rest(c) ==
  /\ job[c].pc = "returned" \/ (job[c].pc = "failed" /\ job[c].op # "sync")
  /\ job' = [job EXCEPT ![c] = Rested]
  /\ UNCHANGED <<pivot, syncs, alone, failures>>

TryAgain(c) ==
  /\ job[c].pc = "failed" /\ job[c].op = "sync"
  /\ job' = [job EXCEPT ![c] = Started("sync", @.want, @.extras)]
  /\ alone' = IF Busy = {c} THEN alone \cup {c} ELSE alone \ Busy
  /\ UNCHANGED <<pivot, syncs, failures>>

(* One call at most carries extras, and they are the same for every id.        *)
CallPivot(c) ==
  \E want \in SUBSET Related :
    \/ \E op \in {"sync", "attach"}, extras \in 0 .. 1 : Begin(c, op, want, extras)
    \/ Begin(c, "update", want, 1)
    \/ \E op \in {"toggle", "detach"} : Begin(c, op, want, 0)

PivotStep(c) == RunStatement(c) \/ Return(c) \/ Rest(c) \/ TryAgain(c)

PivotNext == \E c \in Syncers : CallPivot(c) \/ PivotStep(c) \/ StatementFails(c)

----------------------------------------------------------------------------
PivotTypes ==
  /\ \A r \in Related : pivot[r] \in UNION {[1 .. n -> 0 .. 1] : n \in 0 .. MaxRows}
  /\ \A c \in Syncers : job[c].pc \in {"idle", "running", "failed", "returned"}
  /\ alone \subseteq Syncers

(* A sync that ran by itself leaves exactly the ids it was given, with their    *)
(* extras, also when it is the retry of one that stopped half way; toggle      *)
(* leaves the symmetric difference; and what they return is what they did.     *)
AloneDoesWhatItSays ==
  \A c \in alone : job[c].pc = "returned" =>
    LET j == job[c]
    IN  /\ j.op = "sync" =>
             /\ Present = j.want
             /\ j.extras # 0 => \A r \in j.want : ToSet(pivot[r]) = {j.extras}
             /\ j.attached = j.want \ j.had /\ j.detached = j.had \ j.want
             /\ j.updated \subseteq j.want \cap j.had
        /\ j.op = "toggle" =>
             /\ Present = (j.had \ j.want) \cup (j.want \ j.had)
             /\ j.attached \cap j.detached = {}

(* A second pivot row for an id comes from attach(), which does not look, or   *)
(* from two calls that both saw the id missing.                               *)
SecondRowNeedsOverlap ==
  \A r \in Related :
    (pivot[r] # <<>> /\ Len(pivot'[r]) > Len(pivot[r]))
      => \E c \in Syncers : job[c].pc = "running" /\ (job[c].op = "attach" \/ c \notin alone)

(* sync and toggle do what they say when they run by themselves, and a row      *)
(* comes twice only from calls that do not look or that overlap.               *)
PivotCallsAreSound ==
  /\ [](alone # {} => AloneDoesWhatItSays)
  /\ [][SecondRowNeedsOverlap]_pivotVars
============================================================================
