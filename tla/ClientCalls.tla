----------------------------- MODULE ClientCalls -----------------------------
(***************************************************************************)
(* What runs under a call of the client: the SQLite connection's begin(),   *)
(* the retry loop of transaction(), runWithHooks(), and the helpers that     *)
(* send several statements.  They meet only through promises of the driver,  *)
(* so a behaviour is about one of the four.                                  *)
(***************************************************************************)
EXTENDS SqliteBegin, TransactionCall, QueryRun, RowWalk, KeyedWrites, PivotSync

VARIABLES
  part,    \* which of the four
  group    \* which of the helpers: walks, look-then-write, pivot writes

tableVars == <<group, walkVars, keyedVars, pivotVars>>

Groups == {"walk", "keyed", "pivot"}

(* The groups that stand still are in one of their initial states.             *)
TableInit ==
  /\ group \in Groups
  /\ WalkInit
  /\ group # "walk" => /\ rows = {} /\ walk.page = 1
                       /\ walk.how = (CHOOSE how \in Walks : TRUE)
                       /\ walk.size = (CHOOSE size \in Sizes : TRUE)
  /\ KeyedInit /\ (group # "keyed" => unique /\ dialect = "other" /\ pool = CHOOSE p \in Pools : TRUE)
  /\ PivotInit /\ (group # "pivot" => \A r \in Related : pivot[r] = <<>>)

TableNext ==
  \/ group = "walk" /\ WalkNext /\ UNCHANGED <<group, keyedVars, pivotVars>>
  \/ group = "keyed" /\ KeyedNext /\ UNCHANGED <<group, walkVars, pivotVars>>
  \/ group = "pivot" /\ PivotNext /\ UNCHANGED <<group, walkVars, keyedVars>>

TableTypes == WalkTypes /\ KeyedTypes /\ PivotTypes

----------------------------------------------------------------------------
vars == <<part, beginVars, txVars, runVars, tableVars>>

(* The other helpers stand still in the first of their initial states.         *)
Init ==
  /\ part \in {"connection", "transaction", "query", "table"}
  /\ BeginInit /\ TxInit /\ RunInit
  /\ TableInit
  /\ part # "table" => group = "pivot" /\ \A r \in Related : pivot[r] = <<>>

Next ==
  \/ part = "connection" /\ BeginNext /\ UNCHANGED <<part, txVars, runVars, tableVars>>
  \/ part = "transaction" /\ TxNext /\ UNCHANGED <<part, beginVars, runVars, tableVars>>
  \/ part = "query" /\ RunNext /\ UNCHANGED <<part, beginVars, txVars, tableVars>>
  \/ part = "table" /\ TableNext /\ UNCHANGED <<part, beginVars, txVars, runVars>>

\* Callbacks return or throw, the driver answers the statements of a
\* transaction or a helper, timers fire; the database owes a query nothing.
Fairness ==
  /\ \A c \in Calls :
       WF_vars(part = "transaction" /\ Advance(c) /\ UNCHANGED <<part, beginVars, runVars, tableVars>>)
  /\ \A q \in Queries :
       WF_vars(part = "query" /\ TimerFires(q) /\ UNCHANGED <<part, beginVars, txVars, tableVars>>)
  /\ WF_vars(/\ part = "table" /\ group = "walk" /\ WalkStep
             /\ UNCHANGED <<part, beginVars, txVars, runVars, group, keyedVars, pivotVars>>)
  /\ \A c \in Callers :
       WF_vars(/\ part = "table" /\ group = "keyed" /\ CallerStep(c)
               /\ UNCHANGED <<part, beginVars, txVars, runVars, group, walkVars, pivotVars>>)
  /\ \A c \in Syncers :
       WF_vars(/\ part = "table" /\ group = "pivot" /\ PivotStep(c)
               /\ UNCHANGED <<part, beginVars, txVars, runVars, group, walkVars, keyedVars>>)

Spec == Init /\ [][Next]_vars /\ Fairness

(* Every walk, every helper and every pivot call ends, whoever else writes:    *)
(* a walk in particular is not sent back to its last page for ever, and a     *)
(* sync that keeps being tried again gets through.                            *)
HelpersEnd ==
  /\ group = "walk" => WalkEnds
  /\ group = "keyed" => KeyedCallsEnd
  /\ group = "pivot" => \A c \in Syncers : job[c].pc # "idle" ~> job[c].pc = "idle"

(* Every call of the client ends: an outermost transaction() resolves or       *)
(* rejects whatever its retries meet, a query with a timeout settles without    *)
(* an answer, and every walk, look-then-write helper and pivot call gets        *)
(* through while others write.                                                *)
EveryCallEnds ==
  /\ part = "transaction" => EveryCallSettles
  /\ part = "query" => TimeoutSettles
  /\ part = "table" => HelpersEnd

TypeOK == BeginTypes /\ TxTypes /\ RunTypes /\ TableTypes
=============================================================================
