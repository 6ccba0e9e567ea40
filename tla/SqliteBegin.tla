---------------------------- MODULE SqliteBegin ----------------------------
(***************************************************************************)
(* The SQLite connection of db.ts and its begin()/savepoint(): ONE engine   *)
(* connection, one `txDepth` counter, and any number of asynchronous        *)
(* callers.  JavaScript is single-threaded, so everything between two       *)
(* awaits is one action: begin() up to the callback's first await, each     *)
(* statement, and the whole epilogue after `await fn(...)`.                 *)
(***************************************************************************)
EXTENDS Integers, Sequences, FiniteSets

CONSTANTS
  Tasks,          \* concurrent callers of the connection
  Statements,     \* data-changing statements they may issue
  MaxNest,        \* bound: how deeply one caller nests begin()
  MaxOpens,       \* bound: how many begin() calls the whole run makes
  Serialised,     \* environment: a caller waits until the others are done
  CommitMayFail,  \* environment: COMMIT may throw (deferred constraint, busy, disk full)
  EngineMayAbort  \* environment: a failing statement may roll the transaction back

ASSUME SqliteBeginAssumption ==
  /\ MaxNest \in Nat \ {0}
  /\ MaxOpens \in Nat
  /\ Serialised \in BOOLEAN
  /\ CommitMayFail \in BOOLEAN
  /\ EngineMayAbort \in BOOLEAN

VARIABLES
  txDepth,    \* the wrapper's counter
  calls,      \* calls[t]: the begin() calls t is inside, outermost first
  lost,       \* lost[t]: how many of t's outermost calls have had their transaction
              \* rolled back by the engine, and do not know it
  eng,        \* the engine: durable contents, visible contents, savepoint stack
  refused,    \* ghost: statements of scopes whose begin() rejected
  promised,   \* ghost: statements of outermost scopes whose begin() resolved
  opens       \* ghost: begin() calls so far, for MaxOpens

beginVars == <<txDepth, calls, lost, eng, refused, promised, opens>>

----------------------------------------------------------------------------
(* The engine (bun:sqlite), as the wrapper uses it.  `begin` marks the      *)
(* bottom of the stack when BEGIN opened the transaction; a number is the   *)
(* n of SAVEPOINT qb_sp_n.                                                  *)

BeginMark == -1

Engine == [durable : SUBSET Statements, visible : SUBSET Statements,
           stack : Seq([name : Int, saved : SUBSET Statements])]

InTransaction(e) == e.stack # <<>>

Push(e, n) == [e EXCEPT !.stack = Append(@, [name |-> n, saved |-> e.visible])]

Named(e, n) == {i \in DOMAIN e.stack : e.stack[i].name = n}

\* RELEASE and ROLLBACK TO act on the most recent savepoint of that name.
Newest(e, n) == CHOOSE i \in Named(e, n) : \A j \in Named(e, n) : j <= i

Commit(e) == [durable |-> e.visible, visible |-> e.visible, stack |-> <<>>]

Rollback(e) == [durable |-> e.durable, visible |-> e.durable, stack |-> <<>>]

Release(e, n) ==
  LET i == Newest(e, n) IN
  IF i = 1 THEN Commit(e) ELSE [e EXCEPT !.stack = SubSeq(@, 1, i - 1)]

RollbackTo(e, n) ==
  LET i == Newest(e, n) IN
  [e EXCEPT !.visible = e.stack[i].saved, !.stack = SubSeq(@, 1, i)]

Run(e, s) ==
  IF InTransaction(e)
  THEN [e EXCEPT !.visible = @ \cup {s}]
  ELSE [e EXCEPT !.visible = @ \cup {s}, !.durable = @ \cup {s}]

----------------------------------------------------------------------------
(* The wrapper.                                                            *)

BeginRecord == {c \in [savepoint : BOOLEAN, name : Int, work : SUBSET Statements] :
           c.savepoint <=> c.name > 0}

BeginTypes ==
  /\ txDepth \in Int
  /\ calls \in [Tasks -> Seq(BeginRecord)]
  /\ lost \in [Tasks -> Nat]
  /\ eng \in Engine
  /\ refused \subseteq Statements
  /\ promised \subseteq Statements
  /\ opens \in 0..MaxOpens

BeginInit ==
  /\ txDepth = 0
  /\ calls = [t \in Tasks |-> <<>>]
  /\ lost = [t \in Tasks |-> 0]
  /\ eng = [durable |-> {}, visible |-> {}, stack |-> <<>>]
  /\ refused = {}
  /\ promised = {}
  /\ opens = 0

Top(t) == calls[t][Len(calls[t])]
Below(t) == SubSeq(calls[t], 1, Len(calls[t]) - 1)

\* The calls whose transaction the engine still holds.
Held(t) == SubSeq(calls[t], lost[t] + 1, Len(calls[t]))

\* When the application awaits one piece of work before it starts the next,
\* only one caller is ever between its first statement and its last.
MayAct(t) == Serialised => \A u \in Tasks \ {t} : calls[u] = <<>>

WorkOf(t) == UNION {calls[t][i].work : i \in DOMAIN calls[t]}

Issued == refused \cup promised \cup eng.visible \cup UNION {WorkOf(t) : t \in Tasks}

IsSavepoint == txDepth > 0

\* `txDepth--` at the head of the catch block.
AfterCatch(d) == d - 1

\* begin(fn): SAVEPOINT when the counter says a transaction is open, BEGIN
\* otherwise; the counter goes up once the statement has succeeded.
BeginCall(t) ==
  /\ MayAct(t)
  /\ Len(calls[t]) < MaxNest /\ opens < MaxOpens
  /\ IsSavepoint \/ ~InTransaction(eng)
  /\ eng' = Push(eng, IF IsSavepoint THEN txDepth ELSE BeginMark)
  /\ calls' = [calls EXCEPT ![t] = Append(@,
                 [savepoint |-> IsSavepoint, name |-> txDepth, work |-> {}])]
  /\ txDepth' = txDepth + 1
  /\ opens' = opens + 1
  /\ UNCHANGED <<lost, refused, promised>>

\* begin(fn) with the counter at zero inside an open transaction: BEGIN throws
\* before the try block, fn never runs, and the caller sees the rejection.
BeginRefused(t) ==
  /\ MayAct(t)
  /\ opens < MaxOpens
  /\ ~IsSavepoint /\ InTransaction(eng)
  /\ opens' = opens + 1
  /\ UNCHANGED <<txDepth, calls, lost, eng, refused, promised>>

\* A data-changing statement: through the transaction's builder inside a
\* callback, a plain one outside.  The engine autocommits it when no transaction
\* is open, inside a callback whose transaction is lost as well.
Statement(t, s) ==
  /\ MayAct(t)
  /\ s \notin Issued
  /\ eng' = Run(eng, s)
  /\ IF calls[t] = <<>>
     THEN promised' = promised \cup {s} /\ UNCHANGED calls
     ELSE calls' = [calls EXCEPT ![t][Len(calls[t])].work = @ \cup {s}] /\ UNCHANGED promised
  /\ UNCHANGED <<txDepth, lost, refused, opens>>

\* A statement the engine answers by rolling the whole transaction back (disk
\* full, ON CONFLICT ROLLBACK).  Nothing in begin() notices: the callback throws
\* on or catches the error and goes on, and so may every callback around it.
StatementAborts(t) ==
  /\ EngineMayAbort
  /\ MayAct(t) /\ InTransaction(eng)
  /\ eng' = Rollback(eng)
  /\ lost' = [u \in Tasks |-> Len(calls[u])]
  /\ UNCHANGED <<txDepth, calls, refused, promised, opens>>

\* The innermost call ends; it may be one of the lost ones.
Leave(t) == lost' = [lost EXCEPT ![t] = IF @ = Len(calls[t]) THEN @ - 1 ELSE @]

\* Close t's innermost call as resolved: its work goes to the enclosing call,
\* or is promised to the caller when there is none.
Hand(t) ==
  IF Len(calls[t]) = 1
  THEN /\ calls' = [calls EXCEPT ![t] = <<>>]
       /\ promised' = promised \cup Top(t).work
  ELSE /\ calls' = [calls EXCEPT ![t] =
                      [Below(t) EXCEPT ![Len(calls[t]) - 1].work = @ \cup Top(t).work]]
       /\ UNCHANGED promised

Drop(t) ==
  /\ calls' = [calls EXCEPT ![t] = Below(t)]
  /\ refused' = refused \cup Top(t).work
  /\ Leave(t)

\* Mutants of Cleanup: a savepoint released without ROLLBACK TO; an outermost
\* transaction left open.
CleanupByRelease(e, c) ==
  IF c.savepoint
  THEN IF Named(e, c.name) # {} THEN Release(e, c.name) ELSE e
  ELSE IF InTransaction(e) THEN Rollback(e) ELSE e

CleanupOfSavepointsOnly(e, c) ==
  IF c.savepoint /\ Named(e, c.name) # {}
  THEN Release(RollbackTo(e, c.name), c.name) ELSE e

\* ROLLBACK TO + RELEASE, or ROLLBACK; an error of theirs is swallowed.
Cleanup(e, c) ==
  IF c.savepoint
  THEN IF Named(e, c.name) # {} THEN Release(RollbackTo(e, c.name), c.name) ELSE e
  ELSE IF InTransaction(e) THEN Rollback(e) ELSE e

\* RELEASE or COMMIT can succeed on this engine.
Closable(e, c) == IF c.savepoint THEN Named(e, c.name) # {} ELSE InTransaction(e)

\* RELEASE of the bottom savepoint commits, as COMMIT does: it was opened in
\* autocommit mode, by a callback whose own transaction the engine had taken.
Commits(e, c) == IF c.savepoint THEN Named(e, c.name) # {} /\ Newest(e, c.name) = 1 ELSE TRUE

\* fn resolved and RELEASE/COMMIT succeeded.
CallbackResolves(t) ==
  /\ MayAct(t) /\ calls[t] # <<>>
  /\ Closable(eng, Top(t))
  /\ eng' = IF Top(t).savepoint THEN Release(eng, Top(t).name) ELSE Commit(eng)
  /\ txDepth' = txDepth - 1
  /\ Hand(t) /\ Leave(t)
  /\ UNCHANGED <<refused, opens>>

\* fn resolved, the counter went down, then RELEASE/COMMIT threw: the catch
\* block takes the counter down a second time and cleans up.
CloseFails(t) ==
  /\ MayAct(t) /\ calls[t] # <<>>
  /\ \/ ~Closable(eng, Top(t))
     \/ CommitMayFail /\ Commits(eng, Top(t))
  /\ txDepth' = AfterCatch(txDepth - 1)
  /\ eng' = Cleanup(eng, Top(t))
  /\ Drop(t)
  /\ UNCHANGED <<promised, opens>>

\* fn rejected: counter down once, cleanup, rethrow.  What encloses the call may
\* catch the error and go on, or reject in its turn.
CallbackRejects(t) ==
  /\ MayAct(t) /\ calls[t] # <<>>
  /\ txDepth' = AfterCatch(txDepth)
  /\ eng' = Cleanup(eng, Top(t))
  /\ Drop(t)
  /\ UNCHANGED <<promised, opens>>

BeginNext ==
  \E t \in Tasks :
    \/ BeginCall(t)
    \/ BeginRefused(t)
    \/ \E s \in Statements : Statement(t, s)
    \/ StatementAborts(t)
    \/ CallbackResolves(t)
    \/ CloseFails(t)
    \/ CallbackRejects(t)

BeginSpec == BeginInit /\ [][BeginNext]_beginVars

----------------------------------------------------------------------------
(* Properties.                                                             *)

\* The callers inside a begin() call.
Inside == {t \in Tasks : calls[t] # <<>>}

\* The abstract scopes are the works of the one caller inside begin(), as far as
\* the engine still holds them; the others are gone.
One == CHOOSE t \in Inside : TRUE

OpenWork == IF Inside = {} THEN <<>> ELSE [i \in DOMAIN Held(One) |-> Held(One)[i].work]

GoneCalls == IF Inside = {} THEN 0 ELSE lost[One]

Promise == INSTANCE NestedTransactions WITH
             durable <- eng.durable, scopes <- OpenWork, gone <- GoneCalls

\* begin()/savepoint() on the one SQLite connection keep the promise of nested
\* transactions: work becomes durable exactly when the outermost callback has
\* resolved and COMMIT has succeeded, and a rejected scope takes exactly its
\* own work with it, whatever mixture of nesting, caught errors, failed
\* COMMITs and engine-initiated rollbacks came before (callers serialised).
\* When the engine rolls the transaction back under the callbacks, every open
\* scope is gone with its work, and what a callback that caught the error does
\* next is no part of them: it is durable at once, or when a begin() of its own
\* commits, although the begin() around it still rejects (db.ts:618-660 does not
\* look whether the transaction is still there).
ScopesAreAtomic == Promise!NTSpec

\* When nobody is inside a begin() call the connection is in autocommit mode:
\* no failure path of the epilogue leaves a BEGIN or a savepoint open, which
\* would swallow every later statement of the process.  And the counter is
\* never ahead of the begin() calls the (one) caller is inside: a scope that is
\* the outermost opens with BEGIN, never with a SAVEPOINT in autocommit mode,
\* whatever failed before.
NoDanglingTransaction ==
  /\ Inside = {} => ~InTransaction(eng) /\ txDepth <= 0
  /\ \A t \in Inside : txDepth <= Len(calls[t])

\* docs/features/transactions.md: "Automatic rollback if any operation throws
\* an error": nothing of a scope whose begin() rejected is in the database.
RejectedLeavesNothing == refused \cap eng.durable = {}

============================================================================
