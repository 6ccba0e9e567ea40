-------------------------- MODULE TransactionCall --------------------------
(***************************************************************************)
(* The control of transaction(fn, options) in client.ts: the retry loop     *)
(* around the driver's begin()/savepoint(), the backoff, and the option     *)
(* callbacks.  A call made on the builder handed to another call's callback *)
(* is nested: it runs on a savepoint of the enclosing transaction.  The     *)
(* driver's side (what BEGIN, COMMIT, SAVEPOINT and their rollbacks do) is  *)
(* the promise of NestedTransactions.                                       *)
(***************************************************************************)
EXTENDS Naturals, FiniteSets

CONSTANTS
  Calls,          \* the transaction() calls of a run
  NoCall,         \* not a call
  Parent,         \* Parent[c]: the call whose callback makes c, or NoCall
  Retries,        \* Retries[c]: options.retries of c
  MayThrow        \* the option callbacks that may throw

ASSUME TransactionCallAssumption ==
  /\ NoCall \notin Calls
  /\ Parent \in [Calls -> Calls \cup {NoCall}]
  /\ \A c \in Calls : Parent[c] # NoCall => Parent[Parent[c]] = NoCall
  /\ Retries \in [Calls -> Nat]
  /\ MayThrow \subseteq {"afterCommit", "onRetry"}

VARIABLES
  pc,        \* where each call is
  attempt,   \* the loop's attempt counter: retries begun so far
  error,     \* the error the catch block has in hand
  pending,   \* runs of the callback whose writes are in an open transaction
  applied,   \* runs of the callback whose writes are durable
  reported   \* ghost: what the option callbacks of this invocation have done

txVars == <<pc, attempt, error, pending, applied, reported>>

Roots == {c \in Calls : Parent[c] = NoCall}
Children(c) == {k \in Calls : Parent[k] = c}
Family(c) == {c} \cup Children(c)

Settled == {"resolved", "rejected"}
PCs == {"idle", "attempt", "body", "closed", "caught", "backoff"} \cup Settled
Errors == {"none", "retriable", "fatal"}
Signals == {"afterCommitThrew", "onRollback"}

TxTypes ==
  /\ pc \in [Calls -> PCs]
  /\ attempt \in [Calls -> Nat]
  /\ \A c \in Calls : attempt[c] <= Retries[c]
  /\ error \in [Calls -> Errors]
  /\ pending \in [Calls -> Nat]
  /\ applied \in [Calls -> Nat]
  /\ reported \in [Calls -> SUBSET Signals]

TxInit ==
  /\ pc = [c \in Calls |-> "idle"]
  /\ attempt = [c \in Calls |-> 0]
  /\ error = [c \in Calls |-> "none"]
  /\ pending = [c \in Calls |-> 0]
  /\ applied = [c \in Calls |-> 0]
  /\ reported = [c \in Calls |-> {}]

Goto(c, l) == pc' = [pc EXCEPT ![c] = l]

\* The callback awaits its nested calls, one at a time, before it goes on.
BodyIdle(c) == pc[c] = "body" /\ \A k \in Children(c) : pc[k] \in Settled \cup {"idle"}

\* c is called: by the application, or by the callback of the enclosing call.
Invoke(c) ==
  /\ pc[c] = "idle"
  /\ Parent[c] # NoCall => BodyIdle(Parent[c])
  /\ Goto(c, "attempt")
  /\ UNCHANGED <<attempt, error, pending, applied, reported>>

\* runWith: the driver opens BEGIN or SAVEPOINT and the callback starts.  A
\* fresh run of the callback makes its nested calls afresh.
BeginAttempt(c) ==
  /\ pc[c] = "attempt"
  /\ pc' = [d \in Calls |-> IF d = c THEN "body" ELSE IF d \in Children(c) THEN "idle" ELSE pc[d]]
  /\ attempt' = [d \in Calls |-> IF d \in Children(c) THEN 0 ELSE attempt[d]]
  /\ reported' = [d \in Calls |-> IF d \in Children(c) THEN {} ELSE reported[d]]
  /\ pending' = [pending EXCEPT ![c] = @ + 1]
  /\ UNCHANGED <<error, applied>>

\* Mutant of Undo: what nested calls wrote survives the rollback around them.
UndoOwn(c) == [pending EXCEPT ![c] = @ - 1]

\* The writes of c's current run and of everything nested in it go away.
Undo(c) ==
  IF c \in Roots
  THEN [d \in Calls |-> IF d \in Family(c) THEN 0 ELSE pending[d]]
  ELSE [pending EXCEPT ![c] = @ - 1]

\* fn (or the isolation set-up before it) threw: the driver rolls back.
BodyThrows(c, e) ==
  /\ BodyIdle(c)
  /\ pending' = Undo(c)
  /\ error' = [error EXCEPT ![c] = e]
  /\ Goto(c, "caught")
  /\ UNCHANGED <<attempt, applied, reported>>

\* fn returned, the commit was logged, and the driver's COMMIT succeeded
\* (a nested call releases its savepoint: its writes stay pending).
Close(c) ==
  /\ BodyIdle(c)
  /\ IF c \in Roots
     THEN /\ applied' = [d \in Calls |-> IF d \in Family(c) THEN applied[d] + pending[d] ELSE applied[d]]
          /\ pending' = [d \in Calls |-> IF d \in Family(c) THEN 0 ELSE pending[d]]
     ELSE UNCHANGED <<applied, pending>>
  /\ Goto(c, "closed")
  /\ UNCHANGED <<attempt, error, reported>>

\* fn returned, the commit was logged, and COMMIT failed (a serialization
\* failure is often reported there): the driver rolls back and rejects.
CommitFails(c, e) ==
  /\ BodyIdle(c) /\ c \in Roots
  /\ pending' = Undo(c)
  /\ error' = [error EXCEPT ![c] = e]
  /\ Goto(c, "caught")
  /\ UNCHANGED <<attempt, applied, reported>>

\* options.afterCommit() returns, and transaction() resolves.
AfterCommit(c) ==
  /\ pc[c] = "closed"
  /\ Goto(c, "resolved")
  /\ UNCHANGED <<attempt, error, pending, applied, reported>>

\* options.afterCommit() throws, inside the loop's try block.
AfterCommitThrows(c, e) ==
  /\ pc[c] = "closed" /\ "afterCommit" \in MayThrow
  /\ reported' = [reported EXCEPT ![c] = @ \cup {"afterCommitThrew"}]
  /\ error' = [error EXCEPT ![c] = e]
  /\ Goto(c, "caught")
  /\ UNCHANGED <<attempt, pending, applied>>

\* Mutant of WillRetry: one retry too many.
WillRetryOnceMore(c) == attempt[c] <= Retries[c] /\ error[c] = "retriable"

WillRetry(c) == attempt[c] < Retries[c] /\ error[c] = "retriable"

\* catch: another attempt is allowed and the error is a retriable one.
Retry(c) ==
  /\ pc[c] = "caught" /\ WillRetry(c)
  /\ attempt' = [attempt EXCEPT ![c] = @ + 1]
  /\ Goto(c, "backoff")
  /\ UNCHANGED <<error, pending, applied, reported>>

\* options.onRetry() throws out of the catch block.
OnRetryThrows(c) ==
  /\ pc[c] = "caught" /\ WillRetry(c) /\ "onRetry" \in MayThrow
  /\ attempt' = [attempt EXCEPT ![c] = @ + 1]
  /\ Goto(c, "rejected")
  /\ UNCHANGED <<error, pending, applied, reported>>

\* await sleep(delay) is over (or the delay was zero).
Wake(c) ==
  /\ pc[c] = "backoff"
  /\ error' = [error EXCEPT ![c] = "none"]
  /\ Goto(c, "attempt")
  /\ UNCHANGED <<attempt, pending, applied, reported>>

\* Mutant of GiveUp: the error is swallowed.
GiveUpQuietly(c) ==
  /\ pc[c] = "caught" /\ ~WillRetry(c)
  /\ reported' = [reported EXCEPT ![c] = @ \cup {"onRollback"}]
  /\ Goto(c, "resolved")
  /\ UNCHANGED <<attempt, error, pending, applied>>

\* catch: give up; onRollback and afterRollback run, their errors swallowed.
GiveUp(c) ==
  /\ pc[c] = "caught" /\ ~WillRetry(c)
  /\ reported' = [reported EXCEPT ![c] = @ \cup {"onRollback"}]
  /\ Goto(c, "rejected")
  /\ UNCHANGED <<attempt, error, pending, applied>>

\* The steps a call takes by itself once it has been invoked.
Advance(c) ==
  \/ BeginAttempt(c)
  \/ \E e \in Errors \ {"none"} : BodyThrows(c, e) \/ CommitFails(c, e) \/ AfterCommitThrows(c, e)
  \/ Close(c) \/ AfterCommit(c)
  \/ Retry(c) \/ OnRetryThrows(c) \/ Wake(c) \/ GiveUp(c)

TxNext == \E c \in Calls : Invoke(c) \/ Advance(c)

TxSpec == TxInit /\ [][TxNext]_txVars

----------------------------------------------------------------------------
(* Properties.                                                             *)

\* options.afterCommit of c has thrown.  It runs inside the loop's try block,
\* so its error is handled like one of the transaction that has committed.
Misled(c) == "afterCommitThrew" \in reported[c]

RootOf(c) == IF c \in Roots THEN c ELSE Parent[c]

\* However many attempts the loop makes, at every level, the writes of the
\* callback are in the database at most once, unless its own afterCommit, or
\* the one of the call around it, threw.
AppliedAtMostOnce ==
  \A c \in Calls : ~Misled(c) /\ ~Misled(RootOf(c)) => applied[c] + pending[c] <= 1

\* Nested work is never durable without the work around it, and an outermost
\* call that has settled leaves nothing in an open transaction.
NestedWorkFollowsItsRoot ==
  \A c \in Roots : \A k \in Children(c) :
    /\ applied[k] > 0 => applied[c] > 0
    /\ pc[c] \in Settled \cup {"idle", "attempt", "backoff"} => pending[k] = 0

ToldTheTruth(c) ==
  /\ pc[c] = "resolved" => applied[c] = 1
  /\ pc[c] = "rejected" => \A d \in Family(c) : applied[d] = 0

\* What the caller is told is what happened: a resolved outermost call has
\* been applied, and of a rejected one nothing has, unless its afterCommit
\* threw; and nested work goes with the call around it.
OutcomeIsTruthful ==
  /\ \A c \in Roots : Misled(c) \/ ToldTheTruth(c)
  /\ NestedWorkFollowsItsRoot

\* No retry policy and no mixture of failures keeps an outermost call going
\* for ever: once it has started it resolves or rejects.
EveryCallSettles == \A c \in Roots : pc[c] = "attempt" ~> pc[c] \in Settled

\* client.ts on TransactionOptions.onRollback: "Called when a transaction is
\* rolled back".  It is not called for a call whose work has been committed.
RollbackCallbackIsTruthful ==
  \A c \in Roots : "onRollback" \in reported[c] => applied[c] = 0
============================================================================
