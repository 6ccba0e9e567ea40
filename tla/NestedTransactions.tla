------------------------ MODULE NestedTransactions ------------------------
(***************************************************************************)
(* What `transaction()` and `savepoint()` promise, whatever the driver: a   *)
(* stack of open scopes, each owning the statements issued inside it.  A    *)
(* scope whose callback resolves hands its work to the enclosing scope, or  *)
(* to the database when it is the outermost; a scope whose callback rejects *)
(* takes its work with it.  A statement outside every scope is durable at   *)
(* once.  The database may roll back by itself: then every open scope is     *)
(* gone with its work, while the callbacks run on, outside of every scope.   *)
(***************************************************************************)
EXTENDS Naturals, Sequences

CONSTANTS
  Statements   \* the data-changing statements the callers may issue

VARIABLES
  durable,     \* the statements whose effect is in the database for good
  scopes,      \* scopes[i]: the work owned by the i-th open scope, outermost first
  gone         \* how many callbacks around them run on without their scope

ntVars == <<durable, scopes, gone>>

NTTypeOK ==
  /\ durable \subseteq Statements
  /\ scopes \in Seq(SUBSET Statements)
  /\ gone \in Nat

NTInit == durable = {} /\ scopes = <<>> /\ gone = 0

\* Statements nobody has issued, or that were issued and thrown away.
Absent == Statements \ (durable \cup UNION {scopes[i] : i \in DOMAIN scopes})

Outer == SubSeq(scopes, 1, Len(scopes) - 1)

Open == scopes' = Append(scopes, {}) /\ UNCHANGED <<durable, gone>>

Write(s) ==
  /\ s \in Absent
  /\ IF scopes = <<>>
     THEN durable' = durable \cup {s} /\ UNCHANGED scopes
     ELSE scopes' = [scopes EXCEPT ![Len(scopes)] = @ \cup {s}] /\ UNCHANGED durable
  /\ UNCHANGED gone

Resolve ==
  /\ scopes # <<>>
  /\ LET work == scopes[Len(scopes)] IN
     IF Len(scopes) = 1
     THEN durable' = durable \cup work /\ scopes' = <<>>
     ELSE scopes' = [Outer EXCEPT ![Len(scopes) - 1] = @ \cup work] /\ UNCHANGED durable
  /\ UNCHANGED gone

Reject ==
  /\ scopes # <<>>
  /\ scopes' = Outer
  /\ UNCHANGED <<durable, gone>>

\* The database rolls the whole transaction back.
Abort ==
  /\ scopes # <<>>
  /\ scopes' = <<>>
  /\ gone' = gone + Len(scopes)
  /\ UNCHANGED durable

\* A callback whose scope is gone ends.
End ==
  /\ scopes = <<>> /\ gone > 0
  /\ gone' = gone - 1
  /\ UNCHANGED <<durable, scopes>>

NTNext ==
  \/ Open
  \/ \E s \in Statements : Write(s)
  \/ Resolve
  \/ Reject
  \/ Abort
  \/ End

NTSpec == NTInit /\ [][NTNext]_ntVars
=============================================================================
