------------------------------ MODULE QueryRun ------------------------------
(***************************************************************************)
(* runWithHooks() of client.ts: queries with a timeout and an AbortSignal   *)
(* that several of them may share, the race between the answer, the timer   *)
(* and the abort, and the hooks (with the span, which goes with them).  A   *)
(* microtask is not interrupted: a settled race runs its handlers at once.  *)
(***************************************************************************)
EXTENDS Naturals, Sequences

CONSTANTS
  Queries,     \* the queries of a run
  WithTimeout, \* those with opts.timeoutMs > 0
  WithSignal,  \* those given the one AbortSignal
  MayCancel    \* the driver may act on cancel() (the SQLite wrapper's is a no-op)

ASSUME QueryRunAssumption ==
  /\ WithTimeout \subseteq Queries /\ WithSignal \subseteq Queries
  /\ MayCancel \in BOOLEAN

VARIABLES
  aborted,    \* signal.aborted
  outcome,    \* what the promise of runWithHooks is
  answer,     \* the driver's promise
  timer,      \* the timer is armed
  listening,  \* the abort listener is registered
  cancelled,  \* cancel() has been called on the query
  events      \* the hooks that have been called, in order

runVars == <<aborted, outcome, answer, timer, listening, cancelled, events>>

Results == {"rows", "error", "cancelled"}
Rejections == {"error", "cancelled", "timeout", "abort"}
Events == {"onQueryStart", "onQueryEnd", "onQueryError"}

RunTypes ==
  /\ aborted \in BOOLEAN
  /\ outcome \in [Queries -> {"uncalled", "pending", "rows"} \cup Rejections]
  /\ answer \in [Queries -> {"none", "pending"} \cup Results]
  /\ timer \in [Queries -> BOOLEAN] /\ listening \in [Queries -> BOOLEAN]
  /\ cancelled \in [Queries -> BOOLEAN]
  /\ events \in [Queries -> Seq(Events)]
  /\ \A q \in Queries : listening[q] => q \in WithSignal /\ answer[q] = "pending" /\ ~aborted

RunInit ==
  /\ aborted = FALSE
  /\ outcome = [q \in Queries |-> "uncalled"] /\ answer = [q \in Queries |-> "none"]
  /\ timer = [q \in Queries |-> FALSE] /\ listening = [q \in Queries |-> FALSE]
  /\ cancelled = [q \in Queries |-> FALSE]
  /\ events = [q \in Queries |-> <<>>]

\* finish(err): the error hook or the end hook.
Finish(how) == IF how = "rows" THEN "onQueryEnd" ELSE "onQueryError"

\* Mutant of Settle: every settled branch reports, not the race's winner only.
SettleEach(q, how) ==
  /\ outcome' = [outcome EXCEPT ![q] = IF @ = "pending" THEN how ELSE @]
  /\ events' = [events EXCEPT ![q] = Append(@, Finish(how))]
  /\ timer' = [timer EXCEPT ![q] = FALSE]

\* One branch of the race settles; the first decides, clears the timer and
\* calls finish().
Settle(q, how) ==
  IF outcome[q] = "pending"
  THEN /\ outcome' = [outcome EXCEPT ![q] = how]
       /\ events' = [events EXCEPT ![q] = Append(@, Finish(how))]
       /\ timer' = [timer EXCEPT ![q] = FALSE]
  ELSE UNCHANGED <<outcome, events, timer>>

\* runWithHooks(q): start hook, execute(), then the timer and the listener.
CallQuery(q) ==
  /\ outcome[q] = "uncalled" /\ ~(q \in WithSignal /\ aborted)
  /\ outcome' = [outcome EXCEPT ![q] = "pending"]
  /\ answer' = [answer EXCEPT ![q] = "pending"]
  /\ timer' = [timer EXCEPT ![q] = q \in WithTimeout]
  /\ listening' = [listening EXCEPT ![q] = q \in WithSignal]
  /\ events' = [events EXCEPT ![q] = <<"onQueryStart">>]
  /\ UNCHANGED <<aborted, cancelled>>

\* Mutant of CallAborted: signal.aborted is not looked at; a listener added
\* after the abort is never called.
CallAbortedUnnoticed(q) ==
  /\ outcome[q] = "uncalled" /\ q \in WithSignal /\ aborted
  /\ outcome' = [outcome EXCEPT ![q] = "pending"]
  /\ answer' = [answer EXCEPT ![q] = "pending"]
  /\ timer' = [timer EXCEPT ![q] = q \in WithTimeout]
  /\ events' = [events EXCEPT ![q] = <<"onQueryStart">>]
  /\ UNCHANGED <<aborted, listening, cancelled>>

\* The signal was aborted beforehand: execute() has been called all the same
\* and the timer is armed when the call rejects.
CallAborted(q) ==
  /\ outcome[q] = "uncalled" /\ q \in WithSignal /\ aborted
  /\ outcome' = [outcome EXCEPT ![q] = "abort"]
  /\ answer' = [answer EXCEPT ![q] = "pending"]
  /\ timer' = [timer EXCEPT ![q] = q \in WithTimeout]
  /\ cancelled' = [cancelled EXCEPT ![q] = TRUE]
  /\ events' = [events EXCEPT ![q] = <<"onQueryStart", Finish("abort")>>]
  /\ UNCHANGED <<aborted, listening>>

\* The driver's promise settles, early or late; `finally` drops the listener.
Answer(q, result) ==
  /\ answer[q] = "pending"
  /\ result = "cancelled" => cancelled[q] /\ MayCancel
  /\ answer' = [answer EXCEPT ![q] = result]
  /\ listening' = [listening EXCEPT ![q] = FALSE]
  /\ Settle(q, result)
  /\ UNCHANGED <<aborted, cancelled>>

\* The timeout callback: cancel(), then the rejection.
TimerFires(q) ==
  /\ timer[q]
  /\ timer' = [timer EXCEPT ![q] = FALSE]
  /\ cancelled' = [cancelled EXCEPT ![q] = TRUE]
  /\ IF outcome[q] = "pending"
     THEN /\ outcome' = [outcome EXCEPT ![q] = "timeout"]
          /\ events' = [events EXCEPT ![q] = Append(@, Finish("timeout"))]
     ELSE UNCHANGED <<outcome, events>>
  /\ UNCHANGED <<aborted, answer, listening>>

\* controller.abort(): the listeners cancel their queries, nothing else.
Abort ==
  /\ ~aborted /\ aborted' = TRUE
  /\ cancelled' = [q \in Queries |-> cancelled[q] \/ listening[q]]
  /\ listening' = [q \in Queries |-> FALSE]
  /\ UNCHANGED <<outcome, answer, timer, events>>

RunNext ==
  \/ Abort
  \/ \E q \in Queries :
       \/ CallQuery(q) \/ CallAborted(q) \/ TimerFires(q)
       \/ \E result \in Results : Answer(q, result)

RunSpec == RunInit /\ [][RunNext]_runVars

----------------------------------------------------------------------------
(* Properties.                                                             *)

IsSettled(q) == outcome[q] \notin {"uncalled", "pending"}

\* types.ts on the hooks: onQueryEnd is "Called after a query succeeds",
\* onQueryError "after a query fails".  A call that has settled has reported
\* its start and then exactly the hook that matches what its caller got,
\* however late answers, timers and aborts arrive; one that has not, no more
\* than its start.
HooksTellTheOutcome ==
  \A q \in Queries :
    /\ outcome[q] = "pending" => events[q] = <<"onQueryStart">>
    /\ IsSettled(q) => events[q] = <<"onQueryStart", Finish(outcome[q])>>

\* An abort reaches every query the signal was given to, those started later
\* included: while one is still waiting for its answer, cancel() was called.
AbortReachesEveryQuery ==
  \A q \in WithSignal : aborted /\ answer[q] = "pending" => cancelled[q]

\* A query with a timeout settles even if the database never answers.
TimeoutSettles == \A q \in WithTimeout : outcome[q] = "pending" ~> IsSettled(q)
=============================================================================
