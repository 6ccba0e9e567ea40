---------------------------- MODULE Connections ----------------------------
(* The process's connection, the lock of migrating processes and the run of    *)
(* their files.  A behaviour is about one of the three: the runner meets the  *)
(* lock as the promise MigrationLock keeps (OneRunAtATime).                    *)
EXTENDS ConnectionManager, MigrationLock, MigrationRunner

VARIABLE part

vars == <<part, managerVars, lockVars, runnerVars>>

Init ==
  /\ part \in {"manager", "lock", "runner"}
  /\ ManagerInit /\ (part # "manager" => config = CHOOSE c \in Configs : TRUE)
  /\ LockInit /\ (part # "lock" => reserves /\ max = CHOOSE n \in PoolSizes : TRUE)
  /\ RunnerInit /\ (part # "runner" => dialect = CHOOSE d \in Dialects : TRUE)

Next ==
  \/ part = "manager" /\ ManagerNext /\ UNCHANGED <<part, lockVars, runnerVars>>
  \/ part = "lock" /\ LockNext /\ UNCHANGED <<part, managerVars, runnerVars>>
  \/ part = "runner" /\ RunnerNext /\ UNCHANGED <<part, managerVars, lockVars>>

(* A call that has its connection is answered, a lock that is free again and   *)
(* again is given to whoever waits, and a file's statements are answered.      *)
Fairness ==
  /\ \A u \in Users :
       WF_vars(/\ part = "manager" /\ (Finish(u) \/ RetryOnce(u) \/ GiveUp(u))
               /\ UNCHANGED <<part, lockVars, runnerVars>>)
  /\ \A r \in Runs :
       SF_vars(part = "lock" /\ RunStep(r) /\ UNCHANGED <<part, managerVars, runnerVars>>)
  /\ \A p \in Processes :
       /\ WF_vars(part = "runner" /\ Advance(p) /\ UNCHANGED <<part, managerVars, lockVars>>)
       /\ SF_vars(/\ part = "runner" /\ Advance(p) /\ pc[p] = "waiting"
                  /\ UNCHANGED <<part, managerVars, lockVars>>)

Spec == Init /\ [][Next]_vars /\ Fairness

TypeOK == ManagerTypes /\ LockTypes /\ RunnerTypes

(* Every call on a connection ends (or the model runs out of connections), every  *)
(* waiting migration gets the lock, and every run of the files comes to an end.   *)
EveryoneEnds ==
  /\ part = "manager" => (\A u \in Users : (user[u].pc = "running" ~>
                            (user[u].pc # "running" \/ Cardinality(Opened) = MaxConns)))
  /\ part = "lock" => RunsEnd
  /\ part = "runner" => EveryRunEnds
============================================================================
