---------------------------- MODULE MigrationLock ----------------------------
(* withMigrationLock: a session is reserved from the process's own pool, the   *)
(* advisory lock taken on it, the files run on the pool, the lock is given     *)
(* back on the same session and the session to the pool.                      *)
EXTENDS Naturals, FiniteSets

CONSTANTS
  Runs,        \* the processes that migrate
  PoolSizes,   \* what config.database.pool.max may be
  Sends,       \* how many statements a run sends
  MaxCrashes

Unheld == "nobody"

ASSUME LockAssumption ==
  /\ PoolSizes \subseteq Nat \ {0} /\ Sends \in Nat \ {0} /\ MaxCrashes \in Nat
  /\ Unheld \notin Runs

VARIABLES
  max,        \* the size of each process's pool
  reserves,   \* whether the driver can reserve a session at all
  inUse,      \* run -> connections of its pool that are out
  phase,         \* run -> how far it is
  left,       \* run -> statements left
  holder,     \* the run whose reserved session holds the lock, or Unheld
  crashes

lockVars == <<max, reserves, inUse, phase, left, holder, crashes>>

LockInit ==
  /\ max \in PoolSizes
  /\ reserves \in BOOLEAN
  /\ inUse = [r \in Runs |-> 0]
  /\ phase = [r \in Runs |-> "start"]
  /\ left = [r \in Runs |-> Sends]
  /\ holder = Unheld
  /\ crashes = 0

Move(r, to) == phase' = [phase EXCEPT ![r] = to]

(* reserve() waits for a connection; a driver without it runs unlocked.        *)
Reserve(r) ==
  /\ phase[r] = "start"
  /\ IF reserves THEN /\ inUse[r] < max
                      /\ inUse' = [inUse EXCEPT ![r] = @ + 1]
                      /\ Move(r, "reserved")
                 ELSE Move(r, "unlocked") /\ UNCHANGED inUse
  /\ UNCHANGED <<max, reserves, left, holder, crashes>>

(* advisoryLock waits for the session that holds it.                           *)
AdvisoryTryLock(r) ==
  /\ phase[r] = "reserved"
  /\ holder' = r
  /\ Move(r, "locked")
  /\ UNCHANGED <<max, reserves, inUse, left, crashes>>
AdvisoryLock(r) ==
  /\ phase[r] = "reserved" /\ holder = Unheld
  /\ holder' = r
  /\ Move(r, "locked")
  /\ UNCHANGED <<max, reserves, inUse, left, crashes>>

(* A statement of fn() takes a connection of the pool for itself.               *)
Working == {"locked", "unlocked"}

SendPastLimit(r) ==
  /\ phase[r] \in Working /\ left[r] > 0
  /\ inUse' = [inUse EXCEPT ![r] = @ + 1]
  /\ Move(r, IF phase[r] = "locked" THEN "locked sending" ELSE "unlocked sending")
  /\ UNCHANGED <<max, reserves, left, holder, crashes>>
SendStatement(r) ==
  /\ phase[r] \in Working /\ left[r] > 0 /\ inUse[r] < max
  /\ inUse' = [inUse EXCEPT ![r] = @ + 1]
  /\ Move(r, IF phase[r] = "locked" THEN "locked sending" ELSE "unlocked sending")
  /\ UNCHANGED <<max, reserves, left, holder, crashes>>

StatementDone(r) ==
  /\ phase[r] \in {"locked sending", "unlocked sending"}
  /\ inUse' = [inUse EXCEPT ![r] = @ - 1]
  /\ left' = [left EXCEPT ![r] = @ - 1]
  /\ Move(r, IF phase[r] = "locked sending" THEN "locked" ELSE "unlocked")
  /\ UNCHANGED <<max, reserves, holder, crashes>>

(* A statement fails: fn() throws, and finally gives everything back.          *)
StatementFails(r) ==
  /\ phase[r] \in {"locked sending", "unlocked sending"}
  /\ inUse' = [inUse EXCEPT ![r] = @ - 1]
  /\ left' = [left EXCEPT ![r] = 0]
  /\ Move(r, IF phase[r] = "locked sending" THEN "locked" ELSE "unlocked")
  /\ UNCHANGED <<max, reserves, holder, crashes>>

(* finally: unlock on the session that took it, then release it.                *)
AdvisoryUnlock(r) ==
  /\ phase[r] = "locked" /\ left[r] = 0
  /\ holder' = Unheld
  /\ Move(r, "unlocking")
  /\ UNCHANGED <<max, reserves, inUse, left, crashes>>

Release(r) ==
  /\ phase[r] = "unlocking"
  /\ inUse' = [inUse EXCEPT ![r] = @ - 1]
  /\ Move(r, "done")
  /\ UNCHANGED <<max, reserves, left, holder, crashes>>

EndUnlocked(r) ==
  /\ phase[r] = "unlocked" /\ left[r] = 0
  /\ Move(r, "done")
  /\ UNCHANGED <<max, reserves, inUse, left, holder, crashes>>

(* The process dies: its sessions end, and with them the lock.                 *)
Die(r) ==
  /\ phase[r] # "done" /\ crashes < MaxCrashes
  /\ crashes' = crashes + 1
  /\ Move(r, "done")
  /\ inUse' = [inUse EXCEPT ![r] = 0]
  /\ holder' = IF holder = r THEN Unheld ELSE holder
  /\ UNCHANGED <<max, reserves, left>>

RunStep(r) ==
  \/ Reserve(r) \/ AdvisoryLock(r) \/ SendStatement(r) \/ StatementDone(r)
  \/ AdvisoryUnlock(r) \/ Release(r) \/ EndUnlocked(r)

LockNext == \E r \in Runs : RunStep(r) \/ StatementFails(r) \/ Die(r)

----------------------------------------------------------------------------
LockTypes ==
  /\ max \in PoolSizes /\ holder \in Runs \cup {Unheld}
  /\ \A r \in Runs : inUse[r] \in 0 .. max /\ left[r] \in 0 .. Sends

(* Where sessions can be reserved, no two runs are between their lock and      *)
(* their unlock at once.                                                      *)
OneRunAtATime ==
  reserves => Cardinality({r \in Runs : phase[r] \in {"locked", "locked sending"}}) <= 1

(* The lock is never left behind: it is held only by a run that is working,     *)
(* and a run that ended, whatever way, has returned every connection.         *)
NothingIsStranded ==
  /\ holder # Unheld => phase[holder] \in {"locked", "locked sending"}
  /\ \A r \in Runs : phase[r] = "done" => inUse[r] = 0

(* Every run ends, after waiting for the others, when the pool has room for a   *)
(* statement next to the reserved session.                                    *)
RunsEnd == (max > 1 \/ ~reserves) => \A r \in Runs : <>(phase[r] = "done")

(* The lock excludes, and neither it nor a connection is ever left behind.     *)
LockIsSound == OneRunAtATime /\ NothingIsStranded
============================================================================
