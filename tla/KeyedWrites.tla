---------------------------- MODULE KeyedWrites ----------------------------
(* The helpers that look before they write: firstOrCreate, updateOrCreate,    *)
(* updateOrInsert and save, of the client and of the models, with create and  *)
(* insertGetId under them, and the one-statement writes beside them.  All the  *)
(* callers ask for the same match; every await lets the others run.           *)
EXTENDS Naturals, FiniteSets, Sequences

CONSTANTS
  Callers,
  Helpers,       \* which helpers they may use
  Dialects,      \* "mysql" reads the id in a second statement
  Pools,         \* sets of connections a pool may have
  MaxDeletes

ASSUME KeyedAssumption ==
  /\ MaxDeletes \in Nat /\ Callers # {}
  /\ \A p \in Pools : p # {} /\ IsFiniteSet(p)

VARIABLES
  dialect,
  pool,       \* its connections
  unique,     \* whether the table has a unique index on the match
  matching,   \* the rows that match, id -> who wrote its values last
  nextId,
  lastId,     \* connection -> the id its last INSERT made
  at,         \* caller -> where its call is, and what it holds
  made,       \* ghost: caller -> the id its own INSERT made
  crossed,    \* ghost: MySQL callers another INSERT came in between on their connection
  overlap,    \* ghost: callers that looked or wrote while another was between the two
  deletes

keyedVars == <<dialect, pool, unique, matching, nextId, lastId, at, made, crossed, overlap, deletes>>
fixed == <<dialect, pool, unique>>
ghosts == <<made, crossed>>

NoId == 0
Idle == [pc |-> "idle", call |-> "none", id |-> NoId]
Live == DOMAIN matching

KeyedInit ==
  /\ dialect \in Dialects
  /\ pool \in Pools
  /\ unique \in BOOLEAN
  /\ matching = <<>>
  /\ nextId = 1
  /\ lastId = [c \in pool |-> NoId]
  /\ made = [c \in Callers |-> NoId]
  /\ crossed = {}
  /\ at = [c \in Callers |-> Idle]
  /\ overlap = {}
  /\ deletes = 0

Move(c, pos, id) == at' = [at EXCEPT ![c].pc = pos, ![c].id = id]
Looking == {c \in Callers : at[c].pc = "absent"}
Meet(c) == overlap' = overlap \cup (IF Looking \ {c} = {} THEN {} ELSE {c} \cup Looking)

LookPast(c, call) ==
  /\ at[c].pc = "idle"
  /\ call \in Helpers \ {"upsert", "insertOrIgnore"}
  /\ at' = [at EXCEPT ![c] = [pc |-> "absent", call |-> call, id |-> NoId]]
  /\ Meet(c)
  /\ UNCHANGED <<fixed, ghosts, matching, nextId, lastId, deletes>>

(* first() on the match: a row, or none.                                      *)
Look(c, call) ==
  /\ at[c].pc = "idle"
  /\ call \in Helpers \ {"upsert", "insertOrIgnore"}
  /\ \/ Live = {} /\ at' = [at EXCEPT ![c] = [pc |-> "absent", call |-> call, id |-> NoId]]
     \/ \E id \in Live : at' = [at EXCEPT ![c] = [pc |-> "present", call |-> call, id |-> id]]
  /\ Meet(c)
  /\ UNCHANGED <<fixed, ghosts, matching, nextId, lastId, deletes>>

(* firstOrCreate returns the row it found, the others write their values to    *)
(* every row that matches; updateOrInsert returns no row.                     *)
ReturnFound(c) ==
  /\ at[c].pc = "present" /\ at[c].call = "firstOrCreate"
  /\ Move(c, "returned", at[c].id)
  /\ UNCHANGED <<fixed, ghosts, matching, nextId, lastId, overlap, deletes>>

UpdateFound(c) ==
  /\ at[c].pc = "present" /\ at[c].call # "firstOrCreate"
  /\ matching' = [id \in Live |-> c]
  /\ Move(c, IF at[c].call = "updateOrInsert" THEN "wrote" ELSE "written", at[c].id)
  /\ UNCHANGED <<fixed, ghosts, nextId, lastId, overlap, deletes>>

(* The INSERT of create(): refused by the index, or a new id, which MySQL       *)
(* keeps on the connection it ran on.                                         *)
InsertRow(c, conn) ==
  /\ at[c].pc = "absent"
  /\ IF unique /\ Live # {}
     THEN Move(c, "failed", NoId) /\ UNCHANGED <<matching, nextId, lastId, ghosts>>
     ELSE /\ matching' = [id \in Live \cup {nextId} |-> IF id = nextId THEN c ELSE matching[id]]
          /\ nextId' = nextId + 1
          /\ lastId' = [lastId EXCEPT ![conn] = nextId]
          /\ made' = [made EXCEPT ![c] = nextId]
          /\ crossed' = crossed \cup {d \in Callers : at[d].pc = "inserted"}
          /\ IF at[c].call = "updateOrInsert" THEN Move(c, "wrote", NoId)
             ELSE IF dialect = "mysql" THEN Move(c, "inserted", NoId)
             ELSE Move(c, "written", nextId)
  /\ Meet(c)
  /\ UNCHANGED <<fixed, deletes>>

AskGreatestId(c, conn) ==
  /\ at[c].pc = "inserted"
  /\ Live # {}
  /\ Move(c, "written", CHOOSE id \in Live : \A j \in Live : j <= id)
  /\ UNCHANGED <<fixed, ghosts, matching, nextId, lastId, overlap, deletes>>

(* insertGetId on MySQL: SELECT LAST_INSERT_ID(), on whichever connection the   *)
(* pool gives out.                                                            *)
AskLastInsertId(c, conn) ==
  /\ at[c].pc = "inserted"
  /\ Move(c, IF lastId[conn] = NoId THEN "failed" ELSE "written", lastId[conn])
  /\ UNCHANGED <<fixed, ghosts, matching, nextId, lastId, overlap, deletes>>

(* find(id) reads the row back, or throws.                                    *)
ReadBack(c) ==
  /\ at[c].pc = "written"
  /\ IF at[c].id \in Live THEN Move(c, "returned", at[c].id) ELSE Move(c, "failed", NoId)
  /\ UNCHANGED <<fixed, ghosts, matching, nextId, lastId, overlap, deletes>>

(* upsert() and insertOrIgnore() leave the conflict to the database; without   *)
(* a unique index there is none.                                              *)
InsertAtOnce(c, call, conn) ==
  /\ at[c].pc = "idle"
  /\ call \in Helpers \cap {"upsert", "insertOrIgnore"}
  /\ IF unique /\ Live # {}
     THEN /\ matching' = IF call = "upsert" THEN [id \in Live |-> c] ELSE matching
          /\ UNCHANGED <<nextId, lastId, crossed>>
     ELSE /\ matching' = [id \in Live \cup {nextId} |-> IF id = nextId THEN c ELSE matching[id]]
          /\ nextId' = nextId + 1
          /\ lastId' = [lastId EXCEPT ![conn] = nextId]
          /\ crossed' = crossed \cup {d \in Callers : at[d].pc = "inserted"}
  /\ at' = [at EXCEPT ![c] = [pc |-> "wrote", call |-> call, id |-> NoId]]
  /\ Meet(c)
  /\ UNCHANGED <<fixed, made, deletes>>

(* remove(), deleteMany() by another client.                                  *)
RemoveRow(id) ==
  /\ deletes < MaxDeletes
  /\ matching' = [i \in Live \ {id} |-> matching[i]]
  /\ deletes' = deletes + 1
  /\ UNCHANGED <<fixed, ghosts, nextId, lastId, at, overlap>>

CallerStep(c) ==
  \/ \E call \in Helpers : Look(c, call) \/ \E conn \in pool : InsertAtOnce(c, call, conn)
  \/ ReturnFound(c) \/ UpdateFound(c) \/ ReadBack(c)
  \/ \E conn \in pool : InsertRow(c, conn) \/ AskLastInsertId(c, conn)

KeyedNext == (\E c \in Callers : CallerStep(c)) \/ \E id \in Live : RemoveRow(id)

----------------------------------------------------------------------------
Over == {"returned", "wrote", "failed"}
AllOver == \A c \in Callers : at[c].pc \in Over

KeyedTypes ==
  /\ dialect \in Dialects /\ unique \in BOOLEAN
  /\ Live \subseteq 1 .. nextId - 1 /\ \A id \in Live : matching[id] \in Callers
  /\ \A c \in Callers : at[c].id \in 0 .. nextId - 1
  /\ overlap \subseteq Callers

(* More than one row with the match needs two callers between their look and   *)
(* their insert at once, or an insert that does not look on a table without   *)
(* the index; callers one after the other share the row.  And someone's row    *)
(* is there when all is over and nobody removed it: losing to the index is     *)
(* losing to a row.                                                           *)
DuplicatesNeedOverlap ==
  /\ Cardinality(Live) > 1 =>
       ~unique /\ (overlap # {} \/ \E c \in Callers : at[c].call \in {"upsert", "insertOrIgnore"})
  /\ AllOver /\ deletes = 0 => Live # {}

(* The row create() reads back is the row it inserted: always where the id     *)
(* comes with the INSERT, and on MySQL when the pool is one connection and no   *)
(* other INSERT ran between the two statements.  A create() that fails has a    *)
(* reason: the index refused a row another caller wrote, the row was removed    *)
(* again, or MySQL was asked for the id on another connection.                 *)
OwnIdComesBack ==
  /\ \A c \in Callers :
       (/\ at[c].pc \in {"written", "returned"} /\ made[c] # NoId
        /\ ~(dialect = "mysql" /\ (Cardinality(pool) > 1 \/ c \in crossed)))
       => at[c].id = made[c]
  /\ \A c \in Callers : at[c].pc = "failed" =>
       deletes > 0 \/ (unique /\ c \in overlap) \/ (dialect = "mysql" /\ Cardinality(pool) > 1)

KeyedCallsEnd == <>AllOver
============================================================================
