---------------------------- MODULE ModelQueries ----------------------------
(* The models: the builder with its terminals, the loading of relations, the  *)
(* executor both get their connection from, and the instances of one row.  A  *)
(* behaviour is about one of the four.                                        *)
EXTENDS ModelQuery, ModelRelations, OrmExecutor, ModelInstance

VARIABLE part

vars == <<part, queryVars, relationVars, executorVars, instanceVars>>

Init ==
  /\ part \in {"query", "relations", "executor", "instances"}
  /\ QueryInit /\ (part # "query" => table = (CHOOSE t \in Tables : TRUE) /\ soft)
  /\ RelationInit
  /\ (part # "relations" =>
        /\ schema = (CHOOSE s \in Schemas : TRUE) /\ known
        /\ LET w == CHOOSE w \in Worlds : TRUE IN fk = w.fk /\ owner = w.owner /\ mid = w.mid)
  /\ ExecutorInit
  /\ (part # "executor" => config = CHOOSE c \in [dialect : SqlDialects, database : Databases] : TRUE)
  /\ InstanceInit

Next ==
  \/ part = "query" /\ QueryNext /\ UNCHANGED <<part, relationVars, executorVars, instanceVars>>
  \/ part = "relations" /\ RelationNext /\ UNCHANGED <<part, queryVars, executorVars, instanceVars>>
  \/ part = "executor" /\ ExecutorNext /\ UNCHANGED <<part, queryVars, relationVars, instanceVars>>
  \/ part = "instances" /\ InstanceNext /\ UNCHANGED <<part, queryVars, relationVars, executorVars>>

Spec == Init /\ [][Next]_vars

TypeOK == QueryTypes /\ RelationTypes /\ ExecutorTypes /\ InstanceTypes
=============================================================================
