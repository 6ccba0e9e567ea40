--------------------------- MODULE MCModelQueries ---------------------------
(* Three rows, one with a NULL and one trashed; a related model seen through *)
(* each kind of relation, two of them loaded at once; two instances of a row,   *)
(* one of whose columns has a mutator that is not idempotent (a hash).         *)
EXTENDS ModelQueries, TLC

CONSTANTS name, password

Row(n, trashed) == [n |-> n, trashed |-> trashed]
MCTables == {<<Row(0, FALSE), Row(1, TRUE), Row(Null, FALSE)>>}
MCConditions == {Cond("in", {0}), Cond("not in", {})}

MCParents == {1, 2}
MCRelated == {21, 22}
MCMids == {11, 12}
MCSchemas ==
  {[posts |-> {k}] : k \in Range(Kinds)}
    \cup {[posts |-> {"hasMany", "belongsToMany"}], [posts |-> {"belongsToMany"}, extra |-> {"morphMany"}],
          [posts |-> {"hasOne", "hasOneThrough"}, extra |-> {"belongsTo"}]}
None2 == [i \in {} |-> 0]
World(f1, f2, o, m) == [fk |-> (1 :> f1) @@ (2 :> f2), owner |-> o, mid |-> m]
Mid(p, r) == [parent |-> p, related |-> r]
MCWorlds ==
  {World(None, None, None2, None2),
   World(21, None, (21 :> 1) @@ (22 :> 1), (11 :> Mid(1, 21)) @@ (12 :> Mid(2, 21))),
   World(22, 21, (21 :> 1) @@ (22 :> 2), (11 :> Mid(1, 21)) @@ (12 :> Mid(1, 22))),
   World(22, 22, (21 :> 11) @@ (22 :> 12), (11 :> Mid(1, 21)) @@ (12 :> Mid(2, 22))),
   World(21, 22, (21 :> 11) @@ (22 :> 11), (11 :> Mid(2, 22)))}
MCSqlDialects == {"sqlite", "postgres", "mysql"}
MCDatabases == {"app", "test"}
MCColumns == {name, password}
MCSetter == [c \in MCColumns |-> [v \in Values |-> IF c = password THEN (v + 1) % 2 ELSE v]]
MCSymmetry == Permutations(Instances) \cup Permutations(MethodCalls) \cup Permutations(Users)
=============================================================================
