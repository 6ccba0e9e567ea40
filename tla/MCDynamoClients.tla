--------------------------- MODULE MCDynamoClients ---------------------------
(* The parts of the DynamoDB client, which work on tables of their own: the         *)
(* migration driver, the read builders, and the writes of models and builders.       *)
EXTENDS DynamoMigration, DynamoReads, DynamoItems, TLC

CONSTANTS d1, d2, i1, i2, k1, k2

Definition(gsis, ttl, stream, billing) ==
  [key |-> "pk", gsis |-> gsis, ttl |-> ttl, stream |-> stream, billing |-> billing]
MCDefinitions ==
  {Definition({"a"}, "ttl", FALSE, "pay"), Definition({"b"}, "expires", TRUE, "prov"),
   Definition({"b"}, NoTtl, FALSE, "prov")}
MCIndexes == <<"a", "b">>

Key(pk, sk) == [pk |-> pk, sk |-> sk]
MCKeys == <<Key(1, 1), Key(1, 2), Key(1, 3), Key(2, 1)>>
One == [type |-> 1, v |-> 1]
Two == [type |-> 2, v |-> 2]
MCItems == {One, Two}
MCTables == {<<One, Two, One, One>>, <<Two, One, Two, One>>}
MCSkConditions == {Condition("sk", "=", <<2>>), Condition("sk", "BETWEEN", <<2, 3>>)}
MCFilterConditions == {Condition("type", "=", <<1>>), Condition("v", ">=", <<2>>), Condition("v", "IN", <<>>)}
MCSelections == {"v", "pk"}
MCLimits == {1, 2}
MCKeyFields == {{"user"}, {"user", "order"}}
MCPatternFields == [pk |-> {"user"}, sk |-> {"order"}]
MCColumns == {"a", "b"}
MCNewItems == {[c \in MCColumns |-> 1]}
Symmetric == Permutations(Drivers) \cup Permutations(Instances) \cup Permutations(MethodCalls)

VARIABLE part
vars == <<part, dynamoVars, readVars, itemVars>>

Init ==
  /\ part \in {"migration", "reads", "items"}
  /\ DynamoInit /\ (part # "migration" => wanted = (CHOOSE d \in Definitions : TRUE) /\ reportsTtl)
  /\ ReadInit /\ (part # "reads" => builder.kind = "client" /\ table = (CHOOSE t \in Tables : TRUE))
  /\ ItemInit /\ (part # "items" => items = [id \in Ids |-> {}])
Next ==
  \/ part = "migration" /\ DynamoNext /\ UNCHANGED <<part, readVars, itemVars>>
  \/ part = "reads" /\ ReadNext /\ UNCHANGED <<part, dynamoVars, itemVars>>
  \/ part = "items" /\ ItemNext /\ UNCHANGED <<part, dynamoVars, readVars>>

Spec == Init /\ [][Next]_vars
============================================================================
