----------------------------- MODULE DynamoItems -----------------------------
(* The writes over a DynamoDB table: instances of a Model that are found, set,       *)
(* saved, updated, deleted and refreshed, several methods of one instance at once;   *)
(* the single-table repository with its conditions; the batch and transaction writes *)
(* of `dynamo`.  A request takes effect some time after it is sent and is answered   *)
(* some time after that; it may be lost on the way there or on the way back.        *)
EXTENDS Naturals, FiniteSets

CONSTANTS
  Ids,         \* the items' identifiers
  Instances,   \* model instances callers hold
  MethodCalls, \* method calls that may be under way at once
  Columns, Values,
  NewItems,    \* what callers make items of
  MaxWork,     \* bound: calls
  MaxMisses    \* bound: requests or answers that are lost

ASSUME DynamoItemsAssumption == Columns # {} /\ NewItems \subseteq [Columns -> Values]

VARIABLES
  items,       \* what the table holds: {} or {[type, made, columns]}
  past,        \* what reads may still show: contents an item had before
  instances,   \* the instances: [id, exists, attributes, original]
  requests,    \* the methods under way: [what, pc, on, new, id, values, read, since]
  clock,       \* stamps for createdAt
  dropped,     \* ghost: ids that were deleted
  blind,       \* ghost: ids updated by one who had neither found nor made the item
  current,     \* ghost: columns of an instance nobody wrote since it was told them
  overtaken,   \* ghost: unsaved columns an update that did not carry them made clean
  busy, misses

itemVars == <<items, past, instances, requests, clock, dropped, blind, current, overtaken, busy, misses>>
owned == <<instances, current, overtaken>>
stored == <<items, past, clock, dropped, blind>>

Nothing == [c \in Columns |-> 0]
Item(type, made, columns) == [type |-> type, made |-> made, columns |-> columns]
Fresh(id, columns) == [id |-> id, exists |-> FALSE, attributes |-> columns, original |-> columns]
Known(id, columns) == [Fresh(id, columns) EXCEPT !.exists = TRUE]
Over(old, values) == [c \in Columns |-> IF c \in DOMAIN values THEN values[c] ELSE old[c]]
Contents(id) == {item.columns : item \in items[id]}

NoCall == [pc |-> "idle", what |-> "", since |-> {}]

Work == busy < MaxWork /\ busy' = busy + 1
Miss == misses < MaxMisses /\ misses' = misses + 1
NoMiss == misses' = misses

\* Nothing is under way on an instance, or nothing that is still to give it away.
Unused(i) == \A k \in MethodCalls : requests[k] # NoCall => requests[k].on # i
Given(i) == \A k \in MethodCalls : requests[k] # NoCall /\ requests[k].on = i => ~requests[k].new

----------------------------------------------------------------------------
(* The service.  A put replaces the item, an update changes columns of it - and makes *)
(* one of them alone where there is none.                                           *)
Put(id, columns) == {Item("model", clock, columns)}
WithValues(id, values) ==
  IF items[id] = {} THEN {Item("", 0, Over(Nothing, values))}
  ELSE {Item(x.type, x.made, Over(x.columns, values)) : x \in items[id]}

\* The columns of an item are written: reads may go on to show what was there, and
\* who was told them before does not know them any more.
WriteItem(id, new, columns) ==
  /\ items' = [items EXCEPT ![id] = new]
  /\ past' = [past EXCEPT ![id] = @ \cup {Contents(id)}]
  /\ dropped' = IF new = {} /\ items[id] # {} THEN dropped \cup {id} ELSE dropped
  /\ current' = [i \in Instances |-> IF instances[i].id = id THEN current[i] \ columns ELSE current[i]]
Seen(id, columns) ==
  [k \in MethodCalls |-> IF requests[k] # NoCall /\ requests[k].id = id THEN [requests[k] EXCEPT !.since = @ \cup columns]
                         ELSE requests[k]]

\* A request takes effect; the answer may be lost (execute of the client).
Effect(k, new, columns) ==
  /\ WriteItem(requests[k].id, new, columns)
  /\ \E pc \in {"done", "failed"} :
       /\ requests' = [Seen(requests[k].id, columns) EXCEPT ![k] = [requests[k] EXCEPT !.pc = pc, !.since = {}]]
       /\ IF pc = "failed" THEN Miss ELSE NoMiss
  /\ UNCHANGED <<instances, overtaken, busy>>

Sent(k, what) == requests[k].pc = "sent" /\ requests[k].what = what

AttributeNotExists(id) == items[id] = {}
PutItem(k) ==
  /\ Sent(k, "create")
  /\ LET id == requests[k].id
     IN  IF AttributeNotExists(id)
         THEN Effect(k, Put(id, requests[k].values), Columns) /\ clock' = clock + 1 /\ UNCHANGED blind
         ELSE /\ requests' = [requests EXCEPT ![k].pc = "refused"]
              /\ UNCHANGED <<stored, owned, busy, misses>>
UpdateItem(k) ==
  /\ Sent(k, "update")
  /\ Effect(k, WithValues(requests[k].id, requests[k].values), DOMAIN requests[k].values)
  /\ blind' = IF instances[requests[k].on].exists \/ items[requests[k].id] # {} THEN blind ELSE blind \cup {requests[k].id}
  /\ UNCHANGED clock
DeleteItem(k) ==
  /\ Sent(k, "delete")
  /\ Effect(k, {}, Columns) /\ UNCHANGED <<clock, blind>>

\* GetItem without ConsistentRead: the item, or what it was.
GetItem(k) ==
  /\ requests[k].pc = "sent" /\ requests[k].what \in {"find", "refresh", "seek"}
  /\ LET id == requests[k].id
     IN  \E seen \in {Contents(id)} \cup past[id] :
           requests' = [requests EXCEPT ![k].pc = "done", ![k].read = seen,
                                  ![k].since = IF seen = Contents(id) THEN {} ELSE Columns]
  /\ UNCHANGED <<stored, owned, busy, misses>>
\* The request is lost, or refused, before it does anything.
Lost(k) ==
  /\ requests[k].pc = "sent" /\ Miss
  /\ requests' = [requests EXCEPT ![k].pc = "failed"]
  /\ UNCHANGED <<stored, owned, busy>>

----------------------------------------------------------------------------
(* The methods of Model, from the call to the request.                              *)
Sends(k, i, what, new, id, values) ==
  /\ Work /\ NoMiss /\ requests[k] = NoCall
  /\ requests' = [requests EXCEPT ![k] =
       [what |-> what, pc |-> "sent", on |-> i, new |-> new, id |-> id, values |-> values, read |-> {}, since |-> Columns]]
  /\ UNCHANGED <<stored, owned>>

New(i) ==
  /\ Work /\ Unused(i)
  /\ \E id \in Ids, columns \in NewItems : instances' = [instances EXCEPT ![i] = Fresh(id, columns)]
  /\ current' = [current EXCEPT ![i] = {}] /\ overtaken' = [overtaken EXCEPT ![i] = {}]
  /\ UNCHANGED <<stored, requests, misses>>

\* setAttribute, also while requests are under way.
SetAttribute(i) ==
  /\ Work /\ Given(i)
  /\ \E c \in Columns, v \in Values :
       v # instances[i].attributes[c] /\ instances' = [instances EXCEPT ![i].attributes[c] = v]
  /\ UNCHANGED <<stored, requests, current, overtaken, misses>>

\* getDirty
Dirty(x) == {c \in Columns : x.attributes[c] # x.original[c]}

Save(k, i) ==
  /\ Given(i)
  /\ LET x == instances[i]
     IN  \/ x.exists /\ Dirty(x) # {} /\ Sends(k, i, "update", FALSE, x.id, [c \in Dirty(x) |-> x.attributes[c]])
         \/ ~x.exists /\ Sends(k, i, "create", FALSE, x.id, x.attributes)
Update(k, i) ==
  /\ Given(i)
  /\ \E c \in Columns, v \in Values : Sends(k, i, "update", FALSE, instances[i].id, [d \in {c} |-> v])
Delete(k, i) == Given(i) /\ Sends(k, i, "delete", FALSE, instances[i].id, Nothing)
Refresh(k, i) == Given(i) /\ Sends(k, i, "refresh", FALSE, instances[i].id, Nothing)
Find(k, i, id) == Unused(i) /\ Sends(k, i, "find", TRUE, id, Nothing)
UpdateOrCreate(k, i, id) == Unused(i) /\ Sends(k, i, "seek", TRUE, id, Nothing)

----------------------------------------------------------------------------
(* ... and from the answer on.                                                      *)
Ends(k) == requests' = [requests EXCEPT ![k] = NoCall]
Answered(k, what) == requests[k].pc \in {"done", "failed", "refused"} /\ requests[k].what = what
Becomes(i, x, told) ==
  /\ instances' = [instances EXCEPT ![i] = x]
  /\ current' = [current EXCEPT ![i] = told]
  /\ overtaken' = [overtaken EXCEPT ![i] = {}]
Done == UNCHANGED <<stored, busy, misses>>

CreateAnswered(k) ==
  /\ Answered(k, "create") /\ Ends(k) /\ Done
  /\ LET q == requests[k]
     IN  IF q.pc = "done" THEN Becomes(q.on, Known(q.id, q.values), Columns \ q.since) ELSE UNCHANGED owned

\* update() takes over what it sent; whatever else is unsaved counts as clean.
TakesOverAnyAnswer(k) == TRUE
TakesOver(k) == requests[k].pc = "done"
UpdateAnswered(k) ==
  /\ Answered(k, "update") /\ Ends(k) /\ Done
  /\ LET q == requests[k]
         x == instances[q.on]
         sent == DOMAIN q.values
     IN  IF TakesOver(k)
         THEN /\ instances' = [instances EXCEPT ![q.on].attributes = Over(@, q.values),
                                                ![q.on].original = Over(x.attributes, q.values)]
              /\ current' = [current EXCEPT ![q.on] = (@ \ sent) \cup (sent \ q.since)]
              /\ overtaken' = [overtaken EXCEPT ![q.on] = (@ \cup Dirty(x)) \ sent]
         ELSE UNCHANGED owned

DeleteAnswered(k) ==
  /\ Answered(k, "delete") /\ Ends(k) /\ Done
  /\ instances' = IF requests[k].pc = "done" THEN [instances EXCEPT ![requests[k].on].exists = FALSE] ELSE instances
  /\ UNCHANGED <<current, overtaken>>

\* A read that failed is told as no item (find); of what is gone, or cannot be read,
\* an instance stays as it is (refresh).
Shown(k) == IF requests[k].pc = "done" THEN requests[k].read ELSE {}
ReadAnswered(k) ==
  /\ Answered(k, "find") \/ Answered(k, "refresh")
  /\ Ends(k) /\ Done
  /\ LET q == requests[k]
     IN  \/ Shown(k) = {} /\ UNCHANGED owned
         \/ \E columns \in Shown(k) :
              Becomes(q.on, [Known(q.id, columns) EXCEPT !.exists = (q.what = "find") \/ instances[q.on].exists],
                      Columns \ q.since)

\* updateOrCreate goes on: with an update of what was found, or a creation.
UpdateFound(k) ==
  /\ Answered(k, "seek") /\ Done
  /\ \E columns \in Shown(k), c \in Columns, v \in Values :
       /\ Becomes(requests[k].on, Known(requests[k].id, columns), Columns \ requests[k].since)
       /\ requests' = [requests EXCEPT ![k].what = "update", ![k].pc = "sent", ![k].values = [d \in {c} |-> v], ![k].read = {}]
CreateMissing(k) ==
  /\ Answered(k, "seek") /\ Shown(k) = {} /\ Done
  /\ \E columns \in NewItems :
       requests' = [requests EXCEPT ![k].what = "create", ![k].pc = "sent", ![k].values = columns]
  /\ UNCHANGED owned

----------------------------------------------------------------------------
(* The repository of the single-table design: create, update and delete with           *)
(* DynamoDBItemBuilder under ifNotExists and ifExists; nothing is kept of the answers.  *)
ByOthers(id, new, columns) ==
  /\ Work /\ NoMiss
  /\ WriteItem(id, new, columns) /\ requests' = Seen(id, columns)
  /\ UNCHANGED <<instances, overtaken>>
AttributeExists(id) == items[id] # {}
RepositoryCreate(id) ==
  /\ AttributeNotExists(id)
  /\ \E columns \in NewItems : ByOthers(id, Put(id, columns), Columns)
  /\ clock' = clock + 1 /\ UNCHANGED blind
RepositoryUpdate(id) ==
  /\ AttributeExists(id)
  /\ \E c \in Columns, v \in Values : ByOthers(id, WithValues(id, [d \in {c} |-> v]), {c})
  /\ UNCHANGED <<clock, blind>>
RepositoryDelete(id) == ByOthers(id, {}, Columns) /\ UNCHANGED <<clock, blind>>

(* batchWrite: puts and deletes without conditions, any part of which the service may    *)
(* hand back unprocessed; transactWrite: all of it or nothing, its updates without a      *)
(* condition and without a type.                                                      *)
Operations(types) == [Ids -> types \cup {""}]
Result(id, operation, values) ==
  CASE operation = "" -> items[id]
    [] operation = "put" -> Put(id, Nothing)
    [] operation = "delete" -> {}
    [] operation = "update" -> WithValues(id, values)
Touched(operation, values) ==
  CASE operation = "" -> {} [] operation = "update" -> DOMAIN values [] OTHER -> Columns
Carried(operations, values) ==
  LET touch(id) == Touched(operations[id], values)
  IN  /\ items' = [id \in Ids |-> Result(id, operations[id], values)]
      /\ past' = [id \in Ids |-> IF operations[id] = "" THEN past[id] ELSE past[id] \cup {Contents(id)}]
      /\ dropped' = dropped \cup {id \in Ids : operations[id] = "delete" /\ items[id] # {}}
      /\ blind' = blind \cup {id \in Ids : operations[id] = "update" /\ items[id] = {}}
      /\ current' = [i \in Instances |-> current[i] \ touch(instances[i].id)]
      /\ requests' = [k \in MethodCalls |-> IF requests[k] = NoCall THEN NoCall
                                         ELSE [requests[k] EXCEPT !.since = @ \cup touch(requests[k].id)]]
      /\ clock' = clock + 1
BatchWrite ==
  /\ Work /\ NoMiss
  /\ \E operations \in Operations({"put", "delete"}) : Carried(operations, Nothing)
  /\ UNCHANGED <<instances, overtaken>>
TransactWrite ==
  /\ Work /\ NoMiss
  /\ \E operations \in Operations({"put", "delete", "update"}), conditions \in SUBSET Ids, c \in Columns, v \in Values \cup {0} :
       /\ \A id \in conditions : operations[id] # "update" /\ AttributeNotExists(id)
       /\ Carried(operations, [d \in {c} |-> v])
  /\ UNCHANGED <<instances, overtaken>>

ItemInit ==
  /\ items \in [Ids -> {{}, {Item("model", 0, Nothing)}}] /\ past = [id \in Ids |-> {}] /\ clock = 1
  /\ \E id \in Ids : \/ instances = [i \in Instances |-> Fresh(id, Nothing)]
                     \/ items[id] # {} /\ instances = [i \in Instances |-> Known(id, Nothing)]
  /\ requests = [k \in MethodCalls |-> NoCall]
  /\ current = [i \in Instances |-> IF instances[i].exists THEN Columns ELSE {}] /\ overtaken = [i \in Instances |-> {}]
  /\ dropped = {} /\ blind = {} /\ busy = 0 /\ misses = 0

ServiceStep(k) == PutItem(k) \/ UpdateItem(k) \/ DeleteItem(k) \/ GetItem(k) \/ Lost(k)
AnswerStep(k) ==
  CreateAnswered(k) \/ UpdateAnswered(k) \/ DeleteAnswered(k) \/ ReadAnswered(k) \/ UpdateFound(k) \/ CreateMissing(k)
CallStep(k, i) ==
  \/ Save(k, i) \/ Update(k, i) \/ Delete(k, i) \/ Refresh(k, i)
  \/ \E id \in Ids : Find(k, i, id) \/ UpdateOrCreate(k, i, id)
ItemNext ==
  \/ \E k \in MethodCalls : ServiceStep(k) \/ AnswerStep(k) \/ \E i \in Instances : CallStep(k, i)
  \/ \E i \in Instances : New(i) \/ SetAttribute(i)
  \/ \E id \in Ids : RepositoryCreate(id) \/ RepositoryUpdate(id) \/ RepositoryDelete(id)
  \/ BatchWrite \/ TransactWrite
ItemSpec == ItemInit /\ [][ItemNext]_itemVars

----------------------------------------------------------------------------
(* What an instance holds for clean is in the table, column by column, until someone     *)
(* writes the column again: after answers in any order, failed and repeated requests     *)
(* and reads of what was, but for columns set or left unsaved around an update that did   *)
(* not carry them, which it makes clean (update, save, refresh).                         *)
CleanMeansSaved ==
  \A i \in Instances : LET x == instances[i] IN
    \A c \in current[i] \ (Dirty(x) \cup overtaken[i]) : \E item \in items[x.id] : item.columns[c] = x.attributes[c]

(* An item without its type - one that no find by type will see - was put together by    *)
(* an update of what had been deleted, or of one who had not looked (an update() before   *)
(* the first save, an update in a transaction): never by save() or updateOrCreate alone,  *)
(* whatever they missed and whichever answers were lost.                               *)
HalfItemsWereDeleted == \A id \in Ids : \A item \in items[id] : item.type = "" => id \in dropped \cup blind

(* updateOrCreate is refused as a duplicate only if someone wrote the item after its       *)
(* read, or the read failed, and was told as no item, or showed what was.                *)
AloneIsNotRefused == \A k \in MethodCalls : requests[k].pc = "refused" => requests[k].since # {}

(* An item is never replaced by a creation: its stamp stays until it is deleted or put    *)
(* again by a batch or a transaction.                                                  *)
CreationsReplaceNothing ==
  \A id \in Ids : \A old \in items[id] : \A new \in items'[id] :
    new.made # old.made => BatchWrite \/ TransactWrite

(* The writes of models and builders keep what they promise of an item, in whatever     *)
(* order they meet: clean means saved, nothing is half made or made twice.              *)
ItemsMeanTheirWrites ==
  /\ [](CleanMeansSaved /\ HalfItemsWereDeleted /\ AloneIsNotRefused)
  /\ [][CreationsReplaceNothing]_itemVars
============================================================================
