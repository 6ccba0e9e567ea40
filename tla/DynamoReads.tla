----------------------------- MODULE DynamoReads -----------------------------
(* The four read builders over a DynamoDB table - DynamoDBQueryBuilder, the      *)
(* entity builder of `dynamo`, the Model's and the single-table one -: a chain of *)
(* calls becomes a request with placeholders, and the service answers a page at   *)
(* a time while other clients write.                                              *)
EXTENDS Naturals, FiniteSets, SequencesExt

CONSTANTS
  Keys,        \* the primary keys in order: a sequence of [pk, sk]
  Items,       \* what an item may hold besides its key: [type, v]
  Tables,      \* what the table may hold at first
  PageSize,    \* how many items the service reads for one request
  SkConditions, FilterConditions, Selections, Limits,  \* arguments of the chain methods
  KeyFields,   \* the sets of fields a caller may give the single-table builder
  PatternFields,  \* the fields the entity's pk and sk patterns are made of
  MaxCalls, MaxWrites  \* bounds: calls on the builder, writes of other clients

VARIABLES
  table,    \* the item of each key, by its place in Keys
  builder,  \* the chain so far
  walk,     \* a getAll under way: what it has, what was there all along (ghost), whether it began afresh
  answer,   \* what the last terminal returned, with what the chain asked for (ghost)
  calls, writes

readVars == <<table, builder, walk, answer, calls, writes>>

Kinds == {"client", "entity", "model", "single"}
NoItem == [type |-> 0, v |-> 0]
NoWalk == [on |-> FALSE, got |-> <<>>, kept |-> {}, fresh |-> FALSE]
NoAnswer == [op |-> "none"]
NewBuilder(kind) ==
  [kind |-> kind, pk |-> <<>>, sk |-> <<>>, filters |-> <<>>, projection |-> <<>>,
   limit |-> 0, forward |-> TRUE, start |-> 0]
Condition(attribute, op, values) == [attribute |-> attribute, op |-> op, values |-> values]
IsCondition(c) == c = Condition(c.attribute, c.op, c.values)

(* Conditions as the chain's methods make them; a limit of 0 is refused by the        *)
(* service.                                                                         *)
ASSUME DynamoReadsAssumption ==
  /\ Keys \in Seq(ToSet(Keys)) /\ Tables \subseteq [DOMAIN Keys -> Items \cup {NoItem}]
  /\ PageSize \in Nat \ {0} /\ Limits \subseteq Nat \ {0}
  /\ \A c \in SkConditions : IsCondition(c) /\ c.attribute = "sk"
  /\ \A c \in FilterConditions : IsCondition(c)

Attribute(items, n, attribute) ==
  CASE attribute = "pk" -> Keys[n].pk [] attribute = "sk" -> Keys[n].sk [] OTHER -> items[n][attribute]
Holds(items, condition, n) ==
  LET x == Attribute(items, n, condition.attribute)
      w == condition.values
  IN  CASE condition.op = "="       -> x = w[1]
        [] condition.op = "<="      -> x <= w[1]
        [] condition.op = ">="      -> x >= w[1]
        [] condition.op = "BETWEEN" -> w[1] <= x /\ x <= w[2]
        [] condition.op = "IN"      -> x \in ToSet(w)
        [] OTHER                    -> x # 0    \* attribute_exists
AllHold(items, conditions, n) == \A i \in DOMAIN conditions : Holds(items, conditions[i], n)

----------------------------------------------------------------------------
(* The request: attributes and values stand behind placeholders, which the        *)
(* expressions use.  A placeholder is its prefix, a number and, for a value, its   *)
(* place in the condition; of two writes of one placeholder the later one counts.  *)
NoPlaceholder(prefix, n) == <<"attr", n>>
Placeholder(prefix, n) == <<prefix, n>>
Writes(conditions, prefix, from) ==
  [i \in DOMAIN conditions |-> [name |-> Placeholder(prefix, from + i), condition |-> conditions[i]]]
Request(keyWrites, filterWrites, projectionWrites) ==
  LET written == keyWrites \o filterWrites \o projectionWrites
      Resolve(w) ==
        LET last == CHOOSE i \in DOMAIN written :
                      written[i].name = w.name /\ \A j \in DOMAIN written : j > i => written[j].name # w.name
        IN  written[last].condition.attribute
      Clauses(ws) == [i \in DOMAIN ws |-> [ws[i].condition EXCEPT !.attribute = Resolve(ws[i])]]
  IN  [key |-> Clauses(keyWrites), filter |-> Clauses(filterWrites),
       projection |-> {Resolve(projectionWrites[i]) : i \in DOMAIN projectionWrites}]
Selected(b) == [i \in DOMAIN b.projection |-> Condition(b.projection[i], "", <<>>)]

(* toQueryRequest: one counter for the three expressions.                          *)
ToQueryRequest(b) ==
  LET key == b.pk \o b.sk
  IN  Request(Writes(key, "key", 0), Writes(b.filters, "flt", Len(key)),
              Writes(Selected(b), "proj", Len(key) + Len(b.filters)))
(* toScanRequest: the driver's buildFilterExpression and buildProjectionExpression,  *)
(* each with a counter of its own; no key conditions.                               *)
ToScanRequest(b) == Request(<<>>, Writes(b.filters, "attr", 0), Writes(Selected(b), "proj", 0))
(* toRequest of the entity builder and buildRequest of the Model's: again one counter. *)
ToRequest(b) ==
  LET from == Len(b.pk) + Len(b.sk)
  IN  Request(Writes(b.pk, "pk", 0) \o Writes(b.sk, "sk", Len(b.pk)), Writes(b.filters, "flt", from),
              Writes(Selected(b), "proj", from + Len(b.filters)))

BuildRequest(b) ==
  Request(Writes(b.pk, "pk", 0), Writes(b.filters, "flt", Len(b.pk)),
          Writes(Selected(b), "proj", Len(b.pk) + Len(b.filters)))

IsQuery(b) ==
  CASE b.kind = "client" -> b.pk \o b.sk # <<>> [] b.kind = "single" -> TRUE [] OTHER -> b.pk # <<>>
RequestOf(b) ==
  CASE b.kind = "entity" -> ToRequest(b)
    [] b.kind = "model"  -> BuildRequest(b)
    [] OTHER -> IF IsQuery(b) THEN ToQueryRequest(b) ELSE ToScanRequest(b)

(* What the service takes: a Query names one partition and at most one range of it, *)
(* a Scan has no key condition, no list is empty.                                   *)
Accepted(request, query) ==
  /\ \A i \in DOMAIN request.filter : request.filter[i].op = "IN" => request.filter[i].values # <<>>
  /\ IF query THEN /\ Cardinality({i \in DOMAIN request.key : request.key[i].attribute = "pk"}) = 1
                   /\ Cardinality({i \in DOMAIN request.key : request.key[i].attribute = "sk"}) <= 1
     ELSE request.key = <<>>

(* What of a sequence is in a set.                                                  *)
Among(s, S) ==
  LET kept[i \in 0 .. Len(s)] ==
        IF i = 0 THEN <<>> ELSE IF s[i] \in S THEN Append(kept[i - 1], s[i]) ELSE kept[i - 1]
  IN  kept[Len(s)]
Satisfying(items, conditions) == {n \in DOMAIN Keys : items[n] # NoItem /\ AllHold(items, conditions, n)}

(* The places after the start key that satisfy some key conditions, in the order read. *)
InOrder(key, forward, start, items) ==
  LET all   == [n \in DOMAIN Keys |-> n]
      after == {n \in DOMAIN Keys : start = 0 \/ IF forward THEN n > start ELSE n < start}
  IN  Among(IF forward THEN all ELSE Reverse(all), after \cap Satisfying(items, key))

(* A page: the limit counts what is read, before the filter.                         *)
Page(b) ==
  LET request == RequestOf(b)
      places == InOrder(request.key, b.forward \/ ~IsQuery(b), b.start, table)
      cap    == IF b.limit # 0 /\ b.limit < PageSize THEN b.limit ELSE PageSize
      read   == IF Len(places) <= cap THEN places ELSE SubSeq(places, 1, cap)
  IN  [places |-> Among(read, Satisfying(table, request.filter)),
       attributes |-> request.projection,
       lastKey |-> IF Len(places) < cap THEN 0 ELSE Last(read)]

(* parseItem: an item without a type is known by the prefix of its key, one that has *)
(* neither is dropped.                                                              *)
Parsed(b, page) ==
  IF b.kind = "single" /\ page.attributes # {} /\ page.attributes \cap {"type", "pk"} = {} THEN <<>> ELSE page.places

(* What the chain asks for, by its own words.                                        *)
Asked(b, items) ==
  Among(InOrder(b.pk \o b.sk, b.forward \/ ~IsQuery(b), b.start, items), Satisfying(items, b.filters))

----------------------------------------------------------------------------
Call == ~walk.on /\ calls < MaxCalls /\ calls' = calls + 1
Chain(b) == Call /\ builder' = b /\ answer' = NoAnswer /\ UNCHANGED <<table, walk, writes>>
Slot(b, list, condition) == IF b.kind = "client" \/ b.kind = "single" THEN Append(list, condition) ELSE <<condition>>

(* whereKey, wherePartitionKey; pk and wherePk keep the last one.                    *)
Partition(kind) ==
  \E pk \in {Keys[n].pk : n \in DOMAIN Keys} :
    /\ builder.kind = kind
    /\ Chain([builder EXCEPT !.pk = Slot(builder, @, Condition("pk", "=", <<pk>>))])
WherePartitionKey == Partition("client")
Pk == Partition("entity")
WherePk == Partition("model")
(* The single-table builder makes both parts of the key from what it is given.       *)
WherePartitionKeyOfEntity ==
  \E fields \in KeyFields, pk \in {Keys[n].pk : n \in DOMAIN Keys} :
    /\ builder.kind = "single"
    /\ IF PatternFields.pk \cup PatternFields.sk \subseteq fields
       THEN Chain([builder EXCEPT !.pk = Append(@, Condition("pk", "=", <<pk>>))])
       ELSE Call /\ answer' = [op |-> "throws"] /\ UNCHANGED <<table, builder, walk, writes>>
SortKey(kind) ==
  \E condition \in SkConditions :
    builder.kind = kind /\ Chain([builder EXCEPT !.sk = Slot(builder, @, condition)])
WhereSortKey == SortKey("client")
Sk == SortKey("entity")
WhereSortKeyOfEntity == SortKey("single")
FilterOf(kind) ==
  \E condition \in FilterConditions :
    builder.kind = kind /\ Chain([builder EXCEPT !.filters = Append(@, condition)])
Where == FilterOf("client")
Filter == FilterOf("entity")
WhereOfModel == FilterOf("model")
WhereOfEntity == FilterOf("single")
Select == \E attribute \in Selections : Chain([builder EXCEPT !.projection = Append(@, attribute)])
Limit == \E limit \in Limits : Chain([builder EXCEPT !.limit = limit])
Descending == builder.forward /\ Chain([builder EXCEPT !.forward = FALSE])
Ascending == ~builder.forward /\ builder.kind # "single" /\ Chain([builder EXCEPT !.forward = TRUE])
(* startFrom, with the last key of a page.                                           *)
StartFrom ==
  /\ builder.kind = "client" /\ answer.op = "get"
  /\ answer.more # 0 /\ Chain([builder EXCEPT !.start = answer.more])
Reset == builder.kind = "client" /\ builder # NewBuilder("client") /\ Chain(NewBuilder("client"))

Refused(b) == ~Accepted(RequestOf(b), IsQuery(b))
Answer(op, b, page) ==
  answer' = [op |-> op, places |-> Parsed(b, page), more |-> page.lastKey, asked |-> Asked(b, table)]
Terminal(op, b) ==
  /\ Call /\ builder' = b
  /\ IF Refused(b) THEN answer' = [op |-> "refused"] ELSE Answer(op, b, Page(b))
  /\ UNCHANGED <<table, walk, writes>>

TerminalOf(kind, op) == builder.kind = kind /\ Terminal(op, builder)
Query == IsQuery(builder) /\ TerminalOf("client", "get")
Scan == ~IsQuery(builder) /\ TerminalOf("client", "get")
Get == TerminalOf("entity", "get")
GetOfModel == TerminalOf("model", "get")
Execute == TerminalOf("single", "get")
FirstOf(kind) == builder.kind = kind /\ Terminal("first", [builder EXCEPT !.limit = 1])
First == FirstOf("client")
FirstOfEntity == FirstOf("entity")
FirstOfModel == FirstOf("model")
FirstParsed == FirstOf("single")
Count == TerminalOf("client", "count")
CountOfEntity == TerminalOf("entity", "count")
CountOfModel == TerminalOf("model", "count")
(* paginate: the caller hands the last key back.                                     *)
Paginate ==
  /\ builder.kind = "model"
  /\ \E size \in Limits, resume \in {0} \cup (IF answer.op = "paginate" THEN {answer.more} ELSE {}) :
       Terminal("paginate", [builder EXCEPT !.limit = size, !.start = IF resume = 0 THEN @ ELSE resume])

(* getAll: the start key of the next page is left on the builder.                    *)
Walk(kind) ==
  /\ Call /\ builder.kind = kind
  /\ walk' = [on |-> TRUE, got |-> <<>>, kept |-> ToSet(Asked(builder, table)), fresh |-> builder.start = 0]
  /\ answer' = NoAnswer /\ UNCHANGED <<table, builder, writes>>
GetAll == Walk("client")
GetAllOfEntity == Walk("entity")
(* findAll: a scan of its own for the type of the entity.                             *)
FindAll ==
  /\ Call /\ builder.kind = "single"
  /\ LET b == [NewBuilder("client") EXCEPT !.filters = <<Condition("type", "=", <<1>>)>>]
     IN  /\ builder' = b
         /\ walk' = [on |-> TRUE, got |-> <<>>, kept |-> ToSet(Asked(b, table)), fresh |-> TRUE]
  /\ answer' = NoAnswer /\ UNCHANGED <<table, writes>>

GoesOn(page) == page.lastKey # 0
NextPage ==
  /\ walk.on
  /\ IF Refused(builder) THEN walk' = NoWalk /\ answer' = [op |-> "refused"] /\ UNCHANGED builder
     ELSE LET page == Page(builder)
              got  == walk.got \o page.places
          IN  IF GoesOn(page)
              THEN /\ walk' = [walk EXCEPT !.got = got]
                   /\ builder' = [builder EXCEPT !.start = page.lastKey] /\ UNCHANGED answer
              ELSE /\ walk' = NoWalk /\ UNCHANGED builder
                   /\ answer' = [op |-> "all", places |-> got, kept |-> walk.kept, fresh |-> walk.fresh]
  /\ UNCHANGED <<table, calls, writes>>

(* Another client puts or deletes an item.                                           *)
OtherWrites ==
  /\ writes < MaxWrites /\ writes' = writes + 1
  /\ \E n \in DOMAIN Keys, item \in Items \cup {NoItem} :
       /\ item # table[n] /\ table' = [table EXCEPT ![n] = item]
       /\ walk' = [walk EXCEPT !.kept = {k \in @ : k # n \/ (item # NoItem /\ AllHold(table', builder.filters, n))}]
  /\ UNCHANGED <<builder, answer, calls>>

ReadInit ==
  /\ table \in Tables /\ \E kind \in Kinds : builder = NewBuilder(kind)
  /\ walk = NoWalk /\ answer = NoAnswer /\ calls = 0 /\ writes = 0
ChainCall ==
  \/ WherePartitionKey \/ Pk \/ WherePk \/ WherePartitionKeyOfEntity \/ WhereSortKey \/ Sk \/ WhereSortKeyOfEntity
  \/ Where \/ Filter \/ WhereOfModel \/ WhereOfEntity \/ Select \/ Limit \/ Descending \/ Ascending
  \/ StartFrom \/ Reset
TerminalCall ==
  \/ Query \/ Scan \/ Get \/ GetOfModel \/ Execute \/ First \/ FirstOfEntity \/ FirstOfModel \/ FirstParsed
  \/ Count \/ CountOfEntity \/ CountOfModel \/ Paginate \/ GetAll \/ GetAllOfEntity \/ FindAll
ReadNext == ChainCall \/ TerminalCall \/ NextPage \/ OtherWrites
ReadSpec == ReadInit /\ [][ReadNext]_readVars

----------------------------------------------------------------------------
Unparsable(b) == b.kind = "single" /\ b.projection # <<>> /\ ToSet(b.projection) \cap {"type", "pk"} = {}

PagesMeanTheChain ==
  answer.op \in {"get", "first", "count", "paginate"} /\ ~Unparsable(builder) =>
    /\ IsPrefix(answer.places, answer.asked)
    /\ answer.more = 0 => answer.places = answer.asked
    /\ answer.places = <<>> /\ builder.filters = <<>> => answer.asked = <<>>

(* Selecting attributes changes what an item shows, not which items come ("Select        *)
(* specific attributes"): violated by the single-table builder.                        *)
SelectionsKeepTheItems ==
  answer.op = "get" /\ answer.more = 0 => Len(answer.places) = Len(answer.asked)

(* A walk that began afresh returns everything that was there and matched all along,  *)
(* and nothing twice, whoever writes between its pages and whatever the limit.        *)
WalksAreComplete ==
  /\ IsInjective(walk.got)
  /\ answer.op = "all" => IsInjective(answer.places)
  /\ answer.op = "all" /\ answer.fresh => answer.kept \subseteq ToSet(answer.places)

(* A page is where the answer of the chain begins - whatever the order its calls came *)
(* in and the placeholders its request went out with -, all of it when no key is left *)
(* to go on from, and empty without a filter only where nothing is asked for; a walk    *)
(* over all pages is complete.                                                         *)
AnswersMeanTheChain == PagesMeanTheChain /\ WalksAreComplete
============================================================================
