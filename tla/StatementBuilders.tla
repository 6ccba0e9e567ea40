------------------------- MODULE StatementBuilders -------------------------
(* A caller chains calls on one builder of the client and sends what it       *)
(* built.  Every chain of up to MaxCalls calls is a behaviour; asked records   *)
(* what the caller said, operand by operand, and sent what the driver gets.   *)
EXTENDS SelectBuilder, WriteBuilders

CONSTANTS
  \* @type: table -> (relation name -> [type, target, pivot]);
  Relations,
  Root,        \* the table the builder selects from
  MaxDepth,    \* config.relations.maxDepth
  Dialects,    \* "sqlite" and "postgres": what a placeholder looks like
  SoftModes,   \* config.softDeletes.enabled, with its default filter
  MaxCalls

ASSUME CallsAssumption == MaxCalls \in Nat \ {0} /\ SoftModes \subseteq BOOLEAN

----------------------------------------------------------------------------
(* The relation methods: with(), which turns a path of relations into LEFT     *)
(* JOINs, and the existence tests, counts, aggregates and pivot filters over   *)
(* one relation of the builder's own table.                                  *)

(* pivot is the table between the two, for the types that go through one.     *)
Has(table, name) == table \in DOMAIN Relations /\ name \in DOMAIN Relations[table]
Relation(table, name) == Relations[table][name]

(* resolvePivot: a many-to-many relation of the table, or none.               *)
IsPivotRelation(name) == Has(Root, name) /\ Relation(Root, name).type = "belongsToMany"
PivotTable(name) == Relation(Root, name).pivot

(* The tables one relation joins, in order, each with the one it refers to.   *)
JoinsOf(from, r) ==
  IF r.type \in {"hasOneThrough", "hasManyThrough", "belongsToMany", "morphToMany", "morphedByMany"}
  THEN <<JoinToken(r.pivot, from), JoinToken(r.target, r.pivot)>>
  ELSE <<JoinToken(r.target, from)>>

(* addJoin, on the state of one with() call: the table the path has reached,   *)
(* its depth, the hops already made and how the call ended.                   *)
AddJoin(s, name) ==
  IF s.error # "none" THEN s
  ELSE IF s.depth >= MaxDepth THEN [s EXCEPT !.error = "depth"]
  ELSE IF s.from \notin DOMAIN Relations THEN [s EXCEPT !.depth = @ + 1]
  ELSE IF ~Has(s.from, name) THEN [s EXCEPT !.error = "unknown"]
  ELSE LET r   == Relation(s.from, name)
           hop == <<s.from, r.target>>
       IN  IF hop \in s.visited THEN [s EXCEPT !.error = "cycle"]
           ELSE IF r.target = s.from
                THEN [s EXCEPT !.visited = @ \cup {hop}, !.depth = @ + 1]
           ELSE [s EXCEPT !.visited = @ \cup {hop}, !.depth = @ + 1, !.from = r.target,
                          !.b = AddJoins(@, JoinsOf(s.from, r))]

(* applyPivotColumnsToQuery: the columns of every withPivot so far, again.    *)
ApplyPivotColumns(b) ==
  LET names == SetToSeq(b.pivots)
      applied[n \in 0 .. Len(names)] ==
        IF n = 0 THEN b ELSE AddToSelectClause(applied[n - 1], PivotTable(names[n]), FALSE)
  IN  applied[Len(names)]

(* withPivot(relation, ...columns).                                           *)
WithPivot(b, name) == ApplyPivotColumns([b EXCEPT !.pivots = @ \cup {name}])

(* with(...paths): every path starts at the table again, the hops are shared. *)
(* A throw leaves the joins made before it in the text.                       *)
Walk(s, path) ==
  LET reached[n \in 0 .. Len(path)] ==
        IF n = 0 THEN [s EXCEPT !.from = Root, !.depth = 0] ELSE AddJoin(reached[n - 1], path[n])
  IN  reached[Len(path)]
With(b, paths) ==
  LET start == [b |-> b, from |-> Root, depth |-> 0, visited |-> {}, error |-> "none"]
      walked[n \in 0 .. Len(paths)] == IF n = 0 THEN start ELSE Walk(walked[n - 1], paths[n])
      end == walked[Len(paths)]
  IN  IF end.error # "none" THEN [b |-> end.b, error |-> end.error]
      ELSE [b |-> Dirty(ApplyPivotColumns(end.b)), error |-> "none"]

(* buildHasSubquery and the other two: the values of a callback are written   *)
(* into the text, so the term binds none.  Other relation types are refused.  *)
ExistsTypes == {"hasMany", "hasOne", "belongsTo", "belongsToMany"}
MayTestExistence(name) == Has(Root, name) /\ Relation(Root, name).type \in ExistsTypes

WhereHas(b) == Predicate(b, "AND", "all", 1, 0)
WhereDoesntHave(b) == Predicate(b, "AND", "none", 1, 0)

(* withCount, withSum .. withMin: a correlated subquery as a column; relation *)
(* types without a count are skipped.                                         *)
CountedTypes == {"hasMany", "hasOne", "belongsToMany"}
WithCount(b, name) ==
  IF Has(Root, name) /\ Relation(Root, name).type \in CountedTypes
  THEN AddToSelectClause(b, name, TRUE) ELSE b
ApplyRelationAggregate(b, name) == WithCount(b, name)

(* ensurePivotJoined: the JOIN is appended to the text, wherever that ends.   *)
EnsurePivotJoined(b, name) ==
  IF PivotTable(name) \in b.joined THEN b
  ELSE [EnsureBuilt(b) EXCEPT !.text = Append(@, JoinToken(PivotTable(name), Root)),
                              !.joined = @ \cup {PivotTable(name)}]

WherePivot(b, name) == Predicate(EnsurePivotJoined(b, name), "AND", "all", 1, 1)
WherePivotIn(b, name, n) == WhereIn(EnsurePivotJoined(b, name), "AND", n, FALSE)
WherePivotNotIn(b, name, n) == IF n = 0 THEN b ELSE WhereIn(EnsurePivotJoined(b, name), "AND", n, TRUE)
WherePivotNull(b, name) == WhereNull(EnsurePivotJoined(b, name), "AND")

VARIABLES
  kind,    \* which builder this is
  b,       \* its state
  soft,    \* whether soft deletes are on
  asked,   \* ghost: the conditions given, in chain order, for each operand
  calls,   \* ghost: the calls made
  sent     \* the statement of the last call when it sent one, else <<>>

vars == <<kind, b, soft, asked, calls, sent>>

Kinds == {"select", "sub", "insert", "update", "delete"}

Inner(dialect) == {MakeSelect(dialect), Where(MakeSelect(dialect), 1, 1)}

Init ==
  /\ kind \in Kinds
  /\ soft \in IF kind = "select" THEN SoftModes ELSE {FALSE}
  /\ \E d \in Dialects :
       \/ kind = "select" /\ b = MakeSelect(d)
       \/ kind = "sub" /\ \E i \in Inner(d) : b = SubBuilder(i)
       \/ kind \notin {"select", "sub"} /\ b = WriteBuilder(kind, d)
  /\ asked = <<<<>>>>
  /\ calls = <<>>
  /\ sent = <<>>

May(k, name) ==
  /\ kind = k
  /\ Len(calls) < MaxCalls
  /\ calls' = Append(calls, name)
  /\ UNCHANGED <<kind, soft>>

(* The caller gave one condition over n predicates.                           *)
Ask(conn, mode, n) ==
  asked' = [asked EXCEPT ![Len(asked)] = Append(@, Term(conn, mode, NextAtoms(b, n), <<>>))]

(* A call that gives a condition, one that does not, and one that sends.       *)
Filter(next, conn, mode, n) == b' = next /\ Ask(conn, mode, n) /\ sent' = <<>>
Shape(next) == b' = next /\ UNCHANGED asked /\ sent' = <<>>
Send(next, statement) == b' = next /\ UNCHANGED asked /\ sent' = <<statement>>

Conns == {"AND", "OR"}
Sizes == {0, 2}

----------------------------------------------------------------------------
(* The where family of the SELECT builder.                                    *)

CallWhere == May("select", "where") /\ \E n \in 1 .. 2 : Filter(Where(b, n, n), "AND", "all", n)

CallBooleanWhere ==
  May("select", "booleanWhere") /\ \E c \in Conns : Filter(AddBooleanWhere(b, c, 1, 1), c, "all", 1)

CallWhereNull ==
  May("select", "whereNull") /\ \E c \in Conns :
    Filter(WhereNull(b, c), c, "all", 1) \/ Filter(WhereRaw(b, c), c, "all", 1)

CallWhereValue ==
  May("select", "whereValue") /\ \E c \in Conns :
    \/ Filter(WhereBetween(b, c), c, "all", 1)
    \/ Filter(WhereLike(b, c), c, "all", 1)
    \/ c = "AND" /\ Filter(WhereNotBetween(b), c, "all", 1)
    \/ c = "AND" /\ Filter(WhereDate(b), c, "all", 1)
    \/ c = "AND" /\ Filter(WhereJsonPath(b), c, "all", 1)
    \/ c = "AND" /\ LET n == IF b.dialect = "sqlite" THEN 2 ELSE 1
                    IN  Filter(WhereJsonContains(b, n), c, "all", n)

CallWhereColumns ==
  May("select", "whereColumns") /\ \E n \in Sizes :
    \/ Filter(WhereAny(b, n), "AND", "any", n)
    \/ n > 0 /\ Filter(WhereAll(b, n), "AND", "all", n)
    \/ n > 0 /\ Filter(WhereNone(b, n), "AND", "none", n)
    \/ n = 0 /\ (Shape(WhereAll(b, n)) \/ Shape(WhereNone(b, n)))

(* In a list: one predicate, FALSE over an empty list and TRUE when negated.  *)
AskMember(next, conn, n, negated) ==
  IF n = 0 THEN Filter(next, conn, IF negated THEN "all" ELSE "any", 0) ELSE Filter(next, conn, "all", 1)

CallWhereIn ==
  May("select", "whereIn") /\ \E c \in Conns, n \in Sizes, negated \in BOOLEAN :
    AskMember(WhereIn(b, c, n, negated), c, n, negated)

CallDynamicWhere ==
  May("select", "dynamicWhere") /\ \E c \in Conns, n \in Sizes :
    AskMember(DynamicWhere(b, c, n), c, n, FALSE)

CallWhereSubquery ==
  May("select", "whereSubquery") /\ \E c \in Conns, k \in {0, 1} :
    Filter(WhereSubquery(b, c, k), c, "all", 1)

CallWhereGroup ==
  May("select", "whereGroup") /\ \E c \in Conns, second \in Conns :
    Filter(AddWhereGroup(b, c, AddBooleanWhere(Where(MakeSelect(b.dialect), 1, 1), second, 1, 1)),
           c, IF second = "OR" THEN "any" ELSE "all", 2)

----------------------------------------------------------------------------
(* The shape of the statement.                                                *)

CallColumns ==
  May("select", "columns") /\ \E next \in
    {Distinct(b), SelectRaw(b, "raw", FALSE), SelectRaw(b, "raw", TRUE), RankedColumn(b),
     AddSelect(b, "added"), SelectAllRelations(b)} : Shape(next)
CallSelect == May("select", "select") /\ Shape(Select(b, "id"))
CallWindow == May("select", "window") /\ Shape(AddWindowFunction(b))
CallGroupBy == May("select", "groupBy") /\ Shape(GroupBy(b))
CallHaving == May("select", "having") /\ \E k \in 1 .. 2 : Shape(Having(b, k))
CallHavingRaw == May("select", "havingRaw") /\ Shape(HavingRaw(b))
CallOrderBy == May("select", "orderBy") /\ Shape(OrderBy(b))
CallReorder == May("select", "reorder") /\ Shape(ReorderBy(b))
CallLimit == May("select", "limit") /\ Shape(Limit(b))
CallOffset == May("select", "offset") /\ Shape(Offset(b))
CallForPage == May("select", "forPage") /\ Shape(ForPage(b))
CallLock == May("select", "lock") /\ Shape(LockForUpdate(b))
CallCTE == May("select", "withCTE") /\ \E k \in {0, 1} : Shape(WithCTE(b, {"WHERE"}, k))
CallJoin == May("select", "join") /\ \E t \in DOMAIN Relations \ {Root} : Shape(Join(b, t, Root))
CallJoinSub ==
  May("select", "joinSub") /\ \E k \in {0, 1}, words \in {{}, {"LIMIT"}} : Shape(JoinSub(b, "sub", Root, words, k))

CallSetOp ==
  /\ May("select", "setOp")
  /\ \E kw \in {"UNION", "SETOP"}, second \in Conns \cup {"none", "nothing"} :
       LET one   == IF second = "nothing" THEN MakeSelect(b.dialect) ELSE Where(MakeSelect(b.dialect), 1, 1)
           other == IF second \in Conns THEN AddBooleanWhere(one, second, 1, 1) ELSE one
       IN  /\ b' = AppendSetOp(b, kw, other)
           /\ asked' = Append(asked, [i \in DOMAIN other.terms |-> RenumberTerm(other.terms[i], b)])
           /\ sent' = <<>>

CallWithTrashed == May("select", "withTrashed") /\ Shape(WithTrashed(b))
CallOnlyTrashed == May("select", "onlyTrashed") /\ Filter(OnlyTrashed(b), "AND", "all", 1)

----------------------------------------------------------------------------
(* Relations.                                                                 *)

Names == UNION {DOMAIN Relations[t] : t \in DOMAIN Relations}
Paths == {<<n>> : n \in Names} \cup {<<m, n>> : m \in Names, n \in Names}
ComesBack(path) == \E s \in {With(MakeSelect("sqlite"), <<path>>).b} : Root \in s.joined

(* One path, or the same path once more by its longer form.                    *)
CallWith ==
  \/ May("select", "with") /\ \E p \in Paths : ~ComesBack(p) /\ Shape(With(b, <<p>>).b)
  \/ May("select", "withBack") /\ \E p \in Paths : ComesBack(p) /\ Shape(With(b, <<p>>).b)
CallWithPivot == May("select", "withPivot") /\ \E n \in Names : IsPivotRelation(n) /\ Shape(WithPivot(b, n))
CallWithCount ==
  May("select", "withCount") /\ \E n \in DOMAIN Relations[Root] :
    Shape(WithCount(b, n)) \/ Shape(ApplyRelationAggregate(b, n))
CallWhereHas ==
  May("select", "whereHas") /\ \E n \in Names : MayTestExistence(n) /\
    (Filter(WhereHas(b), "AND", "all", 1) \/ Filter(WhereDoesntHave(b), "AND", "none", 1))
CallWherePivot ==
  May("select", "wherePivot") /\ \E n \in Names : IsPivotRelation(n) /\
    \/ Filter(WherePivot(b, n), "AND", "all", 1)
    \/ Filter(WherePivotNull(b, n), "AND", "all", 1)
    \/ \E k \in Sizes : AskMember(WherePivotIn(b, n, k), "AND", k, FALSE)
    \/ AskMember(WherePivotNotIn(b, n, 2), "AND", 2, TRUE)
    \/ Shape(WherePivotNotIn(b, n, 0))

----------------------------------------------------------------------------
(* Sending a SELECT.                                                          *)

SendMemo ==
  May("select", "execute") /\ (Send(EnsureBuilt(b), Execute(b)) \/ Send(EnsureBuilt(b), Exists(b)))
SendOneRow ==
  May("select", "first") /\ (Send(EnsureBuilt(b), First(b)) \/ Send(EnsureBuilt(b), Value(b)))
SendPage ==
  \/ May("select", "paginate") /\ (Send(EnsureBuilt(b), Paginate(b)) \/ Send(EnsureBuilt(b), SimplePaginate(b)))
  \/ May("select", "paginateTx") /\ Send(b, PaginateTx(b))
  \/ May("select", "cursorPaginate") /\ MayCursorPaginate(b) /\ Send(b, CursorPaginate(b))
SendKey ==
  May("select", "find") /\ (Send(EnsureBuilt(b), Find(b)) \/ Send(EnsureBuilt(b), Lazy(b)))
SendAggregate == May("select", "count") /\ (Send(b, Count(b)) \/ Send(b, Aggregate(b)))
SendText == May("select", "toSQL") /\ Send(b, ToSQL(b))

(* get(): the configuration asks for live rows, once, unless the caller        *)
(* wants the deleted ones.                                                     *)
SendGet ==
  /\ May("select", "get")
  /\ b' = GetBuilder(b, soft)
  /\ sent' = <<Get(b, soft)>>
  /\ LET said == {calls[i] : i \in DOMAIN calls}
     IN  IF soft /\ said \cap {"withTrashed", "onlyTrashed", "get"} = {}
         THEN Ask("AND", "all", 1) ELSE UNCHANGED asked

SelectNext ==
  \/ CallWhere \/ CallBooleanWhere \/ CallWhereNull \/ CallWhereValue \/ CallWhereColumns
  \/ CallWhereIn \/ CallDynamicWhere \/ CallWhereSubquery \/ CallWhereGroup
  \/ CallColumns \/ CallSelect \/ CallWindow \/ CallGroupBy \/ CallHaving \/ CallHavingRaw
  \/ CallOrderBy \/ CallReorder \/ CallLimit \/ CallOffset \/ CallForPage \/ CallLock \/ CallCTE
  \/ CallJoin \/ CallJoinSub \/ CallSetOp \/ CallWithTrashed \/ CallOnlyTrashed
  \/ CallWith \/ CallWithPivot \/ CallWithCount \/ CallWhereHas \/ CallWherePivot
  \/ SendMemo \/ SendOneRow \/ SendPage \/ SendKey \/ SendAggregate \/ SendText \/ SendGet

----------------------------------------------------------------------------
(* selectFromSub.  A condition the builder cannot read is still one the       *)
(* caller gave.                                                               *)
CallSubWhere ==
  May("sub", "where") /\ \E c \in Conns, n \in 1 .. 2 : Filter(SubWhere(b, c, n, n), c, "all", n)
CallSubWhereIn ==
  May("sub", "whereIn") /\ \E c \in Conns, n \in Sizes : AskMember(SubWhereIn(b, c, n), c, n, FALSE)
CallSubWhereUnread ==
  May("sub", "whereUnread") /\ \E c \in Conns : Filter(SubWhereUnread(b), c, "all", 1)
CallSubWhereGroup ==
  May("sub", "whereGroup") /\ \E c \in Conns, second \in Conns :
    Filter(SubWithGroup(b, c, second), c, IF second = "OR" THEN "any" ELSE "all", 2)
CallSubShape ==
  \/ May("sub", "orderBy") /\ Shape(SubOrderBy(b))
  \/ May("sub", "limit") /\ Shape(SubLimit(b))
  \/ May("sub", "offset") /\ Shape(SubOffset(b))
  \/ May("sub", "distinct") /\ Shape(SubDistinct(b))
(* The methods it does not have throw, and leave the builder alone.           *)
CallSubUnsupported == May("sub", "unsupported") /\ Shape(b)
SendSub == May("sub", "get") /\ Send(b, MakeSub(b))

SubNext ==
  \/ CallSubWhere \/ CallSubWhereIn \/ CallSubWhereUnread \/ CallSubWhereGroup
  \/ CallSubShape \/ CallSubUnsupported \/ SendSub

----------------------------------------------------------------------------
(* Writes.                                                                    *)
Columns == {"a", "b"}
Rows == (SUBSET Columns) \ {{}}

CallValues ==
  May("insert", "values") /\ \E rows \in {<<>>} \cup (Rows \X Rows) : Shape(Values(b, rows))
SendInsert ==
  \/ May("insert", "execute") /\ b.rows # <<>> /\ Send(b, InsertExecute(b))
  \/ May("insert", "returning") /\ b.rows # <<>> /\ Send(b, InsertReturning(b))

(* A raw expression of set() may hold a subquery with a WHERE of its own.     *)
CallSet ==
  May("update", "set") /\ \E k \in 1 .. 2, words \in {{}, {"WHERE"}} : Shape(Set(b, k, words))
CallUpdateWhere ==
  \/ May("update", "where") /\ \E n \in 1 .. 2 : Filter(UpdateWhere(b, n, n), "AND", "all", n)
  \/ May("update", "whereIn") /\ \E n \in Sizes : AskMember(UpdateWhereIn(b, n), "AND", n, FALSE)
  \/ May("update", "whereNull") /\ Filter(UpdateWhereNull(b), "AND", "all", 1)
SendUpdate ==
  \/ May("update", "execute") /\ b.text # <<>> /\ Send(b, UpdateExecute(b))
  \/ May("update", "returning") /\ b.text # <<>> /\ Send(b, UpdateReturning(b))
SendUpdateFound ==
  May("update", "found") /\ b.dialect = "sqlite" /\ b.pred /\ Send(b, RunMysqlFound(b))

CallDeleteWhere ==
  \/ May("delete", "where") /\ \E n \in 1 .. 2 : Filter(DeleteWhere(b, n, n), "AND", "all", n)
  \/ May("delete", "whereIn") /\ \E n \in Sizes : AskMember(DeleteWhereIn(b, n), "AND", n, FALSE)
  \/ May("delete", "whereNull") /\ Filter(DeleteWhereNull(b), "AND", "all", 1)
SendDelete ==
  \/ May("delete", "execute") /\ Send(EnsureDelBuilt(b), DeleteExecute(b))
  \/ May("delete", "returning") /\ Send(b, DeleteReturning(b))

WriteNext ==
  \/ CallValues \/ SendInsert
  \/ CallSet \/ CallUpdateWhere \/ SendUpdate \/ SendUpdateFound
  \/ CallDeleteWhere \/ SendDelete

Done == Len(calls) = MaxCalls /\ UNCHANGED vars

Next == SelectNext \/ SubNext \/ WriteNext \/ Done

Spec == Init /\ [][Next]_vars
============================================================================
