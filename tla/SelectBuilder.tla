--------------------------- MODULE SelectBuilder ---------------------------
(* The SELECT builder: makeSelect and the methods of the object it returns,   *)
(* as operators from a builder to the builder after the call.  A builder is   *)
(* the closure's variables:                                                  *)
(*   text    the statement after FROM, without the WHERE                     *)
(*   terms   whereTerms, rendered whenever the text is needed                *)
(*   params  how many values whereParams holds (it only grows)               *)
(*   tail    whereTail, tailPred tailHasPredicate, having hasHaving          *)
(*   built   the memoised driver query, or Unbuilt                           *)
(*   head    the SELECT list: see SelectList                                    *)
(*   joined  joinedTables, pivots the relations of pivotColumns              *)
(*   trashed includeTrashed and onlyTrashed in one word, deletedAt whether    *)
(*           the text mentions the soft-delete column                        *)
(*   atoms   counts the predicates recorded, to tell them apart              *)
(* sqlite stands for the dialects that print ? and the wrapper that can show  *)
(* a query's text; postgres prints $n and its query objects cannot be read.  *)
EXTENDS SqlText

Unbuilt == <<>>

(* cols are the columns the list names, star says it still opens with a star, *)
(* inner that the first " FROM " of the text is inside parentheses, cte that  *)
(* the text opens with WITH, broken that an edit went into the parentheses.   *)
SelectList == [distinct |-> FALSE, cols |-> {}, star |-> TRUE, inner |-> FALSE,
         cte |-> FALSE, broken |-> FALSE]

MakeSelect(dialect) ==
  [dialect |-> dialect, text |-> <<>>, terms |-> <<>>, params |-> 0, tail |-> FALSE,
   tailPred |-> FALSE, having |-> FALSE, built |-> Unbuilt, head |-> SelectList, joined |-> {},
   pivots |-> {}, trashed |-> "default", deletedAt |-> FALSE, atoms |-> 0]

(* currentSql, with the extra term cursorPaginate adds for one page.          *)
CurrentSql(b, extra) ==
  SpliceWhere(b.text, RenderWhereTerms(b.terms \o extra), b.tail, b.tailPred)

(* What a driver is handed: the SELECT list, the text and the values, each    *)
(* value named by its position in whereParams.                                *)
Statement(b, text) ==
  [dialect |-> b.dialect, head |-> b.head, text |-> text,
   values |-> [i \in 1 .. b.params |-> i]]

(* ensureBuilt: the reordered statement with the values there are by now.     *)
EnsureBuilt(b) ==
  IF b.built # Unbuilt THEN b
  ELSE [b EXCEPT !.built = <<Statement(b, Reorder(CurrentSql(b, <<>>)))>>]

Built(b) == EnsureBuilt(b).built[1]

Dirty(b) == [b EXCEPT !.built = Unbuilt]

(* getPlaceholders(k, from): one placeholder for each of the next k values.   *)
GetPlaceholders(b, k) ==
  [i \in 1 .. k |-> [at |-> b.params + i,
                     n |-> IF b.dialect = "postgres" THEN b.params + i ELSE 0]]

NextAtoms(b, n) == (b.atoms + 1) .. (b.atoms + n)

(* pushWhere, and the values pushed with it.                                  *)
PushWhere(b, term, k) ==
  Dirty([b EXCEPT !.terms = Append(@, term), !.params = @ + k,
                  !.atoms = @ + Cardinality(term.atoms)])

(* A predicate over n columns or keys, joined as mode says, binding k values. *)
Predicate(b, conn, mode, n, k) ==
  PushWhere(b, Term(conn, mode, NextAtoms(b, n), GetPlaceholders(b, k)), k)

(* where(col, op, v), where([..]), where({..}) and where(raw), and the same    *)
(* for andWhere and orWhere.  An object is one term, whatever its size.       *)
Where(b, n, k) == Predicate(b, "AND", "all", n, k)
AddBooleanWhere(b, conn, n, k) == Predicate(b, conn, "all", n, k)

(* No value (IS NULL, a raw fragment, two columns), two, or one.              *)
WhereNull(b, conn) == Predicate(b, conn, "all", 1, 0)
WhereRaw(b, conn) == Predicate(b, conn, "all", 1, 0)
WhereBetween(b, conn) == Predicate(b, conn, "all", 1, 2)
WhereNotBetween(b) == Predicate(b, "AND", "all", 1, 2)
WhereDate(b) == Predicate(b, "AND", "all", 1, 1)
WhereLike(b, conn) == Predicate(b, conn, "all", 1, 1)

(* Containment in a JSON document: one predicate for each value of a list on  *)
(* SQLite, one for the whole document elsewhere; and a comparison at a path.  *)
WhereJsonContains(b, n) ==
  IF b.dialect = "sqlite" THEN Predicate(b, "AND", "all", n, n) ELSE Predicate(b, "AND", "all", 1, 1)
WhereJsonPath(b) == Predicate(b, "AND", "all", 1, 1)

(* Over no column at all, any is FALSE and the other two add nothing.         *)
WhereAny(b, n) == Predicate(b, "AND", "any", n, n)
WhereAll(b, n) == IF n = 0 THEN b ELSE Predicate(b, "AND", "all", n, n)
WhereNone(b, n) == IF n = 0 THEN b ELSE Predicate(b, "AND", "none", n, n)

WhereIn(b, conn, n, negated) ==
  LET in == RenderInPredicate(n, negated) IN Predicate(b, conn, in.mode, in.atoms, n)

(* The proxy's whereColumnName(value): a list is rendered as it comes.        *)
DynamicWhere(b, conn, n) == Predicate(b, conn, IF n = 0 THEN "broken" ELSE "all", 1, n)

(* EXISTS over another builder, IN over one, and whereNested: the other one's  *)
(* text goes in with its k placeholders, its values stay behind.              *)
LostPlaceholders(b, k) ==
  [i \in 1 .. k |-> [at |-> 0, n |-> IF b.dialect = "postgres" THEN i ELSE 0]]

WhereSubquery(b, conn, k) ==
  PushWhere(b, Term(conn, "all", NextAtoms(b, 1), LostPlaceholders(b, k)), 0)

(* Another builder's text moves behind ours: its values come after ours and   *)
(* on Postgres its numbers are raised to match.                               *)
RenumberNothing(ph, b) == [i \in DOMAIN ph |-> [ph[i] EXCEPT !.at = @ + b.params]]
Renumber(ph, b) ==
  [i \in DOMAIN ph |-> [at |-> ph[i].at + b.params,
                        n |-> IF b.dialect = "postgres" THEN ph[i].n + b.params ELSE ph[i].n]]

RenumberTerm(t, b) ==
  [t EXCEPT !.atoms = {b.atoms + a : a \in @}, !.ph = Renumber(@, b)]

(* whereGroup(callback): the callback fills a fresh builder, whose body comes  *)
(* back in parentheses as one term.                                           *)
AddWhereGroup(b, conn, sub) ==
  LET mode == IF \E i \in 2 .. Len(sub.terms) : sub.terms[i].conn = "OR" THEN "any" ELSE "all"
      body == Term(conn, mode, UNION {sub.terms[i].atoms : i \in DOMAIN sub.terms},
                   BodyPlaceholders(RenderWhereTerms(sub.terms)))
  IN  PushWhere(b, RenumberTerm(body, b), sub.params)

----------------------------------------------------------------------------
(* The SELECT list.  What follows looks for the first " FROM ".                *)

Distinct(b) ==
  Dirty([b EXCEPT !.head.broken = @ \/ (b.head.distinct /\ ~b.head.cte),
                  !.head.distinct = @ \/ ~b.head.cte])

(* Columns put in front of that FROM, or the list up to it replaced; inside    *)
(* parentheses either one spoils the statement.                               *)
IntoList(head, cols, subquery) ==
  IF head.inner THEN [head EXCEPT !.broken = TRUE]
  ELSE [head EXCEPT !.cols = @ \cup cols, !.inner = subquery]

ReplaceList(head, cols, distinct) ==
  IF head.inner THEN [head EXCEPT !.broken = TRUE]
  ELSE [head EXCEPT !.cols = cols, !.star = FALSE, !.distinct = distinct]

SelectRaw(b, col, subquery) == Dirty([b EXCEPT !.head = IntoList(@, {col}, subquery)])
RankedColumn(b) == Dirty([b EXCEPT !.head = IntoList(@, {"rank"}, FALSE)])
AddSelect(b, col) == Dirty([b EXCEPT !.head = IntoList(@, {col}, FALSE)])
Select(b, col) == Dirty([b EXCEPT !.head = ReplaceList(@, {col}, b.head.distinct)])
SelectAllRelations(b) == Dirty([b EXCEPT !.head = ReplaceList(@, b.joined, FALSE)])

(* addToSelectClause: after the star, or before the first FROM; nothing when   *)
(* the text opens with WITH.  The memoised query is edited as well, by its    *)
(* text where that can be read, and comes back without its values.            *)
WithColumn(head, col, subquery) ==
  IF head.cte THEN head
  ELSE IF head.star /\ ~head.distinct
       THEN [head EXCEPT !.cols = @ \cup {col}, !.inner = @ \/ subquery]
  ELSE IntoList(head, {col}, subquery)

AddToSelectClause(b, col, subquery) ==
  LET edited == EnsureBuilt([b EXCEPT !.head = WithColumn(@, col, subquery)])
      query  == edited.built[1]
  IN  IF b.dialect = "postgres" \/ b.head.cte THEN edited
      ELSE [edited EXCEPT !.built = <<[query EXCEPT !.head = WithColumn(@, col, subquery),
                                                    !.values = <<>>]>>]

(* over, lag, lead, sumOver .. lastValue.                                     *)
AddWindowFunction(b) == AddToSelectClause(b, "window", FALSE)

----------------------------------------------------------------------------
(* Ordering, paging, grouping.                                                *)

OrderBy(b) == Dirty([b EXCEPT !.text = ExtendClause(@, "ORDER_BY")])

(* reorder: everything from the first ORDER BY to the end is dropped.         *)
ReorderBy(b) ==
  LET kept == SubSeq(b.text, 1, FirstTopLevel(b.text, {"ORDER_BY"}) - 1)
  IN  Dirty([b EXCEPT !.text = Append(kept, Token("ORDER_BY"))])

LimitKeepsMemo(b) == [b EXCEPT !.text = SetClause(@, "LIMIT")]
Limit(b) == Dirty([b EXCEPT !.text = SetClause(@, "LIMIT")])
Offset(b) == Dirty([b EXCEPT !.text = SetClause(@, "OFFSET")])
ForPage(b) == Dirty([b EXCEPT !.text = @ \o <<Token("LIMIT"), Token("OFFSET")>>])
GroupBy(b) == Dirty([b EXCEPT !.text = ExtendClause(@, "GROUP_BY")])

(* having: HAVING or AND by the builder's own flag, its values pushed now.    *)
Having(b, k) ==
  LET token == [Token(IF b.having THEN "AND" ELSE "HAVING") EXCEPT
                  !.of = "HAVING", !.ph = GetPlaceholders(b, k)]
  IN  Dirty([b EXCEPT !.text = Append(@, token), !.having = TRUE, !.params = @ + k])
HavingRaw(b) == Having(b, 0)

LockForUpdate(b) == Dirty([b EXCEPT !.text = Append(@, Token("LOCK"))])

(* withCTE, withRecursive: another builder's text in front of ours.           *)
WithCTE(b, words, k) ==
  LET cte == [Token("CTE") EXCEPT !.inner = words, !.ph = LostPlaceholders(b, k)]
  IN  Dirty([b EXCEPT !.text = <<cte>> \o @, !.head.cte = TRUE, !.head.inner = TRUE])

----------------------------------------------------------------------------
(* Joins and set operators.                                                   *)

JoinToken(tbl, on) == [Token("JOIN") EXCEPT !.tbl = tbl, !.on = on]

AddJoins(b, joins) ==
  Dirty([b EXCEPT !.text = InsertJoin(@, joins),
                  !.joined = @ \cup {joins[i].tbl : i \in DOMAIN joins}])

Join(b, tbl, on) == AddJoins(b, <<JoinToken(tbl, on)>>)

(* joinSub and its kin: the joined query stands in parentheses with its own   *)
(* keywords and k placeholders; its values stay behind.                       *)
JoinSub(b, alias, on, words, k) ==
  AddJoins(b, <<[JoinToken(alias, on) EXCEPT !.inner = words, !.ph = LostPlaceholders(b, k)]>>)

(* union .. exceptAll: the WHERE is written into the text, the other side's    *)
(* statement appended with its values after ours, and what follows attaches   *)
(* to the other side.                                                         *)
RenumberPiece(p, b) == [p EXCEPT !.any = [j \in DOMAIN @ |-> RenumberTerm(@[j], b)]]
RenumberToken(t, b) ==
  [t EXCEPT !.ph = Renumber(@, b), !.body = [i \in DOMAIN @ |-> RenumberPiece(@[i], b)]]

AppendSetOp(b, kw, other) ==
  LET theirs == Reorder(CurrentSql(other, <<>>))
  IN  Dirty([b EXCEPT !.text = (IF b.terms = <<>> THEN @ ELSE CurrentSql(b, <<>>))
                                 \o <<Token(kw)>>
                                 \o [i \in DOMAIN theirs |-> RenumberToken(theirs[i], b)],
                      !.terms = <<>>,
                      !.tail = TRUE,
                      !.tailPred = other.terms # <<>> \/ other.tailPred,
                      !.params = @ + other.params,
                      !.atoms = @ + other.atoms])

----------------------------------------------------------------------------
(* Soft deletes.                                                              *)

WithTrashed(b) == [b EXCEPT !.trashed = "with"]

(* onlyTrashed: the predicate is spliced after the outermost WHERE of the     *)
(* text, or appended with a WHERE of its own.  The memo becomes a query made  *)
(* from a plain array, which is no statement at all.                          *)
SpliceTrashed(text, term) ==
  LET i == FirstTopLevel(text, {"WHERE"})
  IN  IF i > Len(text) THEN Append(text, WhereToken("WHERE", RenderWhereTerms(<<term>>)))
      ELSE [text EXCEPT ![i] = WhereToken("WHERE", RenderWhereTerms(<<term>>) \o @.body)]

OnlyTrashed(b) ==
  LET term   == Term("AND", "all", NextAtoms(b, 1), <<>>)
      marked == [b EXCEPT !.text = SpliceTrashed(@, term), !.trashed = "only",
                          !.deletedAt = TRUE, !.atoms = @ + 1]
  IN  [marked EXCEPT !.built = <<[Statement(marked, <<>>) EXCEPT !.values = <<>>,
                                                          !.head.broken = TRUE]>>]

----------------------------------------------------------------------------
(* What is sent.  Each takes the statement from the memo or renders its own.   *)

(* A query composed into a template: the memo's text, then more.              *)
Compose(query, more, values) ==
  [query EXCEPT !.text = @ \o more, !.values = @ \o values]

(* A value of the call itself, behind the memo's own.                         *)
OwnValue == 0 - 1
OwnPlaceholder(query) ==
  [at |-> OwnValue, n |-> IF query.dialect = "postgres" THEN Len(query.values) + 1 ELSE 0]
OwnTerm(query) == Term("AND", "all", {OwnValue}, <<OwnPlaceholder(query)>>)

ToSQL(b) == Statement(b, Reorder(CurrentSql(b, <<>>)))
Execute(b) == Built(b)
First(b) == Compose(Built(b), <<Token("LIMIT")>>, <<>>)
Value(b) == Compose(Built(b), <<Token("LIMIT")>>, <<>>)
Exists(b) == Built(b)
Paginate(b) == Compose(Built(b), <<Token("LIMIT"), Token("OFFSET")>>, <<>>)
PaginateTx(b) == Compose(ToSQL(b), <<Token("LIMIT"), Token("OFFSET")>>, <<>>)
SimplePaginate(b) == Compose(Built(b), <<Token("LIMIT"), Token("OFFSET")>>, <<>>)

Find(b) ==
  LET query == Built(b)
  IN  Compose(query, <<WhereToken("WHERE", RenderWhereTerms(<<OwnTerm(query)>>)), Token("LIMIT")>>,
              <<OwnValue>>)

(* The second page of lazy() and lazyById().                                  *)
Lazy(b) ==
  LET query == Built(b)
  IN  Compose(query, <<WhereToken("WHERE", RenderWhereTerms(<<OwnTerm(query)>>)),
                       Token("ORDER_BY"), Token("LIMIT")>>, <<OwnValue>>)

(* cursorPaginate past the first page; refused when the text orders itself.   *)
CursorPaginate(b) ==
  LET base == Statement(b, <<>>)
      text == Reorder(CurrentSql(b, <<OwnTerm(base)>>))
  IN  [base EXCEPT !.text = text \o <<Token("ORDER_BY"), Token("LIMIT")>>,
                   !.values = @ \o <<OwnValue>>]

MayCursorPaginate(b) == TopLevel(CurrentSql(b, <<>>), {"ORDER_BY"}) = {}

(* count() replaces the list up to the first FROM, or wraps a grouped query;   *)
(* avg, sum, max and min replace it whatever the query is.                    *)
Count(b) ==
  LET text == CurrentSql(b, <<>>)
  IN  IF Mentions(text, "GROUP_BY") THEN Statement(b, text)
      ELSE [Statement(b, text) EXCEPT !.head = ReplaceList(@, {"count"}, FALSE)]

Aggregate(b) == [Statement(b, CurrentSql(b, <<>>)) EXCEPT !.head = ReplaceList(@, {"agg"}, FALSE)]

(* get(): the text as it stands is built and, with soft deletes on, the       *)
(* default filter recorded unless the text already mentions the column.       *)
GetBuilder(b, softDeletes) ==
  LET plain == [b EXCEPT !.built = <<Statement(b, CurrentSql(b, <<>>))>>]
      hide  == softDeletes /\ b.trashed = "default" /\ ~b.deletedAt
  IN  IF hide THEN EnsureBuilt([WhereNull(plain, "AND") EXCEPT !.deletedAt = TRUE]) ELSE plain

Get(b, softDeletes) == Built(GetBuilder(b, softDeletes))

----------------------------------------------------------------------------
(* selectFromSub(sub, alias): an immutable builder over the text of another   *)
(* one, with its values carried along.  base is the number of values of the   *)
(* inner statement, tail the clauses after the WHERE.                        *)
SubBuilder(inner) ==
  LET text == Reorder(CurrentSql(inner, <<>>))
  IN  [dialect |-> inner.dialect, terms |-> <<>>, params |-> inner.params, tail |-> <<>>,
       distinct |-> FALSE, atoms |-> 0,
       base |-> [Token("FROM") EXCEPT !.ph = FlattenSeq([i \in 1 .. Len(text) |-> text[i].ph]),
                                      !.inner = {text[i].kw : i \in 1 .. Len(text)}]]

(* makeSub: the text is derived, the WHERE between the base and the tail.     *)
MakeSub(s) ==
  LET body == RenderWhereTerms(s.terms)
  IN  [dialect |-> s.dialect, head |-> [SelectList EXCEPT !.distinct = s.distinct],
       text |-> <<s.base>>
                  \o (IF body = <<>> THEN <<>> ELSE <<WhereToken("WHERE", body)>>)
                  \o s.tail,
       values |-> [i \in 1 .. s.params |-> i]]

(* appendWhere: a comparison, a list or an object is one term; an empty list   *)
(* is rendered as it comes; anything else leaves the builder as it was.       *)
SubWhere(s, conn, n, k) ==
  [s EXCEPT !.terms = Append(@, Term(conn, "all", NextAtoms(s, n), GetPlaceholders(s, k))),
            !.params = @ + k, !.atoms = @ + n]
SubWhereIn(s, conn, n) ==
  IF n > 0 THEN SubWhere(s, conn, 1, n)
  ELSE [s EXCEPT !.terms = Append(@, Term(conn, "broken", NextAtoms(s, 1), <<>>)), !.atoms = @ + 1]
SubWhereUnread(s) == s

(* whereGroup(callback): a collector that numbers on from the outer builder.  *)
SubWithGroup(s, conn, second) ==
  LET g == SubWhere(SubWhere([s EXCEPT !.terms = <<>>], "AND", 1, 1), second, 1, 1)
      mode == IF second = "OR" THEN "any" ELSE "all"
  IN  [g EXCEPT !.terms = Append(s.terms, Term(conn, mode, NextAtoms(s, 2),
                                               BodyPlaceholders(RenderWhereTerms(g.terms))))]

SubDistinct(s) == [s EXCEPT !.distinct = TRUE]
SubOrderBy(s) == [s EXCEPT !.tail = ExtendClause(@, "ORDER_BY")]
SubLimit(s) == [s EXCEPT !.tail = SetClause(@, "LIMIT")]
SubOffset(s) == [s EXCEPT !.tail = SetClause(@, "OFFSET")]
============================================================================
