--------------------------- MODULE WriteBuilders ---------------------------
(* insertInto, updateTable and deleteFrom.  A write builder is the text it    *)
(* has printed so far, the number of values bound to it and what it remembers *)
(* of its calls: pred (hasPredicate), rows (what values() was given, as the    *)
(* set of columns of each row), built (the number of tokens the memoised      *)
(* query was made from, -1 when there is none) and guarded (beforeDelete ran). *)
EXTENDS SelectBuilder

NoQuery == 0 - 1

WriteBuilder(kind, dialect) ==
  [kind |-> kind, dialect |-> dialect, text |-> <<>>, params |-> 0, pred |-> FALSE,
   rows |-> <<>>, built |-> NoQuery, atoms |-> 0]

(* What is sent: the text a query was built from and the values, which are    *)
(* the builder's own list and so the ones it holds by now.                    *)
Written(w, text) ==
  [dialect |-> w.dialect, text |-> text, values |-> [i \in 1 .. w.params |-> i],
   head |-> SelectList]

Rebuilt(w) == [w EXCEPT !.built = Len(w.text)]

----------------------------------------------------------------------------
(* insertInto(t).values(rows): the columns are those of the first row, and     *)
(* every row gives a value for each of them; no rows is no statement.         *)
Values(w, rows) ==
  IF rows = <<>>
  THEN [w EXCEPT !.rows = rows, !.text = <<>>, !.params = 0, !.built = NoQuery]
  ELSE LET k == Len(rows) * Cardinality(rows[1])
           values == [Token("VALUES") EXCEPT !.inner = rows[1],
                                             !.ph = GetPlaceholders([w EXCEPT !.params = 0], k)]
       IN  Rebuilt([w EXCEPT !.rows = rows, !.text = <<values>>, !.params = k])

InsertReturning(w) == Written(w, Append(w.text, Token("RETURNING")))
InsertExecute(w) == Written(w, SubSeq(w.text, 1, w.built))

----------------------------------------------------------------------------
(* updateTable(t).set(..): k values, or a raw expression with a subquery of   *)
(* its own.                                                                   *)
Set(w, k, words) ==
  LET set == [Token("SET") EXCEPT !.ph = GetPlaceholders(w, k), !.inner = words]
  IN  Rebuilt([w EXCEPT !.text = Append(@, set), !.params = @ + k])

(* appendPredicate, by the builder's own flag; an object is its conditions    *)
(* joined with AND, a list is IN over its placeholders.                       *)
AppendPredicate(w, mode, n, k) ==
  LET term  == Term("AND", mode, NextAtoms(w, n), GetPlaceholders(w, k))
      token == WhereToken(IF w.pred THEN "AND" ELSE "WHERE", RenderWhereTerms(<<term>>))
  IN  [w EXCEPT !.text = Append(@, token), !.pred = TRUE, !.params = @ + k, !.atoms = @ + n]

UpdateWhere(w, n, k) == Rebuilt(AppendPredicate(w, "all", n, k))
UpdateWhereIn(w, k) == Rebuilt(AppendPredicate(w, IF k = 0 THEN "broken" ELSE "all", 1, k))
UpdateWhereNull(w) == Rebuilt(AppendPredicate(w, "all", 1, 0))

UpdateExecute(w) == Written(w, SubSeq(w.text, 1, w.built))

(* returning(): rendered when it runs, from the text there is by then.         *)
UpdateReturning(w) == Written(w, Append(w.text, Token("RETURNING")))

(* On MySQL the rows are identified first, by what follows the first WHERE of  *)
(* the text and as many of the last values as it has placeholders.            *)
RunMysqlFound(w) ==
  LET inSet == \E i \in DOMAIN w.text : "WHERE" \in w.text[i].inner
      from  == FirstTopLevel(w.text, {"WHERE"})
      where == SubSeq(w.text, from, Len(w.text))
      k     == Len(FlattenSeq([i \in 1 .. Len(where) |-> where[i].ph]))
  IN  [Written(w, where) EXCEPT !.values = SubSeq(@, Len(@) - k + 1, Len(@)),
                                !.head.broken = inSet]

----------------------------------------------------------------------------
(* deleteFrom(t).                                                             *)
DeleteWhere(w, n, k) == [AppendPredicate(w, "all", n, k) EXCEPT !.built = NoQuery]
DeleteWhereIn(w, k) ==
  [AppendPredicate(w, IF k = 0 THEN "broken" ELSE "all", 1, k) EXCEPT !.built = NoQuery]
DeleteWhereNull(w) == [AppendPredicate(w, "all", 1, 0) EXCEPT !.built = NoQuery]

EnsureDelBuilt(w) == IF w.built = NoQuery THEN Rebuilt(w) ELSE w

DeleteExecute(w) == LET d == EnsureDelBuilt(w) IN Written(d, SubSeq(d.text, 1, d.built))
DeleteReturning(w) == Written(w, Append(w.text, Token("RETURNING")))
============================================================================
