-------------------------- MODULE BuilderPromises --------------------------
(* What the builders promise about the statements they send.                  *)
EXTENDS StatementBuilders

Did(names) == \E i \in DOMAIN calls : calls[i] \in names

Placeholders(text) == FlattenSeq([i \in 1 .. Len(text) |-> text[i].ph])

(* The operands of a statement, cut at its set operators, and of each the      *)
(* pieces it prints for its WHERE, whatever it is split into.                  *)
SetOperators == {"UNION", "SETOP"}
WithToken(operands, token) ==
  IF token.kw \in SetOperators THEN Append(operands, <<>>)
  ELSE [operands EXCEPT ![Len(operands)] = Append(@, token)]
Operands(text) ==
  LET cut[i \in 0 .. Len(text)] == IF i = 0 THEN <<<<>>>> ELSE WithToken(cut[i - 1], text[i])
  IN  cut[Len(text)]

WithPieces(filters, token) ==
  IF token.kw \in SetOperators THEN Append(filters, <<>>)
  ELSE IF token.of = "WHERE" THEN [filters EXCEPT ![Len(filters)] = @ \o token.body]
  ELSE filters
Filters(text) ==
  LET said[i \in 0 .. Len(text)] == IF i = 0 THEN <<<<>>>> ELSE WithPieces(said[i - 1], text[i])
  IN  said[Len(text)]

PrintedHolds(pieces, true) == pieces = <<>> \/ BodyHolds(pieces, true)

FilterOK(query) ==
  LET filters == Filters(query.text)
  IN  /\ Len(filters) = Len(asked)
      /\ \A o \in DOMAIN asked : \A rows \in SUBSET (1 .. b.atoms) :
           LET true == rows \cup {OwnValue} IN PrintedHolds(filters[o], true) <=> ChainHolds(asked[o], true)

BindingsOK(query) ==
  LET ph == Placeholders(query.text)
      n == Len(query.values)
  IN  IF query.dialect = "postgres"
      THEN /\ {ph[i].n : i \in DOMAIN ph} = 1 .. n
           /\ \A i \in DOMAIN ph : query.values[ph[i].n] = ph[i].at
      ELSE Len(ph) = n /\ \A i \in 1 .. n : query.values[i] = ph[i].at

Grammar == <<"FROM", "CTE", "VALUES", "SET", "JOIN", "WHERE", "GROUP_BY", "HAVING", "ORDER_BY", "LIMIT", "OFFSET", "RETURNING", "LOCK">>
Rank(kw) == CHOOSE i \in DOMAIN Grammar : Grammar[i] = kw

OperandOK(text, last) ==
  \A i \in DOMAIN text :
    /\ text[i].kw \in {"AND", "COMMA"} => i > 1 /\ text[i - 1].of = text[i].of
    /\ (i > 1 /\ text[i].kw \notin {"AND", "COMMA"}) =>
          \/ Rank(text[i - 1].of) < Rank(text[i].kw)
          \/ text[i].kw \in {"JOIN"} /\ text[i - 1].kw = "JOIN"
          \/ text[i].kw \in {"CTE"} /\ text[i - 1].kw = "CTE"
    /\ last \/ Rank(text[i].of) < Rank("ORDER_BY")

OrderOK(query) ==
  LET operands == Operands(query.text)
  IN  \A o \in DOMAIN operands : OperandOK(operands[o], o = Len(operands))

JoinsOK(query) ==
  LET joins == SelectSeq(query.text, LAMBDA t : t.kw = "JOIN")
  IN  \A i \in DOMAIN joins :
        /\ \A j \in DOMAIN joins : joins[i].tbl = joins[j].tbl => i = j
        /\ joins[i].tbl # Root
        /\ joins[i].on = Root \/ \E j \in 1 .. i - 1 : joins[j].tbl = joins[i].on

----------------------------------------------------------------------------
(* Chains the promises leave out, each for a behaviour of the code that the   *)
(* README describes.                                                          *)

Conditions ==
  {"where", "booleanWhere", "whereNull", "whereValue", "whereColumns", "whereIn", "dynamicWhere",
   "whereSubquery", "whereGroup", "whereHas", "wherePivot"}
Trailing == {"groupBy", "having", "havingRaw", "orderBy", "reorder", "limit", "offset", "forPage", "lock"}
Extended == {{"groupBy"}, {"having", "havingRaw"}, {"orderBy", "reorder"}}
InOrder == <<{"groupBy"}, {"having", "havingRaw"}, {"orderBy", "reorder"}, {"limit", "forPage"}, {"offset", "forPage"}>>
Reordered == {"execute", "toSQL"}
EditsMemo == {"window", "withCount", "withPivot"}

(* A call of one group is followed, sooner or later, by one of the other.     *)
Before(first, then) ==
  \E i, j \in DOMAIN calls : i < j /\ calls[i] \in first /\ calls[j] \in then
Between(first, then, last) ==
  \E i, j, k \in DOMAIN calls : i < j /\ j < k /\ calls[i] \in first /\ calls[j] \in then /\ calls[k] \in last
Twice(names) == Before(names, names)

OutOfOrder == \E i, j \in DOMAIN InOrder : i < j /\ Before(InOrder[j], InOrder[i])

(* Another builder's values were left behind.                                 *)
Foreign(query) == \E i \in DOMAIN query.text : \E j \in DOMAIN query.text[i].ph : query.text[i].ph[j].at = 0

SetHasWhere == kind = "update" /\ \E i \in DOMAIN b.text : b.text[i].kw = "SET" /\ b.text[i].inner # {}

(* Every placeholder of a statement that is sent receives the value its       *)
(* predicate was given: in order of the text where a placeholder is ?, by     *)
(* number where it is $n.  whereParams only grows in call order and the text  *)
(* does not: a HAVING before a where(), a join in front of the WHERE, a set    *)
(* operator, a page's own cursor and a RETURNING meet here.                   *)
BindingsMeetTheirValues ==
  (/\ sent # <<>>
   /\ ~Foreign(sent[1])
   /\ ~Did({"onlyTrashed"})
   /\ ~(sent[1].dialect # "postgres" /\ Did(EditsMemo))
   /\ ~(sent[1].dialect # "postgres" /\ Before({"having"}, Conditions \cup {"setOp", "cursorPaginate"}))
   /\ ~(sent[1].dialect # "postgres" /\ Before({"setOp"}, Conditions) /\ Before({"setOp"}, Trailing))
   /\ ~(sent[1].dialect # "postgres" /\ Between({"having"}, Trailing \ {"having", "havingRaw"}, {"having"}))
   /\ ~(SetHasWhere /\ Did({"found"}))
   /\ ~Between({"orderBy", "reorder"}, {"having", "setOp"}, {"reorder"}))
  => BindingsOK(sent[1])

(* A statement keeps the rows its caller asked for, operand by operand of a   *)
(* union: AND binds tighter than OR in SQL, so the text must bracket exactly  *)
(* the runs of OR, and no condition may be lost by a memo, a rewrite of the   *)
(* text, the soft-delete default of get() or an execute() in between.         *)
FilterIsTheOneAsked ==
  (/\ sent # <<>>
   /\ ~Did({"onlyTrashed", "found", "whereUnread"})
   /\ ~Before({"setOp"}, Conditions \cup {"get"})
   /\ ~Before(Trailing, {"setOp"}))
  => FilterOK(sent[1])

(* No table is joined twice and each is joined to one that is already there:   *)
(* with() and the pivot filters keep one record of what is joined.            *)
TablesAreJoinedOnce ==
  (sent # <<>> /\ kind = "select" /\ ~Did({"withBack"})
   /\ ~Twice({"join", "joinSub", "with"}) /\ ~Before({"wherePivot"}, {"join", "with"}))
  => JoinsOK(sent[1])

ClausesInPlace ==
  (/\ sent # <<>>
   /\ calls[Len(calls)] \in Reordered
   /\ ~Did({"onlyTrashed"})
   /\ ~Before({"lock"}, Trailing \cup {"join", "joinSub", "with", "withBack", "setOp", "wherePivot", "lock"})
   /\ ~(Did({"forPage"}) /\ (Twice({"forPage"}) \/ Before({"limit", "offset"}, {"forPage"})))
   /\ ~Before(Trailing, {"setOp", "wherePivot"})
   /\ ~Before({"setOp"}, {"wherePivot"})
   /\ ~(Before({"setOp"}, Conditions \cup {"get"}) /\ Before({"setOp"}, Trailing))
   /\ ~\E group \in Extended : Between(group, Trailing \ group, group)
   /\ ~(OutOfOrder /\ (Did({"lock"}) \/ Before({"get"}, {"execute"})))
   /\ ~(Before({"where", "whereIn", "whereNull"}, {"set"}) \/ Twice({"set"})))
  => OrderOK(sent[1])

(* The calls of a chain may come in any order: what execute() and toSQL()     *)
(* send has its clauses where the grammar wants them, each ", x" and "AND x"   *)
(* right behind the clause it continues, and joins what it needs once.         *)
ClausesAreInOrder == ClausesInPlace /\ TablesAreJoinedOnce

(* The memoised driver query is the statement the builder would render now,    *)
(* with every value bound so far, whatever was sent before.                    *)
MemoIsFresh ==
  (kind = "select" /\ b.built # Unbuilt /\ ~Did(EditsMemo \cup {"onlyTrashed", "get", "wherePivot"}))
  => b.built[1] = ToSQL(b)
============================================================================
