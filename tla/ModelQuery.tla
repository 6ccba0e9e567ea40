----------------------------- MODULE ModelQuery -----------------------------
(* ModelQueryBuilder of orm.ts: conditions are chained on a builder, then a    *)
(* terminal method sends its statements.  A row is its column n and whether it *)
(* is trashed; a condition is a WhereTerm over column n.                      *)
EXTENDS Integers, SqlText

CONSTANTS
  Tables,      \* what the table may hold at first: functions from ids to rows
  Conditions,  \* the conditions a caller may chain
  MaxCalls,    \* bound: calls on one builder, chained and terminal
  MaxOthers    \* bound: rows others write while a walk is under way

\* A condition is an operator and the values it compares column n with; softDeleteClause
\* adds two about trashed rows.
Operators == {"live", "trashed", "null", "not null", "in", "not in", ">=", "<="}
AnyCondition == [op : Operators, vals : SUBSET Int]
IsRow(row) == row = [n |-> row.n, trashed |-> row.trashed] /\ row.trashed \in BOOLEAN
ASSUME ModelQueryAssumption ==
  /\ MaxCalls \in Nat /\ MaxOthers \in Nat /\ Conditions \subseteq AnyCondition
  /\ \A t \in Tables : /\ IsFiniteSet(DOMAIN t) /\ DOMAIN t \subseteq Nat
                       /\ \A id \in DOMAIN t : IsRow(t[id])

Null  == -1    \* NULL of a column
NoClause == -1 \* undefined of _limit and _offset

VARIABLES
  table, soft,
  query,     \* the builder
  asked,     \* ghost: the conditions in the order and with the extent they were asked
  run,       \* the terminal under way
  told,      \* what the last terminal answered
  seen,      \* ghost: ids given to the caller by a walk over pages
  kept,      \* ghost: rows that were in the result all along a walk
  removed, added,  \* ghost: how many rows left and entered it meanwhile
  calls, others

queryVars == <<table, soft, query, asked, run, told, seen, kept, removed, added, calls, others>>

Cond(op, vals) == [op |-> op, vals |-> vals]
Live    == Cond("live", {})
Trashed == Cond("trashed", {})

(* A comparison with NULL is not true; IN over nothing never is, NOT IN over    *)
(* nothing always.                                                            *)
CondHolds(c, row) ==
  CASE c.op = "live"     -> ~row.trashed
    [] c.op = "trashed"  -> row.trashed
    [] c.op = "null"     -> row.n = Null
    [] c.op = "not null" -> row.n # Null
    [] c.op = "in"       -> row.n # Null /\ row.n \in c.vals
    [] c.op = "not in"   -> c.vals = {} \/ (row.n # Null /\ row.n \notin c.vals)
    [] c.op = ">="       -> row.n # Null /\ \A v \in c.vals : row.n >= v
    [] c.op = "<="       -> row.n # Null /\ \A v \in c.vals : row.n <= v

Truths(row) == {c \in AnyCondition : CondHolds(c, row)}

Fresh == [wheres |-> <<>>, order |-> <<>>, limit |-> NoClause, offset |-> NoClause, trashed |-> "exclude"]

(* buildWhereClauses, softDeleteClause, composeWhere: bodies that all have to    *)
(* hold, each in brackets of its own.                                         *)
BuildWhereClauses(q) == IF q.wheres = <<>> THEN <<>> ELSE <<RenderWhereTerms(q.wheres)>>
SoftDeleteClause(q) ==
  IF q.trashed = "include" \/ ~soft THEN <<>>
  ELSE LET c == IF q.trashed = "only" THEN Trashed ELSE Live
       IN  <<[conn |-> "AND", any |-> <<Term("AND", "all", {c}, <<>>)>>]>>
ComposeFlat(q) ==
  LET both == FlattenSeq(BuildWhereClauses(q)) \o SoftDeleteClause(q)
  IN  IF both = <<>> THEN <<>> ELSE <<both>>
ComposeWhere(q) ==
  BuildWhereClauses(q) \o (IF SoftDeleteClause(q) = <<>> THEN <<>> ELSE <<SoftDeleteClause(q)>>)

Matching(bodies) ==
  {id \in DOMAIN table : LET true == Truths(table[id]) IN \A i \in DOMAIN bodies : BodyHolds(bodies[i], true)}

(* What the calls asked for: each orWhere belongs to the condition before it.    *)
Meant ==
  {id \in DOMAIN table :
     /\ soft => (query.trashed = "include" \/ table[id].trashed = (query.trashed = "only"))
     /\ ChainHolds(asked, Truths(table[id]))}

----------------------------------------------------------------------------
NoRun == [op |-> "none"]
NotTold == [op |-> "none", ids |-> <<>>, n |-> 0, meant |-> {}, err |-> FALSE, more |-> FALSE]

QueryInit ==
  /\ table \in Tables /\ soft \in BOOLEAN
  /\ query = Fresh /\ asked = <<>> /\ run = NoRun /\ told = NotTold
  /\ seen = <<>> /\ kept = {} /\ removed = 0 /\ added = 0 /\ calls = 0 /\ others = 0

Chainable == run = NoRun /\ told = NotTold /\ calls < MaxCalls - 1 /\ calls' = calls + 1
walkVars == <<seen, kept, removed, added>>
Chained == UNCHANGED <<table, soft, run, told, walkVars, others>>

Push(terms, meaning) ==
  /\ Chainable
  /\ query' = [query EXCEPT !.wheres = @ \o terms]
  /\ asked' = Append(asked, meaning)
  /\ Chained

(* where, orWhere, whereIn, whereNotIn, whereNull, whereNotNull and their or-   *)
(* forms; an undefined value makes the operator the value, which no n is.       *)
Where ==
  \E conn \in {"AND", "OR"}, c \in Conditions :
    LET t == Term(conn, "all", {c}, <<>>) IN Push(<<t>>, t)

WhereBetween ==
  \E lo \in 0 .. 1 :
    LET ge == Cond(">=", {lo})
        le == Cond("<=", {1})
    IN  Push(<<Term("AND", "all", {ge}, <<>>), Term("AND", "all", {le}, <<>>)>>, Term("AND", "all", {ge, le}, <<>>))

(* whereNotBetween and whereGroup are one bracketed fragment.                   *)
WhereGroup ==
  \E conn \in {"AND", "OR"}, cs \in {S \in SUBSET Conditions : Cardinality(S) = 2} :
    LET t == Term(conn, "any", cs, <<>>) IN Push(<<t>>, t)

OrderBy ==
  \E by \in {<<"id", 1>>, <<"id", -1>>, <<"n", 1>>} :
    /\ Chainable
    /\ query' = [query EXCEPT !.order = Append(@, [key |-> by[1], dir |-> by[2]])]
    /\ asked' = asked /\ Chained

Limit ==
  /\ Chainable /\ query.limit = NoClause
  /\ query' = [query EXCEPT !.limit = 1]
  /\ asked' = asked /\ Chained

Offset ==
  /\ Chainable /\ query.offset = NoClause
  /\ query' = [query EXCEPT !.offset = 1]
  /\ asked' = asked /\ Chained

TrashScope ==
  /\ Chainable /\ query.trashed = "exclude"
  /\ \E scope \in {"include", "only"} : query' = [query EXCEPT !.trashed = scope]
  /\ asked' = asked /\ Chained

----------------------------------------------------------------------------
(* The order of a result: by the keys, and any order among what they leave equal.*)
Key(id, k) == (IF k.key = "id" THEN id ELSE table[id].n) * k.dir
NotAfter(a, b, order) ==
  \A i \in DOMAIN order :
    (\A j \in 1 .. i - 1 : Key(a, order[j]) = Key(b, order[j])) => Key(a, order[i]) <= Key(b, order[i])
Arrangements(S, order) ==
  {s \in [1 .. Cardinality(S) -> S] : IsInjective(s) /\ \A i, j \in DOMAIN s : i < j => NotAfter(s[i], s[j], order)}

Page(s, limit, offset) ==
  LET from == IF offset = NoClause THEN 0 ELSE offset
      upto == IF limit = NoClause THEN Len(s) ELSE from + limit
  IN  IF from >= Len(s) THEN <<>> ELSE SubSeq(s, from + 1, IF upto < Len(s) THEN upto ELSE Len(s))

(* buildQuery and its answer; OFFSET without LIMIT is Postgres' only.           *)
Rows(q) ==
  {[ids |-> Page(s, q.limit, q.offset), err |-> FALSE] : s \in Arrangements(Matching(ComposeWhere(q)), q.order)}
    \cup (IF q.offset # NoClause /\ q.limit = NoClause THEN {[ids |-> <<>>, err |-> TRUE]} ELSE {})

Answer(op, ids, n, err, more) ==
  [op |-> op, ids |-> ids, n |-> n, meant |-> Meant, err |-> err, more |-> more]

Terminal == run = NoRun /\ calls < MaxCalls /\ calls' = calls + 1
WalkFrom(ids) == seen' = <<>> /\ kept' = ids /\ removed' = 0 /\ added' = 0
NoWalk == WalkFrom({}) /\ others' = others

(* get and pluck; first, last and sole leave their limit and order behind.      *)
Limited(op) ==
  CASE op = "get"   -> query
    [] op = "first" -> [query EXCEPT !.limit = 1]
    [] op = "last"  -> [query EXCEPT !.limit = 1, !.order = <<[key |-> "id", dir |-> -1]>>]
    [] op = "sole"  -> [query EXCEPT !.limit = 2]
Get ==
  /\ Terminal
  /\ \E op \in {"get", "first", "last", "sole"} :
       /\ query' = Limited(op)
       /\ \E r \in Rows(Limited(op)) :
            told' = Answer(op, r.ids, 0, r.err \/ (op = "sole" /\ Len(r.ids) # 1), FALSE)
  /\ UNCHANGED <<table, soft, asked, run>> /\ NoWalk

(* pluck sends its own statement, with the same clauses.                        *)
Pluck ==
  /\ Terminal
  /\ \E r \in Rows(query) : told' = Answer("pluck", r.ids, 0, r.err, FALSE)
  /\ UNCHANGED <<table, soft, query, asked, run>> /\ NoWalk

(* count, exists and the aggregates take no paging.                            *)
Count ==
  /\ Terminal
  /\ told' = Answer("count", <<>>, Cardinality(Matching(ComposeWhere(query))), FALSE, FALSE)
  /\ UNCHANGED <<table, soft, query, asked, run>> /\ NoWalk

Largest(ids) == Max({table[id].n : id \in ids} \cup {Null})
Aggregate ==
  /\ Terminal
  /\ told' = Answer("max", <<>>, Largest(Matching(ComposeWhere(query))), FALSE, FALSE)
  /\ UNCHANGED <<table, soft, query, asked, run>> /\ NoWalk

(* delete, update, increment: refused where a clause would be left out.         *)
Unapplied == query.limit # NoClause \/ query.offset # NoClause \/ query.order # <<>>
Write ==
  /\ Terminal
  /\ LET hit == Matching(ComposeWhere(query))
     IN  IF Unapplied THEN told' = Answer("refused", <<>>, 0, TRUE, FALSE) /\ UNCHANGED table
         ELSE /\ told' = Answer("write", SetToSeq(hit), Cardinality(hit), FALSE, FALSE)
              /\ \/ table' = [id \in (DOMAIN table) \ hit |-> table[id]]
                 \/ table' = [id \in DOMAIN table |-> IF id \in hit THEN [table[id] EXCEPT !.n = 0] ELSE table[id]]
                 \/ table' = [id \in DOMAIN table |-> IF id \in hit /\ table[id].n = 0
                                                      THEN [table[id] EXCEPT !.n = @ + 1] ELSE table[id]]
  /\ UNCHANGED <<soft, query, asked, run>> /\ NoWalk

(* find and findMany leave trashed rows out; destroy and truncate take them along. *)
Find ==
  /\ Terminal
  /\ \E ids \in SUBSET DOMAIN table :
       LET found == {id \in ids : soft => ~table[id].trashed}
       IN  told' = [Answer("find", <<>>, Cardinality(found), FALSE, FALSE) EXCEPT !.meant = found]
  /\ UNCHANGED <<table, soft, query, asked, run>> /\ NoWalk
Destroy ==
  /\ Terminal
  /\ \E gone \in {{id} : id \in DOMAIN table} \cup {DOMAIN table} :
       table' = [id \in (DOMAIN table) \ gone |-> table[id]]
  /\ told' = Answer("destroy", <<>>, 0, FALSE, FALSE)
  /\ UNCHANGED <<soft, query, asked, run>> /\ NoWalk

(* paginate: the count, then the page; the limit stays on the builder.          *)
LastPage(total, per) == (total + per - 1) \div per
Paginate ==
  /\ run = NoRun
  /\ \/ calls < MaxCalls /\ calls' = calls + 1 /\ WalkFrom(Meant)
        /\ \E per \in 1 .. 2 : run' = [op |-> "paginate", page |-> 1, per |-> per,
                                       total |-> Cardinality(Matching(ComposeWhere(query)))]
     \/ told.op = "paginate" /\ told.more /\ UNCHANGED <<calls, walkVars>>
        /\ run' = [op |-> "paginate", page |-> told.n + 1, per |-> query.limit,
                   total |-> Cardinality(Matching(ComposeWhere(query)))]
  /\ told' = NotTold
  /\ UNCHANGED <<table, soft, query, asked, others>>
PageArrives ==
  /\ run.op = "paginate"
  /\ query' = [query EXCEPT !.limit = run.per, !.offset = (run.page - 1) * run.per]
  /\ \E r \in Rows(query') :
       /\ told' = Answer("paginate", r.ids, run.page, r.err, run.page < LastPage(run.total, run.per))
       /\ seen' = seen \o r.ids
  /\ run' = NoRun
  /\ UNCHANGED <<table, soft, asked, kept, removed, added, calls, others>>

(* chunk: a copy of the builder for each page, with its own limit and offset.    *)
Chunk ==
  /\ Terminal
  /\ \E size \in 1 .. 2 : run' = [op |-> "chunk", page |-> 0, size |-> size]
  /\ WalkFrom(Meant) /\ told' = NotTold
  /\ UNCHANGED <<table, soft, query, asked, others>>
ChunkArrives ==
  /\ run.op = "chunk"
  /\ \E r \in Rows([query EXCEPT !.limit = run.size, !.offset = run.page * run.size]), stop \in BOOLEAN :
       /\ seen' = seen \o r.ids
       /\ IF r.ids = <<>> \/ stop \/ Len(r.ids) < run.size
          THEN /\ run' = NoRun
               /\ told' = Answer(IF stop /\ r.ids # <<>> THEN "stopped" ELSE "chunk", <<>>, 0, FALSE, FALSE)
          ELSE run' = [run EXCEPT !.page = @ + 1] /\ UNCHANGED told
  /\ UNCHANGED <<table, soft, query, asked, kept, removed, added, calls, others>>

(* Someone else's write between two statements of a walk.                       *)
Others ==
  /\ others < MaxOthers /\ others' = others + 1
  /\ run # NoRun \/ (told.op = "paginate" /\ told.more)
  /\ \E id \in DOMAIN table :
       \/ table' = [i \in (DOMAIN table) \ {id} |-> table[i]]
       \/ table' = [table EXCEPT ![id].trashed = ~@]
  /\ UNCHANGED <<soft, query, asked, run, told, seen, calls>>
  /\ kept' = kept \cap Meant'
  /\ removed' = removed + Cardinality(Meant \ Meant') /\ added' = added + Cardinality(Meant' \ Meant)

QueryNext ==
  \/ Where \/ WhereBetween \/ WhereGroup \/ OrderBy \/ Limit \/ Offset \/ TrashScope
  \/ Get \/ Pluck \/ Count \/ Aggregate \/ Write \/ Find \/ Destroy
  \/ Paginate \/ PageArrives \/ Chunk \/ ChunkArrives \/ Others

----------------------------------------------------------------------------
QueryTypes ==
  /\ query.limit \in Nat \cup {NoClause} /\ query.offset \in Nat \cup {NoClause}
  /\ query.trashed \in {"exclude", "include", "only"} /\ soft \in BOOLEAN
  /\ run.op \in {"none", "paginate", "chunk"} /\ calls \in 0 .. MaxCalls

(* whereBetween is two terms, and an OR that follows binds to the second alone. *)
SplitBetween ==
  \E i \in DOMAIN asked : i > 1 /\ asked[i].conn = "OR" /\ asked[i - 1].mode = "all" /\ Cardinality(asked[i - 1].atoms) = 2

OwnRowsOnly ==
  ~SplitBetween =>
    CASE told.op \in {"write", "count"} -> told.n = Cardinality(told.meant) /\ (told.op = "write" => ToSet(told.ids) = told.meant)
      [] told.op = "max" -> told.n = Largest(told.meant)
      [] told.op \in {"get", "pluck", "first", "last", "sole"} -> ToSet(told.ids) \subseteq told.meant
      [] OTHER -> TRUE

(* first and last answer a row exactly when there is one (offset apart), and sole *)
(* exactly when there is one and no other, whatever was called on the builder.    *)
OneRowTerminals ==
  (~SplitBetween /\ query.offset = NoClause) =>
    CASE told.op \in {"first", "last"} -> told.ids = <<>> <=> told.meant = {}
      [] told.op = "sole" -> ~told.err <=> Cardinality(told.meant) = 1
      [] OTHER -> TRUE

(* A walk over pages or chunks in a unique order gives every row once when the    *)
(* result holds still, misses at most as many rows as left or entered it while    *)
(* walking, and repeats at most as many as entered it (paginate, chunk).        *)
UniqueOrder == query.order # <<>> /\ query.order[1].key = "id"
WalkOver == told.op = "chunk" \/ (told.op = "paginate" /\ ~told.more)
WalksAreComplete ==
  (WalkOver /\ run = NoRun /\ UniqueOrder /\ ~SplitBetween /\ ~told.err) =>
    /\ Cardinality(kept \ ToSet(seen)) <= removed + (IF told.op = "chunk" THEN 0 ELSE added)
    /\ Len(seen) - Cardinality(ToSet(seen)) <= added

(* A statement reads or writes exactly the rows the chain asked for, whatever the *)
(* order of where, orWhere, groups and scopes: an OR never escapes what came      *)
(* before it nor the soft-delete scope, and no write goes past its scope (#1083,   *)
(* #1111: composeWhere, renderWhereTerms, delete, update, increment, count); the   *)
(* one-row terminals tell none, one and more apart, and walks give every row.      *)
StatementsMeanTheChain == OwnRowsOnly /\ OneRowTerminals /\ WalksAreComplete
============================================================================
