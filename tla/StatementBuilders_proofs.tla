----------------------- MODULE StatementBuilders_proofs -----------------------
(***************************************************************************)
(* Proofs about the chains of calls on a builder: the memoised driver query,  *)
(* and the rows a statement is about, for chains of any length on every kind   *)
(* of builder, any relations and any dialects.                                *)
(***************************************************************************)
EXTENDS BuilderPromises, SharedLemmas, FiniteSetTheorems

\* The calls MemoIsFresh leaves out, and what a builder that had none of them is: its
\* memo is empty or the statement it would render.
Leaves == EditsMemo \cup {"onlyTrashed", "get", "wherePivot"}
Fields == {"dialect", "text", "terms", "params", "tail", "tailPred", "having", "built", "head", "joined",
           "pivots", "trashed", "deletedAt", "atoms"}
Plain(x) == DOMAIN x = Fields /\ x.pivots = {}
Memo(x) == Plain(x) /\ (x.built = Unbuilt \/ x.built = <<ToSQL(x)>>)
Chain(s) == \E S : s \in Seq(S)
MemoInv ==
  /\ Chain(calls)
  /\ kind = "select" /\ ~Did(Leaves) => Memo(b)

LEMMA DirtyIs ==
  ASSUME NEW x, Plain(x)
  PROVE  Memo(Dirty(x))
BY DEF Plain, Memo, Dirty, Fields

LEMMA EnsureKeeps ==
  ASSUME NEW x, Memo(x)
  PROVE  Memo(EnsureBuilt(x))
<1> DEFINE y == [x EXCEPT !.built = <<ToSQL(x)>>]
<1>1. EnsureBuilt(x) = IF x.built = Unbuilt THEN y ELSE x
  BY DEF EnsureBuilt, ToSQL
<1>2. /\ DOMAIN y = Fields /\ y.pivots = {} /\ y.built = <<ToSQL(x)>>
      /\ y.dialect = x.dialect /\ y.head = x.head /\ y.params = x.params /\ y.text = x.text /\ y.terms = x.terms
      /\ y.tail = x.tail /\ y.tailPred = x.tailPred
  BY DEF Memo, Plain, Fields
<1> HIDE DEF y
<1>3. ToSQL(y) = ToSQL(x)
  BY <1>2 DEF ToSQL, Statement, CurrentSql
<1>4. Memo(y)
  BY <1>2, <1>3 DEF Memo, Plain
<1> QED BY <1>1, <1>4

LEMMA PushKeeps ==
  ASSUME NEW x, Memo(x), NEW term, NEW k
  PROVE  Memo(PushWhere(x, term, k))
<1> DEFINE y == [x EXCEPT !.terms = Append(@, term), !.params = @ + k, !.atoms = @ + Cardinality(term.atoms)]
<1>1. Plain(y)
  BY DEF Memo, Plain, Fields
<1> HIDE DEF y
<1>2. Memo(Dirty(y))
  BY <1>1, DirtyIs
<1> QED BY <1>2 DEF PushWhere, y

LEMMA PredicateKeeps ==
  ASSUME NEW x, Memo(x), NEW conn, NEW mode, NEW n, NEW k
  PROVE  Memo(Predicate(x, conn, mode, n, k))
BY PushKeeps DEF Predicate

LEMMA JoinsKeep ==
  ASSUME NEW x, Plain(x), NEW joins
  PROVE  Memo(AddJoins(x, joins))
<1> DEFINE y == [x EXCEPT !.text = InsertJoin(@, joins), !.joined = @ \cup {joins[i].tbl : i \in DOMAIN joins}]
<1>1. Plain(y)
  BY DEF Plain, Fields
<1> HIDE DEF y
<1>2. Memo(Dirty(y))
  BY <1>1, DirtyIs
<1> QED BY <1>2 DEF AddJoins, y

\* withPivot() remembers finitely many relations, and their columns are added one relation
\* after the other.
LEMMA NamesAre ==
  ASSUME NEW S, IsFiniteSet(S)
  PROVE  Len(SetToSeq(S)) \in Nat /\ (S = {} => Len(SetToSeq(S)) = 0)
<1> DEFINE n == Cardinality(S)
           names == SetToSeq(S)
<1>1. n \in Nat /\ ExistsBijection(1 .. n, S) /\ (S = {} => n = 0)
  BY FS_CardinalityType, FS_EmptySet
<1>2. \E f \in [1 .. n -> S] : IsInjective(f)
  BY <1>1 DEF ExistsBijection, Bijection, Injection
<1>3. names \in [1 .. n -> S]
  BY <1>2 DEF SetToSeq
<1> HIDE DEF n, names
<1>4. Len(names) = n
  BY <1>1, <1>3, SeqFrom
<1> QED BY <1>1, <1>4 DEF names

ColumnTrace(g, x) ==
  LET names == SetToSeq(x.pivots)
  IN  /\ g[0] = x /\ \A n \in 1 .. Len(names) : g[n] = AddToSelectClause(g[n - 1], PivotTable(names[n]), FALSE)
      /\ ApplyPivotColumns(x) = g[Len(names)]

LEMMA PivotColumnsAreTraced ==
  ASSUME NEW x, IsFiniteSet(x.pivots)
  PROVE  \E g : ColumnTrace(g, x)
<1> DEFINE names == SetToSeq(x.pivots)
           N == Len(names)
           More(y, n) == AddToSelectClause(y, PivotTable(names[n]), FALSE)
           Steps(g) == [n \in 0 .. N |-> IF n = 0 THEN x ELSE More(g[n - 1], n)]
           Reaches(g, k) == /\ g = [n \in 0 .. k |-> g[n]] /\ g[0] = x
                            /\ \A n \in 1 .. k : g[n] = More(g[n - 1], n)
           S == {k \in 0 .. N : \E g : Reaches(g, k)}
           applied == CHOOSE g : g = Steps(g)
<1>1. ApplyPivotColumns(x) = applied[N]
  BY DEF ApplyPivotColumns
<1>2. N \in Nat
  BY NamesAre
<1>3. \A g : (g[0] = x /\ ApplyPivotColumns(x) = g[N] /\ \A n \in 1 .. N : g[n] = More(g[n - 1], n)) => ColumnTrace(g, x)
  BY DEF ColumnTrace
<1> HIDE DEF More, N
<1>4. 0 \in S
  <2> DEFINE g0 == [n \in 0 .. 0 |-> x]
  <2>1. g0 = [n \in 0 .. 0 |-> g0[n]] /\ g0[0] = x /\ \A n \in 1 .. 0 : FALSE
    OBVIOUS
  <2>2. Reaches(g0, 0)
    <3> HIDE DEF g0
    <3> QED BY <2>1
  <2>3. 0 \in 0 .. N
    BY <1>2
  <2> HIDE DEF Reaches, g0
  <2> QED BY <2>2, <2>3
<1>5. ASSUME NEW k \in 0 .. N - 1, k \in S PROVE k + 1 \in S
  <2>1. k \in Nat /\ k + 1 \in 0 .. N
    BY <1>2
  <2>2. PICK g : Reaches(g, k)
    BY <1>5
  <2> DEFINE last == More(g[k], k + 1)
             h == [n \in 0 .. k + 1 |-> IF n <= k THEN g[n] ELSE last]
  <2> HIDE DEF last
  <2>3. (\A n \in 0 .. k : n \in 0 .. k + 1 /\ n <= k) /\ k + 1 \in 0 .. k + 1 /\ ~(k + 1 <= k)
    BY <2>1
  <2>4. h = [n \in 0 .. k + 1 |-> h[n]] /\ h[k + 1] = last /\ \A n \in 0 .. k : h[n] = g[n]
    BY <2>3
  <2> HIDE DEF h
  <2>5. \A n \in 1 .. k + 1 : n = k + 1 \/ (n \in 1 .. k /\ n - 1 \in 0 .. k /\ n \in 0 .. k)
    BY <2>1
  <2>6. k + 1 - 1 = k /\ 0 \in 0 .. k /\ k \in 0 .. k
    BY <2>1
  <2>7. h[0] = x
    BY <2>2, <2>4, <2>6
  <2>8. ASSUME NEW n \in 1 .. k + 1 PROVE h[n] = More(h[n - 1], n)
    <3>1. CASE n = k + 1
      <4>1. n - 1 = k /\ h[n - 1] = g[k] /\ h[n] = last
        BY <2>4, <2>6, <3>1
      <4>2. last = More(g[k], n)
        BY <3>1 DEF last
      <4> QED BY <4>1, <4>2
    <3>2. CASE n \in 1 .. k /\ n - 1 \in 0 .. k /\ n \in 0 .. k
      <4>1. h[n] = g[n] /\ h[n - 1] = g[n - 1]
        BY <2>4, <3>2
      <4>2. g[n] = More(g[n - 1], n)
        BY <2>2, <3>2
      <4> QED BY <4>1, <4>2
    <3> QED BY <2>5, <3>1, <3>2
  <2>9. Reaches(h, k + 1)
    BY <2>4, <2>7, <2>8
  <2> HIDE DEF Reaches
  <2> QED BY <2>1, <2>9
<1>6. N \in S
  <2> HIDE DEF S
  <2>1. 0 .. N \subseteq S
    BY <1>2, <1>4, <1>5, CountingUp
  <2>2. N \in 0 .. N
    BY <1>2
  <2> QED BY <2>1, <2>2
<1>7. PICK g : Reaches(g, N)
  BY <1>6
<1>8. g = Steps(g)
  <2>1. \A n \in 0 .. N : n = 0 \/ n \in 1 .. N
    BY <1>2
  <2>2. \A n \in 0 .. N : g[n] = IF n = 0 THEN x ELSE More(g[n - 1], n)
    BY <1>7, <2>1
  <2>3. g = [n \in 0 .. N |-> g[n]]
    BY <1>7
  <2> QED BY <2>2, <2>3
<1>9. applied = Steps(applied)
  <2> HIDE DEF Steps
  <2> QED BY <1>8
<1> HIDE DEF applied
<1>10. applied[0] = x /\ \A n \in 1 .. N : applied[n] = More(applied[n - 1], n)
  <2>1. 0 \in 0 .. N /\ \A n \in 1 .. N : n \in 0 .. N /\ n # 0
    BY <1>2
  <2>2. \A n \in 0 .. N : applied[n] = IF n = 0 THEN x ELSE More(applied[n - 1], n)
    BY <1>9
  <2> QED BY <2>1, <2>2
<1>11. ColumnTrace(applied, x)
  BY <1>1, <1>3, <1>10
<1> QED BY <1>11

\* with(): one path, of one or two relations, joins what at most two hops ask for.
Walking(s) == DOMAIN s = {"b", "from", "depth", "visited", "error"}
OneHop(y, x) == y = x \/ \E from, r : y = AddJoins(x, JoinsOf(from, r))
Hops(y, x) == \E z : OneHop(z, x) /\ OneHop(y, z)

LEMMA AddJoinIs ==
  ASSUME NEW s, Walking(s), NEW name
  PROVE  Walking(AddJoin(s, name)) /\ OneHop(AddJoin(s, name).b, s.b)
<1> DEFINE r == Relation(s.from, name)
           hop == <<s.from, r.target>>
           joined == [s EXCEPT !.visited = @ \cup {hop}, !.depth = @ + 1, !.from = r.target,
                               !.b = AddJoins(@, JoinsOf(s.from, r))]
           looped == [s EXCEPT !.visited = @ \cup {hop}, !.depth = @ + 1]
<1>1. /\ AddJoin(s, name) \in {s, looped, joined, [s EXCEPT !.error = "depth"], [s EXCEPT !.depth = @ + 1],
                                [s EXCEPT !.error = "unknown"], [s EXCEPT !.error = "cycle"]}
  BY DEF AddJoin
<1>2. /\ DOMAIN joined = {"b", "from", "depth", "visited", "error"} /\ joined.b = AddJoins(s.b, JoinsOf(s.from, r))
      /\ DOMAIN looped = {"b", "from", "depth", "visited", "error"} /\ looped.b = s.b
  BY DEF Walking
<1>3. /\ Walking(joined) /\ OneHop(joined.b, s.b)
      /\ Walking(looped) /\ OneHop(looped.b, s.b)
  BY <1>2 DEF Walking, OneHop
<1>4. ASSUME NEW why PROVE Walking([s EXCEPT !.error = why]) /\ [s EXCEPT !.error = why].b = s.b
  BY DEF Walking
<1>5. Walking([s EXCEPT !.depth = @ + 1]) /\ [s EXCEPT !.depth = @ + 1].b = s.b
  BY DEF Walking
<1> HIDE DEF joined, looped
<1> QED BY <1>1, <1>3, <1>4, <1>5 DEF OneHop

LEMMA WalkIs ==
  ASSUME NEW s, Walking(s), NEW path, Len(path) \in {1, 2}
  PROVE  Hops(Walk(s, path).b, s.b)
<1> DEFINE N == Len(path)
           s0 == [s EXCEPT !.from = Root, !.depth = 0]
           s1 == AddJoin(s0, path[1])
           s2 == AddJoin(s1, path[2])
           Steps(g) == [n \in 0 .. N |-> IF n = 0 THEN s0 ELSE AddJoin(g[n - 1], path[n])]
           t == [n \in 0 .. N |-> IF n = 0 THEN s0 ELSE IF n = 1 THEN s1 ELSE s2]
           reached == CHOOSE g : g = Steps(g)
<1>1. Hops(s1.b, s.b) /\ Hops(s2.b, s.b)
  <2>1. Walking(s0) /\ s0.b = s.b
    BY DEF Walking
  <2> HIDE DEF s0
  <2>2. Walking(s1) /\ OneHop(s1.b, s.b)
    BY <2>1, AddJoinIs
  <2> HIDE DEF s1
  <2>3. OneHop(s2.b, s1.b)
    BY <2>2, AddJoinIs
  <2> QED BY <2>2, <2>3 DEF Hops, OneHop
<1>2. Walk(s, path) = reached[N]
  BY DEF Walk
<1> HIDE DEF s0
<1>3. t = Steps(t)
  <2>1. \A n \in 0 .. N : n \in {0, 1, 2} /\ (n # 0 => n - 1 \in 0 .. N)
    <3>1. N \in {1, 2}
      OBVIOUS
    <3> HIDE DEF N
    <3>2. \A n \in 0 .. N : n \in Int /\ 0 <= n /\ n <= N
      BY <3>1
    <3>3. \A n \in 0 .. N : n \in {0, 1, 2}
      BY <3>1, <3>2
    <3> QED BY <3>1, <3>2, <3>3
  <2>2. \A n \in 0 .. N : t[n] = IF n = 0 THEN s0 ELSE AddJoin(t[n - 1], path[n])
    <3> SUFFICES ASSUME NEW n \in 0 .. N PROVE t[n] = IF n = 0 THEN s0 ELSE AddJoin(t[n - 1], path[n])
      OBVIOUS
    <3>1. CASE n = 0
      BY <3>1
    <3>2. CASE n = 1
      BY <3>2, <2>1
    <3>3. CASE n = 2
      BY <3>3, <2>1
    <3> QED BY <2>1, <3>1, <3>2, <3>3
  <2>3. t = [n \in 0 .. N |-> t[n]]
    OBVIOUS
  <2> HIDE DEF t
  <2> QED BY <2>2, <2>3
<1>4. reached = Steps(reached)
  <2> HIDE DEF Steps, t
  <2> QED BY <1>3
<1>5. reached[N] = s1 \/ reached[N] = s2
  <2> HIDE DEF reached
  <2>1. reached[0] = s0
    BY <1>4
  <2>2. reached[1] = s1
    BY <1>4, <2>1
  <2>3. N = 2 => reached[2] = s2
    BY <1>4, <2>2
  <2> QED BY <2>2, <2>3
<1> QED BY <1>1, <1>2, <1>5

LEMMA WithIs ==
  ASSUME NEW x, NEW path, Len(path) \in {1, 2}
  PROVE  \E y : Hops(y, x) /\ With(x, <<path>>).b \in {y, Dirty(ApplyPivotColumns(y))}
<1> DEFINE paths == <<path>>
           start == [b |-> x, from |-> Root, depth |-> 0, visited |-> {}, error |-> "none"]
           Steps(g) == [n \in 0 .. Len(paths) |-> IF n = 0 THEN start ELSE Walk(g[n - 1], paths[n])]
           end == Walk(start, path)
           t == [n \in 0 .. Len(paths) |-> IF n = 0 THEN start ELSE end]
           walked == CHOOSE g : g = Steps(g)
<1>1. Hops(end.b, x)
  <2>1. Walking(start) /\ start.b = x
    BY DEF Walking
  <2> HIDE DEF start
  <2> QED BY <2>1, WalkIs
<1>2. With(x, paths) = IF walked[Len(paths)].error # "none" THEN [b |-> walked[Len(paths)].b, error |-> walked[Len(paths)].error]
                       ELSE [b |-> Dirty(ApplyPivotColumns(walked[Len(paths)].b)), error |-> "none"]
  BY DEF With
<1>3. walked[Len(paths)] = end
  <2> HIDE DEF start
  <2>1. t = Steps(t)
    OBVIOUS
  <2>2. walked = Steps(walked)
    <3> HIDE DEF Steps, t
    <3> QED BY <2>1
  <2> HIDE DEF walked
  <2>3. walked[0] = start
    BY <2>2
  <2> QED BY <2>2, <2>3
<1> HIDE DEF walked, end
<1>4. With(x, paths).b \in {end.b, Dirty(ApplyPivotColumns(end.b))}
  BY <1>2, <1>3
<1> QED BY <1>1, <1>4

LEMMA WithKeeps ==
  ASSUME NEW x, Memo(x), NEW path, Len(path) \in {1, 2}
  PROVE  Memo(With(x, <<path>>).b)
<1>1. PICK y : Hops(y, x) /\ With(x, <<path>>).b \in {y, Dirty(ApplyPivotColumns(y))}
  BY WithIs
<1>2. Memo(y)
  <2>1. \A z : Memo(z) => \A t : OneHop(t, z) => Memo(t)
    BY JoinsKeep DEF OneHop, Memo
  <2> QED BY <1>1, <2>1 DEF Hops
<1>3. ApplyPivotColumns(y) = y
  <2>1. y.pivots = {} /\ IsFiniteSet(y.pivots) /\ Len(SetToSeq(y.pivots)) = 0
    BY <1>2, FS_EmptySet, NamesAre DEF Memo, Plain
  <2>2. PICK g : ColumnTrace(g, y)
    BY <2>1, PivotColumnsAreTraced
  <2> QED BY <2>1, <2>2 DEF ColumnTrace
<1>4. Memo(Dirty(y))
  BY <1>2, DirtyIs DEF Memo
<1> QED BY <1>1, <1>2, <1>3, <1>4

\* A call, and what a chain that still leaves out the calls above had before it.
LEMMA Called ==
  ASSUME NEW k, NEW name, Chain(calls), May(k, name)
  PROVE  /\ Chain(calls') /\ kind' = kind /\ kind = k
         /\ ~Did(Leaves)' => ~Did(Leaves) /\ name \notin Leaves
<1>1. calls' = Append(calls, name) /\ kind' = kind /\ kind = k
  BY DEF May
<1>2. PICK S : calls \in Seq(S)
  BY DEF Chain
<1> DEFINE now == calls'
           T == S \cup {name}
<1>3. calls \in Seq(T) /\ name \in T
  BY <1>2
<1>4. now \in Seq(T) /\ Len(now) = Len(calls) + 1 /\ \A i \in 1 .. Len(now) : now[i] = IF i <= Len(calls) THEN calls[i] ELSE name
  <2> HIDE DEF T
  <2> QED BY <1>1, <1>3
<1>5. Chain(now)
  BY <1>4 DEF Chain
<1>6. Len(calls) \in Nat /\ DOMAIN calls = 1 .. Len(calls) /\ DOMAIN now = 1 .. Len(now)
  <2> HIDE DEF T, now
  <2> QED BY <1>3, <1>4
<1> HIDE DEF now
<1>7. ASSUME ~\E i \in DOMAIN now : now[i] \in Leaves PROVE ~Did(Leaves) /\ name \notin Leaves
  <2>1. Len(calls) + 1 \in DOMAIN now /\ now[Len(calls) + 1] = name
    BY <1>4, <1>6
  <2>2. \A i \in DOMAIN calls : i \in DOMAIN now /\ now[i] = calls[i]
    BY <1>4, <1>6
  <2> QED BY <1>7, <2>1, <2>2 DEF Did
<1> QED BY <1>1, <1>5, <1>7 DEF Did, now

\* The calls that record a condition.
LEMMA WhereKeeps ==
  ASSUME Memo(b), \/ CallWhere \/ CallBooleanWhere \/ CallWhereNull \/ CallWhereValue \/ CallWhereColumns
                  \/ CallWhereIn \/ CallDynamicWhere \/ CallWhereHas
  PROVE  Memo(b')
<1> USE DEF Filter, Shape, AskMember
<1>1. CASE CallWhere \/ CallBooleanWhere \/ CallWhereNull
  BY <1>1, PredicateKeeps DEF CallWhere, CallBooleanWhere, CallWhereNull, Where, AddBooleanWhere, WhereNull, WhereRaw
<1>2. CASE CallWhereValue
  BY <1>2, PredicateKeeps DEF CallWhereValue, WhereBetween, WhereLike, WhereNotBetween, WhereDate, WhereJsonPath, WhereJsonContains
<1>3. CASE CallWhereColumns
  BY <1>3, PredicateKeeps DEF CallWhereColumns, WhereAny, WhereAll, WhereNone
<1>4. CASE CallWhereIn
  BY <1>4, PredicateKeeps DEF CallWhereIn, WhereIn
<1>5. CASE CallDynamicWhere
  BY <1>5, PredicateKeeps DEF CallDynamicWhere, DynamicWhere
<1>6. CASE CallWhereHas
  BY <1>6, PredicateKeeps DEF CallWhereHas, WhereHas, WhereDoesntHave
<1> QED BY <1>1, <1>2, <1>3, <1>4, <1>5, <1>6

LEMMA SubqueryKeeps ==
  ASSUME Memo(b), CallWhereSubquery \/ CallWhereGroup
  PROVE  Memo(b')
<1>1. CASE CallWhereSubquery
  BY <1>1, PushKeeps DEF CallWhereSubquery, Filter, WhereSubquery
<1>2. CASE CallWhereGroup
  BY <1>2, PushKeeps DEF CallWhereGroup, Filter, AddWhereGroup
<1> QED BY <1>1, <1>2

\* The calls that shape the statement all forget the memo.
LEMMA ColumnsKeep ==
  ASSUME Memo(b), CallColumns \/ CallSelect
  PROVE  Memo(b')
<1> DEFINE Listing(h) == [b EXCEPT !.head = h]
<1>1. \A h : Memo(Dirty(Listing(h)))
  <2>1. \A h : Plain(Listing(h))
    BY DEF Memo, Plain, Fields
  <2> HIDE DEF Listing
  <2> QED BY <2>1, DirtyIs
<1>2. \E h : b' = Dirty(Listing(h))
  <2>1. \E h : Distinct(b) = Dirty(Listing(h))
    BY DEF Distinct
  <2>2. \A col, subquery : \E h : SelectRaw(b, col, subquery) = Dirty(Listing(h))
    BY DEF SelectRaw
  <2>3. (\E h : RankedColumn(b) = Dirty(Listing(h))) /\ \A col : \E h : AddSelect(b, col) = Dirty(Listing(h))
    BY DEF RankedColumn, AddSelect
  <2>4. (\A col : \E h : Select(b, col) = Dirty(Listing(h))) /\ \E h : SelectAllRelations(b) = Dirty(Listing(h))
    BY DEF Select, SelectAllRelations
  <2> HIDE DEF Listing
  <2> QED BY <2>1, <2>2, <2>3, <2>4 DEF CallColumns, CallSelect, Shape
<1> QED BY <1>1, <1>2

LEMMA ClausesKeep ==
  ASSUME Memo(b), CallGroupBy \/ CallOrderBy \/ CallReorder \/ CallLimit \/ CallOffset \/ CallForPage \/ CallLock
  PROVE  Memo(b')
<1> DEFINE Text(t) == [b EXCEPT !.text = t]
<1>1. \A t : Memo(Dirty(Text(t)))
  <2>1. \A t : Plain(Text(t))
    BY DEF Memo, Plain, Fields
  <2> HIDE DEF Text
  <2> QED BY <2>1, DirtyIs
<1>2. \E t : b' = Dirty(Text(t))
  BY DEF CallGroupBy, CallOrderBy, CallReorder, CallLimit, CallOffset, CallForPage, CallLock, Shape,
         GroupBy, OrderBy, ReorderBy, Limit, Offset, ForPage, LockForUpdate
<1> QED BY <1>1, <1>2

LEMMA HavingKeeps ==
  ASSUME Memo(b), CallHaving \/ CallHavingRaw \/ CallCTE \/ CallSetOp
  PROVE  Memo(b')
<1>1. ASSUME NEW y, DOMAIN y = DOMAIN b, y.pivots = b.pivots PROVE Memo(Dirty(y))
  BY <1>1, DirtyIs DEF Memo, Plain
<1>2. ASSUME NEW k PROVE Memo(Having(b, k))
  <2> DEFINE token == [Token(IF b.having THEN "AND" ELSE "HAVING") EXCEPT !.of = "HAVING", !.ph = GetPlaceholders(b, k)]
             y == [b EXCEPT !.text = Append(@, token), !.having = TRUE, !.params = @ + k]
  <2>1. DOMAIN y = DOMAIN b /\ y.pivots = b.pivots /\ Having(b, k) = Dirty(y)
    BY DEF Memo, Plain, Fields, Having
  <2> HIDE DEF y
  <2> QED BY <1>1, <2>1
<1>3. ASSUME NEW words, NEW k PROVE Memo(WithCTE(b, words, k))
  <2> DEFINE cte == [Token("CTE") EXCEPT !.inner = words, !.ph = LostPlaceholders(b, k)]
             y == [b EXCEPT !.text = <<cte>> \o @, !.head.cte = TRUE, !.head.inner = TRUE]
  <2>1. DOMAIN y = DOMAIN b /\ y.pivots = b.pivots /\ WithCTE(b, words, k) = Dirty(y)
    BY DEF Memo, Plain, Fields, WithCTE
  <2> HIDE DEF y
  <2> QED BY <1>1, <2>1
<1>4. ASSUME NEW kw, NEW other PROVE Memo(AppendSetOp(b, kw, other))
  <2> DEFINE Y(text, pred, n, m) == [b EXCEPT !.text = text, !.terms = <<>>, !.tail = TRUE, !.tailPred = pred,
                                              !.params = n, !.atoms = m]
  <2>1. \A text, pred, n, m : DOMAIN Y(text, pred, n, m) = DOMAIN b /\ Y(text, pred, n, m).pivots = b.pivots
    BY DEF Memo, Plain, Fields
  <2>2. \E text, pred, n, m : AppendSetOp(b, kw, other) = Dirty(Y(text, pred, n, m))
    BY DEF AppendSetOp
  <2> HIDE DEF Y
  <2> QED BY <1>1, <2>1, <2>2
<1>5. CASE CallHaving \/ CallHavingRaw
  BY <1>2, <1>5 DEF CallHaving, CallHavingRaw, HavingRaw, Shape
<1>6. CASE CallCTE
  BY <1>3, <1>6 DEF CallCTE, Shape
<1>7. CASE CallSetOp
  <2>1. \E kw, other : b' = AppendSetOp(b, kw, other)
    BY <1>7 DEF CallSetOp
  <2> QED BY <1>4, <2>1
<1> QED BY <1>5, <1>6, <1>7

LEMMA RelationsKeep ==
  ASSUME Memo(b), CallJoin \/ CallJoinSub \/ CallWith
  PROVE  Memo(b')
<1>1. Plain(b)
  BY DEF Memo
<1>2. CASE CallJoin \/ CallJoinSub
  BY <1>1, <1>2, JoinsKeep DEF CallJoin, CallJoinSub, Join, JoinSub, Shape
<1>3. CASE CallWith
  <2>1. PICK path \in Paths : b' = With(b, <<path>>).b
    BY <1>3 DEF CallWith, Shape
  <2>2. Len(path) \in {1, 2}
    BY DEF Paths
  <2> QED BY <2>1, <2>2, WithKeeps
<1> QED BY <1>2, <1>3

\* What a call that sends makes of the memo, and withTrashed(), of which no statement tells.
LEMMA SendsKeep ==
  ASSUME Memo(b), \/ SendMemo \/ SendOneRow \/ SendPage \/ SendKey \/ SendAggregate \/ SendText \/ CallWithTrashed
  PROVE  Memo(b')
<1>1. CASE CallWithTrashed
  <2> DEFINE y == [b EXCEPT !.trashed = "with"]
  <2>1. /\ DOMAIN y = DOMAIN b /\ y.pivots = b.pivots /\ y.built = b.built
        /\ y.dialect = b.dialect /\ y.head = b.head /\ y.params = b.params /\ y.text = b.text /\ y.terms = b.terms
        /\ y.tail = b.tail /\ y.tailPred = b.tailPred
    BY DEF Memo, Plain, Fields
  <2> HIDE DEF y
  <2>2. ToSQL(y) = ToSQL(b)
    BY <2>1 DEF ToSQL, Statement, CurrentSql
  <2>3. b' = y
    BY <1>1 DEF CallWithTrashed, Shape, WithTrashed, y
  <2> QED BY <2>1, <2>2, <2>3 DEF Memo, Plain
<1>2. CASE SendMemo \/ SendOneRow \/ SendPage \/ SendKey \/ SendAggregate \/ SendText
  <2>1. b' = EnsureBuilt(b) \/ b' = b
    BY <1>2 DEF SendMemo, SendOneRow, SendPage, SendKey, SendAggregate, SendText, Send
  <2> QED BY <2>1, EnsureKeeps
<1> QED BY <1>1, <1>2

LEMMA MemoInvInit ==
  ASSUME Init
  PROVE  MemoInv
<1>1. Chain(calls)
  <2>1. calls = <<>> /\ calls \in Seq({})
    BY DEF Init
  <2> QED BY <2>1 DEF Chain
<1>2. ASSUME kind = "select" PROVE Memo(b)
  <2>1. \E d \in Dialects : b = MakeSelect(d)
    BY <1>2, Zenon DEF Init
  <2>2. PICK d : b = MakeSelect(d)
    BY <2>1
  <2> QED BY <2>2 DEF MakeSelect, Memo, Plain, Fields, Unbuilt
<1> QED BY <1>1, <1>2 DEF MemoInv

LEMMA MemoInvNext ==
  ASSUME MemoInv, [Next]_vars
  PROVE  MemoInv'
<1>1. Chain(calls) /\ (kind = "select" /\ ~Did(Leaves) => Memo(b))
  BY DEF MemoInv
<1>2. ASSUME NEW k, NEW name, May(k, name), k # "select" \/ name \in Leaves
      PROVE  MemoInv'
  BY <1>1, <1>2, Called DEF MemoInv
<1>3. ASSUME NEW name, May("select", name), Memo(b) => Memo(b')
      PROVE  MemoInv'
  <2>1. /\ Chain(calls') /\ kind' = kind /\ kind = "select"
        /\ ~Did(Leaves)' => ~Did(Leaves) /\ name \notin Leaves
    BY <1>1, <1>3, Called
  <2>2. kind' = "select" /\ ~Did(Leaves)' => Memo(b')
    BY <1>1, <1>3, <2>1
  <2> QED BY <2>1, <2>2 DEF MemoInv, Memo, Plain
<1>4. CASE \/ CallWhere \/ CallBooleanWhere \/ CallWhereNull \/ CallWhereValue \/ CallWhereColumns
           \/ CallWhereIn \/ CallDynamicWhere \/ CallWhereHas
  <2>1. \E name : May("select", name)
    BY <1>4 DEF CallWhere, CallBooleanWhere, CallWhereNull, CallWhereValue, CallWhereColumns, CallWhereIn,
                CallDynamicWhere, CallWhereHas
  <2> QED BY <1>3, <1>4, <2>1, WhereKeeps
<1>5. CASE CallWhereSubquery \/ CallWhereGroup
  <2>1. \E name : May("select", name)
    BY <1>5 DEF CallWhereSubquery, CallWhereGroup
  <2> QED BY <1>3, <1>5, <2>1, SubqueryKeeps
<1>6. CASE CallColumns \/ CallSelect
  <2>1. \E name : May("select", name)
    BY <1>6 DEF CallColumns, CallSelect
  <2> QED BY <1>3, <1>6, <2>1, ColumnsKeep
<1>7. CASE CallGroupBy \/ CallOrderBy \/ CallReorder \/ CallLimit \/ CallOffset \/ CallForPage \/ CallLock
  <2>1. \E name : May("select", name)
    BY <1>7 DEF CallGroupBy, CallOrderBy, CallReorder, CallLimit, CallOffset, CallForPage, CallLock
  <2> QED BY <1>3, <1>7, <2>1, ClausesKeep
<1>8. CASE CallHaving \/ CallHavingRaw \/ CallCTE \/ CallSetOp
  <2>1. \E name : May("select", name)
    BY <1>8 DEF CallHaving, CallHavingRaw, CallCTE, CallSetOp
  <2> QED BY <1>3, <1>8, <2>1, HavingKeeps
<1>9. CASE CallJoin \/ CallJoinSub \/ CallWith
  <2>1. \E name : May("select", name)
    BY <1>9 DEF CallJoin, CallJoinSub, CallWith
  <2> QED BY <1>3, <1>9, <2>1, RelationsKeep
<1>10. CASE \/ SendMemo \/ SendOneRow \/ SendPage \/ SendKey \/ SendAggregate \/ SendText \/ CallWithTrashed
  <2>1. \E name : May("select", name)
    BY <1>10 DEF SendMemo, SendOneRow, SendPage, SendKey, SendAggregate, SendText, CallWithTrashed
  <2> QED BY <1>3, <1>10, <2>1, SendsKeep
<1>11. CASE CallWindow \/ CallWithCount \/ CallWithPivot \/ CallOnlyTrashed \/ SendGet \/ CallWherePivot
  <2>1. \E name \in Leaves : May("select", name)
    BY <1>11 DEF CallWindow, CallWithCount, CallWithPivot, CallOnlyTrashed, SendGet, CallWherePivot, Leaves, EditsMemo
  <2> QED BY <1>2, <2>1
<1>12. CASE SubNext \/ WriteNext
  <2>1. \E k \in {"sub", "insert", "update", "delete"} : \E name : May(k, name)
    BY <1>12 DEF SubNext, WriteNext, CallSubWhere, CallSubWhereIn, CallSubWhereUnread, CallSubWhereGroup, CallSubShape,
         CallSubUnsupported, SendSub, CallValues, SendInsert, CallSet, CallUpdateWhere, SendUpdate, SendUpdateFound,
         CallDeleteWhere, SendDelete
  <2> QED BY <1>2, <2>1
<1>13. CASE UNCHANGED vars
  BY <1>1, <1>13 DEF vars, MemoInv, Did, Memo, Plain
<1>14. CASE SelectNext
  BY <1>4, <1>5, <1>6, <1>7, <1>8, <1>9, <1>10, <1>11, <1>14 DEF SelectNext
<1> QED BY <1>12, <1>13, <1>14 DEF Next, Done

\* The memo is the statement that would be rendered now (ensureBuilt and the calls of
\* client.ts that reset it), for chains of any length over any relations.
THEOREM MemoStaysFresh == Spec => []MemoIsFresh
<1>1. Init => MemoInv
  BY MemoInvInit
<1>2. MemoInv /\ [Next]_vars => MemoInv'
  BY MemoInvNext
<1>3. MemoInv => MemoIsFresh
  <2> SUFFICES ASSUME MemoInv, kind = "select", b.built # Unbuilt, ~Did(Leaves)
               PROVE  b.built[1] = ToSQL(b)
    BY DEF MemoIsFresh, Leaves, Did
  <2>1. b.built = <<ToSQL(b)>>
    BY DEF MemoInv, Memo
  <2> HIDE DEF Leaves
  <2> QED BY <2>1
<1> QED BY <1>1, <1>2, <1>3, PTL DEF Spec

----------------------------------------------------------------------------
(* The WHERE a text prints, one token at a time.  A text is a sequence over a  *)
(* set S of tokens whose predicates are pieces of a set P.                    *)
Prints(S, P) == \A t \in S : t.of = "WHERE" => t.body \in Seq(P)
Bodies(P) == {f \in Seq(Seq(P)) : f # <<>>}

LEMMA PiecesType ==
  ASSUME NEW S, NEW P, Prints(S, P), NEW f \in Bodies(P), NEW t \in S
  PROVE  WithPieces(f, t) \in Bodies(P)
<1> DEFINE B == Seq(P)
           n == Len(f)
<1>1. f \in Seq(B) /\ f # <<>> /\ <<>> \in B
  BY DEF Bodies
<1>2. n \in Nat /\ n # 0 /\ n \in 1 .. n /\ f[n] \in B /\ f \in [1 .. n -> B]
  <2> HIDE DEF B
  <2> QED BY <1>1, SeqShape
<1>3. CASE t.kw \in SetOperators
  <2>1. WithPieces(f, t) = Append(f, <<>>)
    BY <1>3 DEF WithPieces
  <2> HIDE DEF B
  <2>2. Append(f, <<>>) \in Seq(B) /\ Append(f, <<>>) # <<>>
    BY <1>1, AppendProperties
  <2> QED BY <2>1, <2>2 DEF Bodies, B
<1>4. CASE t.kw \notin SetOperators /\ t.of = "WHERE"
  <2> DEFINE w == [f EXCEPT ![n] = @ \o t.body]
  <2>1. WithPieces(f, t) = w
    BY <1>4 DEF WithPieces
  <2>2. f[n] \o t.body \in B
    BY <1>2, <1>4 DEF Prints
  <2> HIDE DEF B, n
  <2>3. w \in [1 .. n -> B]
    BY <1>2, <2>2
  <2> HIDE DEF w
  <2>4. w \in Seq(B) /\ Len(w) = n
    BY <1>2, <2>3, SeqFrom
  <2>5. w # <<>>
    BY <1>2, <2>4, SeqShape
  <2> QED BY <2>1, <2>4, <2>5 DEF Bodies, B
<1>5. CASE t.kw \notin SetOperators /\ t.of # "WHERE"
  BY <1>5 DEF WithPieces
<1> QED BY <1>3, <1>4, <1>5

FilterTrace(g, text) ==
  /\ g[0] = <<<<>>>> /\ \A n \in 1 .. Len(text) : g[n] = WithPieces(g[n - 1], text[n])
  /\ Filters(text) = g[Len(text)]

LEMMA FiltersAreTraced ==
  ASSUME NEW S, NEW P, Prints(S, P), NEW text \in Seq(S)
  PROVE  \E g : FilterTrace(g, text) /\ \A n \in 0 .. Len(text) : g[n] \in Bodies(P)
<1> DEFINE N == Len(text)
           V == Bodies(P)
           v0 == <<<<>>>>
           step == [n \in 1 .. N |-> [f \in V |-> WithPieces(f, text[n])]]
           Grows(g) == [n \in 0 .. N |-> IF n = 0 THEN v0 ELSE WithPieces(g[n - 1], text[n])]
<1>1. N \in Nat /\ \A n \in 1 .. N : text[n] \in S
  OBVIOUS
<1>2. v0 \in V
  <2>1. <<>> \in Seq(P)
    OBVIOUS
  <2> DEFINE B == Seq(P)
  <2> HIDE DEF B
  <2>2. <<<<>>>> \in Seq(B) /\ <<<<>>>> # <<>>
    BY <2>1 DEF B
  <2> QED BY <2>2 DEF B, Bodies
<1>3. step \in [1 .. N -> [V -> V]] /\ \A n \in 1 .. N, f \in V : step[n][f] = WithPieces(f, text[n])
  <2>1. \A n \in 1 .. N, f \in V : WithPieces(f, text[n]) \in V
    BY <1>1, PiecesType
  <2> HIDE DEF V
  <2> QED BY <2>1
<1> HIDE DEF step, V, v0
<1>4. \E t : TraceOf(t, N, V, v0, step)
  <2>1. Stepwise(N, V, v0, step)
    BY <1>1, <1>2, <1>3 DEF Stepwise
  <2> HIDE DEF N
  <2> QED BY <2>1, StepByStep
<1>5. PICK t \in [0 .. N -> V] : t[0] = v0 /\ \A n \in 1 .. N : t[n] = step[n][t[n - 1]]
  BY <1>4 DEF TraceOf
<1>6. \A n \in 1 .. N : n - 1 \in 0 .. N /\ t[n - 1] \in V
  <2>1. N \in Nat
    BY <1>1
  <2> HIDE DEF N
  <2>2. \A n \in 1 .. N : n - 1 \in 0 .. N
    BY <2>1
  <2> QED BY <1>5, <2>2
<1>7. \A n \in 1 .. N : t[n] = WithPieces(t[n - 1], text[n])
  BY <1>3, <1>5, <1>6
<1>8. t = Grows(t)
  <2>1. \A n \in 0 .. N : n = 0 \/ n \in 1 .. N
    BY <1>1
  <2>2. \A n \in 0 .. N : t[n] = IF n = 0 THEN v0 ELSE WithPieces(t[n - 1], text[n])
    BY <1>5, <1>7, <2>1
  <2> QED BY <1>5, <2>2
<1> DEFINE said == CHOOSE g : g = Grows(g)
<1>9. said = Grows(said)
  BY <1>8
<1>10. Filters(text) = said[N]
  BY DEF Filters, v0
<1> HIDE DEF said
<1>11. said[0] = v0 /\ \A n \in 1 .. N : said[n] = WithPieces(said[n - 1], text[n])
  <2>1. 0 \in 0 .. N /\ \A n \in 1 .. N : n \in 0 .. N /\ n # 0
    BY <1>1
  <2>2. \A n \in 0 .. N : said[n] = IF n = 0 THEN v0 ELSE WithPieces(said[n - 1], text[n])
    BY ONLY <1>9
  <2> QED BY <2>1, <2>2
<1>12. \A n \in 0 .. N : said[n] \in V
  <2>1. \A n \in 1 .. N : said[n - 1] \in V => said[n] \in V
    BY <1>1, <1>11, PiecesType DEF V
  <2> HIDE DEF N
  <2> QED BY <1>1, <1>2, <1>11, <2>1, TracesStay
<1>13. FilterTrace(said, text)
  BY <1>10, <1>11 DEF FilterTrace, v0
<1> QED BY <1>12, <1>13 DEF V

LEMMA FiltersGrow ==
  ASSUME NEW S, NEW P, Prints(S, P), NEW text \in Seq(S), NEW t \in S
  PROVE  Filters(Append(text, t)) = WithPieces(Filters(text), t) /\ Filters(text) \in Bodies(P)
<1> DEFINE N == Len(text)
           more == Append(text, t)
<1>1. N \in Nat /\ more \in Seq(S) /\ Len(more) = N + 1 /\ more[N + 1] = t /\ \A n \in 1 .. N : more[n] = text[n]
  BY AppendProperties
<1>2. PICK g : FilterTrace(g, text) /\ \A n \in 0 .. N : g[n] \in Bodies(P)
  BY FiltersAreTraced
<1> HIDE DEF more
<1>3. PICK h : FilterTrace(h, more)
  BY <1>1, FiltersAreTraced
<1>4. /\ g[0] = <<<<>>>> /\ (\A n \in 1 .. N : g[n] = WithPieces(g[n - 1], text[n])) /\ Filters(text) = g[N]
      /\ h[0] = <<<<>>>> /\ (\A n \in 1 .. N + 1 : h[n] = WithPieces(h[n - 1], more[n])) /\ Filters(more) = h[N + 1]
  BY <1>1, <1>2, <1>3 DEF FilterTrace
<1> HIDE DEF N
<1>5. g[N] = h[N]
  <2>1. \A n \in 1 .. N : n \in 1 .. N + 1
    BY <1>1
  <2>2. \A n \in 1 .. N : g[n - 1] = h[n - 1] => g[n] = h[n]
    BY <1>1, <1>4, <2>1
  <2>3. N \in Nat /\ g[0] = h[0]
    BY <1>1, <1>4
  <2> QED BY ONLY <2>2, <2>3, TracesMeet
<1>6. N \in 0 .. N /\ N + 1 \in 1 .. N + 1 /\ (N + 1) - 1 = N
  BY <1>1
<1>7. h[N + 1] = WithPieces(h[N], more[N + 1])
  BY <1>4, <1>6
<1> QED BY <1>1, <1>2, <1>4, <1>5, <1>6, <1>7 DEF more, N

LEMMA FiltersBegin == Filters(<<>>) = <<<<>>>>
<1>1. PICK g : FilterTrace(g, <<>>)
  <2>1. <<>> \in Seq({}) /\ Prints({}, {})
    BY DEF Prints
  <2> QED BY <2>1, FiltersAreTraced
<1> QED BY <1>1 DEF FilterTrace

----------------------------------------------------------------------------
(* computeReorderedClauses, one token at a time.                              *)
FragmentKeys == ReorderKeywords \cup {BaseText}
NoFragments == [key |-> BaseText, fragments |-> [key \in FragmentKeys |-> <<>>]]
Cuts(S) == [key : FragmentKeys, fragments : [FragmentKeys -> Seq(S)]]

LEMMA FragmentType ==
  ASSUME NEW S, NEW cut \in Cuts(S), NEW t \in S
  PROVE  WithFragment(cut, t) \in Cuts(S)
<1> DEFINE key == IF t.kw \in ReorderKeywords THEN t.kw ELSE cut.key
           of == [cut.fragments EXCEPT ![key] = Append(@, t)]
<1>1. key \in FragmentKeys /\ cut.fragments \in [FragmentKeys -> Seq(S)]
  BY DEF Cuts, FragmentKeys
<1> HIDE DEF key
<1>2. Append(cut.fragments[key], t) \in Seq(S)
  BY <1>1
<1>3. of \in [FragmentKeys -> Seq(S)]
  BY <1>1, <1>2
<1>4. WithFragment(cut, t) = [key |-> key, fragments |-> of]
  BY DEF WithFragment, key
<1> HIDE DEF of
<1> QED BY <1>1, <1>3, <1>4 DEF Cuts

CutTrace(g, text) ==
  /\ g[0] = NoFragments /\ \A n \in 1 .. Len(text) : g[n] = WithFragment(g[n - 1], text[n])
  /\ Fragments(text) = g[Len(text)]

LEMMA CutsAreTraced ==
  ASSUME NEW S, NEW text \in Seq(S)
  PROVE  \E g : CutTrace(g, text) /\ \A n \in 0 .. Len(text) : g[n] \in Cuts(S)
<1> DEFINE N == Len(text)
           V == Cuts(S)
           v0 == NoFragments
           step == [n \in 1 .. N |-> [f \in V |-> WithFragment(f, text[n])]]
           Grows(g) == [n \in 0 .. N |-> IF n = 0 THEN v0 ELSE WithFragment(g[n - 1], text[n])]
<1>1. N \in Nat /\ \A n \in 1 .. N : text[n] \in S
  OBVIOUS
<1>2. v0 \in V
  BY DEF NoFragments, Cuts, FragmentKeys
<1>3. step \in [1 .. N -> [V -> V]] /\ \A n \in 1 .. N, f \in V : step[n][f] = WithFragment(f, text[n])
  <2>1. \A n \in 1 .. N, f \in V : WithFragment(f, text[n]) \in V
    BY <1>1, FragmentType
  <2> HIDE DEF V
  <2> QED BY <2>1
<1> HIDE DEF step, V, v0
<1>4. \E t : TraceOf(t, N, V, v0, step)
  <2>1. Stepwise(N, V, v0, step)
    BY <1>1, <1>2, <1>3 DEF Stepwise
  <2> HIDE DEF N
  <2> QED BY <2>1, StepByStep
<1>5. PICK t \in [0 .. N -> V] : t[0] = v0 /\ \A n \in 1 .. N : t[n] = step[n][t[n - 1]]
  BY <1>4 DEF TraceOf
<1>6. \A n \in 1 .. N : n - 1 \in 0 .. N /\ t[n - 1] \in V
  <2>1. N \in Nat
    BY <1>1
  <2> HIDE DEF N
  <2>2. \A n \in 1 .. N : n - 1 \in 0 .. N
    BY <2>1
  <2> QED BY <1>5, <2>2
<1>7. \A n \in 1 .. N : t[n] = WithFragment(t[n - 1], text[n])
  BY <1>3, <1>5, <1>6
<1>8. t = Grows(t)
  <2>1. \A n \in 0 .. N : n = 0 \/ n \in 1 .. N
    BY <1>1
  <2>2. \A n \in 0 .. N : t[n] = IF n = 0 THEN v0 ELSE WithFragment(t[n - 1], text[n])
    BY <1>5, <1>7, <2>1
  <2> QED BY <1>5, <2>2
<1> DEFINE cuts == CHOOSE g : g = Grows(g)
<1>9. cuts = Grows(cuts)
  BY <1>8
<1>10. Fragments(text) = cuts[N]
  BY DEF Fragments, v0, NoFragments, FragmentKeys
<1> HIDE DEF cuts
<1>11. cuts[0] = v0 /\ \A n \in 1 .. N : cuts[n] = WithFragment(cuts[n - 1], text[n])
  <2>1. 0 \in 0 .. N /\ \A n \in 1 .. N : n \in 0 .. N /\ n # 0
    BY <1>1
  <2>2. \A n \in 0 .. N : cuts[n] = IF n = 0 THEN v0 ELSE WithFragment(cuts[n - 1], text[n])
    BY ONLY <1>9
  <2> QED BY <2>1, <2>2
<1>12. \A n \in 0 .. N : cuts[n] \in V
  <2>1. \A n \in 1 .. N : cuts[n - 1] \in V => cuts[n] \in V
    BY <1>1, <1>11, FragmentType DEF V
  <2> HIDE DEF N
  <2> QED BY <1>1, <1>2, <1>11, <2>1, TracesStay
<1>13. CutTrace(cuts, text)
  BY <1>10, <1>11 DEF CutTrace, v0
<1> QED BY <1>12, <1>13 DEF V

LEMMA FragmentsGrow ==
  ASSUME NEW S, NEW text \in Seq(S), NEW t \in S
  PROVE  Fragments(Append(text, t)) = WithFragment(Fragments(text), t) /\ Fragments(text) \in Cuts(S)
<1> DEFINE N == Len(text)
           more == Append(text, t)
<1>1. N \in Nat /\ more \in Seq(S) /\ Len(more) = N + 1 /\ more[N + 1] = t /\ \A n \in 1 .. N : more[n] = text[n]
  BY AppendProperties
<1>2. PICK g : CutTrace(g, text) /\ \A n \in 0 .. N : g[n] \in Cuts(S)
  BY CutsAreTraced
<1> HIDE DEF more
<1>3. PICK h : CutTrace(h, more)
  BY <1>1, CutsAreTraced
<1>4. /\ g[0] = NoFragments /\ (\A n \in 1 .. N : g[n] = WithFragment(g[n - 1], text[n])) /\ Fragments(text) = g[N]
      /\ h[0] = NoFragments /\ (\A n \in 1 .. N + 1 : h[n] = WithFragment(h[n - 1], more[n]))
      /\ Fragments(more) = h[N + 1]
  BY <1>1, <1>2, <1>3 DEF CutTrace
<1> HIDE DEF N
<1>5. g[N] = h[N]
  <2>1. \A n \in 1 .. N : n \in 1 .. N + 1
    BY <1>1
  <2>2. \A n \in 1 .. N : g[n - 1] = h[n - 1] => g[n] = h[n]
    BY <1>1, <1>4, <2>1
  <2>3. N \in Nat /\ g[0] = h[0]
    BY <1>1, <1>4
  <2> QED BY ONLY <2>2, <2>3, TracesMeet
<1>6. N \in 0 .. N /\ N + 1 \in 1 .. N + 1 /\ (N + 1) - 1 = N
  BY <1>1
<1>7. h[N + 1] = WithFragment(h[N], more[N + 1])
  BY <1>4, <1>6
<1> QED BY <1>1, <1>2, <1>4, <1>5, <1>6, <1>7 DEF more, N

LEMMA FragmentsBegin == Fragments(<<>>) = NoFragments
<1>1. PICK g : CutTrace(g, <<>>)
  <2>1. <<>> \in Seq({})
    OBVIOUS
  <2> QED BY <2>1, CutsAreTraced
<1> QED BY <1>1 DEF CutTrace

----------------------------------------------------------------------------
(* Tokens that say nothing of the WHERE, wherever they stand.                  *)
Loud(t) == t.kw \in SetOperators \/ t.of = "WHERE"
Later == ReorderKeywords \ {"WHERE"}
Quiet(text) == \A i \in DOMAIN text : ~Loud(text[i])

LEMMA ConcatAppend ==
  ASSUME NEW S, NEW u \in Seq(S), NEW v \in Seq(S), NEW t \in S
  PROVE  u \o Append(v, t) = Append(u \o v, t)
<1>1. <<t>> \in Seq(S) /\ u \o v \in Seq(S)
  OBVIOUS
<1>2. Append(v, t) = v \o <<t>>
  BY AppendIsConcat
<1>3. Append(u \o v, t) = (u \o v) \o <<t>>
  BY <1>1, AppendIsConcat
<1>4. (u \o v) \o <<t>> = u \o (v \o <<t>>)
  BY <1>1, ConcatAssociative
<1> QED BY <1>2, <1>3, <1>4

\* What a text says at its end is about what it said before only.
LEMMA FiltersMeet ==
  ASSUME NEW S, NEW P, Prints(S, P), NEW u \in Seq(S), NEW v \in Seq(S), NEW w \in Seq(S), Filters(u) = Filters(v)
  PROVE  Filters(u \o w) = Filters(v \o w)
<1> DEFINE N == Len(w)
           Begin(n) == SubSeq(w, 1, n)
           g == [n \in 0 .. N |-> Filters(u \o Begin(n))]
           h == [n \in 0 .. N |-> Filters(v \o Begin(n))]
<1>1. /\ N \in Nat /\ Begin(0) = <<>> /\ Begin(N) = w
      /\ \A n \in 0 .. N - 1 : Begin(n) \in Seq(S) /\ w[n + 1] \in S /\ Begin(n + 1) = Append(Begin(n), w[n + 1])
  BY Beginnings
<1> HIDE DEF Begin, N
<1>2. u \o <<>> = u /\ v \o <<>> = v
  OBVIOUS
<1>3. ASSUME NEW n \in 0 .. N - 1
      PROVE  /\ Filters(u \o Begin(n + 1)) = WithPieces(Filters(u \o Begin(n)), w[n + 1])
             /\ Filters(v \o Begin(n + 1)) = WithPieces(Filters(v \o Begin(n)), w[n + 1])
  <2>1. Begin(n) \in Seq(S) /\ w[n + 1] \in S
    BY <1>1
  <2>5. u \o Begin(n) \in Seq(S) /\ v \o Begin(n) \in Seq(S)
    BY <2>1, ConcatProperties
  <2>2. /\ u \o Append(Begin(n), w[n + 1]) = Append(u \o Begin(n), w[n + 1])
        /\ v \o Append(Begin(n), w[n + 1]) = Append(v \o Begin(n), w[n + 1])
    BY <2>1, ConcatAppend
  <2>3. Filters(Append(u \o Begin(n), w[n + 1])) = WithPieces(Filters(u \o Begin(n)), w[n + 1])
    BY <2>1, <2>5, FiltersGrow
  <2>4. Filters(Append(v \o Begin(n), w[n + 1])) = WithPieces(Filters(v \o Begin(n)), w[n + 1])
    BY <2>1, <2>5, FiltersGrow
  <2> QED BY <1>1, <2>2, <2>3, <2>4
<1>4. g[0] = h[0]
  <2>1. 0 \in 0 .. N
    BY <1>1
  <2> QED BY <1>1, <1>2, <2>1
<1>5. \A n \in 1 .. N : g[n - 1] = h[n - 1] => g[n] = h[n]
  <2> SUFFICES ASSUME NEW n \in 1 .. N, g[n - 1] = h[n - 1] PROVE g[n] = h[n]
    OBVIOUS
  <2>1. n - 1 \in 0 .. N - 1 /\ (n - 1) + 1 = n /\ n - 1 \in 0 .. N /\ n \in 0 .. N
    BY <1>1
  <2>2. /\ Filters(u \o Begin(n)) = WithPieces(Filters(u \o Begin(n - 1)), w[n])
        /\ Filters(v \o Begin(n)) = WithPieces(Filters(v \o Begin(n - 1)), w[n])
    BY <1>3, <2>1
  <2> QED BY <2>1, <2>2
<1>6. g[N] = h[N]
  <2> HIDE DEF g, h
  <2>1. N \in Nat
    BY <1>1
  <2> QED BY ONLY <1>4, <1>5, <2>1, TracesMeet
<1>7. N \in 0 .. N
  BY <1>1
<1> QED BY <1>1, <1>6, <1>7

\* Tokens that say nothing, at the end.
LEMMA QuietEnd ==
  ASSUME NEW S, NEW P, Prints(S, P), NEW u \in Seq(S), NEW w \in Seq(S), Quiet(w)
  PROVE  Filters(u \o w) = Filters(u)
<1> DEFINE N == Len(w)
           Begin(n) == SubSeq(w, 1, n)
           g == [n \in 0 .. N |-> Filters(u \o Begin(n))]
           V == {Filters(u)}
<1>1. /\ N \in Nat /\ Begin(0) = <<>> /\ Begin(N) = w
      /\ \A n \in 0 .. N - 1 : Begin(n) \in Seq(S) /\ w[n + 1] \in S /\ Begin(n + 1) = Append(Begin(n), w[n + 1])
  BY Beginnings
<1>2. \A n \in 1 .. N : ~Loud(w[n])
  BY DEF Quiet
<1> HIDE DEF Begin, N
<1>3. u \o <<>> = u
  OBVIOUS
<1>4. ASSUME NEW n \in 0 .. N - 1
      PROVE  Filters(u \o Begin(n + 1)) = Filters(u \o Begin(n))
  <2>1. Begin(n) \in Seq(S) /\ w[n + 1] \in S
    BY <1>1
  <2>6. u \o Begin(n) \in Seq(S)
    BY <2>1, ConcatProperties
  <2>2. u \o Append(Begin(n), w[n + 1]) = Append(u \o Begin(n), w[n + 1])
    BY <2>1, ConcatAppend
  <2>3. Filters(Append(u \o Begin(n), w[n + 1])) = WithPieces(Filters(u \o Begin(n)), w[n + 1])
    BY <2>1, <2>6, FiltersGrow
  <2>4. n + 1 \in 1 .. N
    BY <1>1
  <2>5. WithPieces(Filters(u \o Begin(n)), w[n + 1]) = Filters(u \o Begin(n))
    BY <1>2, <2>4 DEF WithPieces, Loud
  <2> QED BY <1>1, <2>2, <2>3, <2>5
<1>5. g[0] \in V
  <2>1. 0 \in 0 .. N
    BY <1>1
  <2> QED BY <1>1, <1>3, <2>1
<1>6. \A n \in 1 .. N : g[n - 1] \in V => g[n] \in V
  <2> SUFFICES ASSUME NEW n \in 1 .. N, g[n - 1] \in V PROVE g[n] \in V
    OBVIOUS
  <2>1. n - 1 \in 0 .. N - 1 /\ (n - 1) + 1 = n /\ n - 1 \in 0 .. N /\ n \in 0 .. N
    BY <1>1
  <2>2. Filters(u \o Begin(n)) = Filters(u \o Begin(n - 1))
    BY <1>4, <2>1
  <2> QED BY <2>1, <2>2
<1>7. \A n \in 0 .. N : g[n] \in V
  <2> HIDE DEF g, V
  <2>1. N \in Nat
    BY <1>1
  <2> QED BY ONLY <1>5, <1>6, <2>1, TracesStay
<1>8. N \in 0 .. N
  BY <1>1
<1> QED BY <1>1, <1>7, <1>8

\* What says something of the WHERE stands ahead of every clause that is moved behind it.
Ordered(text) == \A i, j \in DOMAIN text : (i <= j /\ Loud(text[j])) => text[i].kw \notin Later
NoLater(text) == \A i \in DOMAIN text : text[i].kw \notin Later

\* One text reads as another: the same WHERE, in the same order, and nothing new about it.
ReadsAs(new, text) ==
  /\ Filters(new) = Filters(text)
  /\ Ordered(text) => Ordered(new)
  /\ Quiet(text) => Quiet(new)

LEMMA QuietAppend ==
  ASSUME NEW S, NEW P, Prints(S, P), NEW text \in Seq(S), NEW t \in S, ~Loud(t)
  PROVE  /\ ReadsAs(Append(text, t), text)
         /\ (NoLater(text) /\ t.kw \notin Later) => NoLater(Append(text, t))
<1> DEFINE n == Len(text)
           new == Append(text, t)
<1>1. n \in Nat /\ DOMAIN text = 1 .. n
  OBVIOUS
<1>2. new \in Seq(S) /\ Len(new) = n + 1 /\ new[n + 1] = t /\ \A i \in 1 .. n : new[i] = text[i]
  BY AppendProperties
<1>3. Filters(new) = Filters(text)
  <2>1. Filters(new) = WithPieces(Filters(text), t)
    BY FiltersGrow
  <2> QED BY <2>1 DEF WithPieces, Loud
<1> HIDE DEF new, n
<1>4. DOMAIN new = 1 .. n + 1
  BY <1>1, <1>2
<1>5. \A i \in 1 .. n + 1 : i = n + 1 \/ i \in 1 .. n
  BY <1>1
<1>6. Ordered(text) => Ordered(new)
  <2> SUFFICES ASSUME Ordered(text), NEW i \in 1 .. n + 1, NEW j \in 1 .. n + 1, i <= j, Loud(new[j])
               PROVE  new[i].kw \notin Later
    BY <1>4 DEF Ordered
  <2>1. j \in 1 .. n
    BY <1>2, <1>5
  <2>2. i \in 1 .. n
    BY <1>1, <2>1
  <2> QED BY <1>1, <1>2, <2>1, <2>2 DEF Ordered
<1>7. Quiet(text) => Quiet(new)
  BY <1>1, <1>2, <1>4, <1>5 DEF Quiet
<1>8. (NoLater(text) /\ t.kw \notin Later) => NoLater(new)
  BY <1>1, <1>2, <1>4, <1>5 DEF NoLater
<1> QED BY <1>3, <1>6, <1>7, <1>8 DEF ReadsAs, new

\* Tokens that say nothing, put in anywhere.
Inserted(text, cut, w) == SubSeq(text, 1, cut - 1) \o w \o SubSeq(text, cut, Len(text))
TokenAt(text, cut, w, i) ==
  IF i < cut THEN text[i] ELSE IF i < cut + Len(w) THEN w[i - cut + 1] ELSE text[i - Len(w)]

InsertedRight(S, text, cut, w) ==
  LET new == Inserted(text, cut, w)
  IN  /\ new \in Seq(S) /\ Len(new) = Len(text) + Len(w)
      /\ SubSeq(text, 1, cut - 1) \in Seq(S) /\ SubSeq(text, cut, Len(text)) \in Seq(S)
      /\ SubSeq(text, 1, cut - 1) \o SubSeq(text, cut, Len(text)) = text
      /\ \A i \in 1 .. Len(text) + Len(w) : new[i] = TokenAt(text, cut, w, i)

LEMMA InsertedIs ==
  ASSUME NEW S, NEW text \in Seq(S), NEW w \in Seq(S), NEW cut \in 1 .. Len(text) + 1
  PROVE  InsertedRight(S, text, cut, w)
<1> DEFINE n == Len(text)
           m == Len(w)
           c == cut - 1
           u == SubSeq(text, 1, c)
           v == SubSeq(text, cut, n)
           uw == u \o w
           new == uw \o v
<1>1. n \in Nat /\ m \in Nat /\ c \in 0 .. n /\ cut = c + 1
  OBVIOUS
<1>2. u \in Seq(S) /\ Len(u) = c /\ \A i \in 1 .. c : u[i] = text[i]
  <2>1. u \in Seq(S)
    BY <1>1
  <2>2. Len(u) = c
    BY <1>1
  <2>3. \A i \in 1 .. c : u[i] = text[i]
    BY <1>1
  <2> QED BY <2>1, <2>2, <2>3
<1>3. v \in Seq(S) /\ Len(v) = n - c /\ \A i \in 1 .. n - c : v[i] = text[i + c]
  <2>1. v \in Seq(S)
    BY <1>1
  <2>2. Len(v) = n - c
    BY <1>1
  <2>3. \A i \in 1 .. n - c : v[i] = text[i + c]
    BY <1>1
  <2> QED BY <2>1, <2>2, <2>3
<1>4. text = u \o v
  <2>1. 1 \in 1 .. n + 1 /\ c \in 1 - 1 .. n /\ n \in c .. n
    BY <1>1
  <2>2. SubSeq(text, 1, c) \o SubSeq(text, c + 1, n) = SubSeq(text, 1, n)
    BY <2>1, ConcatAdjacentSubSeq
  <2>3. SubSeq(text, 1, n) = text
    BY SubSeqFull
  <2> QED BY <1>1, <2>2, <2>3
<1> HIDE DEF u, v
<1>5. uw \in Seq(S) /\ Len(uw) = c + m /\ \A i \in 1 .. c + m : uw[i] = IF i <= c THEN text[i] ELSE w[i - c]
  <2>1. uw \in Seq(S) /\ Len(uw) = Len(u) + Len(w) /\ \A i \in 1 .. Len(u) + Len(w) : uw[i] = IF i <= Len(u) THEN u[i] ELSE w[i - Len(u)]
    BY <1>2, ConcatProperties
  <2> HIDE DEF uw
  <2>2. \A i \in 1 .. c + m : i <= c => i \in 1 .. c
    BY <1>1
  <2> QED BY <1>2, <2>1, <2>2
<1> HIDE DEF uw
<1>6. new \in Seq(S) /\ Len(new) = Len(uw) + Len(v) /\ \A i \in 1 .. Len(uw) + Len(v) : new[i] = IF i <= Len(uw) THEN uw[i] ELSE v[i - Len(uw)]
  BY <1>3, <1>5, ConcatProperties
<1> HIDE DEF new, n, m, c
<1>7. Len(new) = n + m
  BY <1>1, <1>3, <1>5, <1>6
<1>8. ASSUME NEW i \in 1 .. n + m
      PROVE  new[i] = IF i < cut THEN text[i] ELSE IF i < cut + m THEN w[i - cut + 1] ELSE text[i - m]
  <2>1. i \in 1 .. Len(uw) + Len(v)
    BY <1>1, <1>3, <1>5
  <2>2. CASE i <= c
    BY <1>1, <1>5, <1>6, <2>1, <2>2
  <2>3. CASE c < i /\ i <= c + m
    <3>1. i - c = i - cut + 1 /\ i \in 1 .. c + m /\ ~(i < cut) /\ i < cut + m /\ ~(i <= c)
      BY <1>1, <2>3
    <3>2. new[i] = uw[i] /\ uw[i] = w[i - c]
      BY <1>5, <1>6, <2>1, <2>3, <3>1
    <3> QED BY <3>1, <3>2
  <2>4. CASE c + m < i
    <3>1. i - (c + m) \in 1 .. n - c /\ i - (c + m) + c = i - m /\ ~(i < cut) /\ ~(i < cut + m) /\ ~(i <= c + m)
      BY <1>1, <2>4
    <3>2. new[i] = v[i - (c + m)]
      BY <1>5, <1>6, <2>1, <3>1
    <3>3. v[i - (c + m)] = text[i - m]
      BY <1>3, <3>1
    <3> QED BY <3>1, <3>2, <3>3
  <2> QED BY <1>1, <2>2, <2>3, <2>4
<1> QED BY <1>2, <1>3, <1>4, <1>6, <1>7, <1>8 DEF Inserted, InsertedRight, TokenAt, new, uw, u, v, n, m, c

LEMMA QuietInsert ==
  ASSUME NEW S, NEW P, Prints(S, P), NEW text \in Seq(S), NEW w \in Seq(S), NEW cut \in 1 .. Len(text) + 1,
         Quiet(w), NoLater(w)
  PROVE  /\ Inserted(text, cut, w) \in Seq(S) /\ ReadsAs(Inserted(text, cut, w), text)
         /\ NoLater(text) => NoLater(Inserted(text, cut, w))
<1> DEFINE new == Inserted(text, cut, w)
           u == SubSeq(text, 1, cut - 1)
           v == SubSeq(text, cut, Len(text))
           n == Len(text)
           m == Len(w)
<1>1. /\ new \in Seq(S) /\ Len(new) = n + m /\ u \in Seq(S) /\ v \in Seq(S) /\ text = u \o v
      /\ \A i \in 1 .. n + m : new[i] = IF i < cut THEN text[i] ELSE IF i < cut + m THEN w[i - cut + 1] ELSE text[i - m]
  <2>1. InsertedRight(S, text, cut, w)
    BY InsertedIs
  <2> QED BY <2>1 DEF InsertedRight, TokenAt
<1>2. n \in Nat /\ m \in Nat /\ cut \in 1 .. n + 1 /\ DOMAIN text = 1 .. n /\ DOMAIN w = 1 .. m
  OBVIOUS
<1>3. Filters(new) = Filters(text)
  <2>1. u \o w \in Seq(S) /\ Filters(u \o w) = Filters(u)
    BY <1>1, QuietEnd, ConcatProperties
  <2>2. Filters((u \o w) \o v) = Filters(u \o v)
    <3> HIDE DEF u, v
    <3> QED BY <1>1, <2>1, FiltersMeet
  <2> QED BY <1>1, <2>2 DEF Inserted
<1> HIDE DEF new, u, v, n, m
<1>4. DOMAIN new = 1 .. n + m
  BY <1>1, SeqShape
\* Where a token of the new text comes from.
<1> DEFINE From(i) == IF i < cut THEN i ELSE i - m
<1>5. ASSUME NEW i \in 1 .. n + m
      PROVE  \/ new[i].kw \notin Later /\ ~Loud(new[i])
             \/ From(i) \in 1 .. n /\ new[i] = text[From(i)] /\ (i < cut \/ cut + m <= i)
  <2>1. CASE i < cut
    BY <1>1, <1>2, <2>1
  <2>2. CASE cut <= i /\ i < cut + m
    <3>1. new[i] = w[i - cut + 1] /\ i - cut + 1 \in 1 .. m
      BY <1>1, <1>2, <2>2
    <3> QED BY <1>2, <3>1 DEF Quiet, NoLater
  <2>3. CASE cut + m <= i
    <3>1. ~(i < cut) /\ ~(i < cut + m) /\ i - m \in 1 .. n
      BY <1>2, <2>3
    <3>2. new[i] = text[i - m]
      BY <1>1, <3>1
    <3> QED BY <2>3, <3>1, <3>2
  <2> QED BY <1>2, <2>1, <2>2, <2>3
<1>6. \A i, j \in 1 .. n + m : (i <= j /\ (i < cut \/ cut + m <= i) /\ (j < cut \/ cut + m <= j)) => From(i) <= From(j)
  BY <1>2
<1> HIDE DEF From
<1>7. Ordered(text) => Ordered(new)
  <2> SUFFICES ASSUME Ordered(text), NEW i \in 1 .. n + m, NEW j \in 1 .. n + m, i <= j, Loud(new[j])
               PROVE  new[i].kw \notin Later
    BY <1>4 DEF Ordered
  <2>1. From(j) \in 1 .. n /\ new[j] = text[From(j)] /\ (j < cut \/ cut + m <= j)
    BY <1>5
  <2>2. CASE new[i].kw \notin Later
    BY <2>2
  <2>3. CASE From(i) \in 1 .. n /\ new[i] = text[From(i)] /\ (i < cut \/ cut + m <= i)
    <3>1. From(i) <= From(j)
      BY <1>6, <2>1, <2>3
    <3> QED BY <1>2, <2>1, <2>3, <3>1 DEF Ordered
  <2> QED BY <1>5, <2>2, <2>3
<1>8. Quiet(text) => Quiet(new)
  BY <1>2, <1>4, <1>5 DEF Quiet
<1>9. NoLater(text) => NoLater(new)
  BY <1>2, <1>4, <1>5 DEF NoLater
<1> QED BY <1>1, <1>3, <1>7, <1>8, <1>9 DEF ReadsAs, new

\* What is dropped from the end said nothing.
LEMMA QuietPrefix ==
  ASSUME NEW S, NEW P, Prints(S, P), NEW text \in Seq(S), NEW k \in 0 .. Len(text),
         \A i \in k + 1 .. Len(text) : ~Loud(text[i])
  PROVE  /\ SubSeq(text, 1, k) \in Seq(S) /\ ReadsAs(SubSeq(text, 1, k), text)
         /\ NoLater(text) => NoLater(SubSeq(text, 1, k))
<1> DEFINE n == Len(text)
           kept == SubSeq(text, 1, k)
           rest == SubSeq(text, k + 1, n)
<1>1. n \in Nat /\ k \in 0 .. n /\ DOMAIN text = 1 .. n
  OBVIOUS
<1>2. kept \in Seq(S) /\ Len(kept) = k /\ \A i \in 1 .. k : kept[i] = text[i]
  <2>1. kept \in Seq(S)
    BY <1>1
  <2>2. Len(kept) = k
    BY <1>1
  <2>3. \A i \in 1 .. k : kept[i] = text[i]
    BY <1>1
  <2> QED BY <2>1, <2>2, <2>3
<1>3. rest \in Seq(S) /\ Len(rest) = n - k /\ \A i \in 1 .. n - k : rest[i] = text[i + k]
  <2>0. \A i \in k + 1 .. n : text[i] \in S
    BY <1>1
  <2>1. rest \in Seq(S) /\ Len(rest) = (IF k + 1 <= n THEN n - (k + 1) + 1 ELSE 0)
        /\ \A i \in 1 .. n - (k + 1) + 1 : rest[i] = text[(k + 1) + i - 1]
    <3> HIDE DEF n
    <3>1. k + 1 \in Int /\ n \in Int
      BY <1>1
    <3> QED BY ONLY <2>0, <3>1, SubSeqProperties DEF rest
  <2> HIDE DEF rest, n
  <2>2. Len(rest) = n - k
    BY <1>1, <2>1
  <2>3. \A i \in 1 .. n - k : rest[i] = text[i + k]
    <3> SUFFICES ASSUME NEW i \in 1 .. n - k PROVE rest[i] = text[i + k]
      OBVIOUS
    <3>1. (k + 1) + i - 1 = i + k /\ i \in 1 .. n - (k + 1) + 1
      BY <1>1
    <3> QED BY <2>1, <3>1
  <2> QED BY <2>1, <2>2, <2>3 
<1>4. kept \o rest = text
  <2>1. 1 \in 1 .. n + 1 /\ k \in 1 - 1 .. n /\ n \in k .. n
    BY <1>1
  <2>2. kept \o rest = SubSeq(text, 1, n)
    BY <2>1, ConcatAdjacentSubSeq
  <2> QED BY <2>2, SubSeqFull
<1> HIDE DEF kept, rest
<1>5. Quiet(rest)
  <2> SUFFICES ASSUME NEW i \in DOMAIN rest PROVE ~Loud(rest[i])
    BY DEF Quiet
  <2>1. i \in 1 .. n - k
    BY <1>3, SeqShape
  <2>2. i + k \in k + 1 .. n /\ rest[i] = text[i + k]
    BY <1>1, <1>3, <2>1
  <2> QED BY <2>2
<1>6. Filters(kept) = Filters(text)
  BY <1>2, <1>3, <1>4, <1>5, QuietEnd
<1>7. DOMAIN kept = 1 .. k /\ \A i \in 1 .. k : i \in 1 .. n
  BY <1>1, <1>2, SeqShape
<1> HIDE DEF n
<1>8. Ordered(text) => Ordered(kept)
  BY <1>1, <1>2, <1>7 DEF Ordered
<1>9. Quiet(text) => Quiet(kept)
  BY <1>1, <1>2, <1>7 DEF Quiet
<1>10. NoLater(text) => NoLater(kept)
  BY <1>1, <1>2, <1>7 DEF NoLater
<1> QED BY <1>2, <1>6, <1>8, <1>9, <1>10 DEF ReadsAs, kept

\* The first top-level keyword.
LEMMA FirstIs ==
  ASSUME NEW S, NEW text \in Seq(S), NEW keywords
  PROVE  /\ FirstTopLevel(text, keywords) \in 1 .. Len(text) + 1
         /\ \A i \in 1 .. Len(text) : i < FirstTopLevel(text, keywords) => text[i].kw \notin keywords
         /\ FirstTopLevel(text, keywords) <= Len(text) => text[FirstTopLevel(text, keywords)].kw \in keywords
<1> DEFINE hits == TopLevel(text, keywords)
           n == Len(text)
           k == FirstTopLevel(text, keywords)
<1>1. n \in Nat /\ hits = {i \in 1 .. n : text[i].kw \in keywords}
  BY DEF TopLevel
<1>2. k = IF hits = {} THEN n + 1 ELSE CHOOSE i \in hits : \A j \in hits : i <= j
  BY DEF FirstTopLevel
<1> HIDE DEF hits, k, n
<1>3. CASE hits = {}
  BY <1>1, <1>2, <1>3 DEF k, n
<1>4. CASE hits # {}
  <2>1. hits \subseteq Nat
    BY <1>1
  <2>2. \E i \in hits : \A j \in hits : i <= j
    BY <1>4, <2>1, LeastNumber
  <2>3. k \in hits /\ \A j \in hits : k <= j
    BY <1>2, <1>4, <2>2
  <2>4. k \in 1 .. n /\ text[k].kw \in keywords
    BY <1>1, <2>3
  <2>5. \A i \in 1 .. n : i < k => text[i].kw \notin keywords
    BY <1>1, <2>3, <2>4
  <2> QED BY <1>1, <2>4, <2>5 DEF k, n
<1> QED BY <1>3, <1>4

----------------------------------------------------------------------------
(* computeReorderedClauses leaves the WHERE as it was where nothing of it       *)
(* follows a clause that is moved behind it.                                  *)
Ahead(cut) == cut.fragments[BaseText] \o cut.fragments["WHERE"]
FragmentsOk(text) ==
  LET cut == Fragments(text)
  IN  /\ cut.key = BaseText => cut.fragments["WHERE"] = <<>>
      /\ NoLater(text) => cut.key \notin Later
      /\ \A key \in Later : Quiet(cut.fragments[key])
      /\ Filters(Ahead(cut)) = Filters(text)

LEMMA KeysAre ==
  /\ FragmentKeys = Later \cup {BaseText, "WHERE"} /\ BaseText \notin Later /\ "WHERE" \notin Later /\ BaseText # "WHERE"
  /\ Later = {"GROUP_BY", "ORDER_BY", "HAVING", "OFFSET", "LIMIT"}
  /\ BaseText \notin ReorderKeywords /\ "AND" \notin ReorderKeywords /\ "WHERE" \in ReorderKeywords
BY DEF FragmentKeys, Later, ReorderKeywords, BaseText

LEMMA QuietOneMore ==
  ASSUME NEW S, NEW text \in Seq(S), NEW t \in S, Quiet(text), ~Loud(t)
  PROVE  Quiet(Append(text, t))
<1> DEFINE n == Len(text)
           new == Append(text, t)
<1>1. n \in Nat /\ DOMAIN text = 1 .. n
  OBVIOUS
<1>2. new \in Seq(S) /\ Len(new) = n + 1 /\ new[n + 1] = t /\ \A i \in 1 .. n : new[i] = text[i]
  BY AppendProperties
<1> HIDE DEF new, n
<1>3. DOMAIN new = 1 .. n + 1 /\ \A i \in 1 .. n + 1 : i = n + 1 \/ i \in 1 .. n
  BY <1>1, <1>2
<1>4. Quiet(new)
  BY <1>1, <1>2, <1>3 DEF Quiet
<1> QED BY <1>4 DEF new

\* The front of the fragments takes the next token, or it is one that says nothing.
LEMMA FrontGrows ==
  ASSUME NEW S, NEW P, Prints(S, P), NEW text \in Seq(S), NEW t \in S, FragmentsOk(text), Ordered(Append(text, t))
  PROVE  FragmentsOk(Append(text, t))
<1> DEFINE cut == Fragments(text)
           new == Fragments(Append(text, t))
           of == cut.fragments
           key == IF t.kw \in ReorderKeywords THEN t.kw ELSE cut.key
           more == Append(text, t)
           n == Len(text)
<1>1. new = WithFragment(cut, t) /\ cut \in Cuts(S)
  BY FragmentsGrow
<1>2. cut.key \in FragmentKeys /\ of \in [FragmentKeys -> Seq(S)] /\ DOMAIN of = FragmentKeys
  BY <1>1 DEF Cuts
<1> HIDE DEF cut
<1>3. key \in FragmentKeys
  BY <1>2 DEF FragmentKeys
<1>4. new.key = key /\ new.fragments = [of EXCEPT ![key] = Append(@, t)]
  BY <1>1 DEF WithFragment
<1>5. /\ new.fragments[key] = Append(of[key], t)
      /\ \A k \in FragmentKeys : k # key => new.fragments[k] = of[k]
      /\ \A k \in FragmentKeys : of[k] \in Seq(S)
  BY <1>2, <1>3, <1>4
<1>6. Filters(more) = WithPieces(Filters(text), t)
  BY FiltersGrow
<1>7. /\ cut.key = BaseText => of["WHERE"] = <<>>
      /\ NoLater(text) => cut.key \notin Later
      /\ \A k \in Later : Quiet(of[k])
      /\ Filters(of[BaseText] \o of["WHERE"]) = Filters(text)
  BY DEF FragmentsOk, Ahead, cut
<1>8. n \in Nat /\ DOMAIN text = 1 .. n /\ DOMAIN more = 1 .. n + 1 /\ more[n + 1] = t /\ \A i \in 1 .. n : more[i] = text[i]
  <2>1. n \in Nat /\ DOMAIN text = 1 .. n
    OBVIOUS
  <2>2. more \in Seq(S) /\ Len(more) = n + 1 /\ more[n + 1] = t /\ \A i \in 1 .. n : more[i] = text[i]
    BY AppendProperties
  <2> HIDE DEF more, n
  <2> QED BY <2>1, <2>2, SeqShape
<1> HIDE DEF of, key, new, more, n
<1>9. key = BaseText => new.fragments["WHERE"] = <<>>
  <2> SUFFICES ASSUME key = BaseText PROVE new.fragments["WHERE"] = <<>>
    OBVIOUS
  <2>1. cut.key = BaseText
    BY KeysAre DEF key
  <2> QED BY <1>5, <1>7, <2>1, KeysAre
<1>10. NoLater(more) => key \notin Later
  <2> SUFFICES ASSUME NoLater(more) PROVE key \notin Later
    OBVIOUS
  <2>1. t.kw \notin Later
    BY <1>8 DEF NoLater
  <2>2. NoLater(text)
    <3> SUFFICES ASSUME NEW i \in 1 .. n PROVE text[i].kw \notin Later
      BY <1>8 DEF NoLater
    <3>1. i \in 1 .. n + 1
      BY <1>8
    <3> QED BY <1>8, <3>1 DEF NoLater
  <2> QED BY <1>7, <2>1, <2>2 DEF key
\* A token that goes to a later fragment says nothing.
<1>11. ASSUME key \in Later PROVE ~Loud(t)
  <2>1. PICK i \in 1 .. n + 1 : more[i].kw \in Later
    <3>1. CASE t.kw \in Later
      BY <1>8, <3>1
    <3>2. CASE t.kw \notin Later
      <4>1. key = cut.key
        BY <1>11, <3>2, KeysAre DEF key, Later
      <4>2. ~NoLater(text)
        BY <1>7, <1>11, <4>1
      <4>3. PICK j \in 1 .. n : text[j].kw \in Later
        BY <1>8, <4>2 DEF NoLater
      <4>4. j \in 1 .. n + 1 /\ more[j] = text[j]
        BY <1>8
      <4> QED BY <4>3, <4>4
    <3> QED BY <3>1, <3>2
  <2>2. n + 1 \in 1 .. n + 1 /\ i <= n + 1
    BY <1>8
  <2> QED BY <1>8, <2>1, <2>2 DEF Ordered, more
<1>12. ASSUME NEW k \in Later PROVE Quiet(new.fragments[k])
  <2>1. k \in FragmentKeys
    BY KeysAre
  <2>2. CASE k = key
    <3>1. ~Loud(t) /\ Quiet(of[key])
      BY <1>7, <1>11, <2>2
    <3> QED BY <1>5, <2>1, <2>2, <3>1, QuietOneMore
  <2>3. CASE k # key
    BY <1>5, <1>7, <2>1, <2>3
  <2> QED BY <2>2, <2>3
<1>13. of[BaseText] \in Seq(S) /\ of["WHERE"] \in Seq(S)
  BY <1>5, KeysAre
<1>14. Filters(new.fragments[BaseText] \o new.fragments["WHERE"]) = Filters(more)
  <2>1. CASE key = "WHERE"
    <3>1. new.fragments[BaseText] = of[BaseText] /\ new.fragments["WHERE"] = Append(of["WHERE"], t)
      BY <1>5, <2>1, KeysAre
    <3> DEFINE u == of[BaseText]
               v == of["WHERE"]
    <3> HIDE DEF u, v
    <3>2. u \in Seq(S) /\ v \in Seq(S)
      BY <1>13 DEF u, v
    <3>3. u \o Append(v, t) = Append(u \o v, t) /\ u \o v \in Seq(S)
      BY <3>2, ConcatAppend, ConcatProperties
    <3>4. Filters(Append(u \o v, t)) = WithPieces(Filters(u \o v), t)
      BY <3>3, FiltersGrow
    <3> QED BY <1>6, <1>7, <3>1, <3>3, <3>4 DEF u, v
  <2>2. CASE key = BaseText
    <3>1. new.fragments[BaseText] = Append(of[BaseText], t) /\ new.fragments["WHERE"] = <<>> /\ of["WHERE"] = <<>>
      <4>1. cut.key = BaseText
        BY <2>2, KeysAre DEF key
      <4> QED BY <1>5, <1>7, <1>9, <2>2, <4>1
    <3> DEFINE u == of[BaseText]
    <3> HIDE DEF u
    <3>2. u \in Seq(S) /\ Append(u, t) \in Seq(S)
      BY <1>13, AppendProperties DEF u
    <3>3. u \o <<>> = u /\ Append(u, t) \o <<>> = Append(u, t)
      BY <3>2, ConcatEmptySeq
    <3>4. Filters(Append(u, t)) = WithPieces(Filters(u), t)
      BY <3>2, FiltersGrow
    <3>5. Filters(u) = Filters(text)
      <4>1. Filters(u \o <<>>) = Filters(text)
        BY <1>7, <3>1 DEF u
      <4> QED BY <3>3, <4>1
    <3>6. new.fragments[BaseText] \o new.fragments["WHERE"] = Append(u, t)
      BY <3>1, <3>3 DEF u
    <3> QED BY <1>6, <3>4, <3>5, <3>6
  <2>3. CASE key \in Later
    <3>1. new.fragments[BaseText] = of[BaseText] /\ new.fragments["WHERE"] = of["WHERE"]
      BY <1>5, <2>3, KeysAre
    <3>2. WithPieces(Filters(text), t) = Filters(text)
      BY <1>11, <2>3 DEF WithPieces, Loud
    <3> QED BY <1>6, <1>7, <3>1, <3>2
  <2> QED BY <1>3, <2>1, <2>2, <2>3, KeysAre
<1> QED BY <1>4, <1>9, <1>10, <1>12, <1>14 DEF FragmentsOk, Ahead, new, more

LEMMA BeginningsOrdered ==
  ASSUME NEW S, NEW text \in Seq(S), Ordered(text), NEW k \in 0 .. Len(text)
  PROVE  Ordered(SubSeq(text, 1, k))
<1> DEFINE kept == SubSeq(text, 1, k)
           n == Len(text)
<1>1. n \in Nat /\ k \in 0 .. n /\ DOMAIN text = 1 .. n
  OBVIOUS
<1>2. kept \in Seq(S)
  BY <1>1
<1>3. Len(kept) = k
  BY <1>1
<1>4. \A i \in 1 .. k : kept[i] = text[i]
  BY <1>1
<1> HIDE DEF kept, n
<1>5. DOMAIN kept = 1 .. k /\ \A i \in 1 .. k : i \in 1 .. n
  BY <1>1, <1>2, <1>3
<1>6. Ordered(kept)
  BY <1>1, <1>4, <1>5 DEF Ordered
<1> QED BY <1>6 DEF kept

LEMMA FragmentsAre ==
  ASSUME NEW S, NEW P, Prints(S, P), NEW text \in Seq(S), Ordered(text)
  PROVE  FragmentsOk(text)
<1> DEFINE N == Len(text)
           Begin(n) == SubSeq(text, 1, n)
           C == {n \in 0 .. N : FragmentsOk(Begin(n))}
<1>1. /\ N \in Nat /\ Begin(0) = <<>> /\ Begin(N) = text
      /\ \A n \in 0 .. N - 1 : Begin(n) \in Seq(S) /\ text[n + 1] \in S /\ Begin(n + 1) = Append(Begin(n), text[n + 1])
  BY Beginnings
<1>2. \A n \in 0 .. N : Ordered(Begin(n))
  BY BeginningsOrdered
<1> HIDE DEF N, Begin
<1>3. FragmentsOk(<<>>)
  <2> DEFINE none == [key \in FragmentKeys |-> <<>>]
  <2>1. Fragments(<<>>).key = BaseText /\ Fragments(<<>>).fragments = none
    BY FragmentsBegin DEF NoFragments
  <2>2. \A k \in FragmentKeys : none[k] = <<>>
    OBVIOUS
  <2> HIDE DEF none
  <2>3. <<>> \o <<>> = <<>> /\ Quiet(<<>>)
    BY DEF Quiet
  <2>4. none[BaseText] = <<>> /\ none["WHERE"] = <<>> /\ \A k \in Later : Quiet(none[k])
    BY <2>2, <2>3, KeysAre
  <2> QED BY <2>1, <2>3, <2>4, KeysAre DEF FragmentsOk, Ahead
<1>4. 0 \in C
  BY <1>1, <1>3
<1>5. ASSUME NEW n \in 0 .. N - 1, n \in C PROVE n + 1 \in C
  <2>1. n + 1 \in 0 .. N
    BY <1>1
  <2>2. Ordered(Append(Begin(n), text[n + 1]))
    BY <1>1, <1>2, <2>1
  <2>3. FragmentsOk(Append(Begin(n), text[n + 1]))
    BY <1>1, <1>5, <2>2, FrontGrows
  <2> QED BY <1>1, <2>1, <2>3
<1> HIDE DEF C
<1>6. N \in C
  <2>1. 0 .. N \subseteq C
    BY <1>1, <1>4, <1>5, CountingUp
  <2>2. N \in 0 .. N
    BY <1>1
  <2> QED BY <2>1, <2>2
<1> QED BY <1>1, <1>6 DEF C

\* The clauses behind the front.
Behind(of, u) == u \o of["GROUP_BY"] \o of["HAVING"] \o of["ORDER_BY"] \o of["LIMIT"] \o of["OFFSET"]

LEMMA QuietBehind ==
  ASSUME NEW S, NEW P, Prints(S, P), NEW of, \A k \in Later : of[k] \in Seq(S) /\ Quiet(of[k]), NEW u \in Seq(S)
  PROVE  Behind(of, u) \in Seq(S) /\ Filters(Behind(of, u)) = Filters(u)
<1> DEFINE u1 == u \o of["GROUP_BY"]
           u2 == u1 \o of["HAVING"]
           u3 == u2 \o of["ORDER_BY"]
           u4 == u3 \o of["LIMIT"]
           u5 == u4 \o of["OFFSET"]
<1>1. ASSUME NEW v \in Seq(S), NEW k \in Later
      PROVE  v \o of[k] \in Seq(S) /\ Filters(v \o of[k]) = Filters(v)
  <2>1. of[k] \in Seq(S) /\ Quiet(of[k])
    OBVIOUS
  <2> QED BY <2>1, QuietEnd, ConcatProperties
<1>2. {"GROUP_BY", "HAVING", "ORDER_BY", "LIMIT", "OFFSET"} \subseteq Later
  BY KeysAre
<1>3. u1 \in Seq(S) /\ Filters(u1) = Filters(u)
  BY <1>1, <1>2
<1>4. u2 \in Seq(S) /\ Filters(u2) = Filters(u1)
  <2> HIDE DEF u1
  <2> QED BY <1>1, <1>2, <1>3
<1>5. u3 \in Seq(S) /\ Filters(u3) = Filters(u2)
  <2> HIDE DEF u2
  <2> QED BY <1>1, <1>2, <1>4
<1>6. u4 \in Seq(S) /\ Filters(u4) = Filters(u3)
  <2> HIDE DEF u3
  <2> QED BY <1>1, <1>2, <1>5
<1>7. u5 \in Seq(S) /\ Filters(u5) = Filters(u4)
  <2> HIDE DEF u4
  <2> QED BY <1>1, <1>2, <1>6
<1>8. Behind(of, u) = u5
  BY DEF Behind
<1> HIDE DEF u1, u2, u3, u4, u5
<1> QED BY <1>3, <1>4, <1>5, <1>6, <1>7, <1>8

LEMMA ReorderReads ==
  ASSUME NEW S, NEW P, Prints(S, P), NEW text \in Seq(S), Ordered(text)
  PROVE  Reorder(text) \in Seq(S) /\ Filters(Reorder(text)) = Filters(text)
<1> DEFINE cut == Fragments(text)
           of == cut.fragments
           u == of[BaseText] \o of["WHERE"]
<1>1. FragmentsOk(text)
  BY FragmentsAre
<1>2. \A k \in FragmentKeys : of[k] \in Seq(S)
  <2>1. cut \in Cuts(S)
    <3>1. PICK g : CutTrace(g, text) /\ \A n \in 0 .. Len(text) : g[n] \in Cuts(S)
      BY CutsAreTraced
    <3>2. Len(text) \in 0 .. Len(text)
      OBVIOUS
    <3> QED BY <3>1, <3>2 DEF CutTrace
  <2> QED BY <2>1 DEF Cuts
<1>3. Reorder(text) = Behind(of, u)
  BY DEF Reorder, Behind
<1>4. Filters(u) = Filters(text) /\ \A k \in Later : Quiet(of[k])
  BY <1>1 DEF FragmentsOk, Ahead
<1> HIDE DEF of
<1>5. u \in Seq(S)
  BY <1>2, KeysAre, ConcatProperties
<1>6. \A k \in Later : of[k] \in Seq(S) /\ Quiet(of[k])
  BY <1>2, <1>4, KeysAre
<1> HIDE DEF u
<1> QED BY <1>3, <1>4, <1>5, <1>6, QuietBehind

\* One condition more behind everything, as a page's cursor has it: wherever the clause it
\* ends up in is moved to, it is the last thing the text says.
LEMMA LateOne ==
  ASSUME NEW S, NEW P, Prints(S, P), NEW u \in Seq(S), NEW v \in Seq(S), Quiet(v), NEW t \in S
  PROVE  u \o Append(v, t) \in Seq(S) /\ Filters(u \o Append(v, t)) = WithPieces(Filters(u), t)
<1>1. u \o v \in Seq(S) /\ Append(v, t) \in Seq(S) /\ Filters(u \o v) = Filters(u)
  BY QuietEnd, ConcatProperties, AppendProperties
<1>2. u \o Append(v, t) = Append(u \o v, t)
  BY ConcatAppend
<1>3. Filters(Append(u \o v, t)) = WithPieces(Filters(u \o v), t)
  BY <1>1, FiltersGrow
<1>4. u \o Append(v, t) \in Seq(S)
  BY <1>1, ConcatProperties
<1> QED BY <1>1, <1>2, <1>3, <1>4

LEMMA LateBehind ==
  ASSUME NEW S, NEW P, Prints(S, P), NEW of, NEW new, NEW key \in Later, NEW t \in S, NEW u \in Seq(S),
         \A k \in Later : of[k] \in Seq(S) /\ Quiet(of[k]),
         new[key] = Append(of[key], t), \A k \in Later : k # key => new[k] = of[k]
  PROVE  Behind(new, u) \in Seq(S) /\ Filters(Behind(new, u)) = WithPieces(Filters(u), t)
<1> DEFINE u1 == u \o new["GROUP_BY"]
           u2 == u1 \o new["HAVING"]
           u3 == u2 \o new["ORDER_BY"]
           u4 == u3 \o new["LIMIT"]
           u5 == u4 \o new["OFFSET"]
           F == Filters(u)
           G == WithPieces(F, t)
<1>1. ASSUME NEW v \in Seq(S), NEW k \in Later
      PROVE  /\ v \o new[k] \in Seq(S)
             /\ k # key => Filters(v \o new[k]) = Filters(v)
             /\ k = key => Filters(v \o new[k]) = WithPieces(Filters(v), t)
  <2>1. of[k] \in Seq(S) /\ Quiet(of[k])
    OBVIOUS
  <2>2. CASE k = key
    <3>1. new[k] = Append(of[k], t)
      BY <2>2
    <3> DEFINE q == of[k]
    <3> HIDE DEF q
    <3>2. q \in Seq(S) /\ Quiet(q)
      BY <2>1 DEF q
    <3>3. v \o Append(q, t) \in Seq(S) /\ Filters(v \o Append(q, t)) = WithPieces(Filters(v), t)
      BY <3>2, LateOne
    <3> QED BY <2>2, <3>1, <3>3 DEF q
  <2>3. CASE k # key
    BY <2>1, <2>3, QuietEnd, ConcatProperties
  <2> QED BY <2>2, <2>3
<1>2. {"GROUP_BY", "HAVING", "ORDER_BY", "LIMIT", "OFFSET"} = Later
  BY KeysAre
<1> HIDE DEF F, G
<1>3. u1 \in Seq(S) /\ Filters(u1) = IF key = "GROUP_BY" THEN G ELSE F
  BY <1>1, <1>2 DEF F, G
<1>4. u2 \in Seq(S) /\ Filters(u2) = IF key \in {"GROUP_BY", "HAVING"} THEN G ELSE F
  <2> HIDE DEF u1
  <2>1. "HAVING" \in Later
    BY <1>2
  <2>2. u1 \o new["HAVING"] \in Seq(S)
        /\ ("HAVING" # key => Filters(u1 \o new["HAVING"]) = Filters(u1))
        /\ ("HAVING" = key => Filters(u1 \o new["HAVING"]) = WithPieces(Filters(u1), t))
    BY <1>1, <1>3, <2>1
  <2> QED BY <1>3, <2>2 DEF G
<1>5. u3 \in Seq(S) /\ Filters(u3) = IF key \in {"GROUP_BY", "HAVING", "ORDER_BY"} THEN G ELSE F
  <2> HIDE DEF u2
  <2>1. "ORDER_BY" \in Later
    BY <1>2
  <2>2. u2 \o new["ORDER_BY"] \in Seq(S)
        /\ ("ORDER_BY" # key => Filters(u2 \o new["ORDER_BY"]) = Filters(u2))
        /\ ("ORDER_BY" = key => Filters(u2 \o new["ORDER_BY"]) = WithPieces(Filters(u2), t))
    BY <1>1, <1>4, <2>1
  <2> QED BY <1>4, <2>2 DEF G
<1>6. u4 \in Seq(S) /\ Filters(u4) = IF key \in {"GROUP_BY", "HAVING", "ORDER_BY", "LIMIT"} THEN G ELSE F
  <2> HIDE DEF u3
  <2>1. "LIMIT" \in Later
    BY <1>2
  <2>2. u3 \o new["LIMIT"] \in Seq(S)
        /\ ("LIMIT" # key => Filters(u3 \o new["LIMIT"]) = Filters(u3))
        /\ ("LIMIT" = key => Filters(u3 \o new["LIMIT"]) = WithPieces(Filters(u3), t))
    BY <1>1, <1>5, <2>1
  <2> QED BY <1>5, <2>2 DEF G
<1>7. u5 \in Seq(S) /\ Filters(u5) = IF key \in {"GROUP_BY", "HAVING", "ORDER_BY", "LIMIT", "OFFSET"} THEN G ELSE F
  <2> HIDE DEF u4
  <2>1. "OFFSET" \in Later
    BY <1>2
  <2>2. u4 \o new["OFFSET"] \in Seq(S)
        /\ ("OFFSET" # key => Filters(u4 \o new["OFFSET"]) = Filters(u4))
        /\ ("OFFSET" = key => Filters(u4 \o new["OFFSET"]) = WithPieces(Filters(u4), t))
    BY <1>1, <1>6, <2>1
  <2> QED BY <1>6, <2>2 DEF G
<1>8. Behind(new, u) = u5
  BY DEF Behind
<1> HIDE DEF u1, u2, u3, u4, u5
<1> QED BY <1>2, <1>7, <1>8 DEF G, F

LEMMA LateReads ==
  ASSUME NEW S, NEW P, Prints(S, P), NEW text \in Seq(S), Ordered(text), NEW t \in S, t.kw \in {"WHERE", "AND"}
  PROVE  /\ Reorder(Append(text, t)) \in Seq(S)
         /\ Filters(Reorder(Append(text, t))) = WithPieces(Filters(text), t)
<1> DEFINE cut == Fragments(text)
           of == cut.fragments
           key == IF t.kw = "WHERE" THEN t.kw ELSE cut.key
           now == Fragments(Append(text, t))
           new == now.fragments
           u == of[BaseText] \o of["WHERE"]
           v == new[BaseText] \o new["WHERE"]
<1>1. now = WithFragment(cut, t) /\ cut \in Cuts(S)
  BY FragmentsGrow
<1>2. cut.key \in FragmentKeys /\ of \in [FragmentKeys -> Seq(S)] /\ DOMAIN of = FragmentKeys
  BY <1>1 DEF Cuts
<1>3. FragmentsOk(text)
  BY FragmentsAre
<1>4. /\ cut.key = BaseText => of["WHERE"] = <<>>
      /\ \A k \in Later : Quiet(of[k])
      /\ Filters(u) = Filters(text)
  BY <1>3 DEF FragmentsOk, Ahead
<1>5. Reorder(Append(text, t)) = Behind(new, v)
  BY DEF Reorder, Behind
<1> HIDE DEF cut
<1>6. key \in FragmentKeys
  BY <1>2 DEF FragmentKeys, ReorderKeywords
<1>7. new = [of EXCEPT ![key] = Append(@, t)]
  <2>1. t.kw \in ReorderKeywords <=> t.kw = "WHERE"
    BY KeysAre
  <2>2. key = IF t.kw \in ReorderKeywords THEN t.kw ELSE cut.key
    BY <2>1
  <2> HIDE DEF key
  <2>3. WithFragment(cut, t) = [key |-> key, fragments |-> [of EXCEPT ![key] = Append(@, t)]]
    BY <2>2 DEF WithFragment
  <2> QED BY <1>1, <2>3
<1>8. /\ new[key] = Append(of[key], t)
      /\ \A k \in FragmentKeys : k # key => new[k] = of[k]
      /\ \A k \in FragmentKeys : of[k] \in Seq(S)
  BY <1>2, <1>6, <1>7
<1> HIDE DEF of, new, key, now
<1>9. of[BaseText] \in Seq(S) /\ of["WHERE"] \in Seq(S) /\ u \in Seq(S)
  <2>1. of[BaseText] \in Seq(S) /\ of["WHERE"] \in Seq(S)
    BY <1>8, KeysAre
  <2> QED BY <2>1, ConcatProperties
<1>10. \A k \in Later : of[k] \in Seq(S) /\ Quiet(of[k])
  BY <1>4, <1>8, KeysAre
<1>11. CASE key \in Later
  <2>1. v = u
    BY <1>8, <1>11, KeysAre
  <2>2. \A k \in Later : k # key => new[k] = of[k]
    BY <1>8, KeysAre
  <2> HIDE DEF u, v
  <2>3. Behind(new, u) \in Seq(S) /\ Filters(Behind(new, u)) = WithPieces(Filters(u), t)
    <3>1. new[key] = Append(of[key], t)
      BY <1>8
    <3>2. key \in Later /\ u \in Seq(S)
      BY <1>9, <1>11 DEF u
    <3> QED BY <1>10, <2>2, <3>1, <3>2, LateBehind
  <2> QED BY <1>4, <1>5, <2>1, <2>3
<1>12. CASE key \notin Later
  <2>1. v \in Seq(S) /\ Filters(v) = WithPieces(Filters(text), t)
    <3>1. CASE key = "WHERE"
      <4> DEFINE x == of[BaseText]
                 y == of["WHERE"]
      <4>1. v = x \o Append(y, t)
        BY <1>8, <3>1, KeysAre
      <4>2. x \in Seq(S) /\ y \in Seq(S)
        BY <1>9
      <4>5. Filters(x \o y) = Filters(text)
        BY <1>4
      <4> HIDE DEF x, y, v
      <4>3. x \o Append(y, t) = Append(x \o y, t) /\ x \o y \in Seq(S)
        BY <4>2, ConcatAppend, ConcatProperties
      <4>4. Filters(Append(x \o y, t)) = WithPieces(Filters(x \o y), t) /\ Append(x \o y, t) \in Seq(S)
        BY <4>3, FiltersGrow, AppendProperties
      <4> QED BY <4>1, <4>3, <4>4, <4>5
    <3>2. CASE key = BaseText
      <4> DEFINE x == of[BaseText]
      <4>1. cut.key = BaseText
        BY <3>2, KeysAre DEF key
      <4>2. of["WHERE"] = <<>> /\ new["WHERE"] = <<>> /\ new[BaseText] = Append(x, t)
        BY <1>4, <1>8, <3>2, <4>1, KeysAre
      <4>3. v = Append(x, t) \o <<>> /\ u = x \o <<>>
        BY <4>2
      <4>4. Filters(u) = Filters(text) /\ x \in Seq(S)
        BY <1>4, <1>9
      <4> HIDE DEF x, u, v
      <4>5. Append(x, t) \in Seq(S)
        BY <4>4, AppendProperties
      <4>6. v = Append(x, t) /\ u = x
        BY <4>3, <4>4, <4>5, ConcatEmptySeq
      <4>7. Filters(Append(x, t)) = WithPieces(Filters(x), t)
        BY <4>4, FiltersGrow
      <4> QED BY <4>4, <4>5, <4>6, <4>7
    <3> QED BY <1>6, <1>12, <3>1, <3>2, KeysAre
  <2>2. \A k \in Later : new[k] = of[k]
    BY <1>8, <1>12, KeysAre
  <2>3. \A k \in Later : new[k] \in Seq(S) /\ Quiet(new[k])
    BY <1>10, <2>2
  <2> HIDE DEF u, v
  <2>4. Behind(new, v) \in Seq(S) /\ Filters(Behind(new, v)) = Filters(v)
    BY <2>1, <2>3, QuietBehind
  <2> QED BY <1>5, <2>1, <2>4
<1> QED BY <1>11, <1>12

----------------------------------------------------------------------------
(* currentSql: the WHERE goes in ahead of the clauses that are moved behind.   *)
LEMMA QuietSays ==
  ASSUME NEW S, NEW P, Prints(S, P), NEW text \in Seq(S), Quiet(text)
  PROVE  Filters(text) = <<<<>>>>
<1>1. <<>> \in Seq(S) /\ <<>> \o text = text
  BY ConcatEmptySeq
<1> QED BY <1>1, QuietEnd, FiltersBegin

LEMMA OrderedQuiet ==
  ASSUME NEW text, Quiet(text)
  PROVE  Ordered(text)
BY DEF Quiet, Ordered

LEMMA SpliceReads ==
  ASSUME NEW S, NEW P, Prints(S, P), NEW text \in Seq(S), Quiet(text), NEW t \in S, t.kw = "WHERE", t.of = "WHERE",
         NEW cut, cut = FirstTopLevel(text, TailClause)
  PROVE  /\ Inserted(text, cut, <<t>>) \in Seq(S) /\ Filters(Inserted(text, cut, <<t>>)) = <<t.body>>
         /\ Ordered(Inserted(text, cut, <<t>>))
         /\ NoLater(text) => NoLater(Inserted(text, cut, <<t>>))
<1> DEFINE new == Inserted(text, cut, <<t>>)
           u == SubSeq(text, 1, cut - 1)
           v == SubSeq(text, cut, Len(text))
           n == Len(text)
<1>1. n \in Nat /\ cut \in 1 .. n + 1 /\ (\A i \in 1 .. n : i < cut => text[i].kw \notin TailClause) /\ DOMAIN text = 1 .. n
  <2>1. DOMAIN text = 1 .. n /\ n \in Nat
    OBVIOUS
  <2> QED BY <2>1, FirstIs
<1>2. <<t>> \in Seq(S) /\ Len(<<t>>) = 1 /\ <<t>>[1] = t
  OBVIOUS
<1>3. /\ new \in Seq(S) /\ Len(new) = n + 1 /\ u \in Seq(S) /\ v \in Seq(S) /\ u \o v = text
      /\ \A i \in 1 .. n + 1 : new[i] = IF i < cut THEN text[i] ELSE IF i < cut + 1 THEN <<t>>[i - cut + 1] ELSE text[i - 1]
  <2>1. InsertedRight(S, text, cut, <<t>>)
    BY <1>1, <1>2, InsertedIs
  <2> QED BY <1>2, <2>1 DEF InsertedRight, TokenAt
<1>4. Quiet(u) /\ Quiet(v)
  <2>1. \A i \in 1 .. n : ~Loud(text[i])
    BY <1>1 DEF Quiet
  <2>2. Len(u) = cut - 1 /\ \A i \in 1 .. cut - 1 : u[i] = text[i]
    BY <1>1
  <2>3. /\ Len(v) = (IF cut <= n THEN n - cut + 1 ELSE 0)
        /\ \A i \in 1 .. n - cut + 1 : v[i] = text[cut + i - 1]
    <3>1. \A i \in cut .. n : text[i] \in S
      BY <1>1
    <3> HIDE DEF n
    <3>2. cut \in Int /\ n \in Int
      BY <1>1
    <3> QED BY ONLY <3>1, <3>2, SubSeqProperties DEF v, n
  <2> HIDE DEF u, v, n
  <2>4. Quiet(u)
    <3>1. DOMAIN u = 1 .. cut - 1 /\ \A i \in 1 .. cut - 1 : i \in 1 .. n
      BY <1>1, <1>3, <2>2, SeqShape
    <3> QED BY <2>1, <2>2, <3>1 DEF Quiet
  <2>5. Quiet(v)
    <3>1. DOMAIN v = 1 .. Len(v)
      BY <1>3, SeqShape
    <3>2. \A i \in 1 .. Len(v) : i \in 1 .. n - cut + 1 /\ cut + i - 1 \in 1 .. n
      BY <1>1, <2>3
    <3> QED BY <2>1, <2>3, <3>1, <3>2 DEF Quiet
  <2> QED BY <2>4, <2>5
<1>5. Filters(new) = <<t.body>>
  <2>1. Filters(u) = <<<<>>>>
    BY <1>3, <1>4, QuietSays
  <2> HIDE DEF u, v
  <2>2. u \o <<t>> = Append(u, t) /\ Append(u, t) \in Seq(S)
    BY <1>3, AppendIsConcat, AppendProperties
  <2>3. Filters(Append(u, t)) = WithPieces(<<<<>>>>, t)
    BY <1>3, <2>1, FiltersGrow
  <2>4. WithPieces(<<<<>>>>, t) = <<t.body>>
    <3>1. t.body \in Seq(P)
      BY DEF Prints
    <3>2. <<>> \o t.body = t.body
      BY <3>1
    <3>3. Len(<<<<>>>>) = 1 /\ <<<<>>>>[1] = <<>>
      OBVIOUS
    <3>4. [<<<<>>>> EXCEPT ![1] = t.body] = <<t.body>>
      OBVIOUS
    <3>5. "WHERE" \notin SetOperators
      BY DEF SetOperators
    <3>6. WithPieces(<<<<>>>>, t) = [<<<<>>>> EXCEPT ![1] = <<>> \o t.body]
      BY <3>3, <3>5 DEF WithPieces
    <3> QED BY <3>2, <3>4, <3>6
  <2>5. Filters(Append(u, t) \o v) = Filters(Append(u, t))
    BY <1>3, <1>4, <2>2, QuietEnd
  <2>6. new = (u \o <<t>>) \o v
    BY DEF Inserted, u, v
  <2> QED BY <2>2, <2>3, <2>4, <2>5, <2>6
<1> HIDE DEF new, n, u, v
<1>6. DOMAIN new = 1 .. n + 1
  BY <1>3, SeqShape
<1>7. "WHERE" \notin Later /\ Later \subseteq TailClause
  BY KeysAre DEF TailClause
<1>8. new[cut] = t /\ (\A i \in 1 .. n + 1 : i < cut => i \in 1 .. n /\ new[i] = text[i])
      /\ \A i \in 1 .. n + 1 : cut < i => i - 1 \in 1 .. n /\ new[i] = text[i - 1]
  <2>1. cut \in 1 .. n + 1 /\ ~(cut < cut) /\ cut < cut + 1 /\ cut - cut + 1 = 1
    BY <1>1
  <2>2. new[cut] = t
    BY <1>2, <1>3, <2>1
  <2>3. \A i \in 1 .. n + 1 : i < cut => i \in 1 .. n
    BY <1>1
  <2>4. \A i \in 1 .. n + 1 : cut < i => i - 1 \in 1 .. n /\ ~(i < cut) /\ ~(i < cut + 1)
    BY <1>1
  <2> QED BY <1>3, <2>2, <2>3, <2>4
<1>9. Ordered(new)
  <2> SUFFICES ASSUME NEW i \in 1 .. n + 1, NEW j \in 1 .. n + 1, i <= j, Loud(new[j])
               PROVE  new[i].kw \notin Later
    BY <1>6 DEF Ordered
  <2>1. j = cut
    <3>1. \A k \in 1 .. n : ~Loud(text[k])
      BY <1>1 DEF Quiet
    <3>2. j < cut \/ j = cut \/ cut < j
      BY <1>1
    <3> QED BY <1>8, <3>1, <3>2
  <2>2. CASE i = cut
    BY <1>7, <1>8, <2>2
  <2>3. CASE i < cut
    BY <1>1, <1>7, <1>8, <2>3
  <2>4. i = cut \/ i < cut
    BY <1>1, <2>1
  <2> QED BY <2>2, <2>3, <2>4
<1>10. NoLater(text) => NoLater(new)
  <2> SUFFICES ASSUME NoLater(text), NEW i \in 1 .. n + 1 PROVE new[i].kw \notin Later
    BY <1>6 DEF NoLater
  <2>1. i < cut \/ i = cut \/ cut < i
    BY <1>1
  <2>2. \A k \in 1 .. n : text[k].kw \notin Later
    BY <1>1 DEF NoLater
  <2> QED BY <1>7, <1>8, <2>1, <2>2
<1> QED BY <1>3, <1>5, <1>9, <1>10 DEF new

----------------------------------------------------------------------------
(* What a text says is what was asked: operand by operand, wherever the value   *)
(* a call adds of its own is among those that hold.                           *)
Agree(pieces, w) == \A true : OwnValue \in true => (PrintedHolds(pieces, true) <=> ChainHolds(w, true))
Means(f, a) == Chain(a) /\ Len(f) = Len(a) /\ \A o \in DOMAIN a : Agree(f[o], a[o])
Typed(text) == \E S, P : Prints(S, P) /\ text \in Seq(S)
Says(text, a) == Typed(text) /\ Means(Filters(text), a)

\* Conditions recorded and conditions asked, one by one.
AlikeIn(T, w, a) ==
  /\ Calls(T) /\ w \in Seq(T) /\ a \in Seq(T) /\ Len(w) = Len(a)
  /\ \A i \in 1 .. Len(a) : w[i].conn = a[i].conn /\ \A true : TermHolds(w[i], true) <=> TermHolds(a[i], true)
Alike(w, a) == \E T : AlikeIn(T, w, a)

LEMMA ChainsAlike ==
  ASSUME NEW n \in Nat, NEW w, NEW a, Len(w) = n, DOMAIN w = 1 .. n, Len(a) = n, DOMAIN a = 1 .. n, NEW true, NEW some,
         \A i \in 1 .. n : w[i].conn = a[i].conn /\ (TermHolds(w[i], true) <=> TermHolds(a[i], some))
  PROVE  ChainHolds(w, true) <=> ChainHolds(a, some)
<1> DEFINE From(x, holding, i) == \E j \in i .. n : TermHolds(x[j], holding) /\ \A k \in i + 1 .. j : x[k].conn = "OR"
<1>1. ChainHolds(w, true) <=> \A i \in 1 .. n : (i = 1 \/ w[i].conn = "AND") => From(w, true, i)
  BY DEF ChainHolds
<1>2. ChainHolds(a, some) <=> \A i \in 1 .. n : (i = 1 \/ a[i].conn = "AND") => From(a, some, i)
  BY DEF ChainHolds
<1>3. \A i \in 1 .. n : From(w, true, i) <=> From(a, some, i)
  <2> SUFFICES ASSUME NEW i \in 1 .. n PROVE From(w, true, i) <=> From(a, some, i)
    OBVIOUS
  <2>1. \A j \in i .. n : j \in 1 .. n /\ \A k \in i + 1 .. j : k \in 1 .. n
    OBVIOUS
  <2>2. \A j \in i .. n : (\A k \in i + 1 .. j : w[k].conn = "OR") <=> (\A k \in i + 1 .. j : a[k].conn = "OR")
    BY <2>1
  <2> QED BY <2>1, <2>2
<1> HIDE DEF From
<1> QED BY <1>1, <1>2, <1>3

LEMMA AlikeMeans ==
  ASSUME NEW w, NEW a, Alike(w, a), NEW true
  PROVE  ChainHolds(w, true) <=> ChainHolds(a, true)
<1>1. PICK T : AlikeIn(T, w, a)
  BY DEF Alike
<1> DEFINE n == Len(a)
<1>2. n \in Nat /\ Len(w) = n /\ DOMAIN w = 1 .. n /\ DOMAIN a = 1 .. n
  BY <1>1 DEF AlikeIn
<1>3. \A i \in 1 .. n : w[i].conn = a[i].conn /\ (TermHolds(w[i], true) <=> TermHolds(a[i], true))
  BY <1>1 DEF AlikeIn
<1>4. Len(a) = n
  OBVIOUS
<1> HIDE DEF n
<1> QED BY <1>2, <1>3, <1>4, ChainsAlike

LEMMA CallsMore ==
  ASSUME NEW T, Calls(T), NEW t, t.conn \in Conn, NEW w \in Seq(T)
  PROVE  Calls(T \cup {t}) /\ w \in Seq(T \cup {t}) /\ Append(w, t) \in Seq(T \cup {t})
<1> DEFINE U == T \cup {t}
<1>1. T \subseteq U /\ t \in U
  OBVIOUS
<1>2. Calls(U)
  BY DEF Calls
<1> HIDE DEF U
<1>3. w \in Seq(U)
  BY <1>1, SeqMonotonic
<1>4. Append(w, t) \in Seq(U)
  BY <1>1, <1>3, AppendProperties
<1> QED BY <1>2, <1>3, <1>4 DEF U

LEMMA AlikeGrows ==
  ASSUME NEW w, NEW a, Alike(w, a), NEW t, NEW u, t.conn \in Conn, t.conn = u.conn,
         \A true : TermHolds(t, true) <=> TermHolds(u, true)
  PROVE  Alike(Append(w, t), Append(a, u))
<1>1. PICK T : AlikeIn(T, w, a)
  BY DEF Alike
<1> DEFINE V == (T \cup {t}) \cup {u}
           n == Len(a)
           w2 == Append(w, t)
           a2 == Append(a, u)
<1>2. Calls(V) /\ w \in Seq(V) /\ a \in Seq(V) /\ t \in V /\ u \in V
  <2> DEFINE U == T \cup {t}
  <2>1. Calls(U) /\ w \in Seq(U) /\ a \in Seq(U)
    BY <1>1, CallsMore DEF AlikeIn
  <2> HIDE DEF U
  <2>2. Calls(U \cup {u}) /\ w \in Seq(U \cup {u}) /\ a \in Seq(U \cup {u})
    BY <2>1, CallsMore
  <2> QED BY <2>2 DEF U
<1> HIDE DEF V
<1>3. n \in Nat /\ Len(w) = n
  BY <1>1 DEF AlikeIn
<1>4. /\ w2 \in Seq(V) /\ Len(w2) = n + 1 /\ w2[n + 1] = t /\ \A i \in 1 .. n : w2[i] = w[i]
      /\ a2 \in Seq(V) /\ Len(a2) = n + 1 /\ a2[n + 1] = u /\ \A i \in 1 .. n : a2[i] = a[i]
  BY <1>2, <1>3, AppendProperties
<1> HIDE DEF w2, a2
<1>5. \A i \in 1 .. n : w[i].conn = a[i].conn /\ \A true : TermHolds(w[i], true) <=> TermHolds(a[i], true)
  BY <1>1 DEF AlikeIn
<1> HIDE DEF n
<1>6. \A i \in 1 .. n + 1 : i = n + 1 \/ i \in 1 .. n
  BY <1>3
<1>7. \A i \in 1 .. n + 1 : w2[i].conn = a2[i].conn /\ \A true : TermHolds(w2[i], true) <=> TermHolds(a2[i], true)
  BY <1>4, <1>5, <1>6
<1>8. AlikeIn(V, w2, a2)
  BY <1>2, <1>4, <1>7 DEF AlikeIn
<1> QED BY <1>8 DEF Alike, w2, a2

LEMMA AlikeBegins == Alike(<<>>, <<>>)
<1>1. AlikeIn({}, <<>>, <<>>)
  BY DEF AlikeIn, Calls
<1> QED BY <1>1 DEF Alike

----------------------------------------------------------------------------
(* Pieces.                                                                    *)
LEMMA OneTermIs ==
  ASSUME NEW t
  PROVE  RenderWhereTerms(<<t>>) = <<[conn |-> "AND", any |-> <<t>>]>>
<1>1. <<>> \in Seq({t}) /\ <<t>> \in Seq({t}) /\ Append(<<>>, t) = <<t>>
  OBVIOUS
<1>2. OrRuns(<<t>>) = WithTerm(<<>>, t)
  BY <1>1, OrRunsGrow, OrRunsBegin
<1>3. WithTerm(<<>>, t) = <<<<t>>>>
  BY DEF WithTerm
<1>4. Len(<<<<t>>>>) = 1 /\ <<<<t>>>>[1] = <<t>>
  OBVIOUS
<1>5. RenderWhereTerms(<<t>>) = BareRun(<<t>>)
  BY <1>1, <1>2, <1>3, <1>4, OneRunIs
<1>6. BareRun(<<t>>) = <<[conn |-> "AND", any |-> <<t>>]>>
  <2>1. Len(<<t>>) = 1 /\ <<t>>[1] = t /\ 1 .. 1 = {1}
    OBVIOUS
  <2>2. BareRun(<<t>>) = [i \in 1 .. 1 |-> [conn |-> IF i = 1 THEN "AND" ELSE "OR", any |-> <<<<t>>[i]>>]]
    BY <2>1 DEF BareRun
  <2>3. [i \in 1 .. 1 |-> [conn |-> IF i = 1 THEN "AND" ELSE "OR", any |-> <<<<t>>[i]>>]] = [i \in 1 .. 1 |-> [conn |-> "AND", any |-> <<t>>]]
    BY <2>1
  <2>4. [i \in 1 .. 1 |-> [conn |-> "AND", any |-> <<t>>]] = <<[conn |-> "AND", any |-> <<t>>]>>
    OBVIOUS
  <2> QED BY <2>2, <2>3, <2>4
<1> QED BY <1>5, <1>6

\* A condition of the call's own always holds where it holds.
Own(t) == t.conn = "AND" /\ t.mode = "all" /\ t.atoms = {OwnValue}
LEMMA OwnHolds ==
  ASSUME NEW t, Own(t), NEW true, OwnValue \in true
  PROVE  TermHolds(t, true)
BY DEF Own, TermHolds

\* What one more condition, joined by and, makes of the pieces printed so far.
Piece(t) == [conn |-> "AND", any |-> <<t>>]
LEMMA PieceIs ==
  ASSUME NEW t, NEW true
  PROVE  PieceHolds(Piece(t), true) <=> TermHolds(t, true)
<1>1. DOMAIN <<t>> = {1} /\ <<t>>[1] = t
  OBVIOUS
<1>2. Piece(t).any = <<t>>
  BY DEF Piece
<1> QED BY <1>1, <1>2 DEF PieceHolds

LEMMA JustOne == \A i \in 1 .. 1 : i = 1
OBVIOUS

LEMMA OwnPiece ==
  ASSUME NEW P, NEW p \in Seq(P), NEW t, Own(t), NEW true, OwnValue \in true
  PROVE  PrintedHolds(p \o <<Piece(t)>>, true) <=> PrintedHolds(p, true)
<1> DEFINE q == Piece(t)
           R == P \cup {q}
<1>1. p \in Seq(R) /\ q \in R
  <2> P \subseteq R /\ q \in R
    OBVIOUS
  <2> HIDE DEF R
  <2> QED BY SeqMonotonic
<1>2. PieceHolds(q, true) /\ q.conn = "AND"
  BY PieceIs, OwnHolds DEF Piece
<1> HIDE DEF R, q
<1>3. p \o <<q>> = Append(p, q) /\ Append(p, q) # <<>>
  BY <1>1, AppendIsConcat, AppendProperties
<1>4. CASE p = <<>>
  <2> DEFINE pieces == Append(p, q)
             one == 1
  <2>1. one \in Nat /\ one # 0 /\ DOMAIN pieces = 1 .. one /\ Len(pieces) = one /\ pieces[1] = q
    <3>1. Len(p) = 0 /\ p \in Seq(R) /\ q \in R
      BY <1>1, <1>4
    <3>2. pieces \in Seq(R) /\ Len(pieces) = 1 /\ pieces[1] = q
      BY <3>1, AppendProperties
    <3> QED BY <3>2, SeqShape
  <2>2. \A i \in 1 .. one : pieces[i] = q
    <3>1. \A i \in 1 .. one : i = 1
      BY JustOne
    <3> HIDE DEF pieces, one
    <3> QED BY <2>1, <3>1
  <2> HIDE DEF pieces, one
  <2>3. \A i \in 1 .. one : pieces[i].conn = "AND"
    BY <1>2, <2>2
  <2>4. BodyHolds(pieces, true) <=> \A i \in 1 .. one : PieceHolds(pieces[i], true)
    BY <2>1, <2>3, AllOfThem
  <2>5. BodyHolds(pieces, true)
    BY <1>2, <2>2, <2>4
  <2> QED BY <1>3, <1>4, <2>5 DEF PrintedHolds, q, pieces
<1>5. CASE p # <<>>
  <2>1. BodyHolds(Append(p, q), true) <=> BodyHolds(p, true)
    BY <1>1, <1>2, <1>5, BodyGrows
  <2> QED BY <1>3, <1>5, <2>1 DEF PrintedHolds, q
<1> QED BY <1>4, <1>5

----------------------------------------------------------------------------
(* A text after one more call.                                                *)
Reads(text, a) == Says(text, a) /\ Ordered(text)

LEMMA TypedMore ==
  ASSUME NEW S, NEW P, Prints(S, P), NEW text \in Seq(S), NEW W, NEW Q, Prints(W, Q)
  PROVE  Prints(S \cup W, P \cup Q) /\ text \in Seq(S \cup W)
<1>1. Seq(P) \subseteq Seq(P \cup Q) /\ Seq(Q) \subseteq Seq(P \cup Q) /\ Seq(S) \subseteq Seq(S \cup W)
  BY SeqMonotonic
<1>2. ASSUME NEW t \in S \cup W, t.of = "WHERE" PROVE t.body \in Seq(P \cup Q)
  BY <1>1, <1>2 DEF Prints
<1> QED BY <1>1, <1>2 DEF Prints

LEMMA ReorderSays ==
  ASSUME NEW text, NEW a, Reads(text, a)
  PROVE  Says(Reorder(text), a)
<1>1. PICK S, P : Prints(S, P) /\ text \in Seq(S)
  BY DEF Reads, Says, Typed
<1>2. Reorder(text) \in Seq(S) /\ Filters(Reorder(text)) = Filters(text)
  BY <1>1, ReorderReads DEF Reads
<1>3. Typed(Reorder(text))
  BY <1>1, <1>2 DEF Typed
<1> QED BY <1>2, <1>3 DEF Reads, Says

Mute(t) == ~Loud(t) /\ t.kw \notin Later

LEMMA QuietCall ==
  ASSUME NEW text, Typed(text), NEW t, ~Loud(t)
  PROVE  /\ Typed(Append(text, t)) /\ ReadsAs(Append(text, t), text)
         /\ (NoLater(text) /\ t.kw \notin Later) => NoLater(Append(text, t))
<1>1. PICK S, P : Prints(S, P) /\ text \in Seq(S)
  BY DEF Typed
<1> DEFINE U == S \cup {t}
           R == P \cup {}
<1>2. Prints({t}, {})
  BY DEF Prints, Loud
<1>3. Prints(U, R) /\ text \in Seq(U) /\ t \in U
  BY <1>1, <1>2, TypedMore
<1> HIDE DEF U, R
<1>4. Append(text, t) \in Seq(U)
  BY <1>3, AppendProperties
<1>5. Typed(Append(text, t))
  BY <1>3, <1>4 DEF Typed
<1> QED BY <1>3, <1>5, QuietAppend

LEMMA MuteInsert ==
  ASSUME NEW text, Typed(text), NEW W, \A t \in W : Mute(t), NEW w \in Seq(W), NEW cut \in 1 .. Len(text) + 1
  PROVE  /\ Typed(Inserted(text, cut, w)) /\ ReadsAs(Inserted(text, cut, w), text)
         /\ NoLater(text) => NoLater(Inserted(text, cut, w))
<1>1. PICK S, P : Prints(S, P) /\ text \in Seq(S)
  BY DEF Typed
<1> DEFINE U == S \cup W
           R == P \cup {}
<1>2. Prints(W, {})
  BY DEF Prints, Mute, Loud
<1>3. Prints(U, R) /\ text \in Seq(U)
  BY <1>1, <1>2, TypedMore
<1>4. w \in Seq(U)
  <2>1. W \subseteq U
    OBVIOUS
  <2> HIDE DEF U
  <2> QED BY <2>1, SeqMonotonic
<1>5. \A i \in DOMAIN w : w[i] \in W
  BY SeqShape
<1>6. Quiet(w) /\ NoLater(w)
  BY <1>5 DEF Quiet, NoLater, Mute
<1> HIDE DEF U, R
<1>7. /\ Inserted(text, cut, w) \in Seq(U) /\ ReadsAs(Inserted(text, cut, w), text)
      /\ NoLater(text) => NoLater(Inserted(text, cut, w))
  BY <1>3, <1>4, <1>6, QuietInsert
<1>8. Typed(Inserted(text, cut, w))
  BY <1>3, <1>7 DEF Typed
<1> QED BY <1>7, <1>8

LEMMA JoinCall ==
  ASSUME NEW text, Typed(text), NEW W, \A t \in W : Mute(t), NEW w \in Seq(W)
  PROVE  /\ Typed(InsertJoin(text, w)) /\ ReadsAs(InsertJoin(text, w), text)
         /\ NoLater(text) => NoLater(InsertJoin(text, w))
<1> DEFINE cut == FirstTopLevel(text, JoinCut)
<1>1. cut \in 1 .. Len(text) + 1
  <2>1. PICK S, P : Prints(S, P) /\ text \in Seq(S)
    BY DEF Typed
  <2> QED BY <2>1, FirstIs
<1>2. InsertJoin(text, w) = Inserted(text, cut, w)
  BY DEF InsertJoin, Inserted
<1> HIDE DEF cut
<1> QED BY <1>1, <1>2, MuteInsert

LEMMA FrontCall ==
  ASSUME NEW text, Typed(text), NEW t, Mute(t)
  PROVE  /\ Typed(<<t>> \o text) /\ ReadsAs(<<t>> \o text, text)
         /\ NoLater(text) => NoLater(<<t>> \o text)
<1>1. PICK S, P : Prints(S, P) /\ text \in Seq(S)
  BY DEF Typed
<1> DEFINE U == S \cup {t}
           w == <<t>>
<1>2. text \in Seq(U) /\ w \in Seq(U) /\ w \in Seq({t})
  <2>1. S \subseteq U /\ w \in Seq(U)
    OBVIOUS
  <2> HIDE DEF U
  <2> QED BY <1>1, <2>1, SeqMonotonic
<1> HIDE DEF U, w
<1>3. SubSeq(text, 1, 0) = <<>> /\ SubSeq(text, 1, Len(text)) = text /\ Len(text) \in Nat
  BY <1>2, Beginnings
<1>4. <<>> \o w = w
  BY <1>2
<1>5. Inserted(text, 1, w) = w \o text
  BY <1>3, <1>4 DEF Inserted
<1>6. 1 \in 1 .. Len(text) + 1
  BY <1>3
<1>7. \A u \in {t} : Mute(u)
  OBVIOUS
<1> QED BY <1>2, <1>5, <1>6, <1>7, MuteInsert DEF w

LEMMA CutCall ==
  ASSUME NEW text, Typed(text), Ordered(text)
  PROVE  LET kept == SubSeq(text, 1, FirstTopLevel(text, {"ORDER_BY"}) - 1)
         IN  Typed(kept) /\ ReadsAs(kept, text) /\ (NoLater(text) => NoLater(kept))
<1>1. PICK S, P : Prints(S, P) /\ text \in Seq(S)
  BY DEF Typed
<1> DEFINE cut == FirstTopLevel(text, {"ORDER_BY"})
           k == cut - 1
<1>2. /\ cut \in 1 .. Len(text) + 1
      /\ cut <= Len(text) => text[cut].kw = "ORDER_BY"
  BY <1>1, FirstIs
<1>3. Len(text) \in Nat /\ DOMAIN text = 1 .. Len(text)
  BY <1>1, SeqShape
<1> HIDE DEF cut
<1>4. k \in 0 .. Len(text) /\ cut = k + 1
  BY <1>2, <1>3
<1>5. ASSUME NEW i \in k + 1 .. Len(text) PROVE ~Loud(text[i])
  <2>1. cut \in DOMAIN text /\ i \in DOMAIN text /\ cut <= i /\ cut <= Len(text)
    BY <1>2, <1>3, <1>4
  <2>2. text[cut].kw \in Later
    BY <1>2, <2>1 DEF Later, ReorderKeywords
  <2> QED BY <2>1, <2>2 DEF Ordered
<1> HIDE DEF k
<1>6. /\ SubSeq(text, 1, k) \in Seq(S) /\ ReadsAs(SubSeq(text, 1, k), text)
      /\ NoLater(text) => NoLater(SubSeq(text, 1, k))
  BY <1>1, <1>4, <1>5, QuietPrefix
<1>7. Typed(SubSeq(text, 1, k))
  BY <1>1, <1>6 DEF Typed
<1> QED BY <1>6, <1>7 DEF k, cut

----------------------------------------------------------------------------
(* The WHERE.                                                                 *)
LEMMA OneMeans ==
  ASSUME NEW p, NEW w, Agree(p, w)
  PROVE  Means(<<p>>, <<w>>)
<1>1. <<w>> \in Seq({w}) /\ Len(<<w>>) = 1 /\ Len(<<p>>) = 1 /\ DOMAIN <<w>> = {1} /\ <<w>>[1] = w /\ <<p>>[1] = p
  OBVIOUS
<1>2. Chain(<<w>>)
  BY <1>1 DEF Chain
<1> QED BY <1>1, <1>2 DEF Means

LEMMA BodyAgrees ==
  ASSUME NEW w, NEW a, Alike(w, a)
  PROVE  Agree(RenderWhereTerms(w), a) /\ \E P : RenderWhereTerms(w) \in Seq(P)
<1>1. PICK T : AlikeIn(T, w, a)
  BY DEF Alike
<1>2. RenderWhereTerms(w) \in Seq(Pieces(T)) /\ (RenderWhereTerms(w) = <<>> <=> w = <<>>)
  BY <1>1, RenderedType DEF AlikeIn
<1>3. ASSUME NEW true PROVE PrintedHolds(RenderWhereTerms(w), true) <=> ChainHolds(a, true)
  <2>1. (w = <<>> \/ BodyHolds(RenderWhereTerms(w), true)) <=> ChainHolds(w, true)
    BY <1>1, PrintedMeansTheChain DEF AlikeIn
  <2>2. ChainHolds(w, true) <=> ChainHolds(a, true)
    BY AlikeMeans
  <2> QED BY <1>2, <2>1, <2>2 DEF PrintedHolds
<1> QED BY <1>2, <1>3 DEF Agree

LEMMA WhereIs ==
  ASSUME NEW kw, NEW body
  PROVE  LET t == WhereToken(kw, body) IN t.kw = kw /\ t.of = "WHERE" /\ t.body = body
BY DEF WhereToken, Token

LEMMA QuietTyped ==
  ASSUME NEW text, Typed(text), Quiet(text), NEW t, NEW Q, t.of = "WHERE" => t.body \in Seq(Q)
  PROVE  \E S : Prints(S, Q) /\ text \in Seq(S) /\ t \in S
<1>1. PICK S, P : Prints(S, P) /\ text \in Seq(S)
  BY DEF Typed
<1> DEFINE R == {text[i] : i \in 1 .. Len(text)}
           U == R \cup {t}
<1>2. Len(text) \in Nat /\ DOMAIN text = 1 .. Len(text) /\ text \in [1 .. Len(text) -> S]
  BY <1>1, SeqShape
<1>3. text \in [1 .. Len(text) -> U]
  BY <1>2
<1>4. Prints(U, Q)
  <2>1. ASSUME NEW u \in U, u.of = "WHERE" PROVE u.body \in Seq(Q)
    <3>1. CASE u = t
      BY <2>1, <3>1
    <3>2. CASE u \in R
      BY <1>2, <2>1, <3>2 DEF Quiet, Loud
    <3> QED BY <3>1, <3>2
  <2> QED BY <2>1 DEF Prints
<1>5. t \in U
  OBVIOUS
<1> HIDE DEF U, R
<1>6. text \in Seq(U)
  BY <1>2, <1>3, SeqFrom
<1> QED BY <1>4, <1>5, <1>6

LEMMA SpliceSays ==
  ASSUME NEW text, Typed(text), Quiet(text), NEW body, NEW Q, body \in Seq(Q), NEW w, Agree(body, w), NEW pred
  PROVE  /\ Reads(SpliceWhere(text, body, FALSE, pred), <<w>>)
         /\ NoLater(text) => NoLater(SpliceWhere(text, body, FALSE, pred))
<1>1. CASE body = <<>>
  <2>1. SpliceWhere(text, body, FALSE, pred) = text
    BY <1>1 DEF SpliceWhere
  <2>2. PICK S, P : Prints(S, P) /\ text \in Seq(S)
    BY DEF Typed
  <2>3. Filters(text) = <<<<>>>>
    BY <2>2, QuietSays
  <2>4. Means(Filters(text), <<w>>)
    BY <1>1, <2>3, OneMeans
  <2>5. Ordered(text)
    BY OrderedQuiet
  <2> QED BY <2>1, <2>4, <2>5 DEF Reads, Says
<1>2. CASE body # <<>>
  <2> DEFINE cut == FirstTopLevel(text, TailClause)
             t == WhereToken("WHERE", body)
             new == Inserted(text, cut, <<t>>)
  <2>1. SpliceWhere(text, body, FALSE, pred) = new
    BY <1>2 DEF SpliceWhere, Inserted
  <2>2. t.kw = "WHERE" /\ t.of = "WHERE" /\ t.body = body
    BY WhereIs
  <2>3. cut = FirstTopLevel(text, TailClause)
    OBVIOUS
  <2> HIDE DEF t, cut
  <2>4. PICK S : Prints(S, Q) /\ text \in Seq(S) /\ t \in S
    BY <2>2, QuietTyped
  <2>5. /\ new \in Seq(S) /\ Filters(new) = <<t.body>> /\ Ordered(new)
        /\ NoLater(text) => NoLater(new)
    BY <2>2, <2>3, <2>4, SpliceReads
  <2> HIDE DEF new
  <2>6. Typed(new)
    BY <2>4, <2>5 DEF Typed
  <2>7. Means(Filters(new), <<w>>)
    BY <2>2, <2>5, OneMeans
  <2> QED BY <2>1, <2>5, <2>6, <2>7 DEF Reads, Says
<1> QED BY <1>1, <1>2

----------------------------------------------------------------------------
(* A SELECT builder whose text and terms say what was asked, and what it sends. *)
Shaped(x) ==
  DOMAIN x = Fields /\ IsFiniteSet(x.pivots) /\ x.atoms \in Nat /\ x.deletedAt \in BOOLEAN /\ Typed(x.text)
Open(x, a) == x.tail = FALSE /\ Quiet(x.text) /\ \E w : a = <<w>> /\ Alike(x.terms, w)
Closed(x, a) == x.tail = TRUE /\ x.terms = <<>> /\ Ordered(x.text) /\ Means(Filters(x.text), a)
Sound(x, a) == Shaped(x) /\ (Open(x, a) \/ Closed(x, a))
Tells(query, a) == "text" \in DOMAIN query /\ Says(query.text, a)
Remembers(x, a) == x.built # Unbuilt => Tells(x.built[1], a)
Faithful(x, a) == Sound(x, a) /\ Remembers(x, a)

LEMMA CurrentSays ==
  ASSUME NEW x, NEW a, Sound(x, a)
  PROVE  /\ Reads(CurrentSql(x, <<>>), a)
         /\ NoLater(x.text) => NoLater(CurrentSql(x, <<>>))
<1>1. CASE Open(x, a)
  <2>1. PICK w : a = <<w>> /\ Alike(x.terms, w)
    BY <1>1 DEF Open
  <2> DEFINE body == RenderWhereTerms(x.terms)
  <2>2. x.terms \o <<>> = x.terms
    <3>1. \E T : x.terms \in Seq(T)
      BY <2>1 DEF Alike, AlikeIn
    <3> QED BY <3>1
  <2>3. Agree(body, w) /\ \E P : body \in Seq(P)
    BY <2>1, BodyAgrees
  <2>4. CurrentSql(x, <<>>) = SpliceWhere(x.text, body, FALSE, x.tailPred)
    BY <1>1, <2>2 DEF CurrentSql, Open
  <2> HIDE DEF body
  <2>5. Typed(x.text) /\ Quiet(x.text)
    BY <1>1 DEF Sound, Shaped, Open
  <2>6. PICK P : body \in Seq(P)
    BY <2>3
  <2> QED BY <2>1, <2>3, <2>4, <2>5, <2>6, SpliceSays
<1>2. CASE Closed(x, a)
  <2>1. x.terms \o <<>> = <<>> /\ <<>> \in Seq({})
    BY <1>2 DEF Closed
  <2>2. RenderWhereTerms(<<>>) = <<>>
    BY <2>1, RenderedType
  <2>3. CurrentSql(x, <<>>) = x.text
    BY <2>1, <2>2 DEF CurrentSql, SpliceWhere
  <2> QED BY <1>2, <2>3 DEF Reads, Says, Closed, Sound, Shaped
<1> QED BY <1>1, <1>2 DEF Sound

LEMMA BuiltSays ==
  ASSUME NEW x, NEW a, Faithful(x, a)
  PROVE  Tells(Built(x), a) /\ Faithful(EnsureBuilt(x), a)
<1>1. CASE x.built # Unbuilt
  <2>1. EnsureBuilt(x) = x
    BY <1>1 DEF EnsureBuilt
  <2> QED BY <1>1, <2>1 DEF Built, Faithful, Remembers
<1>2. CASE x.built = Unbuilt
  <2> DEFINE text == Reorder(CurrentSql(x, <<>>))
             query == Statement(x, text)
             y == [x EXCEPT !.built = <<query>>]
  <2>1. EnsureBuilt(x) = y
    BY <1>2 DEF EnsureBuilt
  <2>2. Says(text, a)
    BY CurrentSays, ReorderSays DEF Faithful
  <2> HIDE DEF text
  <2>3. Tells(query, a)
    BY <2>2 DEF Statement, Tells
  <2> HIDE DEF query
  <2>4. DOMAIN x = Fields
    BY DEF Faithful, Sound, Shaped
  <2>5. /\ DOMAIN y = Fields /\ y.pivots = x.pivots /\ y.atoms = x.atoms /\ y.deletedAt = x.deletedAt
        /\ y.text = x.text /\ y.terms = x.terms /\ y.tail = x.tail
    BY <2>4 DEF Fields
  <2>6. y.built = <<query>> /\ y.built[1] = query
    BY <2>4 DEF Fields
  <2> HIDE DEF y
  <2>7. Sound(y, a)
    BY <2>5 DEF Faithful, Sound, Shaped, Open, Closed
  <2>8. Remembers(y, a)
    BY <2>3, <2>6 DEF Remembers
  <2> QED BY <2>1, <2>3, <2>6, <2>7, <2>8 DEF Built, Faithful
<1> QED BY <1>1, <1>2

----------------------------------------------------------------------------
(* A condition of the call's own.                                             *)
LEMMA OwnMeans ==
  ASSUME NEW P, NEW f \in Bodies(P), NEW a, Means(f, a), NEW o, Own(o),
         NEW t, t.kw \notin SetOperators, t.of = "WHERE", t.body = <<Piece(o)>>
  PROVE  Means(WithPieces(f, t), a)
<1> DEFINE n == Len(f)
           p == f[n]
           q == p \o <<Piece(o)>>
           g == [f EXCEPT ![n] = q]
<1>1. f \in Seq(Seq(P)) /\ f # <<>>
  BY DEF Bodies
<1>2. WithPieces(f, t) = g
  BY DEF WithPieces
<1> DEFINE S == Seq(P)
<1> HIDE DEF S
<1>3. n \in Nat /\ n # 0 /\ DOMAIN f = 1 .. n /\ \A i \in 1 .. n : f[i] \in S
  BY <1>1, SeqShape DEF S
<1>4. n = Len(a) /\ DOMAIN a = 1 .. n /\ Chain(a) /\ \A i \in DOMAIN a : Agree(f[i], a[i])
  <2>1. n = Len(a) /\ Chain(a) /\ \A i \in DOMAIN a : Agree(f[i], a[i])
    BY DEF Means
  <2>2. PICK A : a \in Seq(A)
    BY <2>1 DEF Chain
  <2>3. DOMAIN a = 1 .. Len(a)
    BY <2>2, SeqShape
  <2> QED BY <2>1, <2>3
<1> HIDE DEF n
<1>5. n \in DOMAIN f /\ n \in DOMAIN a /\ p \in Seq(P)
  BY <1>3, <1>4 DEF S
<1> HIDE DEF p
<1>6. ASSUME NEW true, OwnValue \in true PROVE PrintedHolds(q, true) <=> PrintedHolds(p, true)
  BY <1>5, <1>6, OwnPiece
<1> HIDE DEF q
<1>7. Agree(q, a[n])
  BY <1>4, <1>5, <1>6 DEF Agree, p
<1>8. /\ \A i \in 1 .. n : g[i] = IF i = n THEN q ELSE f[i]
      /\ DOMAIN g = 1 .. n
  BY <1>3
<1>9. Len(g) = n
  <2> HIDE DEF g
  <2> QED BY <1>3, <1>8
<1> HIDE DEF g
<1>10. \A i \in DOMAIN a : Agree(g[i], a[i])
  BY <1>4, <1>7, <1>8
<1> QED BY <1>2, <1>4, <1>9, <1>10 DEF Means

LEMMA OwnTyped ==
  ASSUME NEW text, Typed(text), NEW t, NEW q, t.body = <<q>>
  PROVE  \E S, P : Prints(S, P) /\ text \in Seq(S) /\ t \in S
<1>1. PICK S, P : Prints(S, P) /\ text \in Seq(S)
  BY DEF Typed
<1>2. Prints({t}, {q})
  <2>1. <<q>> \in Seq({q})
    OBVIOUS
  <2> QED BY <2>1 DEF Prints
<1>3. Prints(S \cup {t}, P \cup {q}) /\ text \in Seq(S \cup {t})
  BY <1>1, <1>2, TypedMore
<1> QED BY <1>3

LEMMA OwnSays ==
  ASSUME NEW text, NEW a, Says(text, a), NEW o, Own(o), NEW kw, kw \notin SetOperators
  PROVE  LET t == WhereToken(kw, RenderWhereTerms(<<o>>))
         IN  /\ Says(Append(text, t), a)
             /\ (kw \in {"WHERE", "AND"} /\ Ordered(text)) => Says(Reorder(Append(text, t)), a)
<1> DEFINE t == WhereToken(kw, RenderWhereTerms(<<o>>))
<1>1. t.kw = kw /\ t.of = "WHERE" /\ t.body = <<Piece(o)>>
  BY WhereIs, OneTermIs DEF Piece
<1> HIDE DEF t
<1>2. PICK S, P : Prints(S, P) /\ text \in Seq(S) /\ t \in S
  BY <1>1, OwnTyped DEF Says
<1>3. Filters(Append(text, t)) = WithPieces(Filters(text), t) /\ Filters(text) \in Bodies(P)
  BY <1>2, FiltersGrow
<1>4. Means(WithPieces(Filters(text), t), a)
  BY <1>1, <1>3, OwnMeans DEF Says
<1>5. Append(text, t) \in Seq(S)
  BY <1>2, AppendProperties
<1>6. Says(Append(text, t), a)
  BY <1>2, <1>3, <1>4, <1>5 DEF Says, Typed
<1>7. ASSUME kw \in {"WHERE", "AND"}, Ordered(text) PROVE Says(Reorder(Append(text, t)), a)
  <2>1. Reorder(Append(text, t)) \in Seq(S) /\ Filters(Reorder(Append(text, t))) = WithPieces(Filters(text), t)
    BY <1>1, <1>2, <1>7, LateReads
  <2> QED BY <1>2, <1>4, <2>1 DEF Says, Typed
<1> QED BY <1>6, <1>7 DEF t

LEMMA PageSays ==
  ASSUME NEW x, NEW a, Sound(x, a), NEW o, Own(o)
  PROVE  Says(Reorder(CurrentSql(x, <<o>>)), a)
<1>1. CASE Open(x, a)
  <2>1. PICK w : a = <<w>> /\ Alike(x.terms, w)
    BY <1>1 DEF Open
  <2> DEFINE terms == Append(x.terms, o)
             more == Append(w, o)
             body == RenderWhereTerms(terms)
  <2>2. PICK T : AlikeIn(T, x.terms, w)
    BY <2>1 DEF Alike
  <2>3. x.terms \o <<o>> = terms
    BY <2>2, AppendIsConcat, CallsMore DEF AlikeIn, Own, Conn
  <2>4. CurrentSql(x, <<o>>) = SpliceWhere(x.text, body, FALSE, x.tailPred)
    BY <1>1, <2>3 DEF CurrentSql, Open
  <2>5. Alike(terms, more)
    BY <2>1, AlikeGrows DEF Own, Conn
  <2> HIDE DEF terms
  <2>6. Agree(body, more) /\ \E P : body \in Seq(P)
    BY <2>5, BodyAgrees
  <2> HIDE DEF body
  <2>7. ASSUME NEW true, OwnValue \in true PROVE ChainHolds(more, true) <=> ChainHolds(w, true)
    <3> DEFINE U == T \cup {o}
    <3>1. Calls(U) /\ w \in Seq(U) /\ o \in U
      BY <2>2, CallsMore DEF AlikeIn, Own, Conn
    <3> HIDE DEF U
    <3>2. ChainHolds(more, true) <=> (ChainHolds(w, true) /\ TermHolds(o, true))
      BY <3>1, ChainGrows DEF Own
    <3> QED BY <2>7, <3>2, OwnHolds
  <2> HIDE DEF more
  <2>8. Agree(body, w)
    BY <2>6, <2>7 DEF Agree
  <2>9. Typed(x.text) /\ Quiet(x.text)
    BY <1>1 DEF Sound, Shaped, Open
  <2>10. PICK P : body \in Seq(P)
    BY <2>6
  <2>11. Reads(SpliceWhere(x.text, body, FALSE, x.tailPred), a)
    BY <2>1, <2>8, <2>9, <2>10, SpliceSays
  <2> QED BY <2>4, <2>11, ReorderSays
<1>2. CASE Closed(x, a)
  <2> DEFINE kw == IF x.tailPred THEN "AND" ELSE "WHERE"
             body == RenderWhereTerms(<<o>>)
  <2>1. x.terms \o <<o>> = <<o>>
    BY <1>2 DEF Closed
  <2>2. body # <<>>
    <3> DEFINE piece == [conn |-> "AND", any |-> <<o>>]
    <3>1. body = <<piece>>
      BY OneTermIs
    <3> HIDE DEF piece, body
    <3> QED BY <3>1
  <2>3. CurrentSql(x, <<o>>) = Append(x.text, WhereToken(kw, body))
    BY <1>2, <2>1, <2>2 DEF CurrentSql, SpliceWhere, Closed
  <2>4. Says(x.text, a) /\ Ordered(x.text)
    BY <1>2 DEF Closed, Sound, Shaped, Says
  <2>5. kw \in {"WHERE", "AND"} /\ kw \notin SetOperators
    BY DEF SetOperators
  <2> HIDE DEF kw
  <2>6. Says(Reorder(Append(x.text, WhereToken(kw, body))), a)
    BY <2>4, <2>5, OwnSays
  <2> QED BY <2>3, <2>6
<1> QED BY <1>1, <1>2 DEF Sound

----------------------------------------------------------------------------
(* What a call puts behind the text.                                          *)
LEMMA BehindSays ==
  ASSUME NEW text, NEW a, Says(text, a), NEW W, \A t \in W : ~Loud(t), NEW w \in Seq(W)
  PROVE  Says(text \o w, a)
<1>1. PICK S, P : Prints(S, P) /\ text \in Seq(S)
  BY DEF Says, Typed
<1> DEFINE U == S \cup W
           R == P \cup {}
<1>2. Prints(W, {})
  BY DEF Prints, Loud
<1>3. Prints(U, R) /\ text \in Seq(U)
  BY <1>1, <1>2, TypedMore
<1>4. w \in Seq(U)
  <2>1. W \subseteq U
    OBVIOUS
  <2> HIDE DEF U
  <2> QED BY <2>1, SeqMonotonic
<1>5. Quiet(w)
  BY SeqShape DEF Quiet
<1> HIDE DEF U, R
<1>6. Filters(text \o w) = Filters(text)
  BY <1>3, <1>4, <1>5, QuietEnd
<1>7. text \o w \in Seq(U)
  BY <1>3, <1>4, ConcatProperties
<1> QED BY <1>3, <1>6, <1>7 DEF Says, Typed

LEMMA PlainTokens == \A kw : kw \notin SetOperators /\ kw # "WHERE" => ~Loud(Token(kw))
BY DEF Loud, Token

LEMMA KeySays ==
  ASSUME NEW text, NEW a, Says(text, a), NEW o, Own(o), NEW W, \A t \in W : ~Loud(t), NEW w \in Seq(W)
  PROVE  Says(text \o (<<WhereToken("WHERE", RenderWhereTerms(<<o>>))>> \o w), a)
<1> DEFINE t == WhereToken("WHERE", RenderWhereTerms(<<o>>))
<1>1. Says(Append(text, t), a)
  BY OwnSays DEF SetOperators
<1> HIDE DEF t
<1>2. Says(Append(text, t) \o w, a)
  BY <1>1, BehindSays
<1>3. Append(text, t) \o w = text \o (<<t>> \o w)
  <2>1. PICK S : text \in Seq(S)
    BY DEF Says, Typed
  <2> DEFINE U == (S \cup {t}) \cup W
  <2>2. S \subseteq U /\ W \subseteq U /\ t \in U
    OBVIOUS
  <2> HIDE DEF U
  <2>3. text \in Seq(U) /\ w \in Seq(U) /\ <<t>> \in Seq(U)
    BY <2>1, <2>2, SeqMonotonic
  <2>4. Append(text, t) = text \o <<t>>
    BY <2>2, <2>3, AppendIsConcat
  <2> QED BY <2>3, <2>4, ConcatAssociative
<1> QED BY <1>2, <1>3 DEF t

----------------------------------------------------------------------------
(* The calls that shape the statement.                                        *)
Kin(x, y) == y.tail = x.tail /\ y.trashed = x.trashed /\ y.deletedAt = x.deletedAt
Steady(x, y) == Kin(x, y) /\ (NoLater(x.text) => NoLater(y.text))
Reshaped(x, y) ==
  /\ DOMAIN y = Fields /\ IsFiniteSet(y.pivots) /\ y.terms = x.terms /\ y.atoms = x.atoms /\ Kin(x, y)
  /\ Typed(y.text) /\ ReadsAs(y.text, x.text)

LEMMA ReshapedSound ==
  ASSUME NEW x, NEW a, Sound(x, a), NEW y, Reshaped(x, y)
  PROVE  Sound(y, a)
<1>1. Shaped(y)
  BY DEF Sound, Shaped, Reshaped, Kin
<1>2. CASE Open(x, a)
  BY <1>1, <1>2 DEF Sound, Open, Reshaped, Kin, ReadsAs
<1>3. CASE Closed(x, a)
  BY <1>1, <1>3 DEF Sound, Closed, Reshaped, Kin, ReadsAs
<1> QED BY <1>2, <1>3 DEF Sound

LEMMA DirtyShape ==
  ASSUME NEW x, NEW a, Sound(x, a), NEW y, Reshaped(x, y)
  PROVE  Faithful(Dirty(y), a) /\ Kin(x, Dirty(y)) /\ Dirty(y).text = y.text
<1> DEFINE z == Dirty(y)
<1>1. DOMAIN y = Fields
  BY DEF Reshaped
<1>2. /\ DOMAIN z = Fields /\ z.pivots = y.pivots /\ z.terms = y.terms /\ z.atoms = y.atoms /\ z.tail = y.tail
      /\ z.trashed = y.trashed /\ z.deletedAt = y.deletedAt /\ z.text = y.text
  BY <1>1 DEF Dirty, Fields
<1>3. z.built = Unbuilt
  BY <1>1 DEF Dirty, Fields
<1> HIDE DEF z
<1>4. Reshaped(x, z)
  BY <1>2 DEF Reshaped, Kin
<1>5. Sound(z, a)
  BY <1>4, ReshapedSound
<1> QED BY <1>2, <1>3, <1>4, <1>5 DEF Faithful, Remembers, Reshaped, z

LEMMA SameText ==
  ASSUME NEW text
  PROVE  ReadsAs(text, text)
BY DEF ReadsAs

\* A call that changes nothing but the list, the text or the text and the counters.
LEMMA TextCall ==
  ASSUME NEW x, NEW a, Faithful(x, a), NEW y, DOMAIN y = Fields, y.pivots = x.pivots, y.terms = x.terms,
         y.atoms = x.atoms, Kin(x, y), Typed(y.text), ReadsAs(y.text, x.text)
  PROVE  /\ Faithful(Dirty(y), a) /\ Kin(x, Dirty(y))
         /\ (NoLater(x.text) => NoLater(y.text)) => Steady(x, Dirty(y))
<1>1. Reshaped(x, y) /\ Sound(x, a)
  BY DEF Reshaped, Faithful, Sound, Shaped
<1> QED BY <1>1, DirtyShape DEF Steady

LEMMA ListCall ==
  ASSUME NEW x, NEW a, Faithful(x, a), NEW h
  PROVE  Faithful(Dirty([x EXCEPT !.head = h]), a) /\ Steady(x, Dirty([x EXCEPT !.head = h]))
<1> DEFINE y == [x EXCEPT !.head = h]
<1>1. DOMAIN x = Fields /\ Typed(x.text)
  BY DEF Faithful, Sound, Shaped
<1>2. /\ DOMAIN y = Fields /\ y.pivots = x.pivots /\ y.terms = x.terms /\ y.atoms = x.atoms /\ y.tail = x.tail
      /\ y.trashed = x.trashed /\ y.deletedAt = x.deletedAt /\ y.text = x.text
  BY <1>1 DEF Fields
<1> HIDE DEF y
<1>3. Kin(x, y) /\ Typed(y.text) /\ ReadsAs(y.text, x.text)
  BY <1>1, <1>2, SameText DEF Kin
<1>4. /\ Faithful(Dirty(y), a) /\ Kin(x, Dirty(y))
      /\ (NoLater(x.text) => NoLater(y.text)) => Steady(x, Dirty(y))
  BY <1>2, <1>3, TextCall
<1> QED BY <1>2, <1>4 DEF y

LEMMA EditCall ==
  ASSUME NEW x, NEW a, Faithful(x, a), NEW t, Typed(t), ReadsAs(t, x.text)
  PROVE  /\ Faithful(Dirty([x EXCEPT !.text = t]), a) /\ Kin(x, Dirty([x EXCEPT !.text = t]))
         /\ (NoLater(x.text) => NoLater(t)) => Steady(x, Dirty([x EXCEPT !.text = t]))
<1> DEFINE y == [x EXCEPT !.text = t]
<1>1. DOMAIN x = Fields
  BY DEF Faithful, Sound, Shaped
<1>2. /\ DOMAIN y = Fields /\ y.pivots = x.pivots /\ y.terms = x.terms /\ y.atoms = x.atoms /\ y.tail = x.tail
      /\ y.trashed = x.trashed /\ y.deletedAt = x.deletedAt /\ y.text = t
  BY <1>1 DEF Fields
<1> HIDE DEF y
<1>3. Kin(x, y)
  BY <1>2 DEF Kin
<1>4. /\ Faithful(Dirty(y), a) /\ Kin(x, Dirty(y))
      /\ (NoLater(x.text) => NoLater(y.text)) => Steady(x, Dirty(y))
  BY <1>2, <1>3, TextCall
<1> QED BY <1>2, <1>4 DEF y

LEMMA HavingCall ==
  ASSUME NEW x, NEW a, Faithful(x, a), NEW k
  PROVE  Faithful(Having(x, k), a) /\ Kin(x, Having(x, k))
<1> DEFINE token == [Token(IF x.having THEN "AND" ELSE "HAVING") EXCEPT !.of = "HAVING", !.ph = GetPlaceholders(x, k)]
           t == Append(x.text, token)
           y == [x EXCEPT !.text = t, !.having = TRUE, !.params = @ + k]
<1>1. DOMAIN x = Fields /\ Typed(x.text)
  BY DEF Faithful, Sound, Shaped
<1>2. token.kw \in {"AND", "HAVING"} /\ token.of = "HAVING"
  BY DEF Token
<1>3. ~Loud(token)
  BY <1>2 DEF Loud, SetOperators
<1> HIDE DEF token
<1>4. Typed(t) /\ ReadsAs(t, x.text)
  BY <1>1, <1>3, QuietCall
<1>5. Having(x, k) = Dirty(y)
  BY DEF Having, token
<1>6. /\ DOMAIN y = Fields /\ y.pivots = x.pivots /\ y.terms = x.terms /\ y.atoms = x.atoms /\ y.tail = x.tail
      /\ y.trashed = x.trashed /\ y.deletedAt = x.deletedAt /\ y.text = t
  BY <1>1 DEF Fields
<1> HIDE DEF y, t
<1>7. Kin(x, y) /\ Typed(y.text) /\ ReadsAs(y.text, x.text)
  BY <1>4, <1>6 DEF Kin
<1>8. Faithful(Dirty(y), a) /\ Kin(x, Dirty(y))
  BY <1>6, <1>7, TextCall
<1> QED BY <1>5, <1>8

LEMMA CTECall ==
  ASSUME NEW x, NEW a, Faithful(x, a), NEW words, NEW k
  PROVE  Faithful(WithCTE(x, words, k), a) /\ Steady(x, WithCTE(x, words, k))
<1> DEFINE token == [Token("CTE") EXCEPT !.inner = words, !.ph = LostPlaceholders(x, k)]
           t == <<token>> \o x.text
           y == [x EXCEPT !.text = t, !.head.cte = TRUE, !.head.inner = TRUE]
<1>1. DOMAIN x = Fields /\ Typed(x.text)
  BY DEF Faithful, Sound, Shaped
<1>2. token.kw = "CTE" /\ token.of = "CTE"
  BY DEF Token
<1>3. Mute(token)
  BY <1>2 DEF Mute, Loud, SetOperators, Later, ReorderKeywords
<1> HIDE DEF token
<1>4. Typed(t) /\ ReadsAs(t, x.text) /\ (NoLater(x.text) => NoLater(t))
  BY <1>1, <1>3, FrontCall
<1>5. WithCTE(x, words, k) = Dirty(y)
  BY DEF WithCTE, token
<1>6. /\ DOMAIN y = Fields /\ y.pivots = x.pivots /\ y.terms = x.terms /\ y.atoms = x.atoms /\ y.tail = x.tail
      /\ y.trashed = x.trashed /\ y.deletedAt = x.deletedAt /\ y.text = t
  BY <1>1 DEF Fields
<1> HIDE DEF y, t
<1>7. Kin(x, y) /\ Typed(y.text) /\ ReadsAs(y.text, x.text)
  BY <1>4, <1>6 DEF Kin
<1>8. /\ Faithful(Dirty(y), a) /\ Kin(x, Dirty(y))
      /\ (NoLater(x.text) => NoLater(y.text)) => Steady(x, Dirty(y))
  BY <1>6, <1>7, TextCall
<1> QED BY <1>4, <1>5, <1>6, <1>8

LEMMA JoinsCall ==
  ASSUME NEW x, NEW a, Faithful(x, a), NEW W, \A t \in W : Mute(t), NEW w \in Seq(W)
  PROVE  Faithful(AddJoins(x, w), a) /\ Steady(x, AddJoins(x, w))
<1> DEFINE t == InsertJoin(x.text, w)
           y == [x EXCEPT !.text = InsertJoin(@, w), !.joined = @ \cup {w[i].tbl : i \in DOMAIN w}]
<1>1. DOMAIN x = Fields /\ Typed(x.text)
  BY DEF Faithful, Sound, Shaped
<1>2. Typed(t) /\ ReadsAs(t, x.text) /\ (NoLater(x.text) => NoLater(t))
  BY <1>1, JoinCall
<1>3. AddJoins(x, w) = Dirty(y)
  BY DEF AddJoins
<1>4. /\ DOMAIN y = Fields /\ y.pivots = x.pivots /\ y.terms = x.terms /\ y.atoms = x.atoms /\ y.tail = x.tail
      /\ y.trashed = x.trashed /\ y.deletedAt = x.deletedAt /\ y.text = t
  BY <1>1 DEF Fields
<1> HIDE DEF y, t
<1>5. Kin(x, y) /\ Typed(y.text) /\ ReadsAs(y.text, x.text)
  BY <1>2, <1>4 DEF Kin
<1>6. /\ Faithful(Dirty(y), a) /\ Kin(x, Dirty(y))
      /\ (NoLater(x.text) => NoLater(y.text)) => Steady(x, Dirty(y))
  BY <1>4, <1>5, TextCall
<1> QED BY <1>2, <1>3, <1>4, <1>6

LEMMA SteadyChain ==
  ASSUME NEW x, NEW y, NEW z, Steady(x, y), Steady(y, z)
  PROVE  Steady(x, z)
BY DEF Steady, Kin

\* addToSelectClause edits the memo as well, but not its text.
LEMMA ColumnCall ==
  ASSUME NEW x, NEW a, Faithful(x, a), NEW col, NEW sub
  PROVE  LET y == AddToSelectClause(x, col, sub) IN Faithful(y, a) /\ Steady(x, y) /\ y.pivots = x.pivots
<1> DEFINE h == WithColumn(x.head, col, sub)
           listed == [x EXCEPT !.head = h]
           edited == EnsureBuilt(listed)
           query == edited.built[1]
           more == [query EXCEPT !.head = WithColumn(@, col, sub), !.values = <<>>]
           y == [edited EXCEPT !.built = <<more>>]
<1>1. DOMAIN x = Fields /\ Typed(x.text) /\ IsFiniteSet(x.pivots)
  BY DEF Faithful, Sound, Shaped
<1>2. /\ DOMAIN listed = Fields /\ listed.pivots = x.pivots /\ listed.terms = x.terms /\ listed.atoms = x.atoms
      /\ listed.tail = x.tail /\ listed.trashed = x.trashed /\ listed.deletedAt = x.deletedAt /\ listed.text = x.text
      /\ listed.built = x.built
  BY <1>1 DEF Fields
<1>3. AddToSelectClause(x, col, sub) = IF x.dialect = "postgres" \/ x.head.cte THEN edited ELSE y
  BY DEF AddToSelectClause
<1> HIDE DEF listed
<1>4. Faithful(listed, a)
  <2>1. Reshaped(x, listed)
    BY <1>1, <1>2, SameText DEF Reshaped, Kin
  <2>2. Sound(listed, a)
    BY <2>1, ReshapedSound DEF Faithful
  <2> QED BY <1>2, <2>2 DEF Faithful, Remembers
<1>5. Faithful(edited, a) /\ Tells(query, a)
  BY <1>4, BuiltSays DEF Built
<1>6. /\ edited.pivots = x.pivots /\ edited.tail = x.tail /\ edited.trashed = x.trashed
      /\ edited.deletedAt = x.deletedAt /\ edited.text = x.text /\ DOMAIN edited = Fields
  <2>1. CASE listed.built # Unbuilt
    BY <1>2, <2>1 DEF EnsureBuilt
  <2>2. CASE listed.built = Unbuilt
    BY <1>2, <2>2 DEF EnsureBuilt, Fields
  <2> QED BY <2>1, <2>2
<1>7. Steady(x, edited)
  BY <1>6 DEF Steady, Kin
<1> HIDE DEF edited
<1>8. /\ DOMAIN y = Fields /\ y.pivots = edited.pivots /\ y.terms = edited.terms /\ y.atoms = edited.atoms
      /\ y.tail = edited.tail /\ y.trashed = edited.trashed /\ y.deletedAt = edited.deletedAt /\ y.text = edited.text
      /\ y.built = <<more>> /\ y.built[1] = more
  BY <1>6 DEF Fields
<1> HIDE DEF y, query
<1>9. Tells(more, a)
  BY <1>5 DEF Tells
<1> HIDE DEF more
<1>10. Sound(y, a)
  <2>1. Typed(edited.text) /\ IsFiniteSet(edited.pivots) /\ Sound(edited, a)
    BY <1>5 DEF Faithful, Sound, Shaped
  <2>2. Reshaped(edited, y)
    BY <1>8, <2>1, SameText DEF Reshaped, Kin
  <2> QED BY <2>1, <2>2, ReshapedSound
<1>11. Faithful(y, a) /\ Steady(x, y)
  <2>1. Remembers(y, a)
    BY <1>8, <1>9 DEF Remembers
  <2>2. Steady(x, y)
    BY <1>6, <1>8 DEF Steady, Kin
  <2> QED BY <1>10, <2>1, <2>2 DEF Faithful
<1> QED BY <1>3, <1>5, <1>6, <1>7, <1>8, <1>11

----------------------------------------------------------------------------
(* Relations.                                                                 *)
LEMMA JoinTokensAreMute == \A tbl, on : Mute(JoinToken(tbl, on))
BY DEF Mute, Loud, JoinToken, Token, SetOperators, Later, ReorderKeywords

LEMMA HopCall ==
  ASSUME NEW x, NEW a, Faithful(x, a), NEW from, NEW r
  PROVE  LET y == AddJoins(x, JoinsOf(from, r)) IN Faithful(y, a) /\ Steady(x, y)
<1> DEFINE one == JoinToken(r.pivot, from)
           two == JoinToken(r.target, r.pivot)
           only == JoinToken(r.target, from)
           w == JoinsOf(from, r)
           W == {one, two, only}
<1>1. w = <<one, two>> \/ w = <<only>>
  BY DEF JoinsOf
<1>2. \A t \in W : Mute(t)
  BY JoinTokensAreMute
<1> HIDE DEF one, two, only
<1>3. <<one, two>> \in Seq(W) /\ <<only>> \in Seq(W)
  OBVIOUS
<1> HIDE DEF W, w
<1>4. w \in Seq(W)
  BY <1>1, <1>3
<1>5. Faithful(AddJoins(x, w), a) /\ Steady(x, AddJoins(x, w))
  BY <1>2, <1>4, JoinsCall
<1> QED BY <1>5 DEF w

LEMMA HopsCall ==
  ASSUME NEW x, NEW a, Faithful(x, a), NEW y, Hops(y, x)
  PROVE  Faithful(y, a) /\ Steady(x, y)
<1>1. ASSUME NEW u, NEW v, Faithful(u, a), OneHop(v, u) PROVE Faithful(v, a) /\ Steady(u, v)
  <2>1. Steady(u, u)
    BY DEF Steady, Kin
  <2>2. CASE v = u
    BY <1>1, <2>1, <2>2
  <2>3. CASE \E from, r : v = AddJoins(u, JoinsOf(from, r))
    BY <1>1, <2>3, HopCall
  <2> QED BY <1>1, <2>2, <2>3 DEF OneHop
<1>2. PICK z : OneHop(z, x) /\ OneHop(y, z)
  BY DEF Hops
<1>3. Faithful(z, a) /\ Steady(x, z)
  BY <1>1, <1>2
<1>4. Faithful(y, a) /\ Steady(z, y)
  BY <1>1, <1>2, <1>3
<1> QED BY <1>3, <1>4, SteadyChain

LEMMA PivotsCall ==
  ASSUME NEW x, NEW a, Faithful(x, a)
  PROVE  Faithful(ApplyPivotColumns(x), a) /\ Steady(x, ApplyPivotColumns(x))
<1> DEFINE names == SetToSeq(x.pivots)
           N == Len(names)
<1>1. IsFiniteSet(x.pivots)
  BY DEF Faithful, Sound, Shaped
<1>2. PICK g : ColumnTrace(g, x)
  BY <1>1, PivotColumnsAreTraced
<1>3. /\ g[0] = x /\ \A n \in 1 .. N : g[n] = AddToSelectClause(g[n - 1], PivotTable(names[n]), FALSE)
      /\ ApplyPivotColumns(x) = g[N]
  BY <1>2 DEF ColumnTrace
<1>4. N \in Nat
  BY <1>1, NamesAre
<1> HIDE DEF N, names
<1> DEFINE Good(y) == Faithful(y, a) /\ Steady(x, y)
           S == {n \in 0 .. N : Good(g[n])}
<1>5. 0 \in S
  <2>1. Good(x)
    BY DEF Steady, Kin
  <2>2. 0 \in 0 .. N
    BY <1>4
  <2> QED BY <1>3, <2>1, <2>2
<1>6. ASSUME NEW n \in 0 .. N - 1, n \in S PROVE n + 1 \in S
  <2>1. n + 1 \in 1 .. N /\ n + 1 \in 0 .. N /\ n + 1 - 1 = n
    BY <1>4
  <2> DEFINE next == n + 1
             col == PivotTable(names[next])
             y == AddToSelectClause(g[n], col, FALSE)
  <2>2. g[n + 1] = y
    <3>1. next \in 1 .. N /\ next - 1 = n /\ g[next] = g[n + 1]
      BY <2>1
    <3> HIDE DEF next
    <3>2. g[next] = AddToSelectClause(g[next - 1], PivotTable(names[next]), FALSE)
      BY <1>3, <3>1, Zenon
    <3> QED BY <3>1, <3>2
  <2> HIDE DEF col, next
  <2>3. Faithful(g[n], a) /\ Steady(x, g[n])
    BY <1>6
  <2>4. Faithful(y, a) /\ Steady(g[n], y)
    BY <2>3, ColumnCall
  <2> HIDE DEF y
  <2>5. Good(g[n + 1])
    BY <2>2, <2>3, <2>4, SteadyChain
  <2> HIDE DEF Good
  <2> QED BY <2>1, <2>5
<1>7. N \in S
  <2> HIDE DEF S
  <2>1. 0 .. N \subseteq S
    BY <1>4, <1>5, <1>6, CountingUp
  <2>2. N \in 0 .. N
    BY <1>4
  <2> QED BY <2>1, <2>2
<1> QED BY <1>3, <1>7

LEMMA ForgetCall ==
  ASSUME NEW x, NEW a, Faithful(x, a)
  PROVE  Faithful(Dirty(x), a) /\ Steady(x, Dirty(x))
<1>1. DOMAIN x = Fields /\ Typed(x.text) /\ IsFiniteSet(x.pivots) /\ Sound(x, a)
  BY DEF Faithful, Sound, Shaped
<1>2. Reshaped(x, x)
  BY <1>1, SameText DEF Reshaped, Kin
<1> QED BY <1>1, <1>2, DirtyShape DEF Steady

LEMMA WithCall ==
  ASSUME NEW x, NEW a, Faithful(x, a), NEW path, Len(path) \in {1, 2}
  PROVE  LET y == With(x, <<path>>).b IN Faithful(y, a) /\ Steady(x, y)
<1>1. PICK y : Hops(y, x) /\ With(x, <<path>>).b \in {y, Dirty(ApplyPivotColumns(y))}
  BY WithIs
<1>2. Faithful(y, a) /\ Steady(x, y)
  BY <1>1, HopsCall
<1>3. Faithful(ApplyPivotColumns(y), a) /\ Steady(y, ApplyPivotColumns(y))
  BY <1>2, PivotsCall
<1> DEFINE z == ApplyPivotColumns(y)
<1> HIDE DEF z
<1>4. Faithful(z, a) /\ Steady(y, z)
  BY <1>3 DEF z
<1>5. Faithful(Dirty(z), a) /\ Steady(z, Dirty(z))
  BY <1>4, ForgetCall
<1>6. Steady(x, Dirty(z))
  BY <1>2, <1>4, <1>5, SteadyChain
<1> QED BY <1>1, <1>2, <1>5, <1>6 DEF z

LEMMA PivotCall ==
  ASSUME NEW x, NEW a, Faithful(x, a), NEW name
  PROVE  Faithful(WithPivot(x, name), a) /\ Steady(x, WithPivot(x, name))
<1> DEFINE y == [x EXCEPT !.pivots = @ \cup {name}]
<1>1. DOMAIN x = Fields /\ Typed(x.text) /\ IsFiniteSet(x.pivots) /\ Sound(x, a)
  BY DEF Faithful, Sound, Shaped
<1>2. /\ DOMAIN y = Fields /\ y.pivots = x.pivots \cup {name} /\ y.terms = x.terms /\ y.atoms = x.atoms
      /\ y.tail = x.tail /\ y.trashed = x.trashed /\ y.deletedAt = x.deletedAt /\ y.text = x.text
      /\ y.built = x.built
  BY <1>1 DEF Fields
<1> HIDE DEF y
<1>3. IsFiniteSet(y.pivots)
  BY <1>1, <1>2, FS_AddElement
<1>4. Reshaped(x, y) /\ Steady(x, y)
  BY <1>1, <1>2, <1>3, SameText DEF Reshaped, Kin, Steady
<1>5. Faithful(y, a)
  BY <1>1, <1>2, <1>4, ReshapedSound DEF Faithful, Remembers
<1>6. Faithful(ApplyPivotColumns(y), a) /\ Steady(y, ApplyPivotColumns(y))
  BY <1>5, PivotsCall
<1>7. Steady(x, ApplyPivotColumns(y))
  BY <1>4, <1>6, SteadyChain
<1> QED BY <1>6, <1>7 DEF WithPivot, y

----------------------------------------------------------------------------
(* The calls that record a condition.                                         *)
Asks(a, u) == [a EXCEPT ![Len(a)] = Append(@, u)]
Matches(t, u) == t.conn \in Conn /\ t.conn = u.conn /\ \A true : TermHolds(t, true) <=> TermHolds(u, true)

LEMMA AsksOne ==
  ASSUME NEW w, NEW u
  PROVE  Asks(<<w>>, u) = <<Append(w, u)>>
<1> DEFINE f == <<w>>
           v == Append(w, u)
<1>1. Len(f) = 1 /\ f[1] = w
  OBVIOUS
<1> HIDE DEF v
<1>2. [f EXCEPT ![1] = v] = <<v>>
  OBVIOUS
<1> QED BY <1>1, <1>2 DEF Asks, v

LEMMA PushCall ==
  ASSUME NEW x, NEW a, Faithful(x, a), x.tail # TRUE, NEW t, NEW u, Matches(t, u), Cardinality(t.atoms) \in Nat, NEW k
  PROVE  Faithful(PushWhere(x, t, k), Asks(a, u)) /\ Steady(x, PushWhere(x, t, k))
<1>1. /\ DOMAIN x = Fields /\ Typed(x.text) /\ IsFiniteSet(x.pivots) /\ x.atoms \in Nat /\ x.deletedAt \in BOOLEAN
      /\ Open(x, a)
  BY DEF Faithful, Sound, Shaped, Closed
<1>2. PICK w : a = <<w>> /\ Alike(x.terms, w)
  BY <1>1 DEF Open
<1> DEFINE more == Append(x.terms, t)
           y == [x EXCEPT !.terms = Append(@, t), !.params = @ + k, !.atoms = @ + Cardinality(t.atoms)]
           z == Dirty(y)
<1>3. Alike(more, Append(w, u)) /\ Asks(a, u) = <<Append(w, u)>>
  BY <1>2, AlikeGrows, AsksOne DEF Matches
<1>4. PushWhere(x, t, k) = z
  BY DEF PushWhere
<1> DEFINE n == Cardinality(t.atoms)
<1> HIDE DEF n
<1>5. /\ DOMAIN y = Fields /\ y.pivots = x.pivots /\ y.terms = more /\ y.atoms = x.atoms + n
      /\ y.tail = x.tail /\ y.trashed = x.trashed /\ y.deletedAt = x.deletedAt /\ y.text = x.text
  BY <1>1 DEF Fields, n
<1> HIDE DEF y, more
<1>6. /\ DOMAIN z = Fields /\ z.pivots = x.pivots /\ z.terms = more /\ z.atoms = x.atoms + n
      /\ z.tail = x.tail /\ z.trashed = x.trashed /\ z.deletedAt = x.deletedAt /\ z.text = x.text
      /\ z.built = Unbuilt
  BY <1>5 DEF Fields, Dirty
<1> HIDE DEF z
<1>7. x.atoms + n \in Nat
  BY <1>1 DEF n
<1>8. Shaped(z)
  BY <1>1, <1>6, <1>7 DEF Shaped
<1>9. Open(z, Asks(a, u))
  BY <1>1, <1>3, <1>6 DEF Open, more
<1>10. Steady(x, z)
  BY <1>6 DEF Steady, Kin
<1>11. Faithful(z, Asks(a, u))
  BY <1>6, <1>8, <1>9 DEF Faithful, Sound, Remembers
<1> QED BY <1>4, <1>10, <1>11

LEMMA NextAtomsAre ==
  ASSUME NEW x, x.atoms \in Nat, NEW n \in Nat
  PROVE  Cardinality(NextAtoms(x, n)) \in Nat /\ NextAtoms(x, 0) = {}
<1>1. x.atoms + 1 \in Int /\ x.atoms + n \in Int
  OBVIOUS
<1>2. IsFiniteSet((x.atoms + 1) .. (x.atoms + n))
  BY <1>1, FS_Interval
<1>3. Cardinality((x.atoms + 1) .. (x.atoms + n)) \in Nat
  BY <1>2, FS_CardinalityType
<1>4. NextAtoms(x, 0) = {}
  BY DEF NextAtoms
<1> QED BY <1>3, <1>4 DEF NextAtoms

LEMMA PredicateCall ==
  ASSUME NEW x, NEW a, Faithful(x, a), x.tail # TRUE, NEW conn \in Conn, NEW mode, NEW n \in Nat, NEW k,
         NEW u, Matches(Term(conn, mode, NextAtoms(x, n), <<>>), u)
  PROVE  Faithful(Predicate(x, conn, mode, n, k), Asks(a, u)) /\ Steady(x, Predicate(x, conn, mode, n, k))
<1> DEFINE t == Term(conn, mode, NextAtoms(x, n), GetPlaceholders(x, k))
<1>1. t.conn = conn /\ t.mode = mode /\ t.atoms = NextAtoms(x, n)
  BY DEF Term
<1>2. Matches(t, u)
  BY DEF Matches, Term, TermHolds
<1> HIDE DEF t
<1>3. x.atoms \in Nat
  BY DEF Faithful, Sound, Shaped
<1>4. Cardinality(t.atoms) \in Nat
  BY <1>1, <1>3, NextAtomsAre
<1>5. Faithful(PushWhere(x, t, k), Asks(a, u)) /\ Steady(x, PushWhere(x, t, k))
  BY <1>2, <1>4, PushCall
<1> QED BY <1>5 DEF Predicate, t

\* The condition recorded is the one the caller gave.
LEMMA SameCondition ==
  ASSUME NEW conn \in Conn, NEW mode, NEW atoms, NEW ph
  PROVE  Matches(Term(conn, mode, atoms, ph), Term(conn, mode, atoms, <<>>))
BY DEF Matches, Term, TermHolds

\* In a list, and what the caller asked.
Member(x, conn, n, negated) ==
  IF n = 0 THEN Term(conn, IF negated THEN "all" ELSE "any", NextAtoms(x, 0), <<>>)
  ELSE Term(conn, "all", NextAtoms(x, 1), <<>>)

LEMMA InCall ==
  ASSUME NEW x, NEW a, Faithful(x, a), x.tail # TRUE, NEW conn \in Conn, NEW n \in Nat, NEW negated
  PROVE  LET y == WhereIn(x, conn, n, negated) IN Faithful(y, Asks(a, Member(x, conn, n, negated))) /\ Steady(x, y)
<1> DEFINE mode == IF n = 0 THEN IF negated THEN "all" ELSE "any" ELSE "all"
           m == IF n = 0 THEN 0 ELSE 1
           u == Term(conn, mode, NextAtoms(x, m), <<>>)
<1>1. WhereIn(x, conn, n, negated) = Predicate(x, conn, mode, m, n)
  BY DEF WhereIn, RenderInPredicate
<1>2. Member(x, conn, n, negated) = u
  BY DEF Member
<1>3. m \in Nat
  OBVIOUS
<1> HIDE DEF m, mode
<1>4. Matches(u, u)
  BY SameCondition
<1> HIDE DEF u
<1>5. Faithful(Predicate(x, conn, mode, m, n), Asks(a, u)) /\ Steady(x, Predicate(x, conn, mode, m, n))
  BY <1>3, <1>4, PredicateCall DEF u
<1> QED BY <1>1, <1>2, <1>5

\* The proxy's whereColumnName(value): over nothing it does not parse, and nothing was asked for.
LEMMA DynamicCall ==
  ASSUME NEW x, NEW a, Faithful(x, a), x.tail # TRUE, NEW conn \in Conn, NEW n \in Nat
  PROVE  LET y == DynamicWhere(x, conn, n) IN Faithful(y, Asks(a, Member(x, conn, n, FALSE))) /\ Steady(x, y)
<1> DEFINE mode == IF n = 0 THEN "broken" ELSE "all"
           u == Member(x, conn, n, FALSE)
           one == 1
<1>1. DynamicWhere(x, conn, n) = Predicate(x, conn, mode, one, n)
  BY DEF DynamicWhere
<1>2. x.atoms \in Nat
  BY DEF Faithful, Sound, Shaped
<1>3. NextAtoms(x, 0) = {}
  BY <1>2, NextAtomsAre
<1> DEFINE t == Term(conn, mode, NextAtoms(x, one), <<>>)
<1>4. Matches(t, u)
  <2>1. CASE n = 0
    <3>1. t.conn = conn /\ t.mode = "broken" /\ u.conn = conn /\ u.mode = "any" /\ u.atoms = {}
      BY <1>3, <2>1 DEF Term, Member
    <3> HIDE DEF t, u
    <3>2. \A true : ~TermHolds(t, true) /\ ~TermHolds(u, true)
      BY <3>1 DEF TermHolds
    <3> QED BY <3>1, <3>2 DEF Matches
  <2>2. CASE n # 0
    <3>1. t = u
      BY <2>2 DEF Member
    <3>2. t.conn = conn
      BY DEF Term
    <3> HIDE DEF t, u
    <3> QED BY <3>1, <3>2 DEF Matches
  <2> QED BY <2>1, <2>2
<1>5. one \in Nat
  OBVIOUS
<1> HIDE DEF u, mode, one
<1>6. Faithful(Predicate(x, conn, mode, one, n), Asks(a, u)) /\ Steady(x, Predicate(x, conn, mode, one, n))
  BY <1>4, <1>5, PredicateCall
<1> QED BY <1>1, <1>6 DEF u

LEMMA SubqueryCall ==
  ASSUME NEW x, NEW a, Faithful(x, a), x.tail # TRUE, NEW conn \in Conn, NEW k
  PROVE  LET y == WhereSubquery(x, conn, k)
         IN  Faithful(y, Asks(a, Term(conn, "all", NextAtoms(x, 1), <<>>))) /\ Steady(x, y)
<1> DEFINE t == Term(conn, "all", NextAtoms(x, 1), LostPlaceholders(x, k))
           u == Term(conn, "all", NextAtoms(x, 1), <<>>)
<1>1. Matches(t, u)
  BY SameCondition
<1>2. x.atoms \in Nat
  BY DEF Faithful, Sound, Shaped
<1>3. t.atoms = NextAtoms(x, 1)
  BY DEF Term
<1>4. Cardinality(NextAtoms(x, 1)) \in Nat
  BY <1>2, NextAtomsAre
<1> HIDE DEF t, u
<1>5. Faithful(PushWhere(x, t, 0), Asks(a, u)) /\ Steady(x, PushWhere(x, t, 0))
  BY <1>1, <1>3, <1>4, PushCall
<1> QED BY <1>5 DEF WhereSubquery, t, u

\* whereGroup(callback), over a builder that gave two conditions.
Pair(dialect, second) == AddBooleanWhere(Where(MakeSelect(dialect), 1, 1), second, 1, 1)

LEMMA TwoTerms ==
  ASSUME NEW p, NEW q
  PROVE  LET w == Append(<<p>>, q) IN Len(w) = 2 /\ DOMAIN w = {1, 2} /\ w[1] = p /\ w[2] = q
<1> DEFINE v == <<p>>
           w == Append(v, q)
           S == {p, q}
<1>1. v \in Seq(S) /\ Len(v) = 1 /\ v[1] = p /\ q \in S
  OBVIOUS
<1> HIDE DEF v, S
<1>2. /\ w \in Seq(S) /\ Len(w) = Len(v) + 1 /\ w[Len(v) + 1] = q
      /\ \A i \in 1 .. Len(v) : w[i] = v[i]
  BY <1>1, AppendProperties
<1> HIDE DEF w
<1>3. Len(w) = 2 /\ w[1] = p /\ w[2] = q
  BY <1>1, <1>2
<1>4. DOMAIN w = 1 .. 2
  BY <1>2, <1>3, SeqShape
<1> QED BY <1>3, <1>4 DEF w, v

LEMMA PairIs ==
  ASSUME NEW dialect, NEW second
  PROVE  LET s == Pair(dialect, second)
         IN  /\ Len(s.terms) = 2 /\ DOMAIN s.terms = {1, 2} /\ s.terms[1].conn = "AND" /\ s.terms[2].conn = second
             /\ s.terms[1].atoms = {1} /\ s.terms[2].atoms = {2}
<1> DEFINE x0 == MakeSelect(dialect)
           x1 == Where(x0, 1, 1)
           t1 == Term("AND", "all", NextAtoms(x0, 1), GetPlaceholders(x0, 1))
           t2 == Term(second, "all", NextAtoms(x1, 1), GetPlaceholders(x1, 1))
<1>1. x0.terms = <<>> /\ x0.atoms = 0 /\ DOMAIN x0 = Fields
  BY DEF MakeSelect, Fields
<1>2. NextAtoms(x0, 1) = {1}
  BY <1>1 DEF NextAtoms
<1>3. Cardinality({1}) = 1
  BY FS_Singleton
<1>4. t1.atoms = {1} /\ t1.conn = "AND"
  BY <1>2 DEF Term
<1> HIDE DEF x0, t1
<1>5. x1.terms = Append(x0.terms, t1) /\ x1.atoms = x0.atoms + Cardinality(t1.atoms) /\ DOMAIN x1 = Fields
  BY <1>1 DEF Where, Predicate, PushWhere, Dirty, Fields, t1
<1>6. x1.terms = <<t1>> /\ x1.atoms = 1
  BY <1>1, <1>3, <1>4, <1>5
<1> HIDE DEF x1
<1>7. NextAtoms(x1, 1) = {2}
  BY <1>6 DEF NextAtoms
<1>8. t2.atoms = {2} /\ t2.conn = second
  BY <1>7 DEF Term
<1> HIDE DEF t2
<1>9. Pair(dialect, second).terms = Append(x1.terms, t2)
  BY <1>5 DEF Pair, x1, x0, AddBooleanWhere, Predicate, PushWhere, Dirty, Fields, t2
<1> DEFINE w == Append(x1.terms, t2)
<1>10. Len(w) = 2 /\ DOMAIN w = {1, 2} /\ w[1] = t1 /\ w[2] = t2
  BY <1>6, TwoTerms
<1> HIDE DEF w
<1> QED BY <1>4, <1>8, <1>9, <1>10 DEF w

LEMMA GroupCall ==
  ASSUME NEW x, NEW a, Faithful(x, a), x.tail # TRUE, NEW conn \in Conn, NEW dialect, NEW second \in Conn
  PROVE  LET y == AddWhereGroup(x, conn, Pair(dialect, second))
             u == Term(conn, IF second = "OR" THEN "any" ELSE "all", NextAtoms(x, 2), <<>>)
         IN  Faithful(y, Asks(a, u)) /\ Steady(x, y)
<1> DEFINE s == Pair(dialect, second)
           mode == IF \E i \in 2 .. Len(s.terms) : s.terms[i].conn = "OR" THEN "any" ELSE "all"
           body == Term(conn, mode, UNION {s.terms[i].atoms : i \in DOMAIN s.terms}, BodyPlaceholders(RenderWhereTerms(s.terms)))
           t == RenumberTerm(body, x)
           u == Term(conn, IF second = "OR" THEN "any" ELSE "all", NextAtoms(x, 2), <<>>)
<1>1. /\ Len(s.terms) = 2 /\ DOMAIN s.terms = {1, 2} /\ s.terms[2].conn = second
      /\ s.terms[1].atoms = {1} /\ s.terms[2].atoms = {2}
  BY PairIs
<1>2. AddWhereGroup(x, conn, s) = PushWhere(x, t, s.params)
  BY DEF AddWhereGroup
<1> HIDE DEF s
<1>3. mode = IF second = "OR" THEN "any" ELSE "all"
  BY <1>1
<1>4. UNION {s.terms[i].atoms : i \in DOMAIN s.terms} = {1, 2}
  BY <1>1
<1>5. body.conn = conn /\ body.mode = mode /\ body.atoms = {1, 2} /\ DOMAIN body = {"conn", "mode", "atoms", "ph"}
  BY <1>4 DEF Term
<1> HIDE DEF body
<1>6. t.conn = conn /\ t.mode = mode /\ t.atoms = {x.atoms + n : n \in {1, 2}}
  BY <1>5 DEF RenumberTerm
<1>7. x.atoms \in Nat
  BY DEF Faithful, Sound, Shaped
<1>8. t.atoms = NextAtoms(x, 2)
  BY <1>6, <1>7 DEF NextAtoms
<1>9. u.conn = conn /\ u.mode = mode /\ u.atoms = NextAtoms(x, 2)
  BY <1>3 DEF Term
<1> HIDE DEF t, u, mode
<1>10. Matches(t, u)
  BY <1>6, <1>8, <1>9 DEF Matches, TermHolds
<1>11. Cardinality(t.atoms) \in Nat
  BY <1>7, <1>8, NextAtomsAre
<1>12. Faithful(PushWhere(x, t, s.params), Asks(a, u)) /\ Steady(x, PushWhere(x, t, s.params))
  BY <1>10, <1>11, PushCall
<1> QED BY <1>2, <1>12 DEF s, u

----------------------------------------------------------------------------
(* The pivot filters join their table first, behind whatever the text ends in. *)
LEMMA PivotJoinCall ==
  ASSUME NEW x, NEW a, Faithful(x, a), NEW name
  PROVE  LET y == EnsurePivotJoined(x, name) IN Faithful(y, a) /\ Steady(x, y) /\ y.atoms = x.atoms
<1>1. CASE PivotTable(name) \in x.joined
  BY <1>1 DEF EnsurePivotJoined, Steady, Kin
<1>2. CASE PivotTable(name) \notin x.joined
  <2> DEFINE e == EnsureBuilt(x)
             token == JoinToken(PivotTable(name), Root)
             t == Append(e.text, token)
             y == [e EXCEPT !.text = Append(@, token), !.joined = @ \cup {PivotTable(name)}]
  <2>1. EnsurePivotJoined(x, name) = y
    BY <1>2 DEF EnsurePivotJoined
  <2>2. Faithful(e, a)
    BY BuiltSays
  <2>3. DOMAIN x = Fields
    BY DEF Faithful, Sound, Shaped
  <2>4. e.tail = x.tail /\ e.trashed = x.trashed /\ e.deletedAt = x.deletedAt /\ e.text = x.text /\ e.atoms = x.atoms
    BY <2>3 DEF EnsureBuilt, Fields
  <2> HIDE DEF e
  <2>5. DOMAIN e = Fields /\ Typed(e.text) /\ IsFiniteSet(e.pivots) /\ Sound(e, a)
    BY <2>2 DEF Faithful, Sound, Shaped
  <2>6. Mute(token)
    BY JoinTokensAreMute
  <2> HIDE DEF token
  <2>7. Typed(t) /\ ReadsAs(t, e.text) /\ (NoLater(e.text) => NoLater(t))
    BY <2>5, <2>6, QuietCall DEF Mute
  <2>8. /\ DOMAIN y = Fields /\ y.pivots = e.pivots /\ y.terms = e.terms /\ y.atoms = e.atoms
        /\ y.tail = e.tail /\ y.trashed = e.trashed /\ y.deletedAt = e.deletedAt /\ y.text = t /\ y.built = e.built
    BY <2>5 DEF Fields
  <2> HIDE DEF y, t
  <2>9. Reshaped(e, y)
    BY <2>5, <2>7, <2>8 DEF Reshaped, Kin
  <2>10. Faithful(y, a)
    BY <2>2, <2>5, <2>8, <2>9, ReshapedSound DEF Faithful, Remembers
  <2>11. Steady(x, y)
    BY <2>4, <2>7, <2>8 DEF Steady, Kin
  <2> QED BY <2>1, <2>4, <2>8, <2>10, <2>11
<1> QED BY <1>1, <1>2

LEMMA PivotPredicateCall ==
  ASSUME NEW x, NEW a, Faithful(x, a), x.tail # TRUE, NEW name, NEW k, NEW negated, NEW n \in Nat
  PROVE  LET y == Predicate(EnsurePivotJoined(x, name), "AND", "all", 1, k)
             z == WhereIn(EnsurePivotJoined(x, name), "AND", n, negated)
         IN  /\ Faithful(y, Asks(a, Term("AND", "all", NextAtoms(x, 1), <<>>))) /\ Steady(x, y)
             /\ Faithful(z, Asks(a, Member(x, "AND", n, negated))) /\ Steady(x, z)
<1> DEFINE e == EnsurePivotJoined(x, name)
           u == Term("AND", "all", NextAtoms(e, 1), <<>>)
           y == Predicate(e, "AND", "all", 1, k)
           z == WhereIn(e, "AND", n, negated)
<1>1. Faithful(e, a) /\ Steady(x, e) /\ e.atoms = x.atoms
  BY PivotJoinCall
<1>2. e.tail # TRUE
  BY <1>1 DEF Steady, Kin
<1> HIDE DEF e
<1>3. u = Term("AND", "all", NextAtoms(x, 1), <<>>) /\ Member(e, "AND", n, negated) = Member(x, "AND", n, negated)
  BY <1>1 DEF NextAtoms, Member
<1>4. "AND" \in Conn
  BY DEF Conn
<1>5. Matches(u, u)
  BY <1>4, SameCondition
<1>6. Faithful(y, Asks(a, u)) /\ Steady(e, y)
  BY <1>1, <1>2, <1>4, <1>5, PredicateCall
<1>7. Faithful(z, Asks(a, Member(e, "AND", n, negated))) /\ Steady(e, z)
  BY <1>1, <1>2, <1>4, InCall
<1> HIDE DEF y, z, u
<1>8. Steady(x, y) /\ Steady(x, z)
  BY <1>1, <1>6, <1>7, SteadyChain
<1> QED BY <1>3, <1>6, <1>7, <1>8 DEF e, y, z

----------------------------------------------------------------------------
(* get(): the filter for live rows is recorded once, unless it is not wanted.  *)
Hides(x, on) == on /\ x.trashed = "default" /\ ~x.deletedAt
LEMMA GetCall ==
  ASSUME NEW x, NEW a, Faithful(x, a), x.tail # TRUE, NEW on
  PROVE  LET y == GetBuilder(x, on)
             u == Term("AND", "all", NextAtoms(x, 1), <<>>)
         IN  /\ Faithful(y, IF Hides(x, on) THEN Asks(a, u) ELSE a)
             /\ y.tail = x.tail /\ y.trashed = x.trashed /\ y.text = x.text
             /\ Hides(x, on) => y.deletedAt = TRUE
             /\ ~Hides(x, on) => y.deletedAt = x.deletedAt
<1> DEFINE query == Statement(x, CurrentSql(x, <<>>))
           plain == [x EXCEPT !.built = <<query>>]
           pushed == WhereNull(plain, "AND")
           live == [pushed EXCEPT !.deletedAt = TRUE]
           u == Term("AND", "all", NextAtoms(x, 1), <<>>)
<1>1. DOMAIN x = Fields /\ Typed(x.text) /\ IsFiniteSet(x.pivots) /\ Sound(x, a)
  BY DEF Faithful, Sound, Shaped
<1>2. Tells(query, a)
  BY <1>1, CurrentSays DEF Tells, Statement, Reads
<1>3. /\ DOMAIN plain = Fields /\ plain.pivots = x.pivots /\ plain.terms = x.terms /\ plain.atoms = x.atoms
      /\ plain.tail = x.tail /\ plain.trashed = x.trashed /\ plain.deletedAt = x.deletedAt /\ plain.text = x.text
      /\ plain.built = <<query>> /\ plain.built[1] = query
  BY <1>1 DEF Fields
<1>4. GetBuilder(x, on) = IF Hides(x, on) THEN EnsureBuilt(live) ELSE plain
  BY DEF GetBuilder, Hides
<1> HIDE DEF query, plain
<1>5. Faithful(plain, a)
  <2>1. Reshaped(x, plain)
    BY <1>1, <1>3, SameText DEF Reshaped, Kin
  <2>2. Sound(plain, a)
    BY <1>1, <2>1, ReshapedSound
  <2> QED BY <1>2, <1>3, <2>2 DEF Faithful, Remembers
<1>6. Faithful(pushed, Asks(a, u)) /\ Steady(plain, pushed) /\ pushed.text = plain.text
  <2> DEFINE p == Term("AND", "all", NextAtoms(plain, 1), <<>>)
  <2>1. "AND" \in Conn /\ plain.tail # TRUE
    BY <1>3 DEF Conn
  <2>2. Matches(p, p)
    BY <2>1, SameCondition
  <2>3. p = u
    BY <1>3 DEF NextAtoms
  <2>4. Faithful(pushed, Asks(a, p)) /\ Steady(plain, pushed)
    BY <1>5, <2>1, <2>2, PredicateCall DEF WhereNull
  <2>5. pushed.text = plain.text
    BY <1>3 DEF WhereNull, Predicate, PushWhere, Dirty, Fields
  <2> QED BY <2>3, <2>4, <2>5
<1> HIDE DEF pushed, u
<1>7. DOMAIN pushed = Fields /\ Typed(pushed.text) /\ IsFiniteSet(pushed.pivots) /\ Sound(pushed, Asks(a, u))
  BY <1>6 DEF Faithful, Sound, Shaped
<1>8. /\ DOMAIN live = Fields /\ live.pivots = pushed.pivots /\ live.terms = pushed.terms /\ live.atoms = pushed.atoms
      /\ live.tail = pushed.tail /\ live.trashed = pushed.trashed /\ live.text = pushed.text
      /\ live.built = pushed.built /\ live.deletedAt = TRUE
  BY <1>7 DEF Fields
<1> HIDE DEF live
<1>9. Faithful(live, Asks(a, u))
  BY <1>6, <1>7, <1>8 DEF Faithful, Sound, Shaped, Open, Closed, Remembers
<1>10. Faithful(EnsureBuilt(live), Asks(a, u))
  BY <1>9, BuiltSays
<1>11. LET y == EnsureBuilt(live)
       IN  y.tail = x.tail /\ y.trashed = x.trashed /\ y.text = x.text /\ y.deletedAt = TRUE
  <2>1. /\ EnsureBuilt(live).tail = live.tail /\ EnsureBuilt(live).trashed = live.trashed
        /\ EnsureBuilt(live).text = live.text /\ EnsureBuilt(live).deletedAt = live.deletedAt
    BY <1>8 DEF EnsureBuilt, Fields
  <2> QED BY <1>3, <1>6, <1>8, <2>1 DEF Steady, Kin
<1> QED BY <1>3, <1>4, <1>5, <1>10, <1>11 DEF u

----------------------------------------------------------------------------
(* Set operators: the terms of the other side count on from ours.             *)
Counted(T) ==
  \A t \in T : /\ DOMAIN t = {"conn", "mode", "atoms", "ph"} /\ t.conn \in Conn /\ t.mode = "all" /\ t.atoms \subseteq Nat
Below(true, n) == {i \in Nat : n + i \in true}

LEMMA MovedTerm ==
  ASSUME NEW T, Counted(T), NEW t \in T, NEW x, x.atoms \in Nat
  PROVE  LET u == RenumberTerm(t, x)
         IN  /\ DOMAIN u = {"conn", "mode", "atoms", "ph"} /\ u.conn = t.conn
             /\ \A true : TermHolds(u, true) <=> TermHolds(t, Below(true, x.atoms))
<1> DEFINE u == RenumberTerm(t, x)
           n == x.atoms
<1>1. DOMAIN t = {"conn", "mode", "atoms", "ph"} /\ t.mode = "all" /\ t.atoms \subseteq Nat
  BY DEF Counted
<1>2. /\ DOMAIN u = {"conn", "mode", "atoms", "ph"} /\ u.conn = t.conn /\ u.mode = "all"
      /\ u.atoms = {n + i : i \in t.atoms}
  BY <1>1 DEF RenumberTerm
<1> HIDE DEF u, n
<1>3. ASSUME NEW true PROVE TermHolds(u, true) <=> TermHolds(t, Below(true, n))
  <2>1. u.atoms \subseteq true <=> t.atoms \subseteq Below(true, n)
    BY <1>1, <1>2 DEF Below
  <2>2. (TermHolds(u, true) <=> u.atoms \subseteq true) /\ (TermHolds(t, Below(true, n)) <=> t.atoms \subseteq Below(true, n))
    BY <1>1, <1>2 DEF TermHolds
  <2> QED BY <2>1, <2>2
<1> QED BY <1>2, <1>3 DEF u, n

MovedTerms(w, x) == [i \in DOMAIN w |-> RenumberTerm(w[i], x)]
MovedBody(p, x) == [i \in DOMAIN p |-> RenumberPiece(p[i], x)]

LEMMA MovedChain ==
  ASSUME NEW T, Counted(T), NEW w \in Seq(T), NEW x, x.atoms \in Nat, NEW true
  PROVE  ChainHolds(MovedTerms(w, x), true) <=> ChainHolds(w, Below(true, x.atoms))
<1> DEFINE n == Len(w)
           m == MovedTerms(w, x)
           some == Below(true, x.atoms)
<1>1. n \in Nat /\ DOMAIN w = 1 .. n /\ \A i \in 1 .. n : w[i] \in T
  BY SeqShape
<1>2. DOMAIN m = 1 .. n /\ \A i \in 1 .. n : m[i] = RenumberTerm(w[i], x)
  BY <1>1 DEF MovedTerms
<1>3. \A i \in 1 .. n : m[i].conn = w[i].conn /\ (TermHolds(m[i], true) <=> TermHolds(w[i], some))
  BY <1>1, <1>2, MovedTerm
<1>4. Len(m) = n
  <2> HIDE DEF m, n
  <2> QED BY <1>1, <1>2
<1> HIDE DEF m, some, n
<1> QED BY <1>1, <1>2, <1>3, <1>4, ChainsAlike DEF n, m, some

LEMMA MovedBodies ==
  ASSUME NEW T, Counted(T), NEW p \in Seq(Pieces(T)), NEW x, x.atoms \in Nat, NEW true
  PROVE  BodyHolds(MovedBody(p, x), true) <=> BodyHolds(p, Below(true, x.atoms))
<1> DEFINE n == Len(p)
           m == MovedBody(p, x)
           some == Below(true, x.atoms)
           Q == Pieces(T)
<1> HIDE DEF Q
<1>1. n \in Nat /\ DOMAIN p = 1 .. n /\ \A i \in 1 .. n : p[i] \in Q
  BY SeqShape DEF Q
<1>2. DOMAIN m = 1 .. n /\ \A i \in 1 .. n : m[i] = RenumberPiece(p[i], x)
  BY <1>1 DEF MovedBody
<1>3. Len(m) = n
  <2> HIDE DEF m, n
  <2> QED BY <1>1, <1>2
<1> HIDE DEF m, some, n
<1>4. ASSUME NEW i \in 1 .. n PROVE m[i].conn = p[i].conn /\ (PieceHolds(m[i], true) <=> PieceHolds(p[i], some))
  <2> DEFINE q == p[i]
             ts == q.any
             us == [j \in DOMAIN ts |-> RenumberTerm(ts[j], x)]
  <2>1. DOMAIN q = {"conn", "any"} /\ ts \in Seq(T)
    BY <1>1 DEF Q, Pieces
  <2>2. m[i] = RenumberPiece(q, x)
    BY <1>2
  <2> HIDE DEF q
  <2>3. RenumberPiece(q, x).conn = q.conn /\ RenumberPiece(q, x).any = us
    BY <2>1 DEF RenumberPiece
  <2>4. DOMAIN us = DOMAIN ts /\ \A j \in DOMAIN ts : us[j] = RenumberTerm(ts[j], x)
    OBVIOUS
  <2>5. \A j \in DOMAIN ts : ts[j] \in T
    BY <2>1, SeqShape
  <2> HIDE DEF us, ts
  <2>6. \A j \in DOMAIN ts : TermHolds(us[j], true) <=> TermHolds(ts[j], some)
    BY <2>4, <2>5, MovedTerm DEF some
  <2>7. PieceHolds(m[i], true) <=> \E j \in DOMAIN us : TermHolds(us[j], true)
    BY <2>2, <2>3 DEF PieceHolds
  <2>8. PieceHolds(q, some) <=> \E j \in DOMAIN ts : TermHolds(ts[j], some)
    BY DEF PieceHolds, ts
  <2> QED BY <2>2, <2>3, <2>4, <2>6, <2>7, <2>8 DEF q
<1> DEFINE Rest(y, holding, i) ==
             \A j \in i .. n : (\A k \in i + 1 .. j : y[k].conn = "AND") => PieceHolds(y[j], holding)
<1>5. /\ BodyOf(m, true) <=> \E i \in 1 .. n : (i = 1 \/ m[i].conn = "OR") /\ Rest(m, true, i)
      /\ BodyOf(p, some) <=> \E i \in 1 .. n : (i = 1 \/ p[i].conn = "OR") /\ Rest(p, some, i)
  BY <1>1, <1>2, <1>3 DEF BodyOf, n
<1>6. \A i \in 1 .. n : Rest(m, true, i) <=> Rest(p, some, i)
  <2> SUFFICES ASSUME NEW i \in 1 .. n PROVE Rest(m, true, i) <=> Rest(p, some, i)
    OBVIOUS
  <2>1. \A j \in i .. n : j \in 1 .. n /\ \A k \in i + 1 .. j : k \in 1 .. n
    BY <1>1
  <2>2. \A j \in i .. n : (\A k \in i + 1 .. j : m[k].conn = "AND") <=> (\A k \in i + 1 .. j : p[k].conn = "AND")
    BY <1>4, <2>1
  <2> QED BY <1>4, <2>1, <2>2
<1> HIDE DEF Rest
<1>7. BodyOf(m, true) <=> BodyOf(p, some)
  BY <1>4, <1>5, <1>6
<1> QED BY <1>7, BodyIs DEF m, some

\* The other side, as the caller builds it.
Clean(x) ==
  /\ DOMAIN x = Fields /\ x.tail = FALSE /\ x.text = <<>> /\ x.atoms \in Nat
  /\ \E T : Counted(T) /\ x.terms \in Seq(T)

LEMMA CleanBegins ==
  ASSUME NEW dialect
  PROVE  Clean(MakeSelect(dialect))
<1>1. <<>> \in Seq({}) /\ Counted({})
  BY DEF Counted
<1>2. \E T : Counted(T) /\ <<>> \in Seq(T)
  BY <1>1
<1> QED BY <1>2 DEF Clean, MakeSelect, Fields

LEMMA CleanGrows ==
  ASSUME NEW x, Clean(x), NEW conn \in Conn
  PROVE  Clean(Predicate(x, conn, "all", 1, 1))
<1> DEFINE t == Term(conn, "all", NextAtoms(x, 1), GetPlaceholders(x, 1))
           y == Predicate(x, conn, "all", 1, 1)
<1>1. x.atoms \in Nat /\ DOMAIN x = Fields
  BY DEF Clean
<1>2. /\ DOMAIN t = {"conn", "mode", "atoms", "ph"} /\ t.conn = conn /\ t.mode = "all" /\ t.atoms \subseteq Nat
      /\ t.atoms = NextAtoms(x, 1)
  BY <1>1 DEF Term, NextAtoms
<1>3. Cardinality(t.atoms) \in Nat
  BY <1>1, <1>2, NextAtomsAre
<1> HIDE DEF t
<1>4. /\ DOMAIN y = Fields /\ y.tail = x.tail /\ y.text = x.text /\ y.atoms = x.atoms + Cardinality(t.atoms)
      /\ y.terms = Append(x.terms, t)
  BY <1>1 DEF Predicate, PushWhere, Dirty, Fields, t
<1> HIDE DEF y
<1>5. PICK T : Counted(T) /\ x.terms \in Seq(T)
  BY DEF Clean
<1> DEFINE U == T \cup {t}
<1>6. Counted(U)
  BY <1>2, <1>5 DEF Counted
<1>7. T \subseteq U /\ t \in U
  OBVIOUS
<1> HIDE DEF U
<1>8. Append(x.terms, t) \in Seq(U)
  BY <1>5, <1>7, SeqMonotonic, AppendProperties
<1>9. y.atoms \in Nat
  BY <1>1, <1>3, <1>4
<1> QED BY <1>4, <1>6, <1>8, <1>9 DEF Clean, y

LEMMA OneTokenReordered ==
  ASSUME NEW t, t.kw = "WHERE"
  PROVE  Reorder(<<t>>) = <<t>> /\ Reorder(<<>>) = <<>>
<1> DEFINE S == {t}
           w == <<t>>
<1>1. <<>> \in Seq(S) /\ t \in S /\ Append(<<>>, t) = w /\ w \in Seq(S)
  OBVIOUS
<1> HIDE DEF w
<1>2. Fragments(w) = WithFragment(NoFragments, t) /\ Fragments(<<>>) = NoFragments
  BY <1>1, FragmentsGrow, FragmentsBegin
<1>3. \A k \in FragmentKeys : NoFragments.fragments[k] = <<>>
  BY DEF NoFragments
<1> DEFINE of == Fragments(w).fragments
<1>4. of["WHERE"] = w /\ \A k \in FragmentKeys : k # "WHERE" => of[k] = <<>>
  <2>1. "WHERE" \in ReorderKeywords /\ "WHERE" \in FragmentKeys
    BY DEF ReorderKeywords, FragmentKeys
  <2>2. of = [NoFragments.fragments EXCEPT !["WHERE"] = Append(@, t)]
    BY <1>2, <2>1 DEF WithFragment
  <2>3. DOMAIN NoFragments.fragments = FragmentKeys
    BY DEF NoFragments
  <2> QED BY <1>1, <1>3, <2>1, <2>2, <2>3
<1>5. {BaseText, "WHERE", "GROUP_BY", "HAVING", "ORDER_BY", "LIMIT", "OFFSET"} \subseteq FragmentKeys
  BY KeysAre
<1> HIDE DEF of
<1>6. BaseText # "WHERE"
  BY KeysAre
<1>7. /\ of[BaseText] = <<>> /\ of["GROUP_BY"] = <<>> /\ of["HAVING"] = <<>> /\ of["ORDER_BY"] = <<>>
      /\ of["LIMIT"] = <<>> /\ of["OFFSET"] = <<>>
  BY <1>4, <1>5, <1>6
<1>8. w \o <<>> = w /\ <<>> \o w = w /\ <<>> \o <<>> = <<>>
  BY <1>1
<1>9. Reorder(w) = w
  BY <1>4, <1>7, <1>8 DEF Reorder, of
<1>10. Reorder(<<>>) = <<>>
  <2> DEFINE no == Fragments(<<>>).fragments
  <2>1. \A k \in FragmentKeys : no[k] = <<>>
    BY <1>2, <1>3
  <2> HIDE DEF no
  <2>2. /\ no[BaseText] = <<>> /\ no["WHERE"] = <<>> /\ no["GROUP_BY"] = <<>> /\ no["HAVING"] = <<>>
        /\ no["ORDER_BY"] = <<>> /\ no["LIMIT"] = <<>> /\ no["OFFSET"] = <<>>
    BY <1>5, <2>1
  <2> QED BY <1>8, <2>2 DEF Reorder, no
<1> QED BY <1>9, <1>10 DEF w

LEMMA TheirsAre ==
  ASSUME NEW x, Clean(x)
  PROVE  LET body == RenderWhereTerms(x.terms)
             theirs == Reorder(CurrentSql(x, <<>>))
         IN  /\ body = <<>> => theirs = <<>>
             /\ body # <<>> => theirs = <<WhereToken("WHERE", body)>>
<1> DEFINE body == RenderWhereTerms(x.terms)
           t == WhereToken("WHERE", body)
           cut == FirstTopLevel(<<>>, TailClause)
<1>1. x.tail = FALSE /\ x.text = <<>> /\ x.terms \o <<>> = x.terms
  <2>1. PICK T : x.terms \in Seq(T)
    BY DEF Clean
  <2> QED BY <2>1 DEF Clean
<1>2. CurrentSql(x, <<>>) = IF body = <<>> THEN <<>> ELSE SubSeq(<<>>, 1, cut - 1) \o <<t>> \o SubSeq(<<>>, cut, Len(<<>>))
  BY <1>1 DEF CurrentSql, SpliceWhere
<1> HIDE DEF body
<1>3. t.kw = "WHERE"
  BY WhereIs
<1> HIDE DEF t
<1>4. cut = 1
  <2>1. <<>> \in Seq({}) /\ Len(<<>>) = 0
    OBVIOUS
  <2>2. cut \in 1 .. Len(<<>>) + 1
    BY <2>1, FirstIs
  <2> HIDE DEF cut
  <2> QED BY <2>1, <2>2
<1> HIDE DEF cut
<1>5. SubSeq(<<>>, 1, cut - 1) \o <<t>> \o SubSeq(<<>>, cut, Len(<<>>)) = <<t>>
  <2>1. SubSeq(<<>>, 1, 0) = <<>> /\ Len(<<>>) = 0 /\ cut - 1 = 0
    BY <1>4
  <2>2. <<>> \o <<t>> = <<t>> /\ <<t>> \o <<>> = <<t>>
    OBVIOUS
  <2> QED BY <1>4, <2>1, <2>2
<1> QED BY <1>2, <1>3, <1>5, OneTokenReordered DEF body, t

LEMMA MovedAgrees ==
  ASSUME NEW T, Counted(T), NEW w \in Seq(T), NEW x, x.atoms \in Nat
  PROVE  /\ Agree(MovedBody(RenderWhereTerms(w), x), MovedTerms(w, x))
         /\ \E Q : MovedBody(RenderWhereTerms(w), x) \in Seq(Q)
         /\ RenderWhereTerms(w) = <<>> => MovedTerms(w, x) = <<>>
<1> DEFINE p == RenderWhereTerms(w)
           q == MovedBody(p, x)
<1>1. Calls(T)
  BY DEF Counted, Calls
<1>2. p \in Seq(Pieces(T)) /\ (p = <<>> <=> w = <<>>)
  BY RenderedType
<1> HIDE DEF p
<1>3. Len(p) \in Nat /\ DOMAIN p = 1 .. Len(p) /\ (p = <<>> <=> Len(p) = 0)
  BY <1>2, SeqShape
<1> DEFINE Q == {RenumberPiece(p[i], x) : i \in 1 .. Len(p)}
<1>4. q \in Seq(Q) /\ Len(q) = Len(p)
  <2>1. q \in [1 .. Len(p) -> Q]
    BY <1>3 DEF MovedBody
  <2> HIDE DEF q, Q
  <2> QED BY <1>3, <2>1, SeqFrom
<1>5. q = <<>> <=> p = <<>>
  <2> HIDE DEF q, Q
  <2>1. q = <<>> <=> Len(q) = 0
    BY <1>4, SeqShape
  <2> QED BY <1>3, <1>4, <2>1
<1>6. ASSUME NEW true PROVE PrintedHolds(q, true) <=> ChainHolds(MovedTerms(w, x), true)
  <2>1. BodyHolds(q, true) <=> BodyHolds(p, Below(true, x.atoms))
    BY <1>2, MovedBodies
  <2>2. (w = <<>> \/ BodyHolds(p, Below(true, x.atoms))) <=> ChainHolds(w, Below(true, x.atoms))
    BY <1>1, PrintedMeansTheChain DEF p
  <2>3. ChainHolds(MovedTerms(w, x), true) <=> ChainHolds(w, Below(true, x.atoms))
    BY MovedChain
  <2> QED BY <1>2, <1>5, <2>1, <2>2, <2>3 DEF PrintedHolds
<1>7. p = <<>> => MovedTerms(w, x) = <<>>
  BY <1>2 DEF MovedTerms
<1> QED BY <1>4, <1>6, <1>7 DEF Agree, p

LEMMA MovedToken ==
  ASSUME NEW body, NEW x
  PROVE  LET t == RenumberToken(WhereToken("WHERE", body), x)
         IN  t.kw = "WHERE" /\ t.of = "WHERE" /\ t.body = MovedBody(body, x)
<1> DEFINE t == WhereToken("WHERE", body)
<1>1. DOMAIN t = {"kw", "of", "ph", "body", "inner", "tbl", "on"} /\ t.kw = "WHERE" /\ t.of = "WHERE" /\ t.body = body
  BY DEF WhereToken, Token
<1> HIDE DEF t
<1>2. RenumberToken(t, x).kw = "WHERE" /\ RenumberToken(t, x).of = "WHERE"
  BY <1>1 DEF RenumberToken
<1>3. RenumberToken(t, x).body = MovedBody(body, x)
  BY <1>1 DEF RenumberToken, MovedBody
<1> QED BY <1>2, <1>3 DEF t

\* One more operand.
LEMMA MeansMore ==
  ASSUME NEW P, NEW f \in Bodies(P), NEW a, Means(f, a), NEW m \in Seq(P), NEW w, Agree(m, w)
  PROVE  Means(Append(f, m), Append(a, w)) /\ Append(f, m) \in Bodies(P)
<1> DEFINE V == Seq(P)
           n == Len(f)
           g == Append(f, m)
           c == Append(a, w)
<1>1. f \in Seq(V) /\ f # <<>> /\ m \in V
  BY DEF Bodies
<1>2. PICK A : a \in Seq(A)
  BY DEF Means, Chain
<1> HIDE DEF V
<1>3. n \in Nat /\ g \in Seq(V) /\ Len(g) = n + 1 /\ DOMAIN g = 1 .. n + 1 /\ g[n + 1] = m /\ \A i \in 1 .. n : g[i] = f[i]
  BY <1>1
<1> DEFINE B == A \cup {w}
<1>4. a \in Seq(B) /\ w \in B
  BY <1>2
<1> HIDE DEF B
<1>5. Len(a) = n /\ DOMAIN a = 1 .. n /\ \A i \in 1 .. n : Agree(f[i], a[i])
  BY <1>2 DEF Means
<1>6. c \in Seq(B) /\ Len(c) = n + 1 /\ DOMAIN c = 1 .. n + 1 /\ c[n + 1] = w /\ \A i \in 1 .. n : c[i] = a[i]
  BY <1>4, <1>5
<1>7. g # <<>>
  BY <1>3
<1> HIDE DEF g, c, n
<1>8. \A i \in 1 .. n + 1 : i = n + 1 \/ i \in 1 .. n
  BY <1>3
<1>9. \A i \in DOMAIN c : Agree(g[i], c[i])
  BY <1>3, <1>5, <1>6, <1>8
<1>10. Means(g, c)
  BY <1>3, <1>6, <1>9 DEF Means, Chain
<1> QED BY <1>3, <1>7, <1>10 DEF Bodies, g, c, V

LEMMA NothingAgrees == Agree(<<>>, <<>>)
<1>1. DOMAIN <<>> = {}
  OBVIOUS
<1>2. \A true : ChainHolds(<<>>, true)
  <2> SUFFICES ASSUME NEW true PROVE ChainHolds(<<>>, true)
    OBVIOUS
  <2>1. <<>> \in Seq({}) /\ Calls({})
    BY DEF Calls
  <2> QED BY <2>1, PrintedMeansTheChain
<1> QED BY <1>2 DEF Agree, PrintedHolds

LEMMA SetOpSays ==
  ASSUME NEW text, NEW a, Says(text, a), NoLater(text), NEW kw \in SetOperators
  PROVE  /\ Says(Append(text, Token(kw)), Append(a, <<>>)) /\ NoLater(Append(text, Token(kw)))
         /\ \A t, Q, w : (t.kw = "WHERE" /\ t.of = "WHERE" /\ t.body \in Seq(Q) /\ Agree(t.body, w)) =>
              /\ Says(Append(Append(text, Token(kw)), t), Append(a, w))
              /\ NoLater(Append(Append(text, Token(kw)), t))
<1> SUFFICES ASSUME NEW t, NEW Q, NEW w
             PROVE  /\ Says(Append(text, Token(kw)), Append(a, <<>>)) /\ NoLater(Append(text, Token(kw)))
                    /\ (t.kw = "WHERE" /\ t.of = "WHERE" /\ t.body \in Seq(Q) /\ Agree(t.body, w)) =>
                         /\ Says(Append(Append(text, Token(kw)), t), Append(a, w))
                         /\ NoLater(Append(Append(text, Token(kw)), t))
  OBVIOUS
<1> DEFINE k == Token(kw)
           one == Append(text, k)
           f == Filters(text)
<1>1. k.kw = kw /\ k.of = kw /\ kw \in SetOperators /\ kw \notin Later /\ kw # "WHERE"
  BY DEF Token, SetOperators, Later, ReorderKeywords
<1> HIDE DEF k
<1>2. PICK S0, P0 : Prints(S0, P0) /\ text \in Seq(S0)
  BY DEF Says, Typed
<1> DEFINE S1 == S0 \cup {k}
           P1 == P0 \cup {}
<1>3. Prints(S1, P1) /\ text \in Seq(S1) /\ k \in S1
  <2>1. Prints({k}, {})
    BY <1>1 DEF Prints
  <2> QED BY <1>2, <2>1, TypedMore
<1> HIDE DEF S1, P1
<1>4. Filters(one) = WithPieces(f, k) /\ f \in Bodies(P1)
  BY <1>3, FiltersGrow
<1>5. one \in Seq(S1) /\ Len(one) = Len(text) + 1 /\ one[Len(text) + 1] = k /\ \A i \in 1 .. Len(text) : one[i] = text[i]
  BY <1>3
<1>6. Filters(one) = Append(f, <<>>)
  BY <1>1, <1>4 DEF WithPieces
<1> HIDE DEF f
<1>7. Means(Filters(one), Append(a, <<>>)) /\ Filters(one) \in Bodies(P1)
  <2>1. Means(f, a) /\ <<>> \in Seq(P1)
    BY DEF Says, f
  <2> QED BY <1>4, <1>6, <2>1, NothingAgrees, MeansMore
<1>8. NoLater(one)
  <2>1. Len(text) \in Nat /\ DOMAIN one = 1 .. Len(text) + 1 /\ DOMAIN text = 1 .. Len(text)
    BY <1>3, <1>5
  <2> HIDE DEF one
  <2>2. \A i \in 1 .. Len(text) + 1 : i = Len(text) + 1 \/ i \in 1 .. Len(text)
    BY <2>1
  <2> QED BY <1>1, <1>5, <2>1, <2>2 DEF NoLater
<1>9. Says(one, Append(a, <<>>))
  BY <1>3, <1>5, <1>7 DEF Says, Typed
<1>10. ASSUME t.kw = "WHERE", t.of = "WHERE", t.body \in Seq(Q), Agree(t.body, w)
       PROVE  Says(Append(one, t), Append(a, w)) /\ NoLater(Append(one, t))
  <2> HIDE DEF one
  <2> DEFINE S2 == S1 \cup {t}
             P2 == P1 \cup Q
             two == Append(one, t)
             n == Len(f)
             e == Append(f, <<>>)
             V == Seq(P2)
  <2>1. Prints(S2, P2) /\ one \in Seq(S2) /\ t \in S2
    <3>1. Prints({t}, Q)
      BY <1>10 DEF Prints
    <3> QED BY <1>3, <1>5, <3>1, TypedMore
  <2>2. t.body \in Seq(P2) /\ <<>> \in Seq(P2)
    BY <1>10
  <2>3. text \in Seq(S2)
    BY <1>3
  <2> HIDE DEF S2, P2
  <2>4. Filters(two) = WithPieces(Filters(one), t)
    BY <2>1, FiltersGrow
  <2>5. f \in Bodies(P2)
    BY <2>1, <2>3, FiltersGrow DEF f
  <2>6. f \in Seq(V) /\ <<>> \in V /\ t.body \in V
    BY <2>2, <2>5 DEF Bodies
  <2> HIDE DEF V
  <2>7. n \in Nat /\ Len(e) = n + 1 /\ e \in Seq(V) /\ e[n + 1] = <<>> /\ DOMAIN e = 1 .. n + 1
    BY <2>6
  <2> HIDE DEF n
  <2>8. e[n + 1] \o t.body = t.body
    <3>1. <<>> \o t.body = t.body
      BY <1>10
    <3> QED BY <2>7, <3>1
  <2>9. Append(f, t.body) = [e EXCEPT ![n + 1] = t.body]
    <3>1. Append(f, t.body) \in Seq(V) /\ Len(Append(f, t.body)) = n + 1 /\ DOMAIN Append(f, t.body) = 1 .. n + 1
      BY <2>6, <2>7 DEF n
    <3>2. \A i \in 1 .. n + 1 : Append(f, t.body)[i] = IF i = n + 1 THEN t.body ELSE e[i]
      BY <2>6, <2>7 DEF n
    <3>3. Append(f, t.body) = [i \in 1 .. n + 1 |-> Append(f, t.body)[i]]
      BY <3>1
    <3> HIDE DEF e
    <3> QED BY <2>7, <3>2, <3>3
  <2>10. Filters(two) = Append(f, t.body)
    <3>1. t.kw \notin SetOperators
      BY <1>10 DEF SetOperators
    <3>2. WithPieces(e, t) = [e EXCEPT ![n + 1] = e[n + 1] \o t.body]
      <4> HIDE DEF e
      <4> QED BY <1>10, <2>7, <3>1 DEF WithPieces
    <3> QED BY <1>6, <2>4, <2>8, <2>9, <3>2
  <2>11. Means(Filters(two), Append(a, w))
    <3>1. Means(f, a)
      BY DEF Says, f
    <3> QED BY <1>10, <2>2, <2>5, <2>10, <3>1, MeansMore
  <2>12. two \in Seq(S2) /\ Len(two) = Len(one) + 1 /\ two[Len(one) + 1] = t /\ \A i \in 1 .. Len(one) : two[i] = one[i]
    BY <2>1
  <2>13. NoLater(two)
    <3>1. Len(one) \in Nat /\ DOMAIN two = 1 .. Len(one) + 1 /\ DOMAIN one = 1 .. Len(one)
      BY <2>1, <2>12
    <3> HIDE DEF two
    <3>2. \A i \in 1 .. Len(one) + 1 : i = Len(one) + 1 \/ i \in 1 .. Len(one)
      BY <3>1
    <3>3. t.kw \notin Later
      BY <1>10 DEF Later
    <3> QED BY <1>8, <2>12, <3>1, <3>2, <3>3 DEF NoLater
  <2> QED BY <2>1, <2>11, <2>12, <2>13 DEF Says, Typed
<1> QED BY <1>8, <1>9, <1>10 DEF k

\* What the other side adds to a text, and what it says.
LEMMA MovedOperand ==
  ASSUME NEW x, x.atoms \in Nat, NEW other, Clean(other), NEW left, NEW a, Says(left, a), NoLater(left), NEW kw \in SetOperators
  PROVE  LET theirs == Reorder(CurrentSql(other, <<>>))
             new == left \o <<Token(kw)>> \o [i \in DOMAIN theirs |-> RenumberToken(theirs[i], x)]
         IN  Says(new, Append(a, MovedTerms(other.terms, x))) /\ NoLater(new)
<1> DEFINE w == other.terms
           body == RenderWhereTerms(w)
           theirs == Reorder(CurrentSql(other, <<>>))
           moved == [i \in DOMAIN theirs |-> RenumberToken(theirs[i], x)]
           k == Token(kw)
           u == RenumberToken(WhereToken("WHERE", body), x)
           m == MovedTerms(w, x)
<1>1. PICK T : Counted(T) /\ w \in Seq(T)
  BY DEF Clean
<1>2. (body = <<>> => theirs = <<>>) /\ (body # <<>> => theirs = <<WhereToken("WHERE", body)>>)
  BY TheirsAre
<1>3. Agree(MovedBody(body, x), m) /\ (body = <<>> => m = <<>>)
  BY <1>1, MovedAgrees
<1>4. PICK Q : MovedBody(body, x) \in Seq(Q)
  BY <1>1, MovedAgrees
<1>5. u.kw = "WHERE" /\ u.of = "WHERE" /\ u.body = MovedBody(body, x)
  BY MovedToken
<1>6. PICK S : left \in Seq(S)
  BY DEF Says, Typed
<1>7. left \o <<k>> = Append(left, k)
  BY <1>6
<1> HIDE DEF theirs, m
<1>8. CASE body = <<>>
  <2>1. moved = <<>>
    BY <1>2, <1>8
  <2>2. left \o <<k>> \o moved = Append(left, k)
    <3>1. Append(left, k) \o <<>> = Append(left, k)
      <4> DEFINE S1 == S \cup {k}
      <4>1. left \in Seq(S1) /\ k \in S1
        BY <1>6
      <4> HIDE DEF S1, k
      <4>2. Append(left, k) \in Seq(S1)
        BY <4>1
      <4> HIDE DEF k
      <4> DEFINE s == Append(left, k)
      <4> HIDE DEF s
      <4>3. s \in Seq(S1)
        BY <4>2 DEF s
      <4> QED BY <4>3 DEF s
    <3> QED BY <1>7, <2>1, <3>1
  <2> HIDE DEF moved, u, k
  <2>3. Says(Append(left, k), Append(a, m)) /\ NoLater(Append(left, k))
    BY <1>3, <1>8, SetOpSays DEF k
  <2> QED BY <2>2, <2>3 DEF moved, theirs, k, m
<1>9. CASE body # <<>>
  <2>1. moved = <<u>>
    BY <1>2, <1>9
  <2>2. left \o <<k>> \o moved = Append(Append(left, k), u)
    <3> DEFINE s == Append(left, k)
               S1 == S \cup {k, u}
    <3>1. left \in Seq(S1) /\ k \in S1 /\ u \in S1
      BY <1>6
    <3> HIDE DEF S1, u, k
    <3>2. s \in Seq(S1)
      BY <3>1
    <3> HIDE DEF s
    <3>3. s \o <<u>> = Append(s, u)
      BY <3>1, <3>2
    <3> QED BY <1>7, <2>1, <3>3 DEF s
  <2> HIDE DEF moved, u, k
  <2>3. Says(Append(Append(left, k), u), Append(a, m)) /\ NoLater(Append(Append(left, k), u))
    <3>1. u.body \in Seq(Q) /\ Agree(u.body, m)
      BY <1>3, <1>4, <1>5
    <3> QED BY <1>5, <3>1, SetOpSays DEF k
  <2> QED BY <2>2, <2>3 DEF moved, theirs, k, m
<1> QED BY <1>8, <1>9

LEMMA SetOpCall ==
  ASSUME NEW x, NEW a, Faithful(x, a), NoLater(x.text), NEW other, Clean(other), NEW kw \in SetOperators
  PROVE  LET y == AppendSetOp(x, kw, other)
         IN  /\ Faithful(y, Append(a, MovedTerms(other.terms, x)))
             /\ y.tail = TRUE /\ y.trashed = x.trashed /\ y.deletedAt = x.deletedAt /\ NoLater(y.text)
<1> DEFINE left == IF x.terms = <<>> THEN x.text ELSE CurrentSql(x, <<>>)
           theirs == Reorder(CurrentSql(other, <<>>))
           new == left \o <<Token(kw)>> \o [i \in DOMAIN theirs |-> RenumberToken(theirs[i], x)]
           c == Append(a, MovedTerms(other.terms, x))
           y == AppendSetOp(x, kw, other)
<1>1. Sound(x, a) /\ x.atoms \in Nat /\ DOMAIN x = Fields /\ IsFiniteSet(x.pivots) /\ x.deletedAt \in BOOLEAN
  BY DEF Faithful, Sound, Shaped
<1>2. left = CurrentSql(x, <<>>)
  <2>1. CASE x.terms = <<>>
    <3>1. <<>> \o <<>> = <<>> /\ <<>> \in Seq({})
      OBVIOUS
    <3>2. RenderWhereTerms(<<>>) = <<>>
      BY <3>1, RenderedType
    <3> QED BY <2>1, <3>1, <3>2 DEF CurrentSql, SpliceWhere
  <2> QED BY <2>1
<1> HIDE DEF left
<1>3. Says(left, a) /\ NoLater(left)
  BY <1>1, <1>2, CurrentSays DEF Reads
<1>4. Says(new, c) /\ NoLater(new)
  BY <1>1, <1>3, MovedOperand
<1> HIDE DEF c
<1>5. other.atoms \in Nat
  BY DEF Clean
<1>6. /\ DOMAIN y = Fields /\ y.pivots = x.pivots /\ y.atoms = x.atoms + other.atoms /\ y.deletedAt = x.deletedAt
      /\ y.trashed = x.trashed /\ y.terms = <<>> /\ y.tail = TRUE /\ y.built = Unbuilt /\ y.text = new
  <2>1. /\ DOMAIN y = DOMAIN x
        /\ y.pivots = x.pivots /\ y.atoms = x.atoms + other.atoms /\ y.deletedAt = x.deletedAt
        /\ y.trashed = x.trashed /\ y.terms = <<>> /\ y.tail = TRUE /\ y.built = Unbuilt
    BY <1>1 DEF AppendSetOp, Dirty, Fields
  <2>2. y.text = new
    BY <1>1 DEF AppendSetOp, Dirty, Fields, left
  <2> QED BY <1>1, <2>1, <2>2
<1> HIDE DEF y, new
<1>7. x.atoms + other.atoms \in Nat
  BY <1>1, <1>5
<1>8. Ordered(y.text)
  BY <1>4, <1>6 DEF NoLater, Ordered
<1>9. Shaped(y)
  BY <1>1, <1>4, <1>6, <1>7 DEF Shaped, Says
<1>10. Closed(y, c)
  BY <1>4, <1>6, <1>8 DEF Closed, Says
<1>11. Remembers(y, c)
  BY <1>6 DEF Remembers
<1> QED BY <1>4, <1>6, <1>9, <1>10, <1>11 DEF Faithful, Sound, y, c

----------------------------------------------------------------------------
(* The calls of a SELECT builder.  Kept is what a call that sends nothing     *)
(* leaves, Sends what one that sends does.                                    *)
Kept == Faithful(b', asked') /\ Steady(b, b') /\ sent' = <<>>

LEMMA FilterKept ==
  ASSUME Faithful(b, asked), NEW y, NEW conn, NEW mode, NEW n,
         Faithful(y, Asks(asked, Term(conn, mode, NextAtoms(b, n), <<>>))), Steady(b, y)
  PROVE  Filter(y, conn, mode, n) => Kept
BY DEF Filter, Ask, Asks, Kept

LEMMA PredicateKept ==
  ASSUME Faithful(b, asked), b.tail # TRUE, NEW conn \in Conn, NEW mode, NEW n \in Nat, NEW k
  PROVE  Filter(Predicate(b, conn, mode, n, k), conn, mode, n) => Kept
<1>1. Matches(Term(conn, mode, NextAtoms(b, n), <<>>), Term(conn, mode, NextAtoms(b, n), <<>>))
  BY SameCondition
<1> DEFINE y == Predicate(b, conn, mode, n, k)
<1>2. Faithful(y, Asks(asked, Term(conn, mode, NextAtoms(b, n), <<>>))) /\ Steady(b, y)
  BY <1>1, PredicateCall
<1> HIDE DEF y
<1>3. Filter(y, conn, mode, n) => Kept
  BY <1>2, FilterKept
<1> QED BY <1>3 DEF y

LEMMA ShapeKept ==
  ASSUME NEW y, Faithful(y, asked), Steady(b, y)
  PROVE  Shape(y) => Kept
BY DEF Shape, Kept

LEMMA NothingKept ==
  ASSUME Faithful(b, asked)
  PROVE  Shape(b) => Kept
BY ShapeKept DEF Steady, Kin

LEMMA MemberKept ==
  ASSUME Faithful(b, asked), NEW y, NEW conn, NEW n, NEW negated,
         Faithful(y, Asks(asked, Member(b, conn, n, negated))), Steady(b, y)
  PROVE  AskMember(y, conn, n, negated) => Kept
<1>1. CASE n = 0
  <2> DEFINE mode == IF negated THEN "all" ELSE "any"
  <2>1. Member(b, conn, n, negated) = Term(conn, mode, NextAtoms(b, 0), <<>>)
    BY <1>1 DEF Member
  <2>2. AskMember(y, conn, n, negated) => Filter(y, conn, mode, 0)
    BY <1>1 DEF AskMember
  <2> HIDE DEF mode
  <2>3. Faithful(y, Asks(asked, Term(conn, mode, NextAtoms(b, 0), <<>>)))
    BY <2>1
  <2>4. Filter(y, conn, mode, 0) => Kept
    BY <2>3, FilterKept
  <2> QED BY <2>2, <2>4
<1>2. CASE n # 0
  <2>1. Member(b, conn, n, negated) = Term(conn, "all", NextAtoms(b, 1), <<>>)
    BY <1>2 DEF Member
  <2>2. AskMember(y, conn, n, negated) => Filter(y, conn, "all", 1)
    BY <1>2 DEF AskMember
  <2>3. Filter(y, conn, "all", 1) => Kept
    BY <2>1, FilterKept
  <2> QED BY <2>2, <2>3
<1> QED BY <1>1, <1>2

LEMMA WhereKept ==
  ASSUME Faithful(b, asked), b.tail # TRUE, CallWhere \/ CallBooleanWhere \/ CallWhereNull \/ CallWhereValue
  PROVE  Kept
<1>1. Conns = Conn /\ "AND" \in Conn /\ 1 \in Nat /\ 2 \in Nat
  BY DEF Conns, Conn
<1>2. CASE CallWhere
  BY <1>1, <1>2, PredicateKept DEF CallWhere, Where
<1>3. CASE CallBooleanWhere
  BY <1>1, <1>3, PredicateKept DEF CallBooleanWhere, AddBooleanWhere
<1>4. CASE CallWhereNull
  BY <1>1, <1>4, PredicateKept DEF CallWhereNull, WhereNull, WhereRaw
<1>5. CASE CallWhereValue
  <2>1. PICK c \in Conns :
          \/ Filter(WhereBetween(b, c), c, "all", 1)
          \/ Filter(WhereLike(b, c), c, "all", 1)
          \/ c = "AND" /\ Filter(WhereNotBetween(b), c, "all", 1)
          \/ c = "AND" /\ Filter(WhereDate(b), c, "all", 1)
          \/ c = "AND" /\ Filter(WhereJsonPath(b), c, "all", 1)
          \/ c = "AND" /\ LET n == IF b.dialect = "sqlite" THEN 2 ELSE 1
                          IN  Filter(WhereJsonContains(b, n), c, "all", n)
    BY <1>5 DEF CallWhereValue
  <2>2. Filter(WhereBetween(b, c), c, "all", 1) => Kept
    BY <1>1, PredicateKept DEF WhereBetween
  <2>3. Filter(WhereLike(b, c), c, "all", 1) => Kept
    BY <1>1, PredicateKept DEF WhereLike
  <2>4. Filter(WhereNotBetween(b), "AND", "all", 1) => Kept
    BY <1>1, PredicateKept DEF WhereNotBetween
  <2>5. Filter(WhereDate(b), "AND", "all", 1) => Kept
    BY <1>1, PredicateKept DEF WhereDate
  <2>6. Filter(WhereJsonPath(b), "AND", "all", 1) => Kept
    BY <1>1, PredicateKept DEF WhereJsonPath
  <2>7. ASSUME NEW n, n = IF b.dialect = "sqlite" THEN 2 ELSE 1
        PROVE  Filter(WhereJsonContains(b, n), "AND", "all", n) => Kept
    <3>1. n \in Nat /\ WhereJsonContains(b, n) = Predicate(b, "AND", "all", n, n)
      BY <2>7 DEF WhereJsonContains
    <3> QED BY <1>1, <3>1, PredicateKept
  <2> QED BY <2>1, <2>2, <2>3, <2>4, <2>5, <2>6, <2>7
<1> QED BY <1>2, <1>3, <1>4, <1>5

LEMMA ListsKept ==
  ASSUME Faithful(b, asked), b.tail # TRUE, CallWhereColumns \/ CallWhereIn \/ CallDynamicWhere
  PROVE  Kept
<1>1. Conns = Conn /\ "AND" \in Conn /\ \A n \in Sizes : n \in Nat
  BY DEF Conns, Conn, Sizes
<1>2. CASE CallWhereColumns
  <2>1. PICK n \in Sizes :
          \/ Filter(WhereAny(b, n), "AND", "any", n)
          \/ n > 0 /\ Filter(WhereAll(b, n), "AND", "all", n)
          \/ n > 0 /\ Filter(WhereNone(b, n), "AND", "none", n)
          \/ n = 0 /\ (Shape(WhereAll(b, n)) \/ Shape(WhereNone(b, n)))
    BY <1>2 DEF CallWhereColumns
  <2>2. Filter(WhereAny(b, n), "AND", "any", n) => Kept
    BY <1>1, PredicateKept DEF WhereAny
  <2>3. ASSUME n > 0 PROVE /\ Filter(WhereAll(b, n), "AND", "all", n) => Kept
                           /\ Filter(WhereNone(b, n), "AND", "none", n) => Kept
    BY <1>1, <2>3, PredicateKept DEF WhereAll, WhereNone
  <2>4. n = 0 => WhereAll(b, n) = b /\ WhereNone(b, n) = b
    BY DEF WhereAll, WhereNone
  <2> QED BY <2>1, <2>2, <2>3, <2>4, NothingKept
<1>3. CASE CallWhereIn
  <2>1. PICK c \in Conns, n \in Sizes, negated \in BOOLEAN : AskMember(WhereIn(b, c, n, negated), c, n, negated)
    BY <1>3 DEF CallWhereIn
  <2> QED BY <1>1, <2>1, InCall, MemberKept
<1>4. CASE CallDynamicWhere
  <2> DEFINE no == FALSE
  <2>1. PICK c \in Conns, n \in Sizes : AskMember(DynamicWhere(b, c, n), c, n, no)
    BY <1>4 DEF CallDynamicWhere
  <2>2. Faithful(DynamicWhere(b, c, n), Asks(asked, Member(b, c, n, no))) /\ Steady(b, DynamicWhere(b, c, n))
    BY <1>1, DynamicCall
  <2> HIDE DEF no
  <2> QED BY <2>1, <2>2, MemberKept
<1> QED BY <1>2, <1>3, <1>4

LEMMA SubqueriesKept ==
  ASSUME Faithful(b, asked), b.tail # TRUE, CallWhereSubquery \/ CallWhereGroup \/ CallWhereHas
  PROVE  Kept
<1>1. Conns = Conn /\ "AND" \in Conn /\ 1 \in Nat
  BY DEF Conns, Conn
<1>2. CASE CallWhereSubquery
  <2>1. PICK c \in Conns, k \in {0, 1} : Filter(WhereSubquery(b, c, k), c, "all", 1)
    BY <1>2 DEF CallWhereSubquery
  <2> QED BY <1>1, <2>1, SubqueryCall, FilterKept
<1>3. CASE CallWhereGroup
  <2>1. PICK c \in Conns, second \in Conns :
          Filter(AddWhereGroup(b, c, Pair(b.dialect, second)), c, IF second = "OR" THEN "any" ELSE "all", 2)
    BY <1>3 DEF CallWhereGroup, Pair
  <2> DEFINE mode == IF second = "OR" THEN "any" ELSE "all"
             y == AddWhereGroup(b, c, Pair(b.dialect, second))
  <2>2. Faithful(y, Asks(asked, Term(c, mode, NextAtoms(b, 2), <<>>))) /\ Steady(b, y)
    BY <1>1, GroupCall
  <2>3. Filter(y, c, mode, 2)
    BY <2>1
  <2> HIDE DEF y, mode
  <2> QED BY <2>2, <2>3, FilterKept
<1>4. CASE CallWhereHas
  BY <1>1, <1>4, PredicateKept DEF CallWhereHas, WhereHas, WhereDoesntHave
<1> QED BY <1>2, <1>3, <1>4

LEMMA PivotsKept ==
  ASSUME Faithful(b, asked), b.tail # TRUE, CallWherePivot
  PROVE  Kept
<1> DEFINE yes == TRUE
           no == FALSE
<1>1. PICK n :
    \/ Filter(WherePivot(b, n), "AND", "all", 1)
    \/ Filter(WherePivotNull(b, n), "AND", "all", 1)
    \/ \E k \in Sizes : AskMember(WherePivotIn(b, n, k), "AND", k, no)
    \/ AskMember(WherePivotNotIn(b, n, 2), "AND", 2, yes)
    \/ Shape(WherePivotNotIn(b, n, 0))
  BY DEF CallWherePivot
<1>2. Filter(WherePivot(b, n), "AND", "all", 1) => Kept
  <2>1. WherePivot(b, n) = Predicate(EnsurePivotJoined(b, n), "AND", "all", 1, 1)
    BY DEF WherePivot
  <2> QED BY <2>1, PivotPredicateCall, FilterKept
<1>3. Filter(WherePivotNull(b, n), "AND", "all", 1) => Kept
  <2>1. WherePivotNull(b, n) = Predicate(EnsurePivotJoined(b, n), "AND", "all", 1, 0)
    BY DEF WherePivotNull, WhereNull
  <2> QED BY <2>1, PivotPredicateCall, FilterKept
<1>4. ASSUME NEW k \in Sizes PROVE AskMember(WherePivotIn(b, n, k), "AND", k, no) => Kept
  <2>1. WherePivotIn(b, n, k) = WhereIn(EnsurePivotJoined(b, n), "AND", k, no) /\ k \in Nat
    BY DEF WherePivotIn, Sizes
  <2> HIDE DEF no
  <2> QED BY <2>1, PivotPredicateCall, MemberKept
<1>5. AskMember(WherePivotNotIn(b, n, 2), "AND", 2, yes) => Kept
  <2>1. WherePivotNotIn(b, n, 2) = WhereIn(EnsurePivotJoined(b, n), "AND", 2, yes) /\ 2 \in Nat
    BY DEF WherePivotNotIn
  <2> HIDE DEF yes
  <2> QED BY <2>1, PivotPredicateCall, MemberKept
<1>6. Shape(WherePivotNotIn(b, n, 0)) => Kept
  BY NothingKept DEF WherePivotNotIn
<1> QED BY <1>1, <1>2, <1>3, <1>4, <1>5, <1>6

\* What a call that adds a trailing clause leaves.
KeptLate == Faithful(b', asked') /\ Kin(b, b') /\ sent' = <<>>

LEMMA LateKept ==
  ASSUME NEW y, Faithful(y, asked), Kin(b, y)
  PROVE  Shape(y) => KeptLate
BY DEF Shape, KeptLate

LEMMA ListKept ==
  ASSUME Faithful(b, asked), CallColumns \/ CallSelect
  PROVE  Kept
<1> DEFINE Listing(h) == [b EXCEPT !.head = h]
<1>1. \A h : Shape(Dirty(Listing(h))) => Kept
  <2>1. \A h : Faithful(Dirty(Listing(h)), asked) /\ Steady(b, Dirty(Listing(h)))
    BY ListCall
  <2> HIDE DEF Listing
  <2> QED BY <2>1, ShapeKept
<1>2. \E h : Shape(Dirty(Listing(h)))
  <2>1. \E h : Distinct(b) = Dirty(Listing(h))
    BY DEF Distinct
  <2>2. \A col, subquery : \E h : SelectRaw(b, col, subquery) = Dirty(Listing(h))
    BY DEF SelectRaw
  <2>3. (\E h : RankedColumn(b) = Dirty(Listing(h))) /\ \A col : \E h : AddSelect(b, col) = Dirty(Listing(h))
    BY DEF RankedColumn, AddSelect
  <2>4. (\A col : \E h : Select(b, col) = Dirty(Listing(h))) /\ \E h : SelectAllRelations(b) = Dirty(Listing(h))
    BY DEF Select, SelectAllRelations
  <2> HIDE DEF Listing
  <2> QED BY <2>1, <2>2, <2>3, <2>4 DEF CallColumns, CallSelect
<1> QED BY <1>1, <1>2

LEMMA ColumnsKept ==
  ASSUME Faithful(b, asked), CallWindow \/ CallWithCount
  PROVE  Kept
<1>1. ASSUME NEW col, NEW sub PROVE Shape(AddToSelectClause(b, col, sub)) => Kept
  <2> DEFINE y == AddToSelectClause(b, col, sub)
  <2>1. Faithful(y, asked) /\ Steady(b, y)
    BY ColumnCall
  <2> HIDE DEF y
  <2>2. Shape(y) => Kept
    BY <2>1, ShapeKept
  <2> QED BY <2>2 DEF y
<1>2. CASE CallWindow
  <2> DEFINE no == FALSE
  <2>1. Shape(AddToSelectClause(b, "window", no))
    BY <1>2 DEF CallWindow, AddWindowFunction
  <2> HIDE DEF no
  <2> QED BY <1>1, <2>1
<1>3. CASE CallWithCount
  <2>1. PICK n : Shape(WithCount(b, n))
    BY <1>3 DEF CallWithCount, ApplyRelationAggregate
  <2> DEFINE yes == TRUE
  <2>2. WithCount(b, n) \in {b, AddToSelectClause(b, n, yes)}
    BY DEF WithCount
  <2> HIDE DEF yes
  <2> QED BY <1>1, <2>1, <2>2, NothingKept
<1> QED BY <1>2, <1>3

LEMMA ExtendIs ==
  ASSUME NEW text, NEW kw \in {"GROUP_BY", "ORDER_BY"}
  PROVE  \E t : ~Loud(t) /\ ExtendClause(text, kw) = Append(text, t)
<1> DEFINE t == IF Mentions(text, kw) THEN [Token("COMMA") EXCEPT !.of = kw] ELSE Token(kw)
<1>1. ~Loud(t)
  BY DEF Loud, Token, SetOperators
<1>2. ExtendClause(text, kw) = Append(text, t)
  BY DEF ExtendClause
<1> HIDE DEF t
<1> QED BY <1>1, <1>2

LEMMA SetIs ==
  ASSUME NEW text, NEW kw \in {"LIMIT", "OFFSET"}
  PROVE  SetClause(text, kw) = text \/ \E t : ~Loud(t) /\ SetClause(text, kw) = Append(text, t)
<1>1. kw \notin SetOperators /\ kw # "WHERE"
  BY DEF SetOperators
<1>2. ~Loud(Token(kw))
  BY <1>1, PlainTokens
<1> QED BY <1>2 DEF SetClause

LEMMA AppendedKept ==
  ASSUME Faithful(b, asked), NEW text, Typed(text), ReadsAs(text, b.text), NEW t, ~Loud(t)
  PROVE  Shape(Dirty([b EXCEPT !.text = Append(text, t)])) => KeptLate
<1> DEFINE new == Append(text, t)
           y == Dirty([b EXCEPT !.text = new])
<1>1. Typed(new) /\ ReadsAs(new, b.text)
  <2>1. Typed(new) /\ ReadsAs(new, text)
    BY QuietCall
  <2> HIDE DEF new
  <2> QED BY <2>1 DEF ReadsAs
<1> HIDE DEF new
<1>2. Faithful(y, asked) /\ Kin(b, y)
  BY <1>1, EditCall
<1> HIDE DEF y
<1>3. Shape(y) => KeptLate
  BY <1>2, LateKept
<1> QED BY <1>3 DEF y, new

LEMMA TrailingKept ==
  ASSUME Faithful(b, asked), CallGroupBy \/ CallOrderBy \/ CallReorder \/ CallLimit \/ CallOffset \/ CallForPage \/ CallLock
  PROVE  KeptLate
<1>1. Typed(b.text) /\ ReadsAs(b.text, b.text) /\ Ordered(b.text)
  <2>1. Typed(b.text) /\ (Quiet(b.text) \/ Ordered(b.text))
    BY DEF Faithful, Sound, Shaped, Open, Closed
  <2> QED BY <2>1, OrderedQuiet, SameText
<1>2. CASE CallGroupBy
  <2>1. PICK t : ~Loud(t) /\ ExtendClause(b.text, "GROUP_BY") = Append(b.text, t)
    BY ExtendIs
  <2>2. Shape(Dirty([b EXCEPT !.text = Append(b.text, t)]))
    BY <1>2, <2>1 DEF CallGroupBy, GroupBy
  <2> QED BY <1>1, <2>1, <2>2, AppendedKept
<1>3. CASE CallOrderBy
  <2>1. PICK t : ~Loud(t) /\ ExtendClause(b.text, "ORDER_BY") = Append(b.text, t)
    BY ExtendIs
  <2>2. Shape(Dirty([b EXCEPT !.text = Append(b.text, t)]))
    BY <1>3, <2>1 DEF CallOrderBy, OrderBy
  <2> QED BY <1>1, <2>1, <2>2, AppendedKept
<1>4. CASE CallReorder
  <2> DEFINE kept == SubSeq(b.text, 1, FirstTopLevel(b.text, {"ORDER_BY"}) - 1)
  <2>1. Typed(kept) /\ ReadsAs(kept, b.text)
    BY <1>1, CutCall
  <2>2. Shape(Dirty([b EXCEPT !.text = Append(kept, Token("ORDER_BY"))]))
    BY <1>4 DEF CallReorder, ReorderBy
  <2> HIDE DEF kept
  <2>3. ~Loud(Token("ORDER_BY"))
    BY PlainTokens DEF SetOperators
  <2> QED BY <2>1, <2>2, <2>3, AppendedKept
<1>5. ASSUME NEW kw \in {"LIMIT", "OFFSET"}, Shape(Dirty([b EXCEPT !.text = SetClause(b.text, kw)])) PROVE KeptLate
  <2>1. CASE SetClause(b.text, kw) = b.text
    <3> DEFINE y == Dirty([b EXCEPT !.text = b.text])
    <3>1. Faithful(y, asked) /\ Kin(b, y)
      BY <1>1, EditCall
    <3>2. Shape(y)
      BY <1>5, <2>1
    <3> HIDE DEF y
    <3> QED BY <3>1, <3>2, LateKept
  <2>2. CASE SetClause(b.text, kw) # b.text
    <3>1. PICK t : ~Loud(t) /\ SetClause(b.text, kw) = Append(b.text, t)
      BY <2>2, SetIs
    <3>2. Shape(Dirty([b EXCEPT !.text = Append(b.text, t)]))
      BY <1>5, <3>1
    <3> QED BY <1>1, <3>1, <3>2, AppendedKept
  <2> QED BY <2>1, <2>2
<1>6. CASE CallLimit \/ CallOffset
  BY <1>5, <1>6 DEF CallLimit, CallOffset, Limit, Offset
<1>7. CASE CallForPage
  <2> DEFINE p == Token("LIMIT")
             o == Token("OFFSET")
             one == Append(b.text, p)
  <2>1. ~Loud(p) /\ ~Loud(o)
    BY PlainTokens DEF SetOperators
  <2>2. b.text \o <<p, o>> = Append(one, o)
    <3>1. PICK S : b.text \in Seq(S)
      BY <1>1 DEF Typed
    <3> DEFINE R == S \cup {p, o}
    <3>2. b.text \in Seq(R) /\ p \in R /\ o \in R
      BY <3>1
    <3> HIDE DEF R, p, o
    <3> QED BY <3>2
  <2>3. Shape(Dirty([b EXCEPT !.text = b.text \o <<p, o>>]))
    BY <1>7 DEF CallForPage, ForPage
  <2> HIDE DEF p, o
  <2>4. Typed(one) /\ ReadsAs(one, b.text)
    BY <1>1, <2>1, QuietCall
  <2> HIDE DEF one
  <2>5. Shape(Dirty([b EXCEPT !.text = Append(one, o)]))
    BY <2>2, <2>3
  <2> QED BY <2>1, <2>4, <2>5, AppendedKept
<1>8. CASE CallLock
  <2>1. ~Loud(Token("LOCK"))
    BY PlainTokens DEF SetOperators
  <2>2. Shape(Dirty([b EXCEPT !.text = Append(b.text, Token("LOCK"))]))
    BY <1>8 DEF CallLock, LockForUpdate
  <2> QED BY <1>1, <2>1, <2>2, AppendedKept
<1> QED BY <1>2, <1>3, <1>4, <1>6, <1>7, <1>8

LEMMA HavingKept ==
  ASSUME Faithful(b, asked), CallHaving \/ CallHavingRaw
  PROVE  KeptLate
<1>1. PICK k : Shape(Having(b, k))
  BY DEF CallHaving, CallHavingRaw, HavingRaw
<1>2. Faithful(Having(b, k), asked) /\ Kin(b, Having(b, k))
  BY HavingCall
<1> QED BY <1>1, <1>2, LateKept

LEMMA JoinsKept ==
  ASSUME Faithful(b, asked), CallJoin \/ CallJoinSub \/ CallCTE
  PROVE  Kept
<1>1. ASSUME NEW t, Mute(t) PROVE Shape(AddJoins(b, <<t>>)) => Kept
  <2> DEFINE y == AddJoins(b, <<t>>)
  <2>1. Faithful(y, asked) /\ Steady(b, y)
    <3>1. <<t>> \in Seq({t})
      OBVIOUS
    <3> QED BY <1>1, <3>1, JoinsCall
  <2> HIDE DEF y
  <2>2. Shape(y) => Kept
    BY <2>1, ShapeKept
  <2> QED BY <2>2 DEF y
<1>2. CASE CallJoin
  <2>1. PICK t : Shape(AddJoins(b, <<JoinToken(t, Root)>>))
    BY <1>2 DEF CallJoin, Join
  <2> QED BY <1>1, <2>1, JoinTokensAreMute
<1>3. CASE CallJoinSub
  <2>1. PICK k, words : Shape(JoinSub(b, "sub", Root, words, k))
    BY <1>3 DEF CallJoinSub
  <2> DEFINE j == JoinToken("sub", Root)
             t == [j EXCEPT !.inner = words, !.ph = LostPlaceholders(b, k)]
  <2>2. Shape(AddJoins(b, <<t>>))
    BY <2>1 DEF JoinSub
  <2>3. Mute(t)
    <3>1. t.kw = j.kw /\ t.of = j.of
      BY DEF JoinToken, Token
    <3>2. Mute(j)
      BY JoinTokensAreMute
    <3> HIDE DEF t, j
    <3> QED BY <3>1, <3>2 DEF Mute, Loud
  <2> HIDE DEF t
  <2> QED BY <1>1, <2>2, <2>3
<1>4. CASE CallCTE
  <2>1. PICK k : Shape(WithCTE(b, {"WHERE"}, k))
    BY <1>4 DEF CallCTE
  <2> QED BY <2>1, CTECall, ShapeKept
<1> QED BY <1>2, <1>3, <1>4

LEMMA RelationsKept ==
  ASSUME Faithful(b, asked), CallWith \/ CallWithPivot
  PROVE  Kept
<1>1. CASE CallWith
  <2>1. PICK p \in Paths : Shape(With(b, <<p>>).b)
    BY <1>1 DEF CallWith
  <2>2. Len(p) \in {1, 2}
    BY DEF Paths
  <2> DEFINE y == With(b, <<p>>).b
  <2>3. Faithful(y, asked) /\ Steady(b, y)
    BY <2>2, WithCall
  <2>4. Shape(y)
    BY <2>1
  <2> HIDE DEF y
  <2> QED BY <2>3, <2>4, ShapeKept
<1>2. CASE CallWithPivot
  <2>1. PICK n : Shape(WithPivot(b, n))
    BY <1>2 DEF CallWithPivot
  <2> QED BY <2>1, PivotCall, ShapeKept
<1> QED BY <1>1, <1>2

LEMMA TrashedKept ==
  ASSUME Faithful(b, asked), CallWithTrashed
  PROVE  /\ Faithful(b', asked') /\ sent' = <<>> /\ b'.trashed = "with" /\ b'.deletedAt = b.deletedAt
         /\ b'.tail = b.tail /\ b'.text = b.text
<1> DEFINE y == WithTrashed(b)
<1>1. DOMAIN b = Fields
  BY DEF Faithful, Sound, Shaped
<1>2. /\ DOMAIN y = Fields /\ y.trashed = "with" /\ y.deletedAt = b.deletedAt /\ y.tail = b.tail /\ y.text = b.text
      /\ y.terms = b.terms /\ y.pivots = b.pivots /\ y.atoms = b.atoms /\ y.built = b.built
  BY <1>1 DEF WithTrashed, Fields
<1>3. b' = y /\ asked' = asked /\ sent' = <<>>
  BY DEF CallWithTrashed, Shape
<1> HIDE DEF y
<1>4. Faithful(y, asked)
  BY <1>2 DEF Faithful, Sound, Shaped, Open, Closed, Remembers
<1> QED BY <1>2, <1>3, <1>4

LEMMA SetOpKept ==
  ASSUME Faithful(b, asked), NoLater(b.text), CallSetOp
  PROVE  /\ Faithful(b', asked') /\ sent' = <<>> /\ b'.trashed = b.trashed /\ b'.deletedAt = b.deletedAt
         /\ b'.tail = TRUE /\ NoLater(b'.text)
<1>1. PICK kw \in {"UNION", "SETOP"}, second \in Conns \cup {"none", "nothing"} :
        LET one   == IF second = "nothing" THEN MakeSelect(b.dialect) ELSE Where(MakeSelect(b.dialect), 1, 1)
            other == IF second \in Conns THEN AddBooleanWhere(one, second, 1, 1) ELSE one
        IN  /\ b' = AppendSetOp(b, kw, other)
            /\ asked' = Append(asked, [i \in DOMAIN other.terms |-> RenumberTerm(other.terms[i], b)])
            /\ sent' = <<>>
  BY DEF CallSetOp
<1> DEFINE one   == IF second = "nothing" THEN MakeSelect(b.dialect) ELSE Where(MakeSelect(b.dialect), 1, 1)
           other == IF second \in Conns THEN AddBooleanWhere(one, second, 1, 1) ELSE one
           y == AppendSetOp(b, kw, other)
           c == Append(asked, MovedTerms(other.terms, b))
<1>2. b' = y /\ asked' = c /\ sent' = <<>>
  BY <1>1 DEF MovedTerms
<1>3. Conns = Conn /\ "AND" \in Conn
  BY DEF Conns, Conn
<1>4. Clean(one)
  BY <1>3, CleanBegins, CleanGrows DEF Where
<1> HIDE DEF one
<1>5. Clean(other)
  BY <1>3, <1>4, CleanGrows DEF AddBooleanWhere
<1> HIDE DEF other
<1>6. kw \in SetOperators
  BY DEF SetOperators
<1>7. Faithful(y, c) /\ y.tail = TRUE /\ y.trashed = b.trashed /\ y.deletedAt = b.deletedAt /\ NoLater(y.text)
  BY <1>5, <1>6, SetOpCall
<1> HIDE DEF y, c
<1> QED BY <1>2, <1>7

----------------------------------------------------------------------------
Sends == Faithful(b', asked') /\ Steady(b, b') /\ \E q : sent' = <<q>> /\ Says(q.text, asked')

LEMMA EnsureSteady ==
  ASSUME NEW x, DOMAIN x = Fields
  PROVE  Steady(x, EnsureBuilt(x))
<1> DEFINE y == [x EXCEPT !.built = <<Statement(x, Reorder(CurrentSql(x, <<>>)))>>]
<1>1. EnsureBuilt(x) \in {x, y}
  BY DEF EnsureBuilt
<1>2. y.tail = x.tail /\ y.trashed = x.trashed /\ y.deletedAt = x.deletedAt /\ y.text = x.text
  BY DEF Fields
<1> HIDE DEF y
<1> QED BY <1>1, <1>2 DEF Steady, Kin

\* The memo sent, or the builder's text.
LEMMA MemoSent ==
  ASSUME Faithful(b, asked), NEW q, Says(q.text, asked)
  PROVE  /\ Send(EnsureBuilt(b), q) => Sends
         /\ Send(b, q) => Sends
<1>1. Faithful(EnsureBuilt(b), asked) /\ Steady(b, EnsureBuilt(b))
  BY BuiltSays, EnsureSteady DEF Faithful, Sound, Shaped
<1>2. Steady(b, b)
  BY DEF Steady, Kin
<1> QED BY <1>1, <1>2 DEF Send, Sends

LEMMA ComposeSays ==
  ASSUME NEW query, NEW a, Tells(query, a), NEW W, \A t \in W : ~Loud(t), NEW w \in Seq(W), NEW values
  PROVE  Says(Compose(query, w, values).text, a)
<1>1. Compose(query, w, values).text = query.text \o w
  BY DEF Compose, Tells
<1>2. Says(query.text, a)
  BY DEF Tells
<1> QED BY <1>1, <1>2, BehindSays

\* The tokens a call adds of its own.
PageTokens == {Token("LIMIT"), Token("OFFSET"), Token("ORDER_BY")}
LEMMA PageTokensArePlain == \A t \in PageTokens : ~Loud(t)
BY PlainTokens DEF PageTokens, SetOperators

LEMMA RowsSent ==
  ASSUME Faithful(b, asked), SendMemo \/ SendOneRow \/ SendText \/ SendAggregate
  PROVE  Sends
<1>1. Tells(Built(b), asked)
  BY BuiltSays
<1>2. Reads(CurrentSql(b, <<>>), asked)
  BY CurrentSays DEF Faithful
<1>3. CASE SendMemo
  BY <1>1, <1>3, MemoSent DEF SendMemo, Execute, Exists, Tells
<1>4. CASE SendOneRow
  <2> DEFINE w == <<Token("LIMIT")>>
             query == Built(b)
             q == Compose(query, w, <<>>)
  <2>1. Send(EnsureBuilt(b), q)
    BY <1>4 DEF SendOneRow, First, Value
  <2>2. w \in Seq(PageTokens)
    BY DEF PageTokens
  <2> HIDE DEF w, query
  <2>3. Says(q.text, asked)
    BY <1>1, <2>2, PageTokensArePlain, ComposeSays DEF query
  <2> HIDE DEF q
  <2> QED BY <2>1, <2>3, MemoSent
<1>5. CASE SendText
  <2> DEFINE q == ToSQL(b)
  <2>1. q.text = Reorder(CurrentSql(b, <<>>))
    BY DEF ToSQL, Statement
  <2>2. Send(b, q)
    BY <1>5 DEF SendText
  <2> HIDE DEF q
  <2>3. Says(q.text, asked)
    BY <1>2, <2>1, ReorderSays
  <2> QED BY <2>2, <2>3, MemoSent
<1>6. CASE SendAggregate
  <2>1. Count(b).text = CurrentSql(b, <<>>) /\ Aggregate(b).text = CurrentSql(b, <<>>)
    BY DEF Count, Aggregate, Statement
  <2>2. Says(Count(b).text, asked) /\ Says(Aggregate(b).text, asked)
    BY <1>2, <2>1 DEF Reads
  <2> QED BY <1>6, <2>2, MemoSent DEF SendAggregate
<1> QED BY <1>3, <1>4, <1>5, <1>6

LEMMA PagesSent ==
  ASSUME Faithful(b, asked), SendPage
  PROVE  Sends
<1> DEFINE w == <<Token("LIMIT"), Token("OFFSET")>>
           query == Built(b)
           plain == ToSQL(b)
<1>1. Tells(query, asked)
  BY BuiltSays
<1>2. Tells(plain, asked)
  <2>1. Reads(CurrentSql(b, <<>>), asked)
    BY CurrentSays DEF Faithful
  <2>2. plain.text = Reorder(CurrentSql(b, <<>>)) /\ "text" \in DOMAIN plain
    BY DEF ToSQL, Statement
  <2> HIDE DEF plain
  <2> QED BY <2>1, <2>2, ReorderSays DEF Tells
<1>3. w \in Seq(PageTokens)
  BY DEF PageTokens
<1>4. CASE Send(EnsureBuilt(b), Paginate(b)) \/ Send(EnsureBuilt(b), SimplePaginate(b))
  <2>1. Send(EnsureBuilt(b), Compose(query, w, <<>>))
    BY <1>4 DEF Paginate, SimplePaginate
  <2> HIDE DEF w, query
  <2>2. Says(Compose(query, w, <<>>).text, asked)
    BY <1>1, <1>3, PageTokensArePlain, ComposeSays
  <2> QED BY <2>1, <2>2, MemoSent
<1>5. CASE Send(b, PaginateTx(b))
  <2>1. Send(b, Compose(plain, w, <<>>))
    BY <1>5 DEF PaginateTx
  <2> HIDE DEF w, plain
  <2>2. Says(Compose(plain, w, <<>>).text, asked)
    BY <1>2, <1>3, PageTokensArePlain, ComposeSays
  <2> QED BY <2>1, <2>2, MemoSent
<1>6. CASE Send(b, CursorPaginate(b))
  <2> DEFINE base == Statement(b, <<>>)
             o == OwnTerm(base)
             text == Reorder(CurrentSql(b, <<o>>))
             v == <<Token("ORDER_BY"), Token("LIMIT")>>
             q == CursorPaginate(b)
  <2>1. Own(o)
    BY DEF Own, OwnTerm, Term
  <2>2. v \in Seq(PageTokens)
    BY DEF PageTokens
  <2>3. q.text = text \o v
    BY DEF CursorPaginate, Statement
  <2>4. Send(b, q)
    BY <1>6
  <2> HIDE DEF o, v, q, base
  <2>5. Says(text, asked)
    BY <2>1, PageSays DEF Faithful
  <2> HIDE DEF text
  <2>6. Says(q.text, asked)
    BY <2>2, <2>3, <2>5, PageTokensArePlain, BehindSays
  <2> QED BY <2>4, <2>6, MemoSent
<1> QED BY <1>4, <1>5, <1>6 DEF SendPage

LEMMA KeysSent ==
  ASSUME Faithful(b, asked), SendKey
  PROVE  Sends
<1> DEFINE query == Built(b)
           text == query.text
           t == WhereToken("WHERE", RenderWhereTerms(<<OwnTerm(query)>>))
           p == Token("LIMIT")
           o == Token("ORDER_BY")
<1>1. Tells(query, asked)
  BY BuiltSays
<1>2. Says(text, asked)
  BY <1>1 DEF Tells
<1>3. Find(b).text = text \o <<t, p>> /\ Lazy(b).text = text \o <<t, o, p>>
  <2>1. Find(b) = Compose(query, <<t, p>>, <<OwnValue>>) /\ Lazy(b) = Compose(query, <<t, o, p>>, <<OwnValue>>)
    BY DEF Find, Lazy
  <2>2. \A more : Compose(query, more, <<OwnValue>>).text = text \o more
    BY <1>1 DEF Compose, Tells
  <2> QED BY <2>1, <2>2
<1>4. <<p>> \in Seq(PageTokens) /\ <<o, p>> \in Seq(PageTokens)
  BY DEF PageTokens
<1>5. Own(OwnTerm(query))
  BY DEF Own, OwnTerm, Term
<1> HIDE DEF p, o
<1>6. Says(text \o (<<t>> \o <<p>>), asked) /\ Says(text \o (<<t>> \o <<o, p>>), asked)
  <2> HIDE DEF text, query
  <2> QED BY <1>2, <1>4, <1>5, PageTokensArePlain, KeySays
<1> HIDE DEF query, t, text
<1>7. text \o (<<t>> \o <<p>>) = text \o <<t, p>> /\ text \o (<<t>> \o <<o, p>>) = text \o <<t, o, p>>
  <2>1. PICK S : text \in Seq(S)
    BY <1>2 DEF Says, Typed
  <2> DEFINE R == S \cup {t, o, p}
  <2>2. text \in Seq(R) /\ t \in R /\ o \in R /\ p \in R
    BY <2>1
  <2> HIDE DEF R
  <2>3. text \o (<<t>> \o <<p>>) = Append(Append(text, t), p)
    BY <2>2
  <2>4. text \o <<t, p>> = Append(Append(text, t), p)
    BY <2>2
  <2>5. text \o (<<t>> \o <<o, p>>) = Append(Append(Append(text, t), o), p)
    BY <2>2
  <2>6. text \o <<t, o, p>> = Append(Append(Append(text, t), o), p)
    BY <2>2
  <2> QED BY <2>3, <2>4, <2>5, <2>6
<1>8. Says(Find(b).text, asked) /\ Says(Lazy(b).text, asked)
  BY <1>3, <1>6, <1>7
<1> QED BY <1>8, MemoSent DEF SendKey

\* The default filter is still to come while neither call was made.
Unfiltered(x) == x.trashed = "default" /\ ~x.deletedAt

LEMMA GetSent ==
  ASSUME Faithful(b, asked), b.tail # TRUE, SendGet, ~Did({"onlyTrashed"}),
         soft => (Unfiltered(b) <=> ~Did({"withTrashed", "get"}))
  PROVE  /\ Faithful(b', asked') /\ b'.tail = b.tail /\ b'.text = b.text
         /\ soft => ~Unfiltered(b')
         /\ \E q : sent' = <<q>> /\ Says(q.text, asked')
<1> DEFINE y == GetBuilder(b, soft)
           u == Term("AND", "all", NextAtoms(b, 1), <<>>)
           c == IF Hides(b, soft) THEN Asks(asked, u) ELSE asked
           q == Get(b, soft)
<1>1. /\ Faithful(y, c) /\ y.tail = b.tail /\ y.trashed = b.trashed /\ y.text = b.text
      /\ Hides(b, soft) => y.deletedAt = TRUE
      /\ ~Hides(b, soft) => y.deletedAt = b.deletedAt
  BY GetCall
<1>2. Hides(b, soft) <=> (soft /\ ~Did({"withTrashed", "onlyTrashed", "get"}))
  BY DEF Hides, Unfiltered, Did
<1>3. asked' = c
  <2> DEFINE said == {calls[i] : i \in DOMAIN calls}
  <2>1. said \cap {"withTrashed", "onlyTrashed", "get"} = {} <=> ~Did({"withTrashed", "onlyTrashed", "get"})
    BY DEF Did
  <2>2. IF soft /\ said \cap {"withTrashed", "onlyTrashed", "get"} = {} THEN Ask("AND", "all", 1) ELSE UNCHANGED asked
    BY DEF SendGet
  <2> HIDE DEF said
  <2>3. IF Hides(b, soft) THEN Ask("AND", "all", 1) ELSE UNCHANGED asked
    BY <1>2, <2>1, <2>2
  <2> QED BY <2>3 DEF Ask, Asks
<1>4. b' = y /\ sent' = <<q>>
  BY DEF SendGet
<1>5. soft => ~Unfiltered(y)
  BY <1>1 DEF Unfiltered, Hides
<1>6. q = Built(y)
  BY DEF Get
<1> HIDE DEF y, c, q
<1>7. Tells(q, c)
  BY <1>1, <1>6, BuiltSays
<1> QED BY <1>1, <1>3, <1>4, <1>5, <1>7 DEF Tells

----------------------------------------------------------------------------
(* What the calls were, one more made.                                        *)
Said(s, names) == \E i \in DOMAIN s : s[i] \in names
After(s, first, then) == \E i, j \in DOMAIN s : i < j /\ s[i] \in first /\ s[j] \in then

LEMMA SaidMore ==
  ASSUME NEW s, Chain(s), NEW name
  PROVE  /\ Chain(Append(s, name))
         /\ \A names : Said(Append(s, name), names) <=> (Said(s, names) \/ name \in names)
         /\ \A first, then : After(Append(s, name), first, then) <=> (After(s, first, then) \/ (Said(s, first) /\ name \in then))
<1> DEFINE m == Append(s, name)
           n == Len(s)
<1>1. PICK S : s \in Seq(S)
  BY DEF Chain
<1> DEFINE T == S \cup {name}
<1>2. s \in Seq(T) /\ name \in T
  BY <1>1
<1> HIDE DEF T
<1>3. m \in Seq(T) /\ Len(m) = n + 1 /\ n \in Nat /\ m[n + 1] = name /\ \A i \in 1 .. n : m[i] = s[i]
  BY <1>2
<1>4. DOMAIN m = 1 .. n + 1 /\ DOMAIN s = 1 .. n
  BY <1>2, <1>3
<1> HIDE DEF m, n
<1>5. /\ \A i \in 1 .. n + 1 : i = n + 1 \/ i \in 1 .. n
      /\ n + 1 \in 1 .. n + 1 /\ \A i \in 1 .. n : i \in 1 .. n + 1 /\ i < n + 1 /\ ~(n + 1 < i)
      /\ ~(n + 1 < n + 1)
  BY <1>3
<1>6. ASSUME NEW names PROVE Said(m, names) <=> (Said(s, names) \/ name \in names)
  BY <1>3, <1>4, <1>5 DEF Said
<1>7. ASSUME NEW first, NEW then PROVE After(m, first, then) <=> (After(s, first, then) \/ (Said(s, first) /\ name \in then))
  <2>1. ASSUME After(m, first, then) PROVE After(s, first, then) \/ (Said(s, first) /\ name \in then)
    <3>1. PICK i \in DOMAIN m, j \in DOMAIN m : i < j /\ m[i] \in first /\ m[j] \in then
      BY <2>1 DEF After
    <3>2. i \in 1 .. n
      BY <1>4, <1>5, <3>1
    <3>3. CASE j \in 1 .. n
      BY <1>3, <1>4, <3>1, <3>2, <3>3 DEF After
    <3>4. CASE j = n + 1
      BY <1>3, <1>4, <3>1, <3>2, <3>4 DEF Said
    <3> QED BY <1>4, <1>5, <3>1, <3>3, <3>4
  <2>2. After(s, first, then) => After(m, first, then)
    BY <1>3, <1>4, <1>5 DEF After
  <2>3. (Said(s, first) /\ name \in then) => After(m, first, then)
    BY <1>3, <1>4, <1>5 DEF After, Said
  <2> QED BY <2>1, <2>2, <2>3
<1>8. Chain(m)
  BY <1>3 DEF Chain
<1> QED BY <1>6, <1>7, <1>8 DEF m

\* The chains FilterIsTheOneAsked leaves out.
Barred(s) ==
  \/ Said(s, {"onlyTrashed", "found", "whereUnread"})
  \/ After(s, {"setOp"}, Conditions \cup {"get"})
  \/ After(s, Trailing, {"setOp"})

LEMMA Allowed ==
  ASSUME NEW s, Chain(s), NEW name, ~Barred(Append(s, name))
  PROVE  /\ Chain(Append(s, name)) /\ ~Barred(s) /\ name \notin {"onlyTrashed", "found", "whereUnread"}
         /\ name \in Conditions \cup {"get"} => ~Said(s, {"setOp"})
         /\ name = "setOp" => ~Said(s, Trailing)
         /\ \A names : Said(Append(s, name), names) <=> (Said(s, names) \/ name \in names)
<1> DEFINE m == Append(s, name)
<1>1. /\ Chain(m)
      /\ \A names : Said(m, names) <=> (Said(s, names) \/ name \in names)
      /\ \A first, then : After(m, first, then) <=> (After(s, first, then) \/ (Said(s, first) /\ name \in then))
  BY SaidMore
<1> HIDE DEF m
<1>2. ~Barred(m)
  BY DEF m
<1> QED BY <1>1, <1>2 DEF Barred, m

\* A SELECT builder after the calls s, with soft deletes on or not.
SelectOK(x, a, s, on) ==
  /\ Faithful(x, a)
  /\ x.tail = TRUE => Said(s, {"setOp"})
  /\ ~Said(s, Trailing) => NoLater(x.text)
  /\ on => (Unfiltered(x) <=> ~Said(s, {"withTrashed", "get"}))

\* What a call leaves: a builder and what was asked of it, as name may.
LeavesIt(x, y, c, name) == Faithful(y, c) /\ Kin(x, y) /\ (name \in Trailing \/ Steady(x, y))

LEMMA SelectStays ==
  ASSUME NEW x, NEW a, NEW s, NEW on, SelectOK(x, a, s, on), Chain(s), NEW name, ~Barred(Append(s, name)),
         name \notin {"setOp", "withTrashed", "get"}, NEW y, NEW c, LeavesIt(x, y, c, name)
  PROVE  SelectOK(y, c, Append(s, name), on)
<1> DEFINE m == Append(s, name)
<1>1. \A names : Said(m, names) <=> (Said(s, names) \/ name \in names)
  BY Allowed
<1> HIDE DEF m
<1>2. /\ Said(m, {"setOp"}) <=> Said(s, {"setOp"})
      /\ Said(m, {"withTrashed", "get"}) <=> Said(s, {"withTrashed", "get"})
      /\ ~Said(m, Trailing) => ~Said(s, Trailing) /\ name \notin Trailing
  BY <1>1
<1>3. y.tail = x.tail /\ (Unfiltered(y) <=> Unfiltered(x))
  BY DEF LeavesIt, Kin, Unfiltered
<1>4. ~Said(m, Trailing) => NoLater(y.text)
  BY <1>2 DEF LeavesIt, Steady, SelectOK
<1>5. SelectOK(y, c, m, on)
  BY <1>2, <1>3, <1>4 DEF SelectOK, LeavesIt
<1> QED BY <1>5 DEF m

----------------------------------------------------------------------------
(* The calls, by what they leave.                                             *)
CallsAre(names) == \E name \in names : May("select", name)
ShapeNames == {"columns", "select", "window", "withCTE", "join", "joinSub", "with", "withBack", "withPivot", "withCount"}
SendNames == {"execute", "first", "paginate", "paginateTx", "cursorPaginate", "find", "count", "toSQL"}

CallCondition ==
  \/ CallWhere \/ CallBooleanWhere \/ CallWhereNull \/ CallWhereValue \/ CallWhereColumns
  \/ CallWhereIn \/ CallDynamicWhere \/ CallWhereSubquery \/ CallWhereGroup \/ CallWhereHas \/ CallWherePivot
CallShape ==
  CallColumns \/ CallSelect \/ CallWindow \/ CallWithCount \/ CallCTE \/ CallJoin \/ CallJoinSub \/ CallWith \/ CallWithPivot
CallTrailing ==
  \/ CallGroupBy \/ CallOrderBy \/ CallReorder \/ CallLimit \/ CallOffset \/ CallForPage \/ CallLock
  \/ CallHaving \/ CallHavingRaw
SendSelect == SendMemo \/ SendOneRow \/ SendPage \/ SendKey \/ SendAggregate \/ SendText

LEMMA SelectCalls ==
  SelectNext => \/ CallCondition \/ CallShape \/ CallTrailing \/ SendSelect
                \/ CallSetOp \/ CallWithTrashed \/ CallOnlyTrashed \/ SendGet
BY DEF SelectNext, CallCondition, CallShape, CallTrailing, SendSelect

LEMMA SelectNames ==
  /\ CallCondition => CallsAre(Conditions)
  /\ CallShape => CallsAre(ShapeNames)
  /\ CallTrailing => CallsAre(Trailing)
  /\ SendSelect => CallsAre(SendNames)
<1>1. CallCondition => CallsAre(Conditions)
  BY DEF CallCondition, CallsAre, Conditions, CallWhere, CallBooleanWhere, CallWhereNull, CallWhereValue, CallWhereColumns,
         CallWhereIn, CallDynamicWhere, CallWhereSubquery, CallWhereGroup, CallWhereHas, CallWherePivot
<1>2. CallShape => CallsAre(ShapeNames)
  BY DEF CallShape, CallsAre, ShapeNames, CallColumns, CallSelect, CallWindow, CallWithCount, CallCTE, CallJoin, CallJoinSub,
         CallWith, CallWithPivot
<1>3. CallTrailing => CallsAre(Trailing)
  BY DEF CallTrailing, CallsAre, Trailing, CallGroupBy, CallOrderBy, CallReorder, CallLimit, CallOffset, CallForPage, CallLock,
         CallHaving, CallHavingRaw
<1>4. SendSelect => CallsAre(SendNames)
  BY DEF SendSelect, CallsAre, SendNames, SendMemo, SendOneRow, SendPage, SendKey, SendAggregate, SendText
<1> QED BY <1>1, <1>2, <1>3, <1>4

LEMMA GroupsKept ==
  ASSUME Faithful(b, asked)
  PROVE  /\ b.tail # TRUE /\ CallCondition => Kept
         /\ CallShape => Kept
         /\ CallTrailing => KeptLate
         /\ SendSelect => Sends
BY WhereKept, ListsKept, SubqueriesKept, PivotsKept, ListKept, ColumnsKept, JoinsKept, RelationsKept, TrailingKept, HavingKept,
   RowsSent, PagesSent, KeysSent
   DEF CallCondition, CallShape, CallTrailing, SendSelect

SaysSent(q, a) == q # <<>> => Says(q[1].text, a)

LEMMA SelectSteps ==
  ASSUME Chain(calls), SelectOK(b, asked, calls, soft), SelectNext, ~Barred(calls')
  PROVE  SelectOK(b', asked', calls', soft') /\ SaysSent(sent', asked')
<1>0. Faithful(b, asked)
  BY DEF SelectOK
<1>1. ASSUME NEW name, May("select", name)
      PROVE  /\ calls' = Append(calls, name) /\ soft' = soft
             /\ name \notin {"onlyTrashed", "found", "whereUnread"}
             /\ name \in Conditions \cup {"get"} => ~Said(calls, {"setOp"})
             /\ name = "setOp" => ~Said(calls, Trailing)
             /\ \A names : Said(Append(calls, name), names) <=> (Said(calls, names) \/ name \in names)
  <2>1. calls' = Append(calls, name) /\ soft' = soft
    BY <1>1 DEF May
  <2>2. ~Barred(Append(calls, name))
    BY <2>1
  <2> QED BY <2>1, <2>2, Allowed
<1>2. ASSUME NEW name, May("select", name), name \notin {"setOp", "withTrashed", "get"}, LeavesIt(b, b', asked', name)
      PROVE  SelectOK(b', asked', calls', soft')
  <2> DEFINE y == b'
             c == asked'
             m == Append(calls, name)
  <2>1. calls' = m /\ soft' = soft /\ ~Barred(m)
    BY <1>2 DEF May
  <2>2. LeavesIt(b, y, c, name)
    BY <1>2
  <2> HIDE DEF y, c
  <2>3. SelectOK(y, c, m, soft)
    BY <1>2, <2>1, <2>2, SelectStays
  <2> QED BY <2>1, <2>3 DEF y, c
<1>3. CASE CallCondition
  <2>1. PICK name \in Conditions : May("select", name)
    BY <1>3, SelectNames DEF CallsAre
  <2>2. b.tail # TRUE
    BY <1>1, <2>1 DEF SelectOK
  <2>3. Kept
    BY <1>0, <1>3, <2>2, GroupsKept
  <2>4. name \notin {"setOp", "withTrashed", "get"}
    BY DEF Conditions
  <2>5. LeavesIt(b, b', asked', name) /\ sent' = <<>>
    BY <2>3 DEF Kept, LeavesIt, Steady
  <2> QED BY <1>2, <2>1, <2>4, <2>5 DEF SaysSent
<1>4. CASE CallShape
  <2>1. PICK name \in ShapeNames : May("select", name)
    BY <1>4, SelectNames DEF CallsAre
  <2>2. Kept
    BY <1>0, <1>4, GroupsKept
  <2>3. name \notin {"setOp", "withTrashed", "get"}
    BY DEF ShapeNames
  <2>4. LeavesIt(b, b', asked', name) /\ sent' = <<>>
    BY <2>2 DEF Kept, LeavesIt, Steady
  <2> QED BY <1>2, <2>1, <2>3, <2>4 DEF SaysSent
<1>5. CASE CallTrailing
  <2>1. PICK name \in Trailing : May("select", name)
    BY <1>5, SelectNames DEF CallsAre
  <2>2. KeptLate
    BY <1>0, <1>5, GroupsKept
  <2>3. name \notin {"setOp", "withTrashed", "get"}
    BY DEF Trailing
  <2>4. LeavesIt(b, b', asked', name) /\ sent' = <<>>
    BY <2>2 DEF KeptLate, LeavesIt
  <2> QED BY <1>2, <2>1, <2>3, <2>4 DEF SaysSent
<1>6. CASE SendSelect
  <2>1. PICK name \in SendNames : May("select", name)
    BY <1>6, SelectNames DEF CallsAre
  <2>2. Sends
    BY <1>0, <1>6, GroupsKept
  <2>3. name \notin {"setOp", "withTrashed", "get"}
    BY DEF SendNames
  <2>4. LeavesIt(b, b', asked', name)
    BY <2>2 DEF Sends, LeavesIt, Steady
  <2>5. PICK q : sent' = <<q>> /\ Says(q.text, asked')
    BY <2>2 DEF Sends
  <2>6. <<q>>[1] = q
    OBVIOUS
  <2> QED BY <1>2, <2>1, <2>3, <2>4, <2>5, <2>6 DEF SaysSent
<1>7. CASE CallSetOp
  <2>1. May("select", "setOp")
    BY <1>7 DEF CallSetOp
  <2>2. NoLater(b.text)
    BY <1>1, <2>1 DEF SelectOK
  <2> DEFINE y == b'
             c == asked'
  <2>3. /\ Faithful(y, c) /\ sent' = <<>> /\ y.trashed = b.trashed /\ y.deletedAt = b.deletedAt
        /\ y.tail = TRUE /\ NoLater(y.text)
    BY <1>0, <1>7, <2>2, SetOpKept
  <2>4. /\ calls' = Append(calls, "setOp") /\ soft' = soft
        /\ \A names : Said(Append(calls, "setOp"), names) <=> (Said(calls, names) \/ "setOp" \in names)
    BY <1>1, <2>1
  <2> HIDE DEF y, c
  <2>5. /\ Said(Append(calls, "setOp"), {"setOp"})
        /\ Said(Append(calls, "setOp"), {"withTrashed", "get"}) <=> Said(calls, {"withTrashed", "get"})
    BY <2>4
  <2>6. Unfiltered(y) <=> Unfiltered(b)
    BY <2>3 DEF Unfiltered
  <2>7. SelectOK(y, c, Append(calls, "setOp"), soft)
    BY <2>3, <2>5, <2>6 DEF SelectOK
  <2> QED BY <2>3, <2>4, <2>7 DEF SaysSent, y, c
<1>8. CASE CallWithTrashed
  <2>1. May("select", "withTrashed")
    BY <1>8 DEF CallWithTrashed
  <2> DEFINE y == b'
             c == asked'
             m == Append(calls, "withTrashed")
  <2>2. /\ Faithful(y, c) /\ sent' = <<>> /\ y.trashed = "with" /\ y.tail = b.tail /\ y.text = b.text
    BY <1>0, <1>8, TrashedKept
  <2>3. /\ calls' = m /\ soft' = soft
        /\ \A names : Said(m, names) <=> (Said(calls, names) \/ "withTrashed" \in names)
    BY <1>1, <2>1
  <2> HIDE DEF y, c, m
  <2>4. /\ Said(m, {"setOp"}) <=> Said(calls, {"setOp"})
        /\ Said(m, {"withTrashed", "get"})
        /\ ~Said(m, Trailing) => ~Said(calls, Trailing)
    BY <2>3
  <2>5. ~Unfiltered(y)
    BY <2>2 DEF Unfiltered
  <2>6. SelectOK(y, c, m, soft)
    BY <2>2, <2>4, <2>5 DEF SelectOK
  <2> QED BY <2>2, <2>3, <2>6 DEF SaysSent, y, c
<1>9. CASE CallOnlyTrashed
  <2>1. May("select", "onlyTrashed")
    BY <1>9 DEF CallOnlyTrashed
  <2> QED BY <1>1, <2>1
<1>10. CASE SendGet
  <2>1. May("select", "get")
    BY <1>10 DEF SendGet
  <2> DEFINE y == b'
             c == asked'
             m == Append(calls, "get")
  <2>2. /\ calls' = m /\ soft' = soft
        /\ ~Said(calls, {"setOp"})
        /\ \A names : Said(m, names) <=> (Said(calls, names) \/ "get" \in names)
    BY <1>1, <2>1
  <2>3. b.tail # TRUE
    BY <2>2 DEF SelectOK
  <2>4. ~Did({"onlyTrashed"})
    <3>1. ~Barred(calls)
      <4>1. ~Barred(m)
        BY <2>2
      <4> QED BY <4>1, Allowed
    <3> QED BY <3>1 DEF Barred, Said, Did
  <2>5. soft => (Unfiltered(b) <=> ~Did({"withTrashed", "get"}))
    BY DEF SelectOK, Said, Did
  <2>6. /\ Faithful(y, c) /\ y.tail = b.tail /\ y.text = b.text /\ (soft => ~Unfiltered(y))
        /\ \E q : sent' = <<q>> /\ Says(q.text, c)
    BY <1>0, <1>10, <2>3, <2>4, <2>5, GetSent
  <2> HIDE DEF y, c, m
  <2>7. /\ Said(m, {"setOp"}) <=> Said(calls, {"setOp"})
        /\ Said(m, {"withTrashed", "get"})
        /\ ~Said(m, Trailing) => ~Said(calls, Trailing)
    BY <2>2
  <2>8. SelectOK(y, c, m, soft)
    BY <2>6, <2>7 DEF SelectOK
  <2>9. SaysSent(sent', c)
    <3>1. PICK q : sent' = <<q>> /\ Says(q.text, c)
      BY <2>6
    <3>2. <<q>>[1] = q
      OBVIOUS
    <3> QED BY <3>1, <3>2 DEF SaysSent
  <2> QED BY <2>2, <2>8, <2>9 DEF y, c
<1> QED BY <1>3, <1>4, <1>5, <1>6, <1>7, <1>8, <1>9, <1>10, SelectCalls

----------------------------------------------------------------------------
(* selectFromSub: the conditions stand between a base and a tail that say     *)
(* nothing of their own.                                                      *)
SubFields == {"dialect", "terms", "params", "tail", "distinct", "atoms", "base"}
SubOK(x, a) ==
  /\ DOMAIN x = SubFields /\ x.atoms \in Nat /\ Typed(x.tail) /\ Quiet(x.tail) /\ ~Loud(x.base)
  /\ \E w : a = <<w>> /\ Alike(x.terms, w)

LEMMA NothingTyped == Typed(<<>>) /\ Quiet(<<>>)
<1>1. Prints({}, {}) /\ <<>> \in Seq({})
  BY DEF Prints
<1>2. DOMAIN <<>> = {}
  OBVIOUS
<1> QED BY <1>1, <1>2 DEF Typed, Quiet

LEMMA SubSays ==
  ASSUME NEW x, NEW a, SubOK(x, a)
  PROVE  Says(MakeSub(x).text, a)
<1> DEFINE body == RenderWhereTerms(x.terms)
           t == WhereToken("WHERE", body)
           o == x.base
           w == x.tail
           mid == IF body = <<>> THEN <<>> ELSE <<t>>
           text == <<o>> \o mid \o w
<1>1. MakeSub(x).text = text
  BY DEF MakeSub
<1>2. PICK c : a = <<c>> /\ Alike(x.terms, c)
  BY DEF SubOK
<1>3. Agree(body, c) /\ \E P : body \in Seq(P)
  BY <1>2, BodyAgrees
<1>4. PICK Q : body \in Seq(Q)
  BY <1>3
<1>5. PICK S0, P0 : Prints(S0, P0) /\ w \in Seq(S0)
  BY DEF SubOK, Typed
<1>6. t.kw = "WHERE" /\ t.of = "WHERE" /\ t.body = body
  BY WhereIs
<1>7. ~Loud(o) /\ Quiet(w)
  BY DEF SubOK
<1> DEFINE S == S0 \cup {o, t}
           P == P0 \cup Q
<1>8. Prints(S, P) /\ w \in Seq(S) /\ o \in S /\ t \in S
  <2>1. Prints({o, t}, Q)
    BY <1>4, <1>6, <1>7 DEF Prints, Loud
  <2>2. Prints(S, P) /\ w \in Seq(S)
    BY <1>5, <2>1, TypedMore
  <2> QED BY <2>2
<1> HIDE DEF S, P, t, o, body, w
<1>9. <<>> \in Seq(S) /\ Append(<<>>, o) = <<o>> /\ <<o>> \in Seq(S) /\ <<o>> \o <<>> = <<o>> /\ <<o>> \o <<t>> = Append(<<o>>, t)
  BY <1>8
<1>10. Filters(<<o>>) = <<<<>>>>
  <2>1. Filters(Append(<<>>, o)) = WithPieces(Filters(<<>>), o)
    BY <1>8, <1>9, FiltersGrow
  <2> QED BY <1>7, <1>9, <2>1, FiltersBegin DEF WithPieces, Loud
<1>11. <<o>> \o mid \in Seq(S) /\ Filters(<<o>> \o mid) = <<body>>
  <2>1. CASE body = <<>>
    BY <1>9, <1>10, <2>1
  <2>2. CASE body # <<>>
    <3>1. Append(<<o>>, t) \in Seq(S)
      BY <1>8, <1>9, AppendProperties
    <3>2. Filters(Append(<<o>>, t)) = WithPieces(<<<<>>>>, t)
      BY <1>8, <1>9, <1>10, FiltersGrow
    <3>3. t.kw \notin SetOperators
      BY <1>6 DEF SetOperators
    <3>4. WithPieces(<<<<>>>>, t) = [<<<<>>>> EXCEPT ![1] = <<>> \o body]
      BY <1>6, <3>3 DEF WithPieces
    <3>5. <<>> \o body = body
      BY <1>4
    <3>6. [<<<<>>>> EXCEPT ![1] = body] = <<body>>
      OBVIOUS
    <3> QED BY <1>9, <2>2, <3>1, <3>2, <3>4, <3>5, <3>6
  <2> QED BY <2>1, <2>2
<1> HIDE DEF mid
<1>12. Filters(text) = <<body>>
  BY <1>7, <1>8, <1>11, QuietEnd
<1>13. text \in Seq(S)
  BY <1>8, <1>11
<1> HIDE DEF text
<1>14. Says(text, a)
  BY <1>2, <1>3, <1>8, <1>12, <1>13, OneMeans DEF Says, Typed, body
<1> QED BY <1>1, <1>14 DEF text

LEMMA SubPush ==
  ASSUME NEW x, NEW a, SubOK(x, a), NEW t, NEW u, Matches(t, u), NEW y, DOMAIN y = SubFields, y.terms = Append(x.terms, t),
         y.tail = x.tail, y.base = x.base, y.atoms \in Nat
  PROVE  SubOK(y, Asks(a, u))
<1>1. PICK w : a = <<w>> /\ Alike(x.terms, w)
  BY DEF SubOK
<1>2. Asks(a, u) = <<Append(w, u)>>
  BY <1>1, AsksOne
<1>3. Alike(Append(x.terms, t), Append(w, u))
  BY <1>1, AlikeGrows DEF Matches
<1> QED BY <1>2, <1>3 DEF SubOK

LEMMA SubWhereOK ==
  ASSUME NEW x, NEW a, SubOK(x, a), NEW conn \in Conn, NEW n \in Nat, NEW k
  PROVE  /\ SubOK(SubWhere(x, conn, n, k), Asks(a, Term(conn, "all", NextAtoms(x, n), <<>>)))
<1> DEFINE t == Term(conn, "all", NextAtoms(x, n), GetPlaceholders(x, k))
           u == Term(conn, "all", NextAtoms(x, n), <<>>)
           y == SubWhere(x, conn, n, k)
<1>1. Matches(t, u)
  BY SameCondition
<1>2. /\ DOMAIN y = SubFields /\ y.terms = Append(x.terms, t) /\ y.tail = x.tail /\ y.base = x.base /\ y.atoms = x.atoms + n
  BY DEF SubWhere, SubOK, SubFields
<1>3. x.atoms + n \in Nat
  BY DEF SubOK
<1> HIDE DEF y, t, u
<1>4. SubOK(y, Asks(a, u))
  BY <1>1, <1>2, <1>3, SubPush
<1> QED BY <1>4 DEF y, u

LEMMA SubWhereInOK ==
  ASSUME NEW x, NEW a, SubOK(x, a), NEW conn \in Conn, NEW n \in Nat
  PROVE  SubOK(SubWhereIn(x, conn, n), Asks(a, Member(x, conn, n, FALSE)))
<1>1. CASE n > 0
  <2>1. SubWhereIn(x, conn, n) = SubWhere(x, conn, 1, n)
    BY <1>1 DEF SubWhereIn
  <2>2. Member(x, conn, n, FALSE) = Term(conn, "all", NextAtoms(x, 1), <<>>)
    BY <1>1 DEF Member
  <2>3. SubOK(SubWhere(x, conn, 1, n), Asks(a, Term(conn, "all", NextAtoms(x, 1), <<>>)))
    BY SubWhereOK
  <2> QED BY <2>1, <2>2, <2>3
<1>2. CASE n = 0
  <2> DEFINE t == Term(conn, "broken", NextAtoms(x, 1), <<>>)
             u == Term(conn, "any", NextAtoms(x, 0), <<>>)
             y == SubWhereIn(x, conn, n)
  <2>1. Member(x, conn, n, FALSE) = u
    BY <1>2 DEF Member
  <2>2. /\ DOMAIN y = SubFields /\ y.terms = Append(x.terms, t) /\ y.tail = x.tail /\ y.base = x.base /\ y.atoms = x.atoms + 1
    BY <1>2 DEF SubWhereIn, SubOK, SubFields
  <2>3. x.atoms + 1 \in Nat /\ x.atoms \in Nat
    BY DEF SubOK
  <2>4. Matches(t, u)
    <3>1. NextAtoms(x, 0) = {}
      BY <2>3, NextAtomsAre
    <3>2. /\ t.conn = conn /\ u.conn = conn /\ t.mode = "broken" /\ u.mode = "any" /\ u.atoms = {}
      BY <3>1 DEF Term
    <3> HIDE DEF t, u
    <3>3. \A true : ~TermHolds(t, true) /\ ~TermHolds(u, true)
      BY <3>2 DEF TermHolds
    <3> QED BY <3>2, <3>3 DEF Matches
  <2> HIDE DEF y, t, u
  <2>5. SubOK(y, Asks(a, u))
    BY <2>2, <2>3, <2>4, SubPush
  <2> QED BY <2>1, <2>5 DEF y
<1> DEFINE G == SubOK(SubWhereIn(x, conn, n), Asks(a, Member(x, conn, n, FALSE)))
<1>3. (n > 0 => G) /\ (n = 0 => G)
  BY <1>1, <1>2
<1> HIDE DEF G
<1>4. G
  BY <1>3
<1> QED BY <1>4 DEF G

LEMMA SubGroupOK ==
  ASSUME NEW x, NEW a, SubOK(x, a), NEW conn \in Conn, NEW second
  PROVE  LET u == Term(conn, IF second = "OR" THEN "any" ELSE "all", NextAtoms(x, 2), <<>>)
         IN  SubOK(SubWithGroup(x, conn, second), Asks(a, u))
<1> DEFINE mode == IF second = "OR" THEN "any" ELSE "all"
           none == [x EXCEPT !.terms = <<>>]
           one == SubWhere(none, "AND", 1, 1)
           g == SubWhere(one, second, 1, 1)
           t == Term(conn, mode, NextAtoms(x, 2), BodyPlaceholders(RenderWhereTerms(g.terms)))
           u == Term(conn, mode, NextAtoms(x, 2), <<>>)
           y == SubWithGroup(x, conn, second)
<1>1. Matches(t, u)
  BY SameCondition
<1>2. y = [g EXCEPT !.terms = Append(x.terms, t)]
  BY DEF SubWithGroup
<1>3. DOMAIN x = SubFields /\ x.atoms \in Nat
  BY DEF SubOK
<1>4. DOMAIN none = SubFields /\ none.atoms = x.atoms /\ none.tail = x.tail /\ none.base = x.base
  BY <1>3 DEF SubFields
<1> HIDE DEF none
<1>5. DOMAIN one = SubFields /\ one.atoms = x.atoms + 1 /\ one.tail = x.tail /\ one.base = x.base
  BY <1>4 DEF SubWhere, SubFields
<1> HIDE DEF one
<1>6. DOMAIN g = SubFields /\ g.atoms = one.atoms + 1 /\ g.tail = x.tail /\ g.base = x.base
  BY <1>5 DEF SubWhere, SubFields
<1> HIDE DEF g, t, y
<1>7. DOMAIN y = SubFields /\ y.terms = Append(x.terms, t) /\ y.tail = x.tail /\ y.base = x.base /\ y.atoms = g.atoms
  BY <1>2, <1>6 DEF SubFields
<1>8. y.atoms \in Nat
  BY <1>3, <1>5, <1>6, <1>7
<1> HIDE DEF u
<1>9. SubOK(y, Asks(a, u))
  BY <1>1, <1>7, <1>8, SubPush
<1> QED BY <1>9 DEF y, u

SubKept == SubOK(b', asked') /\ sent' = <<>>

LEMMA SubFilter ==
  ASSUME NEW y, NEW conn, NEW mode, NEW n, SubOK(y, Asks(asked, Term(conn, mode, NextAtoms(b, n), <<>>)))
  PROVE  Filter(y, conn, mode, n) => SubKept
BY DEF Filter, Ask, Asks, SubKept

LEMMA SubMember ==
  ASSUME NEW y, NEW conn, NEW n, NEW negated, SubOK(y, Asks(asked, Member(b, conn, n, negated)))
  PROVE  AskMember(y, conn, n, negated) => SubKept
<1>1. CASE n = 0
  <2> DEFINE mode == IF negated THEN "all" ELSE "any"
  <2>1. Member(b, conn, n, negated) = Term(conn, mode, NextAtoms(b, 0), <<>>)
    BY <1>1 DEF Member
  <2>2. AskMember(y, conn, n, negated) => Filter(y, conn, mode, 0)
    BY <1>1 DEF AskMember
  <2> HIDE DEF mode
  <2>3. SubOK(y, Asks(asked, Term(conn, mode, NextAtoms(b, 0), <<>>)))
    BY <2>1
  <2>4. Filter(y, conn, mode, 0) => SubKept
    BY <2>3, SubFilter
  <2> QED BY <2>2, <2>4
<1>2. CASE n # 0
  <2>1. Member(b, conn, n, negated) = Term(conn, "all", NextAtoms(b, 1), <<>>)
    BY <1>2 DEF Member
  <2>2. AskMember(y, conn, n, negated) => Filter(y, conn, "all", 1)
    BY <1>2 DEF AskMember
  <2>3. Filter(y, conn, "all", 1) => SubKept
    BY <2>1, SubFilter
  <2> QED BY <2>2, <2>3
<1> QED BY <1>1, <1>2

LEMMA SubWheresKept ==
  ASSUME SubOK(b, asked), CallSubWhere \/ CallSubWhereIn \/ CallSubWhereGroup
  PROVE  SubKept
<1>1. Conns = Conn /\ \A n \in Sizes : n \in Nat
  BY DEF Conns, Conn, Sizes
<1>2. CASE CallSubWhere
  <2>1. PICK c \in Conns, n \in 1 .. 2 : Filter(SubWhere(b, c, n, n), c, "all", n)
    BY <1>2 DEF CallSubWhere
  <2> QED BY <1>1, <2>1, SubWhereOK, SubFilter
<1>3. CASE CallSubWhereIn
  <2> DEFINE no == FALSE
  <2>1. PICK c \in Conns, n \in Sizes : AskMember(SubWhereIn(b, c, n), c, n, no)
    BY <1>3 DEF CallSubWhereIn
  <2>2. SubOK(SubWhereIn(b, c, n), Asks(asked, Member(b, c, n, no)))
    BY <1>1, SubWhereInOK
  <2> HIDE DEF no
  <2> QED BY <2>1, <2>2, SubMember
<1>4. CASE CallSubWhereGroup
  <2>1. PICK c \in Conns, second \in Conns : Filter(SubWithGroup(b, c, second), c, IF second = "OR" THEN "any" ELSE "all", 2)
    BY <1>4 DEF CallSubWhereGroup
  <2> DEFINE mode == IF second = "OR" THEN "any" ELSE "all"
             y == SubWithGroup(b, c, second)
  <2>2. SubOK(y, Asks(asked, Term(c, mode, NextAtoms(b, 2), <<>>)))
    BY <1>1, SubGroupOK
  <2>3. Filter(y, c, mode, 2)
    BY <2>1
  <2> HIDE DEF y, mode
  <2> QED BY <2>2, <2>3, SubFilter
<1> QED BY <1>2, <1>3, <1>4

LEMMA SubTailOK ==
  ASSUME NEW x, NEW a, SubOK(x, a), NEW t, ~Loud(t)
  PROVE  SubOK([x EXCEPT !.tail = Append(x.tail, t)], a)
<1> DEFINE new == Append(x.tail, t)
           y == [x EXCEPT !.tail = new]
<1>1. Typed(new) /\ Quiet(new)
  <2>1. Typed(x.tail) /\ Quiet(x.tail)
    BY DEF SubOK
  <2>2. Typed(new) /\ ReadsAs(new, x.tail)
    BY <2>1, QuietCall
  <2> HIDE DEF new
  <2> QED BY <2>1, <2>2 DEF ReadsAs
<1> HIDE DEF new
<1>2. DOMAIN y = SubFields /\ y.tail = new /\ y.terms = x.terms /\ y.base = x.base /\ y.atoms = x.atoms
  BY DEF SubOK, SubFields
<1> HIDE DEF y
<1>3. SubOK(y, a)
  BY <1>1, <1>2 DEF SubOK
<1> QED BY <1>3 DEF y, new

LEMMA SubShapesKept ==
  ASSUME SubOK(b, asked), CallSubShape \/ CallSubUnsupported
  PROVE  SubKept
<1>1. ASSUME NEW y, SubOK(y, asked), Shape(y) PROVE SubKept
  BY <1>1 DEF Shape, SubKept
<1>2. CASE Shape(SubOrderBy(b))
  <2>1. PICK t : ~Loud(t) /\ ExtendClause(b.tail, "ORDER_BY") = Append(b.tail, t)
    BY ExtendIs
  <2>2. SubOrderBy(b) = [b EXCEPT !.tail = Append(b.tail, t)]
    BY <2>1 DEF SubOrderBy
  <2>3. SubOK(SubOrderBy(b), asked)
    BY <2>1, <2>2, SubTailOK
  <2> QED BY <1>1, <1>2, <2>3
<1>3. ASSUME NEW kw \in {"LIMIT", "OFFSET"}
      PROVE  SubOK([b EXCEPT !.tail = SetClause(b.tail, kw)], asked)
  <2>1. CASE SetClause(b.tail, kw) = b.tail
    <3> DEFINE y == [b EXCEPT !.tail = b.tail]
    <3>1. DOMAIN y = SubFields /\ y.tail = b.tail /\ y.terms = b.terms /\ y.base = b.base /\ y.atoms = b.atoms
      BY DEF SubOK, SubFields
    <3> HIDE DEF y
    <3>2. SubOK(y, asked)
      BY <3>1 DEF SubOK
    <3> QED BY <2>1, <3>2 DEF y
  <2>2. CASE SetClause(b.tail, kw) # b.tail
    <3>1. PICK t : ~Loud(t) /\ SetClause(b.tail, kw) = Append(b.tail, t)
      BY <2>2, SetIs
    <3> QED BY <3>1, SubTailOK
  <2> QED BY <2>1, <2>2
<1>4. CASE Shape(SubLimit(b)) \/ Shape(SubOffset(b))
  BY <1>1, <1>3, <1>4 DEF SubLimit, SubOffset
<1>5. CASE Shape(SubDistinct(b))
  <2> DEFINE y == SubDistinct(b)
  <2>1. DOMAIN y = SubFields /\ y.tail = b.tail /\ y.terms = b.terms /\ y.base = b.base /\ y.atoms = b.atoms
    BY DEF SubDistinct, SubOK, SubFields
  <2>2. Shape(y)
    BY <1>5
  <2> HIDE DEF y
  <2>3. SubOK(y, asked)
    BY <2>1 DEF SubOK
  <2> QED BY <1>1, <2>2, <2>3
<1> QED BY <1>1, <1>2, <1>4, <1>5 DEF CallSubShape, CallSubUnsupported

LEMMA SubSteps ==
  ASSUME Chain(calls), SubOK(b, asked), SubNext, ~Barred(calls')
  PROVE  SubOK(b', asked') /\ SaysSent(sent', asked')
<1>1. CASE CallSubWhere \/ CallSubWhereIn \/ CallSubWhereGroup \/ CallSubShape \/ CallSubUnsupported
  BY <1>1, SubWheresKept, SubShapesKept DEF SubKept, SaysSent
<1>2. CASE CallSubWhereUnread
  <2>1. calls' = Append(calls, "whereUnread")
    BY <1>2 DEF CallSubWhereUnread, May
  <2> QED BY <2>1, Allowed
<1>3. CASE SendSub
  <2>1. b' = b /\ asked' = asked /\ sent' = <<MakeSub(b)>>
    BY <1>3 DEF SendSub, Send
  <2> DEFINE q == MakeSub(b)
  <2>2. Says(q.text, asked)
    BY SubSays
  <2> HIDE DEF q
  <2>3. <<q>>[1] = q
    OBVIOUS
  <2> QED BY <2>1, <2>2, <2>3 DEF SaysSent, q
<1> QED BY <1>1, <1>2, <1>3 DEF SubNext

LEMMA SubBegins ==
  ASSUME NEW i
  PROVE  SubOK(SubBuilder(i), <<<<>>>>)
<1> DEFINE y == SubBuilder(i)
<1>1. /\ DOMAIN y = SubFields /\ y.tail = <<>> /\ y.terms = <<>> /\ y.atoms = 0
      /\ y.base.kw = "FROM" /\ y.base.of = "FROM"
  BY DEF SubBuilder, SubFields, Token
<1> HIDE DEF y
<1>2. ~Loud(y.base)
  BY <1>1 DEF Loud, SetOperators
<1>3. SubOK(y, <<<<>>>>)
  BY <1>1, <1>2, NothingTyped, AlikeBegins DEF SubOK
<1> QED BY <1>3 DEF y

----------------------------------------------------------------------------
(* The write builders print each condition as it comes, joined with AND.      *)
AndAll(p) == \A i \in DOMAIN p : p[i].conn = "AND"

LEMMA AndGrows ==
  ASSUME NEW P, NEW p \in Seq(P), AndAll(p), NEW q, q.conn = "AND"
  PROVE  /\ AndAll(p \o <<q>>)
         /\ \A true : PrintedHolds(p \o <<q>>, true) <=> (PrintedHolds(p, true) /\ PieceHolds(q, true))
<1> DEFINE n == Len(p)
           more == p \o <<q>>
           R == P \cup {q}
<1>1. p \in Seq(R) /\ q \in R
  OBVIOUS
<1> HIDE DEF R
<1>2. n \in Nat /\ DOMAIN p = 1 .. n /\ (p = <<>> <=> n = 0)
  BY <1>1, SeqShape
<1>3. more \in Seq(R) /\ Len(more) = n + 1 /\ more[n + 1] = q /\ \A i \in 1 .. n : more[i] = p[i]
  BY <1>1
<1>4. DOMAIN more = 1 .. n + 1 /\ n + 1 \in Nat /\ n + 1 # 0
  BY <1>2, <1>3
<1> HIDE DEF more, n
<1>5. more # <<>>
  <2>1. more = <<>> <=> Len(more) = 0
    BY <1>3, SeqShape
  <2> QED BY <1>3, <1>4, <2>1
<1>6. /\ \A i \in 1 .. n + 1 : i = n + 1 \/ i \in 1 .. n
      /\ n + 1 \in 1 .. n + 1 /\ \A i \in 1 .. n : i \in 1 .. n + 1
  BY <1>2
<1>7. \A i \in 1 .. n + 1 : more[i].conn = "AND"
  BY <1>2, <1>3, <1>6 DEF AndAll
<1>8. ASSUME NEW true PROVE PrintedHolds(more, true) <=> (PrintedHolds(p, true) /\ PieceHolds(q, true))
  <2>1. BodyHolds(more, true) <=> \A i \in 1 .. n + 1 : PieceHolds(more[i], true)
    BY <1>3, <1>4, <1>7, AllOfThem
  <2>2. (\A i \in 1 .. n + 1 : PieceHolds(more[i], true)) <=> ((\A i \in 1 .. n : PieceHolds(p[i], true)) /\ PieceHolds(q, true))
    BY <1>3, <1>6
  <2>3. PrintedHolds(p, true) <=> \A i \in 1 .. n : PieceHolds(p[i], true)
    <3>1. CASE n = 0
      <4>1. p = <<>>
        BY <1>2, <3>1
      <4>2. 1 .. n = {}
        BY <3>1
      <4> QED BY <4>1, <4>2 DEF PrintedHolds
    <3>2. CASE n # 0
      <4>1. n = Len(p) /\ \A i \in 1 .. n : p[i].conn = "AND"
        BY <1>2 DEF AndAll, n
      <4>2. BodyHolds(p, true) <=> \A i \in 1 .. n : PieceHolds(p[i], true)
        BY <1>2, <3>2, <4>1, AllOfThem
      <4>3. p # <<>>
        BY <1>2, <3>2
      <4> QED BY <4>2, <4>3 DEF PrintedHolds
    <3> QED BY <3>1, <3>2
  <2> QED BY <1>5, <2>1, <2>2, <2>3 DEF PrintedHolds
<1>9. AndAll(more)
  BY <1>4, <1>7 DEF AndAll
<1> QED BY <1>8, <1>9 DEF more

WriteFields == {"kind", "dialect", "text", "params", "pred", "rows", "built", "atoms"}
Stated(x) == x.built = NoQuery \/ x.built = Len(x.text)
\* The conditions printed so far are the ones asked.
Counts(p, w) == AndAll(p) /\ Agree(p, w) /\ \E T : Calls(T) /\ w \in Seq(T)
Chosen(x, a) ==
  /\ DOMAIN x = WriteFields /\ x.atoms \in Nat /\ Typed(x.text) /\ Stated(x)
  /\ \E p, w : Filters(x.text) = <<p>> /\ a = <<w>> /\ Counts(p, w)

LEMMA CountsOne ==
  ASSUME NEW P, NEW p \in Seq(P), NEW w, Counts(p, w), NEW t, NEW u, Matches(t, u), u.conn = "AND"
  PROVE  Counts(p \o <<Piece(t)>>, Append(w, u))
<1> DEFINE q == Piece(t)
<1>1. q.conn = "AND" /\ \A true : PieceHolds(q, true) <=> TermHolds(t, true)
  BY PieceIs DEF Piece
<1> HIDE DEF q
<1>2. AndAll(p \o <<q>>) /\ \A true : PrintedHolds(p \o <<q>>, true) <=> (PrintedHolds(p, true) /\ PieceHolds(q, true))
  BY <1>1, AndGrows DEF Counts
<1>3. PICK T : Calls(T) /\ w \in Seq(T)
  BY DEF Counts
<1>4. u.conn \in Conn
  BY DEF Matches
<1> DEFINE R == T \cup {u}
<1>5. Calls(R) /\ w \in Seq(R) /\ u \in R /\ Append(w, u) \in Seq(R)
  BY <1>3, <1>4, CallsMore
<1> HIDE DEF R
<1>6. \A true : ChainHolds(Append(w, u), true) <=> (ChainHolds(w, true) /\ TermHolds(u, true))
  BY <1>5, ChainGrows
<1>7. Agree(p \o <<q>>, Append(w, u))
  BY <1>1, <1>2, <1>6 DEF Counts, Agree, Matches
<1> QED BY <1>2, <1>5, <1>7 DEF Counts, q

\* A token that says nothing is put behind the text.
LEMMA ChosenQuiet ==
  ASSUME NEW x, NEW a, Chosen(x, a), NEW t, ~Loud(t), NEW y, DOMAIN y = WriteFields, y.text = Append(x.text, t),
         y.atoms = x.atoms, Stated(y)
  PROVE  Chosen(y, a)
<1>1. Typed(x.text)
  BY DEF Chosen
<1>2. Typed(y.text) /\ Filters(y.text) = Filters(x.text)
  BY <1>1, QuietCall DEF ReadsAs
<1> QED BY <1>2 DEF Chosen

LEMMA ChosenPush ==
  ASSUME NEW x, NEW a, Chosen(x, a), NEW t, NEW u, Matches(t, u), u.conn = "AND", NEW kw \in {"AND", "WHERE"},
         NEW y, DOMAIN y = WriteFields, y.text = Append(x.text, WhereToken(kw, RenderWhereTerms(<<t>>))), y.atoms \in Nat, Stated(y)
  PROVE  Chosen(y, Asks(a, u))
<1> DEFINE token == WhereToken(kw, RenderWhereTerms(<<t>>))
<1>1. PICK p, w : Filters(x.text) = <<p>> /\ a = <<w>> /\ Counts(p, w)
  BY DEF Chosen
<1>2. token.kw = kw /\ token.of = "WHERE" /\ token.body = <<Piece(t)>>
  BY WhereIs, OneTermIs DEF Piece
<1> HIDE DEF token
<1>3. PICK S, P : Prints(S, P) /\ x.text \in Seq(S) /\ token \in S
  BY <1>2, OwnTyped DEF Chosen
<1>4. Filters(Append(x.text, token)) = WithPieces(<<p>>, token) /\ <<p>> \in Bodies(P)
  BY <1>1, <1>3, FiltersGrow
<1>5. p \in Seq(P)
  <2>1. <<p>> \in Seq(Seq(P)) /\ <<p>>[1] = p /\ Len(<<p>>) = 1
    BY <1>4 DEF Bodies
  <2> DEFINE s == <<p>>
             V == Seq(P)
  <2>2. s \in Seq(V) /\ s[1] = p /\ Len(s) = 1
    BY <2>1
  <2> HIDE DEF s, V
  <2>3. s[1] \in V
    <3>1. 1 \in 1 .. Len(s)
      BY <2>2
    <3>2. \A i \in 1 .. Len(s) : s[i] \in V
      BY <2>2, SeqShape
    <3> QED BY <3>1, <3>2
  <2> QED BY <2>2, <2>3 DEF V
<1>6. Filters(Append(x.text, token)) = <<p \o <<Piece(t)>>>>
  <2>1. token.kw \notin SetOperators
    BY <1>2 DEF SetOperators
  <2> DEFINE r == <<Piece(t)>>
  <2>2. token.body = r
    BY <1>2
  <2> HIDE DEF r
  <2>3. WithPieces(<<p>>, token) = [<<p>> EXCEPT ![1] = p \o r]
    BY <1>2, <2>1, <2>2 DEF WithPieces
  <2>4. [<<p>> EXCEPT ![1] = p \o r] = <<p \o r>>
    OBVIOUS
  <2> QED BY <1>4, <2>3, <2>4 DEF r
<1>7. Asks(a, u) = <<Append(w, u)>>
  BY <1>1, AsksOne
<1>8. Counts(p \o <<Piece(t)>>, Append(w, u))
  BY <1>1, <1>5, CountsOne
<1>9. Typed(y.text)
  <2>1. Append(x.text, token) \in Seq(S)
    BY <1>3, AppendProperties
  <2> QED BY <1>3, <2>1 DEF Typed, token
<1>10. Filters(y.text) = <<p \o <<Piece(t)>>>>
  BY <1>6 DEF token
<1> QED BY <1>7, <1>8, <1>9, <1>10 DEF Chosen

LEMMA ChosenSays ==
  ASSUME NEW x, NEW a, Chosen(x, a)
  PROVE  /\ Says(x.text, a)
         /\ \A t : ~Loud(t) => Says(Append(x.text, t), a)
         /\ x.built = Len(x.text) => SubSeq(x.text, 1, x.built) = x.text
<1>1. PICK p, w : Filters(x.text) = <<p>> /\ a = <<w>> /\ Counts(p, w)
  BY DEF Chosen
<1>2. Means(<<p>>, <<w>>)
  BY <1>1, OneMeans DEF Counts
<1>3. Typed(x.text)
  BY DEF Chosen
<1>4. Says(x.text, a)
  BY <1>1, <1>2, <1>3 DEF Says
<1>5. ASSUME NEW t, ~Loud(t) PROVE Says(Append(x.text, t), a)
  <2>1. Typed(Append(x.text, t)) /\ Filters(Append(x.text, t)) = Filters(x.text)
    BY <1>3, <1>5, QuietCall DEF ReadsAs
  <2> QED BY <1>4, <2>1 DEF Says
<1>6. x.built = Len(x.text) => SubSeq(x.text, 1, x.built) = x.text
  <2>1. PICK S : x.text \in Seq(S)
    BY <1>3 DEF Typed
  <2>2. SubSeq(x.text, 1, Len(x.text)) = x.text
    BY <2>1, Beginnings
  <2> QED BY <2>2
<1> QED BY <1>4, <1>5, <1>6

\* A list of k values as the caller means it.
Listed(x, conn, k) ==
  IF k = 0 THEN Term(conn, "any", NextAtoms(x, 0), <<>>) ELSE Term(conn, "all", NextAtoms(x, 1), <<>>)

LEMMA ListMatches ==
  ASSUME NEW x, x.atoms \in Nat, NEW conn \in Conn, NEW k \in Nat, NEW ph
  PROVE  /\ Matches(Term(conn, IF k = 0 THEN "broken" ELSE "all", NextAtoms(x, 1), ph), Listed(x, conn, k))
         /\ Listed(x, conn, k).conn = conn
<1> DEFINE t == Term(conn, IF k = 0 THEN "broken" ELSE "all", NextAtoms(x, 1), ph)
           u == Listed(x, conn, k)
<1>1. CASE k # 0
  <2>1. t = Term(conn, "all", NextAtoms(x, 1), ph) /\ u = Term(conn, "all", NextAtoms(x, 1), <<>>)
    BY <1>1 DEF Listed
  <2>2. Term(conn, "all", NextAtoms(x, 1), <<>>).conn = conn
    BY DEF Term
  <2> HIDE DEF t, u
  <2>3. Matches(t, u) /\ u.conn = conn
    BY <2>1, <2>2, SameCondition
  <2> QED BY <2>3 DEF t, u
<1>2. CASE k = 0
  <2>1. NextAtoms(x, 0) = {}
    BY NextAtomsAre
  <2>2. u = Term(conn, "any", {}, <<>>) /\ t = Term(conn, "broken", NextAtoms(x, 1), ph)
    BY <1>2, <2>1 DEF Listed
  <2> HIDE DEF t, u
  <2>3. /\ t.conn = conn /\ u.conn = conn /\ t.mode = "broken" /\ u.mode = "any" /\ u.atoms = {}
    BY <2>2 DEF Term
  <2>4. \A true : ~TermHolds(t, true) /\ ~TermHolds(u, true)
    BY <2>3 DEF TermHolds
  <2>5. Matches(t, u) /\ u.conn = conn
    BY <2>3, <2>4 DEF Matches
  <2> QED BY <2>5 DEF t, u
<1> QED BY <1>1, <1>2

LEMMA PrintedPredicate ==
  ASSUME NEW x, DOMAIN x = WriteFields, NEW mode, NEW n, NEW k
  PROVE  LET y == AppendPredicate(x, mode, n, k)
             t == Term("AND", mode, NextAtoms(x, n), GetPlaceholders(x, k))
         IN  /\ DOMAIN y = WriteFields /\ y.atoms = x.atoms + n
             /\ \E kw \in {"AND", "WHERE"} : y.text = Append(x.text, WhereToken(kw, RenderWhereTerms(<<t>>)))
<1> DEFINE y == AppendPredicate(x, mode, n, k)
           t == Term("AND", mode, NextAtoms(x, n), GetPlaceholders(x, k))
           kw == IF x.pred THEN "AND" ELSE "WHERE"
           token == WhereToken(kw, RenderWhereTerms(<<t>>))
<1>1. y = [x EXCEPT !.text = Append(@, token), !.pred = TRUE, !.params = @ + k, !.atoms = @ + n]
  BY DEF AppendPredicate
<1>2. kw \in {"AND", "WHERE"}
  OBVIOUS
<1> HIDE DEF kw
<1>3. \E w \in {"AND", "WHERE"} : token = WhereToken(w, RenderWhereTerms(<<t>>))
  BY <1>2
<1> HIDE DEF token, t
<1>4. DOMAIN y = WriteFields /\ y.atoms = x.atoms + n /\ y.text = Append(x.text, token)
  BY <1>1 DEF WriteFields
<1> HIDE DEF y
<1> QED BY <1>3, <1>4 DEF y, t

LEMMA Given ==
  ASSUME NEW x, NEW a, Chosen(x, a), NEW mode, NEW n \in Nat, NEW k,
         NEW u, Matches(Term("AND", mode, NextAtoms(x, n), GetPlaceholders(x, k)), u), u.conn = "AND"
  PROVE  LET y == AppendPredicate(x, mode, n, k)
             z == Rebuilt(y)
             f == [y EXCEPT !.built = NoQuery]
         IN  /\ Chosen(z, Asks(a, u)) /\ z.built = Len(z.text)
             /\ Chosen(f, Asks(a, u))
<1> DEFINE y == AppendPredicate(x, mode, n, k)
           t == Term("AND", mode, NextAtoms(x, n), GetPlaceholders(x, k))
           z == Rebuilt(y)
           f == [y EXCEPT !.built = NoQuery]
<1>1. DOMAIN x = WriteFields /\ x.atoms \in Nat
  BY DEF Chosen
<1>2. DOMAIN y = WriteFields /\ y.atoms = x.atoms + n
  BY <1>1, PrintedPredicate
<1>3. PICK kw \in {"AND", "WHERE"} : y.text = Append(x.text, WhereToken(kw, RenderWhereTerms(<<t>>)))
  BY <1>1, PrintedPredicate
<1> HIDE DEF y, t
<1>4. /\ DOMAIN z = WriteFields /\ z.atoms = y.atoms /\ z.text = y.text /\ z.built = Len(y.text)
      /\ DOMAIN f = WriteFields /\ f.atoms = y.atoms /\ f.text = y.text /\ f.built = NoQuery
  BY <1>2 DEF Rebuilt, WriteFields
<1>5. x.atoms + n \in Nat
  BY <1>1
<1>6. Matches(t, u)
  BY DEF t
<1>7. Stated(z) /\ Stated(f)
  BY <1>4 DEF Stated
<1> HIDE DEF z, f
<1>8. Chosen(z, Asks(a, u))
  BY <1>2, <1>3, <1>4, <1>5, <1>6, <1>7, ChosenPush
<1>9. Chosen(f, Asks(a, u))
  BY <1>2, <1>3, <1>4, <1>5, <1>6, <1>7, ChosenPush
<1> QED BY <1>4, <1>8, <1>9 DEF z, f, y

InsertOK(x, a) == Chosen(x, a) /\ a = <<<<>>>> /\ (x.rows # <<>> => x.built = Len(x.text))
UpdateOK(x, a) == Chosen(x, a) /\ (x.text # <<>> => x.built = Len(x.text))

LEMMA NothingCounts == Counts(<<>>, <<>>)
<1>1. AndAll(<<>>) /\ Calls({}) /\ <<>> \in Seq({})
  BY DEF AndAll, Calls
<1> QED BY <1>1, NothingAgrees DEF Counts

LEMMA OneQuietToken ==
  ASSUME NEW t, ~Loud(t)
  PROVE  Typed(<<t>>) /\ Filters(<<t>>) = <<<<>>>>
<1> DEFINE s == Append(<<>>, t)
<1>1. s = <<t>>
  OBVIOUS
<1>2. Typed(s) /\ Filters(s) = <<<<>>>>
  BY NothingTyped, QuietCall, FiltersBegin DEF ReadsAs
<1> HIDE DEF s
<1> QED BY <1>1, <1>2

LEMMA WriteBegins ==
  ASSUME NEW k, NEW d
  PROVE  InsertOK(WriteBuilder(k, d), <<<<>>>>) /\ UpdateOK(WriteBuilder(k, d), <<<<>>>>)
<1> DEFINE y == WriteBuilder(k, d)
<1>1. DOMAIN y = WriteFields /\ y.atoms = 0 /\ y.text = <<>> /\ y.built = NoQuery /\ y.rows = <<>>
  BY DEF WriteBuilder, WriteFields
<1> HIDE DEF y
<1>2. Filters(y.text) = <<<<>>>> /\ Typed(y.text) /\ Stated(y)
  BY <1>1, FiltersBegin, NothingTyped DEF Stated
<1>3. Chosen(y, <<<<>>>>)
  BY <1>1, <1>2, NothingCounts DEF Chosen
<1> QED BY <1>1, <1>3 DEF InsertOK, UpdateOK, y

LEMMA ValuesOK ==
  ASSUME NEW x, NEW a, InsertOK(x, a), NEW rows
  PROVE  InsertOK(Values(x, rows), a)
<1> DEFINE y == Values(x, rows)
<1>1. DOMAIN x = WriteFields /\ x.atoms \in Nat /\ a = <<<<>>>>
  BY DEF InsertOK, Chosen
<1>2. CASE rows = <<>>
  <2>1. DOMAIN y = WriteFields /\ y.atoms = x.atoms /\ y.text = <<>> /\ y.built = NoQuery /\ y.rows = <<>>
    BY <1>1, <1>2 DEF Values, WriteFields
  <2> HIDE DEF y
  <2>2. Filters(y.text) = <<<<>>>> /\ Typed(y.text) /\ Stated(y)
    BY <2>1, FiltersBegin, NothingTyped DEF Stated
  <2>3. InsertOK(y, a)
    BY <1>1, <2>1, <2>2, NothingCounts DEF InsertOK, Chosen
  <2> QED BY <2>3 DEF y
<1>3. CASE rows # <<>>
  <2> DEFINE k == Len(rows) * Cardinality(rows[1])
             t == [Token("VALUES") EXCEPT !.inner = rows[1], !.ph = GetPlaceholders([x EXCEPT !.params = 0], k)]
             z == [x EXCEPT !.rows = rows, !.text = <<t>>, !.params = k]
  <2>1. y = Rebuilt(z)
    BY <1>3 DEF Values
  <2>2. t.kw = "VALUES" /\ t.of = "VALUES"
    BY DEF Token
  <2> HIDE DEF t, k, y
  <2>3. ~Loud(t)
    BY <2>2 DEF Loud, SetOperators
  <2>4. DOMAIN z = WriteFields /\ z.atoms = x.atoms /\ z.text = <<t>> /\ z.rows = rows
    BY <1>1 DEF WriteFields
  <2> HIDE DEF z
  <2>5. DOMAIN y = WriteFields /\ y.atoms = x.atoms /\ y.text = <<t>> /\ y.rows = rows /\ y.built = Len(y.text)
    BY <2>1, <2>4 DEF Rebuilt, WriteFields
  <2>6. Filters(y.text) = <<<<>>>> /\ Typed(y.text) /\ Stated(y)
    BY <2>3, <2>5, OneQuietToken DEF Stated
  <2>7. InsertOK(y, a)
    BY <1>1, <2>5, <2>6, NothingCounts DEF InsertOK, Chosen
  <2> QED BY <2>7 DEF y
<1> QED BY <1>2, <1>3

LEMMA SetOK ==
  ASSUME NEW x, NEW a, UpdateOK(x, a), NEW k, NEW words
  PROVE  UpdateOK(Set(x, k, words), a)
<1> DEFINE t == [Token("SET") EXCEPT !.ph = GetPlaceholders(x, k), !.inner = words]
           z == [x EXCEPT !.text = Append(@, t), !.params = @ + k]
           y == Set(x, k, words)
<1>1. DOMAIN x = WriteFields /\ Chosen(x, a)
  BY DEF UpdateOK, Chosen
<1>2. y = Rebuilt(z)
  BY DEF Set
<1>3. t.kw = "SET" /\ t.of = "SET"
  BY DEF Token
<1> HIDE DEF t, y
<1>4. ~Loud(t)
  BY <1>3 DEF Loud, SetOperators
<1>5. DOMAIN z = WriteFields /\ z.atoms = x.atoms /\ z.text = Append(x.text, t)
  BY <1>1 DEF WriteFields
<1> HIDE DEF z
<1>6. DOMAIN y = WriteFields /\ y.atoms = x.atoms /\ y.text = Append(x.text, t) /\ y.built = Len(y.text)
  BY <1>2, <1>5 DEF Rebuilt, WriteFields
<1>7. Stated(y)
  BY <1>6 DEF Stated
<1>8. Chosen(y, a)
  BY <1>1, <1>4, <1>6, <1>7, ChosenQuiet
<1> QED BY <1>6, <1>8 DEF UpdateOK, y

LEMMA OneSent == \A q : <<q>>[1] = q
OBVIOUS

LEMMA PlainReturning == ~Loud(Token("RETURNING"))
BY PlainTokens DEF SetOperators

LEMMA WrittenSays ==
  ASSUME NEW x, NEW a, Chosen(x, a), x.built = Len(x.text)
  PROVE  /\ Says(Written(x, SubSeq(x.text, 1, x.built)).text, a)
         /\ Says(Written(x, Append(x.text, Token("RETURNING"))).text, a)
<1>1. \A text : Written(x, text).text = text
  BY DEF Written
<1> QED BY <1>1, ChosenSays, PlainReturning

LEMMA InsertSteps ==
  ASSUME InsertOK(b, asked), CallValues \/ SendInsert
  PROVE  InsertOK(b', asked') /\ SaysSent(sent', asked')
<1>1. CASE CallValues
  <2>1. PICK rows : Shape(Values(b, rows))
    BY <1>1 DEF CallValues
  <2>2. InsertOK(Values(b, rows), asked)
    BY ValuesOK
  <2> QED BY <2>1, <2>2 DEF Shape, SaysSent
<1>2. CASE SendInsert
  <2>1. b.rows # <<>> /\ (Send(b, InsertExecute(b)) \/ Send(b, InsertReturning(b)))
    BY <1>2 DEF SendInsert
  <2>2. Chosen(b, asked) /\ b.built = Len(b.text)
    BY <2>1 DEF InsertOK
  <2>3. Says(InsertExecute(b).text, asked) /\ Says(InsertReturning(b).text, asked)
    BY <2>2, WrittenSays DEF InsertExecute, InsertReturning
  <2> QED BY <2>1, <2>3, OneSent DEF Send, SaysSent
<1> QED BY <1>1, <1>2

LEMMA AllMatches ==
  ASSUME NEW n
  PROVE  LET u == Term("AND", "all", NextAtoms(b, n), <<>>)
         IN  u.conn = "AND" /\ \A k : Matches(Term("AND", "all", NextAtoms(b, n), GetPlaceholders(b, k)), u)
<1>1. "AND" \in Conn
  BY DEF Conn
<1>2. \A k : Matches(Term("AND", "all", NextAtoms(b, n), GetPlaceholders(b, k)), Term("AND", "all", NextAtoms(b, n), <<>>))
  BY <1>1, SameCondition
<1>3. Term("AND", "all", NextAtoms(b, n), <<>>).conn = "AND"
  BY DEF Term
<1> QED BY <1>2, <1>3

\* What a predicate of a write leaves, asked as it was meant.
LEMMA GivenAll ==
  ASSUME NEW a, Chosen(b, a), NEW n \in Nat, NEW k
  PROVE  LET y == AppendPredicate(b, "all", n, k)
             u == Term("AND", "all", NextAtoms(b, n), <<>>)
         IN  UpdateOK(Rebuilt(y), Asks(a, u)) /\ Chosen([y EXCEPT !.built = NoQuery], Asks(a, u))
<1> DEFINE y == AppendPredicate(b, "all", n, k)
           u == Term("AND", "all", NextAtoms(b, n), <<>>)
<1>1. Matches(Term("AND", "all", NextAtoms(b, n), GetPlaceholders(b, k)), u) /\ u.conn = "AND"
  BY AllMatches
<1> HIDE DEF u
<1>2. Chosen(Rebuilt(y), Asks(a, u)) /\ Rebuilt(y).built = Len(Rebuilt(y).text) /\ Chosen([y EXCEPT !.built = NoQuery], Asks(a, u))
  BY <1>1, Given
<1>3. UpdateOK(Rebuilt(y), Asks(a, u))
  BY <1>2 DEF UpdateOK
<1> QED BY <1>2, <1>3 DEF y, u

LEMMA GivenList ==
  ASSUME NEW a, Chosen(b, a), NEW k \in Nat
  PROVE  LET y == AppendPredicate(b, IF k = 0 THEN "broken" ELSE "all", 1, k)
             u == Listed(b, "AND", k)
         IN  UpdateOK(Rebuilt(y), Asks(a, u)) /\ Chosen([y EXCEPT !.built = NoQuery], Asks(a, u))
<1>1. b.atoms \in Nat /\ "AND" \in Conn
  BY DEF Chosen, Conn
<1> DEFINE mode == IF k = 0 THEN "broken" ELSE "all"
           u == Listed(b, "AND", k)
           y == AppendPredicate(b, mode, 1, k)
<1>2. Matches(Term("AND", mode, NextAtoms(b, 1), GetPlaceholders(b, k)), u) /\ u.conn = "AND"
  BY <1>1, ListMatches
<1> HIDE DEF mode, u
<1>3. Chosen(Rebuilt(y), Asks(a, u)) /\ Rebuilt(y).built = Len(Rebuilt(y).text) /\ Chosen([y EXCEPT !.built = NoQuery], Asks(a, u))
  BY <1>2, Given
<1>4. UpdateOK(Rebuilt(y), Asks(a, u))
  BY <1>3 DEF UpdateOK
<1> QED BY <1>3, <1>4 DEF y, u, mode

\* The two ways a condition is asked.
LEMMA FilterAsks ==
  /\ \A y, n : Filter(y, "AND", "all", n) =>
       b' = y /\ asked' = Asks(asked, Term("AND", "all", NextAtoms(b, n), <<>>)) /\ SaysSent(sent', asked')
  /\ \A y, k, no : (no = FALSE /\ AskMember(y, "AND", k, no)) =>
       b' = y /\ asked' = Asks(asked, Listed(b, "AND", k)) /\ SaysSent(sent', asked')
<1>1. ASSUME NEW y, NEW mode, NEW n, Filter(y, "AND", mode, n)
      PROVE  b' = y /\ asked' = Asks(asked, Term("AND", mode, NextAtoms(b, n), <<>>)) /\ SaysSent(sent', asked')
  BY <1>1 DEF Filter, Ask, Asks, SaysSent
<1>2. ASSUME NEW y, NEW k, NEW no, no = FALSE, AskMember(y, "AND", k, no)
      PROVE  b' = y /\ asked' = Asks(asked, Listed(b, "AND", k)) /\ SaysSent(sent', asked')
  <2>1. CASE k = 0
    <3>1. Filter(y, "AND", "any", 0) /\ Listed(b, "AND", k) = Term("AND", "any", NextAtoms(b, 0), <<>>)
      BY <1>2, <2>1 DEF AskMember, Listed
    <3> QED BY <1>1, <3>1
  <2>2. CASE k # 0
    <3>1. Filter(y, "AND", "all", 1) /\ Listed(b, "AND", k) = Term("AND", "all", NextAtoms(b, 1), <<>>)
      BY <1>2, <2>2 DEF AskMember, Listed
    <3> QED BY <1>1, <3>1
  <2> QED BY <2>1, <2>2
<1> QED BY <1>1, <1>2

LEMMA UpdateSteps ==
  ASSUME UpdateOK(b, asked), CallSet \/ CallUpdateWhere \/ SendUpdate
  PROVE  UpdateOK(b', asked') /\ SaysSent(sent', asked')
<1>0. Chosen(b, asked)
  BY DEF UpdateOK
<1>1. CASE CallSet
  <2>1. PICK k, words : Shape(Set(b, k, words))
    BY <1>1 DEF CallSet
  <2>2. UpdateOK(Set(b, k, words), asked)
    BY SetOK
  <2> QED BY <2>1, <2>2 DEF Shape, SaysSent
<1>2. CASE CallUpdateWhere
  <2> DEFINE no == FALSE
  <2>1. \/ \E n \in 1 .. 2 : Filter(UpdateWhere(b, n, n), "AND", "all", n)
        \/ \E n \in Sizes : AskMember(UpdateWhereIn(b, n), "AND", n, no)
        \/ Filter(UpdateWhereNull(b), "AND", "all", 1)
    BY <1>2 DEF CallUpdateWhere
  <2>2. no = FALSE
    OBVIOUS
  <2> HIDE DEF no
  <2>3. ASSUME NEW n \in 1 .. 2, Filter(UpdateWhere(b, n, n), "AND", "all", n) PROVE UpdateOK(b', asked') /\ SaysSent(sent', asked')
    <3>1. n \in Nat
      OBVIOUS
    <3>2. UpdateOK(UpdateWhere(b, n, n), Asks(asked, Term("AND", "all", NextAtoms(b, n), <<>>)))
      BY <1>0, <3>1, GivenAll DEF UpdateWhere
    <3> QED BY <2>3, <3>2, FilterAsks
  <2>4. ASSUME NEW n \in Sizes, AskMember(UpdateWhereIn(b, n), "AND", n, no) PROVE UpdateOK(b', asked') /\ SaysSent(sent', asked')
    <3>1. n \in Nat
      BY DEF Sizes
    <3>2. UpdateOK(UpdateWhereIn(b, n), Asks(asked, Listed(b, "AND", n)))
      BY <1>0, <2>2, <3>1, GivenList DEF UpdateWhereIn
    <3> QED BY <2>2, <2>4, <3>2, FilterAsks
  <2>5. ASSUME Filter(UpdateWhereNull(b), "AND", "all", 1) PROVE UpdateOK(b', asked') /\ SaysSent(sent', asked')
    <3>1. UpdateOK(UpdateWhereNull(b), Asks(asked, Term("AND", "all", NextAtoms(b, 1), <<>>)))
      BY <1>0, GivenAll DEF UpdateWhereNull
    <3> QED BY <2>5, <3>1, FilterAsks
  <2> QED BY <2>1, <2>3, <2>4, <2>5
<1>3. CASE SendUpdate
  <2>1. b.text # <<>> /\ (Send(b, UpdateExecute(b)) \/ Send(b, UpdateReturning(b)))
    BY <1>3 DEF SendUpdate
  <2>2. b.built = Len(b.text)
    BY <2>1 DEF UpdateOK
  <2>3. Says(UpdateExecute(b).text, asked) /\ Says(UpdateReturning(b).text, asked)
    BY <1>0, <2>2, WrittenSays DEF UpdateExecute, UpdateReturning
  <2> QED BY <2>1, <2>3, OneSent DEF Send, SaysSent
<1> QED BY <1>1, <1>2, <1>3

LEMMA DeleteSteps ==
  ASSUME Chosen(b, asked), CallDeleteWhere \/ SendDelete
  PROVE  Chosen(b', asked') /\ SaysSent(sent', asked')
<1>1. CASE CallDeleteWhere
  <2> DEFINE no == FALSE
  <2>1. \/ \E n \in 1 .. 2 : Filter(DeleteWhere(b, n, n), "AND", "all", n)
        \/ \E n \in Sizes : AskMember(DeleteWhereIn(b, n), "AND", n, no)
        \/ Filter(DeleteWhereNull(b), "AND", "all", 1)
    BY <1>1 DEF CallDeleteWhere
  <2>2. no = FALSE
    OBVIOUS
  <2> HIDE DEF no
  <2>3. ASSUME NEW n \in 1 .. 2, Filter(DeleteWhere(b, n, n), "AND", "all", n) PROVE Chosen(b', asked') /\ SaysSent(sent', asked')
    <3>1. Chosen(DeleteWhere(b, n, n), Asks(asked, Term("AND", "all", NextAtoms(b, n), <<>>)))
      BY GivenAll DEF DeleteWhere
    <3> QED BY <2>3, <3>1, FilterAsks
  <2>4. ASSUME NEW n \in Sizes, AskMember(DeleteWhereIn(b, n), "AND", n, no) PROVE Chosen(b', asked') /\ SaysSent(sent', asked')
    <3>1. n \in Nat
      BY DEF Sizes
    <3>2. Chosen(DeleteWhereIn(b, n), Asks(asked, Listed(b, "AND", n)))
      BY <2>2, <3>1, GivenList DEF DeleteWhereIn
    <3> QED BY <2>2, <2>4, <3>2, FilterAsks
  <2>5. ASSUME Filter(DeleteWhereNull(b), "AND", "all", 1) PROVE Chosen(b', asked') /\ SaysSent(sent', asked')
    <3>1. Chosen(DeleteWhereNull(b), Asks(asked, Term("AND", "all", NextAtoms(b, 1), <<>>)))
      BY GivenAll DEF DeleteWhereNull
    <3> QED BY <2>5, <3>1, FilterAsks
  <2> QED BY <2>1, <2>3, <2>4, <2>5
<1>2. CASE SendDelete
  <2> DEFINE d == EnsureDelBuilt(b)
  <2>1. Chosen(d, asked) /\ d.built = Len(d.text)
    <3>1. CASE b.built = NoQuery
      <4>1. d = Rebuilt(b)
        BY <3>1 DEF EnsureDelBuilt
      <4> HIDE DEF d
      <4>2. DOMAIN d = WriteFields /\ d.text = b.text /\ d.atoms = b.atoms /\ d.built = Len(d.text)
        BY <4>1 DEF Rebuilt, Chosen, WriteFields
      <4> QED BY <4>2 DEF Chosen, Stated
    <3>2. CASE b.built # NoQuery
      BY <3>2 DEF EnsureDelBuilt, Chosen, Stated
    <3> QED BY <3>1, <3>2
  <2>2. DeleteExecute(b) = Written(d, SubSeq(d.text, 1, d.built))
    BY DEF DeleteExecute
  <2>3. Says(DeleteExecute(b).text, asked)
    <3> HIDE DEF d
    <3> QED BY <2>1, <2>2, WrittenSays
  <2>4. Says(DeleteReturning(b).text, asked)
    BY ChosenSays, PlainReturning DEF DeleteReturning, Written
  <2>5. Send(d, DeleteExecute(b)) \/ Send(b, DeleteReturning(b))
    BY <1>2 DEF SendDelete
  <2> HIDE DEF d
  <2> QED BY <2>1, <2>3, <2>4, <2>5, OneSent DEF Send, SaysSent
<1> QED BY <1>1, <1>2

----------------------------------------------------------------------------
(* The invariant, by kind of builder.                                         *)
BuilderOK ==
  /\ kind = "select" => SelectOK(b, asked, calls, soft)
  /\ kind = "sub" => SubOK(b, asked)
  /\ kind = "insert" => InsertOK(b, asked)
  /\ kind = "update" => UpdateOK(b, asked)
  /\ kind = "delete" => Chosen(b, asked)
FilterInv == Chain(calls) /\ (~Barred(calls) => BuilderOK /\ SaysSent(sent, asked))

LEMMA SelectBegins ==
  ASSUME NEW d, NEW on
  PROVE  SelectOK(MakeSelect(d), <<<<>>>>, <<>>, on)
<1> DEFINE x == MakeSelect(d)
           a == <<<<>>>>
<1>1. /\ DOMAIN x = Fields /\ x.text = <<>> /\ x.terms = <<>> /\ x.tail = FALSE /\ x.built = Unbuilt /\ x.pivots = {}
      /\ x.trashed = "default" /\ x.deletedAt = FALSE /\ x.atoms = 0
  BY DEF MakeSelect, Fields
<1> HIDE DEF x
<1>2. IsFiniteSet({})
  BY FS_EmptySet
<1>3. Shaped(x)
  <2>1. IsFiniteSet(x.pivots)
    BY <1>1, <1>2
  <2>2. x.deletedAt \in BOOLEAN
    BY <1>1, Zenon
  <2>3. Typed(x.text)
    BY <1>1, NothingTyped
  <2> QED BY <1>1, <2>1, <2>2, <2>3 DEF Shaped
<1>4. Open(x, a)
  BY <1>1, NothingTyped, AlikeBegins DEF Open
<1>5. Faithful(x, a)
  BY <1>1, <1>3, <1>4 DEF Faithful, Sound, Remembers
<1>6. DOMAIN <<>> = {}
  OBVIOUS
<1>7. NoLater(x.text) /\ \A names : ~Said(<<>>, names)
  BY <1>1, <1>6 DEF NoLater, Said
<1> HIDE DEF a
<1>8. SelectOK(x, a, <<>>, on)
  BY <1>1, <1>5, <1>7 DEF SelectOK, Unfiltered
<1> QED BY <1>8 DEF x, a

LEMMA FilterInit ==
  ASSUME Init
  PROVE  FilterInv
<1>1. Chain(calls) /\ SaysSent(sent, asked) /\ asked = <<<<>>>> /\ calls = <<>>
  <2>1. <<>> \in Seq({})
    OBVIOUS
  <2> QED BY <2>1 DEF Init, Chain, SaysSent
<1>2. PICK d \in Dialects :
        \/ kind = "select" /\ b = MakeSelect(d)
        \/ kind = "sub" /\ \E i \in Inner(d) : b = SubBuilder(i)
        \/ kind \notin {"select", "sub"} /\ b = WriteBuilder(kind, d)
  BY DEF Init
<1>3. CASE kind = "select"
  <2>1. b = MakeSelect(d)
    BY <1>2, <1>3
  <2> QED BY <1>1, <1>3, <2>1, SelectBegins DEF FilterInv, BuilderOK
<1>4. CASE kind = "sub"
  <2>1. \E i \in Inner(d) : b = SubBuilder(i)
    BY <1>2, <1>4
  <2> QED BY <1>1, <1>4, <2>1, SubBegins DEF FilterInv, BuilderOK
<1>5. CASE kind \notin {"select", "sub"}
  <2>1. b = WriteBuilder(kind, d)
    BY <1>2, <1>5
  <2>2. InsertOK(b, asked) /\ UpdateOK(b, asked)
    BY <1>1, <2>1, WriteBegins
  <2> QED BY <1>1, <1>5, <2>2 DEF FilterInv, BuilderOK, UpdateOK
<1> QED BY <1>3, <1>4, <1>5

\* Which builder a call is made on, and that a bar once raised stays.
LEMMA OneKind ==
  ASSUME Next, ~UNCHANGED vars
  PROVE  /\ \E name : calls' = Append(calls, name)
         /\ kind' = kind
         /\ \/ kind = "select" /\ SelectNext
            \/ kind = "sub" /\ SubNext
            \/ kind = "insert" /\ (CallValues \/ SendInsert)
            \/ kind = "update" /\ (CallSet \/ CallUpdateWhere \/ SendUpdate \/ SendUpdateFound)
            \/ kind = "delete" /\ (CallDeleteWhere \/ SendDelete)
<1> DEFINE Made(k) == kind = k /\ kind' = kind /\ \E name : calls' = Append(calls, name)
<1>1. \A k, name : May(k, name) => Made(k)
  BY DEF May
<1> HIDE DEF Made
<1>2. CASE SelectNext
  <2>1. SelectNext => Made("select")
    BY <1>1 DEF SelectNext, CallWhere, CallBooleanWhere, CallWhereNull, CallWhereValue, CallWhereColumns, CallWhereIn,
      CallDynamicWhere, CallWhereSubquery, CallWhereGroup, CallColumns, CallSelect, CallWindow, CallGroupBy, CallHaving,
      CallHavingRaw, CallOrderBy, CallReorder, CallLimit, CallOffset, CallForPage, CallLock, CallCTE, CallJoin, CallJoinSub,
      CallSetOp, CallWithTrashed, CallOnlyTrashed, CallWith, CallWithPivot, CallWithCount, CallWhereHas, CallWherePivot,
      SendMemo, SendOneRow, SendPage, SendKey, SendAggregate, SendText, SendGet
  <2> QED BY <1>2, <2>1 DEF Made
<1>3. CASE SubNext
  <2>1. SubNext => Made("sub")
    BY <1>1 DEF SubNext, CallSubWhere, CallSubWhereIn, CallSubWhereUnread, CallSubWhereGroup, CallSubShape,
      CallSubUnsupported, SendSub
  <2> QED BY <1>3, <2>1 DEF Made
<1>4. CASE CallValues \/ SendInsert
  <2>1. CallValues \/ SendInsert => Made("insert")
    BY <1>1 DEF CallValues, SendInsert
  <2> QED BY <1>4, <2>1 DEF Made
<1>5. CASE CallSet \/ CallUpdateWhere \/ SendUpdate \/ SendUpdateFound
  <2>1. CallSet \/ CallUpdateWhere \/ SendUpdate \/ SendUpdateFound => Made("update")
    BY <1>1 DEF CallSet, CallUpdateWhere, SendUpdate, SendUpdateFound
  <2> QED BY <1>5, <2>1 DEF Made
<1>6. CASE CallDeleteWhere \/ SendDelete
  <2>1. CallDeleteWhere \/ SendDelete => Made("delete")
    BY <1>1 DEF CallDeleteWhere, SendDelete
  <2> QED BY <1>6, <2>1 DEF Made
<1> QED BY <1>2, <1>3, <1>4, <1>5, <1>6 DEF Next, WriteNext, Done

LEMMA FilterNext ==
  ASSUME FilterInv, [Next]_vars
  PROVE  FilterInv'
<1>1. CASE UNCHANGED vars
  BY <1>1 DEF vars, FilterInv, BuilderOK, SelectOK, SubOK, InsertOK, UpdateOK, Chosen, SaysSent
<1>2. CASE Next /\ ~UNCHANGED vars
  <2>1. PICK name : calls' = Append(calls, name)
    BY <1>2, OneKind
  <2>2. Chain(calls) /\ Chain(Append(calls, name))
    BY SaidMore DEF FilterInv
  <2>3. CASE Barred(calls')
    BY <2>1, <2>2, <2>3 DEF FilterInv
  <2>4. CASE ~Barred(calls')
    <3>1. ~Barred(Append(calls, name))
      BY <2>1, <2>4
    <3>2. ~Barred(calls) /\ name # "found"
      BY <2>2, <3>1, Allowed
    <3>3. BuilderOK
      BY <3>2 DEF FilterInv
    <3>4. kind' = kind
      BY <1>2, OneKind
    <3> SUFFICES BuilderOK' /\ SaysSent(sent', asked')
      BY <2>1, <2>2 DEF FilterInv
    <3>5. CASE kind = "select" /\ SelectNext
      BY <2>2, <2>4, <3>3, <3>4, <3>5, SelectSteps DEF BuilderOK
    <3>6. CASE kind = "sub" /\ SubNext
      BY <2>2, <2>4, <3>3, <3>4, <3>6, SubSteps DEF BuilderOK
    <3>7. CASE kind = "insert" /\ (CallValues \/ SendInsert)
      BY <3>3, <3>4, <3>7, InsertSteps DEF BuilderOK
    <3>8. CASE kind = "update" /\ (CallSet \/ CallUpdateWhere \/ SendUpdate \/ SendUpdateFound)
      <4>1. CASE SendUpdateFound
        <5>1. calls' = Append(calls, "found")
          BY <4>1 DEF SendUpdateFound, May
        <5> QED BY <2>2, <2>4, <5>1, Allowed
      <4>2. CASE CallSet \/ CallUpdateWhere \/ SendUpdate
        BY <3>3, <3>4, <3>8, <4>2, UpdateSteps DEF BuilderOK
      <4> QED BY <3>8, <4>1, <4>2
    <3>9. CASE kind = "delete" /\ (CallDeleteWhere \/ SendDelete)
      BY <3>3, <3>4, <3>9, DeleteSteps DEF BuilderOK
    <3> QED BY <1>2, <3>5, <3>6, <3>7, <3>8, <3>9, OneKind
  <2> QED BY <2>3, <2>4
<1> QED BY <1>1, <1>2

LEMMA FilterIs ==
  ASSUME FilterInv
  PROVE  FilterIsTheOneAsked
<1> SUFFICES ASSUME sent # <<>>, ~Barred(calls) PROVE FilterOK(sent[1])
  BY DEF FilterIsTheOneAsked, Barred, Said, After, Did, Before
<1> DEFINE query == sent[1]
           filters == Filters(query.text)
<1>1. Means(filters, asked)
  BY DEF FilterInv, SaysSent, Says
<1> HIDE DEF filters
<1>2. Len(filters) = Len(asked) /\ \A o \in DOMAIN asked : Agree(filters[o], asked[o])
  BY <1>1 DEF Means
<1>3. ASSUME NEW o \in DOMAIN asked, NEW rows \in SUBSET (1 .. b.atoms)
      PROVE  PrintedHolds(filters[o], rows \cup {OwnValue}) <=> ChainHolds(asked[o], rows \cup {OwnValue})
  <2>1. OwnValue \in rows \cup {OwnValue}
    OBVIOUS
  <2> QED BY <1>2, <2>1 DEF Agree
<1> QED BY <1>2, <1>3 DEF FilterOK, filters

\* A statement keeps the rows its caller asked for: operand by operand, what it prints
\* means what the chain of calls said, for every chain of calls the invariant covers.
THEOREM StatementsKeepTheirFilter == Spec => []FilterIsTheOneAsked
<1>1. FilterInv /\ [Next]_vars => FilterInv'
  BY FilterNext
<1>2. Init => FilterInv
  BY FilterInit
<1>3. FilterInv => FilterIsTheOneAsked
  BY FilterIs
<1> QED BY <1>1, <1>2, <1>3, PTL DEF Spec
===============================================================================
