----------------------------- MODULE SchemaDiff -----------------------------
(* generateSql and generateDiffOperations: the migration files that take a     *)
(* database from one plan to another.  A file is its label, its statements and *)
(* whether an operation in it was reported as destructive.                    *)
EXTENDS ModelPlan, FiniteSets

Dialects == {"sqlite", "postgres", "mysql"}

(* What a statement says of a column: uniqueness is an index of its own, and    *)
(* the names of live constraints are only used to drop them.                  *)
Rendered(col) == [col EXCEPT !.uniq = FALSE, !.fkNames = {}]
RenderedAll(cols) == [i \in DOMAIN cols |-> Rendered(cols[i])]

DropTable(t)              == [op |-> "drop_table", table |-> t]
CreateTable(t, cols)      == [op |-> "create_table", table |-> t, cols |-> RenderedAll(cols)]
CreateEnum(name, vals)    == [op |-> "create_enum", name |-> name, vals |-> vals]
CreateIndex(t, idx)       == [op |-> "create_index", table |-> t, idx |-> idx]
DropIndex(t, name)        == [op |-> "drop_index", table |-> t, name |-> name]
RenameColumn(t, from, to) == [op |-> "rename_column", table |-> t, from |-> from, to |-> to]
DropColumn(t, c)          == [op |-> "drop_column", table |-> t, col |-> c]
ModifyColumn(t, col)      == [op |-> "modify_column", table |-> t, col |-> [Rendered(col) EXCEPT !.ref = NoRef]]
AddColumn(t, col)         == [op |-> "add_column", table |-> t, col |-> [Rendered(col) EXCEPT !.ref = NoRef]]
AddForeignKey(t, c, ref, drops) ==
  [op |-> "add_foreign_key", table |-> t, col |-> c, ref |-> ref, drops |-> drops]
RebuildTable(plan, source) ==
  [op |-> "rebuild", table |-> plan.table, cols |-> RenderedAll(plan.cols), idx |-> plan.idx, source |-> source]

File(kind, table, body, destructive) ==
  [label |-> <<kind, table>>, body |-> body, destructive |-> destructive]

Listed(S) == FoldSet(LAMBDA e, seq : Append(seq, e), <<>>, S)
TablesOf(seq) == {seq[i].table : i \in DOMAIN seq}
NamesOf(cols) == {cols[i].name : i \in DOMAIN cols}
ColOf(cols, name) == cols[CHOOSE i \in DOMAIN cols : cols[i].name = name]
TableIn(plan, table) == plan.tables[CHOOSE i \in DOMAIN plan.tables : plan.tables[i].table = table]

(* The statements only some dialects have.                                    *)
EnumType(t, c) == <<t, c, "type">>
EnumStatements(t, cols, d) ==
  IF d # "postgres" THEN <<>>
  ELSE LET enums == SelectSeq(cols, LAMBDA c : c.type = "enum" /\ c.vals # {})
       IN  [i \in DOMAIN enums |-> CreateEnum(EnumType(t, enums[i].name), enums[i].vals)]
ForeignKeyStatements(t, c, ref, drops, d) ==
  IF d = "sqlite" \/ ref = NoRef THEN <<>> ELSE <<AddForeignKey(t, c, ref, drops)>>

----------------------------------------------------------------------------
(* Storage types and defaults, as far as two spellings of one thing go.        *)
CanonicalStorageType(col, d) ==
  CASE d = "sqlite" /\ col.type \in {"string", "text", "date", "datetime", "timestamptz", "json", "enum"} -> "TEXT"
    [] d = "sqlite" /\ col.type \in {"boolean", "integer", "bigint"} -> "INTEGER"
    [] d = "sqlite" /\ col.type \in {"float", "double", "decimal"} -> "REAL"
    [] d = "mysql" /\ col.type \in {"datetime", "timestamptz"} -> "datetime"
    [] OTHER -> col.type

(* "yes" and "no" are the values true and false of a model; everything else is   *)
(* text, of a model or of a database.                                          *)
CanonicalizeDefault(col, d) ==
  CASE col.def = "yes" -> "1"
    [] col.def = "no" -> "0"
    [] col.def = "now" /\ d = "sqlite" -> "utc"
    [] col.def = "true" -> "TRUE"
    [] col.def = "false" -> "FALSE"
    [] col.type = "boolean" /\ col.def = "t" -> "1"
    [] col.type = "boolean" /\ col.def = "f" -> "0"
    [] OTHER -> col.def

ColumnsDifferInNull(a, b, d) == a.null # b.null \/ a.uniq # b.uniq
ColumnsAreDifferent(a, b, d) ==
  \/ CanonicalStorageType(a, d) # CanonicalStorageType(b, d)
  \/ a.null # b.null \/ a.uniq # b.uniq
  \/ CanonicalizeDefault(a, d) # CanonicalizeDefault(b, d)
  \/ a.type = "enum" /\ b.type = "enum" /\ a.vals # b.vals

ReferencesAreDifferent(a, b) ==
  \/ a.ref # b.ref
  \/ a.ref # NoRef /\ Cardinality(a.fkNames) > 1

IsLosslessTypeChange(from, to) == <<from, to>> \in {<<"integer", "bigint">>, <<"string", "text">>}

ColumnSignature(c, d) ==
  <<CanonicalStorageType(c, d), c.pk, c.uniq, c.null, CanonicalizeDefault(c, d), c.vals, c.ref>>

(* A rename: one column gone and one arrived, alone in having that signature.   *)
DetectColumnRenames(prev, curr, d) ==
  LET gone == {c \in ToSet(prev) : c.name \notin NamesOf(curr)}
      come == {c \in ToSet(curr) : c.name \notin NamesOf(prev)}
      Alike(c, S) == {e \in S : ColumnSignature(e, d) = ColumnSignature(c, d)}
  IN  {[from |-> g.name, to |-> c.name] : <<g, c>> \in
         {<<g, c>> \in gone \X come : Alike(g, gone) = {g} /\ Alike(g, come) = {c}}}

----------------------------------------------------------------------------
(* orderTablesForCreate: targets first, the first that is ready; what is left   *)
(* is on a cycle or behind one, and its constraints wait for the last file.   *)
Targets(t, among) ==
  {t.cols[i].ref.table : i \in DOMAIN t.cols} \cap (TablesOf(among) \ {t.table})

OrderTablesForCreate(input, d) ==
  IF d = "sqlite" \/ Len(input) < 2 THEN [tables |-> input, deferred |-> {}]
  ELSE LET Place(ordered) ==
             LET ready == SelectSeq(input, LAMBDA t : /\ t.table \notin TablesOf(ordered)
                                                      /\ Targets(t, input) \subseteq TablesOf(ordered))
             IN  IF ready = <<>> THEN ordered ELSE Append(ordered, Head(ready))
           sorted == FoldLeft(LAMBDA ordered, t : Place(ordered), <<>>, input)
           cycle  == SelectSeq(input, LAMBDA t : t.table \notin TablesOf(sorted))
       IN  [tables |-> sorted \o cycle,
            deferred |-> {<<t.table, c.name>> : <<t, c>> \in
              {<<t, c>> \in ToSet(cycle) \X UNION {ToSet(cycle[i].cols) : i \in DOMAIN cycle} :
                 c \in ToSet(t.cols) /\ c.ref.table \in TablesOf(cycle) \ {t.table}}}]

CreateFiles(input, d) ==
  LET order == OrderTablesForCreate(input, d)
      Now(t) == [i \in DOMAIN t.cols |->
                   IF <<t.table, t.cols[i].name>> \in order.deferred
                   THEN [t.cols[i] EXCEPT !.ref = NoRef] ELSE t.cols[i]]
      Late(t) == FlattenSeq([i \in DOMAIN t.cols |->
                   IF <<t.table, t.cols[i].name>> \in order.deferred
                   THEN ForeignKeyStatements(t.table, t.cols[i].name, t.cols[i].ref, {}, d) ELSE <<>>])
      n == Len(order.tables)
  IN  [k \in 1 .. n |->
         LET t == order.tables[k]
         IN  File("create", t.table,
               EnumStatements(t.table, t.cols, d) \o <<CreateTable(t.table, Now(t))>>
                 \o [i \in DOMAIN t.idx |-> CreateIndex(t.table, t.idx[i])]
                 \o (IF k < n THEN <<>> ELSE FlattenSeq([j \in 1 .. n |-> Late(order.tables[j])])),
               FALSE)]

(* Enum columns that are new to a table: a file for each type.                 *)
NoEnumFiles(prev, curr, d) == <<>>
EnumFiles(prev, curr, d) ==
  LET new == SelectSeq(curr.cols, LAMBDA c : c.name \notin NamesOf(prev.cols))
      made == EnumStatements(curr.table, new, d)
  IN  [i \in DOMAIN made |-> File("create_type", curr.table, <<made[i]>>, FALSE)]

----------------------------------------------------------------------------
(* One table on both sides.  When the previous plan was read off the database,  *)
(* what no model declares is kept.                                            *)
Reconciled(prev, curr) ==
  [curr EXCEPT
    !.cols = @ \o SelectSeq(prev.cols, LAMBDA c : c.name \notin NamesOf(curr.cols)),
    !.idx  = @ \o SelectSeq(prev.idx, LAMBDA i : i \notin ToSet(curr.idx))]

IsColumnConstrained(t, name) ==
  LET c == ColOf(t.cols, name)
  IN  c.pk \/ c.uniq \/ c.ref # NoRef \/ \E i \in DOMAIN t.idx : name \in ToSet(t.idx[i].cols)

TableChanges(prev, next, d, applyRenames, preserve) ==
  LET curr    == IF preserve THEN Reconciled(prev, next) ELSE next
      renames == IF applyRenames /\ ~preserve THEN DetectColumnRenames(prev.cols, curr.cols, d) ELSE {}
      Kept(c) == c.name \in NamesOf(prev.cols)
  IN  [curr     |-> curr,
       renames  |-> renames,
       removed  |-> SelectSeq(prev.cols, LAMBDA c : /\ c.name \notin NamesOf(curr.cols)
                                                    /\ ~\E r \in renames : r.from = c.name),
       added    |-> SelectSeq(next.cols, LAMBDA c : ~Kept(c) /\ ~\E r \in renames : r.to = c.name),
       modified |-> SelectSeq(curr.cols, LAMBDA c : Kept(c) /\ ColumnsAreDifferent(ColOf(prev.cols, c.name), c, d)),
       fkChanged |-> SelectSeq(curr.cols, LAMBDA c : Kept(c) /\ ReferencesAreDifferent(ColOf(prev.cols, c.name), c))]

NeedsRebuild(prev, ch, d) ==
  /\ d = "sqlite"
  /\ \/ ch.modified # <<>> \/ ch.fkChanged # <<>>
     \/ \E i \in DOMAIN ch.removed : IsColumnConstrained(prev, ch.removed[i].name)

(* Where each column of the rebuilt table takes its data from; one that is not  *)
(* here is new.                                                               *)
ColumnSourceByName(prev, ch) ==
  [name \in NamesOf(ch.curr.cols) \cap NamesOf(prev.cols) |-> name]
ColumnSource(prev, ch) ==
  LET kept == NamesOf(ch.curr.cols) \cap NamesOf(prev.cols)
  IN  [name \in kept \cup {r.to : r \in ch.renames} |->
         IF name \in kept THEN name ELSE (CHOOSE r \in ch.renames : r.to = name).from]

TypeChanged(prev, ch) ==
  \E i \in DOMAIN ch.modified : ColOf(prev.cols, ch.modified[i].name).type # ch.modified[i].type
LossyChange(prev, ch) ==
  \E i \in DOMAIN ch.modified :
    LET from == ColOf(prev.cols, ch.modified[i].name).type
    IN  from # ch.modified[i].type /\ ~IsLosslessTypeChange(from, ch.modified[i].type)

Rebuild(prev, ch) ==
  File("alter", prev.table, <<RebuildTable(ch.curr, ColumnSource(prev, ch))>>,
       ch.removed # <<>> \/ TypeChanged(prev, ch))

(* Indexes go first and come last, so that no statement meets one on a column   *)
(* that is leaving or not there yet.                                          *)
InPlace(prev, ch, d) ==
  LET t == prev.table
      renames == Listed(ch.renames)
      goneIdx == SelectSeq(prev.idx, LAMBDA i : i \notin ToSet(ch.curr.idx))
      newIdx  == SelectSeq(ch.curr.idx, LAMBDA i : i \notin ToSet(prev.idx))
      body ==
        [i \in DOMAIN goneIdx |-> DropIndex(t, goneIdx[i].name)]
        \o [i \in DOMAIN renames |-> RenameColumn(t, renames[i].from, renames[i].to)]
        \o [i \in DOMAIN ch.removed |-> DropColumn(t, ch.removed[i].name)]
        \o [i \in DOMAIN ch.modified |-> ModifyColumn(t, ch.modified[i])]
        \o FlattenSeq([i \in DOMAIN ch.fkChanged |->
             ForeignKeyStatements(t, ch.fkChanged[i].name, ch.fkChanged[i].ref,
                                  ColOf(prev.cols, ch.fkChanged[i].name).fkNames, d)])
        \o FlattenSeq([i \in DOMAIN ch.added |->
             <<AddColumn(t, ch.added[i])>>
               \o ForeignKeyStatements(t, ch.added[i].name, ch.added[i].ref, {}, d)])
        \o [i \in DOMAIN newIdx |-> CreateIndex(t, newIdx[i])]
  IN  File("alter", t, body, ch.removed # <<>> \/ LossyChange(prev, ch))

AlterFiles(prev, next, d, applyRenames, preserve) ==
  LET ch == TableChanges(prev, next, d, applyRenames, preserve)
      f  == IF NeedsRebuild(prev, ch, d) THEN Rebuild(prev, ch) ELSE InPlace(prev, ch, d)
  IN  IF f.body = <<>> THEN <<>> ELSE <<f>>

(* generateSql, generateDiffOperations.                                        *)
GenerateSql(next) == CreateFiles(next.tables, next.dialect)

GenerateDiff(prev, next, applyRenames, preserve) ==
  LET d      == next.dialect
      gone   == SelectSeq(prev.tables, LAMBDA t : t.table \notin TablesOf(next.tables))
      fresh  == SelectSeq(next.tables, LAMBDA t : t.table \notin TablesOf(prev.tables))
      shared == SelectSeq(next.tables, LAMBDA t : t.table \in TablesOf(prev.tables))
  IN  [i \in DOMAIN gone |-> File("drop", gone[i].table, <<DropTable(gone[i].table)>>, TRUE)]
      \o CreateFiles(fresh, d)
      \o FlattenSeq([i \in DOMAIN shared |-> EnumFiles(TableIn(prev, shared[i].table), shared[i], d)])
      \o FlattenSeq([i \in DOMAIN shared |->
           AlterFiles(TableIn(prev, shared[i].table), shared[i], d, applyRenames, preserve)])
============================================================================
