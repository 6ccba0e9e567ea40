-------------------------- MODULE DatabaseSchema --------------------------
(* What a database makes of the statements the drivers write, and what         *)
(* buildPlanFromDatabase reads back.  A column's "data" says where its values  *)
(* come from: the column they were first written to.                          *)
EXTENDS SchemaDiff, TLC

EmptyDb == [tables |-> <<>>, enums |-> <<>>]

Ok(db)           == [err |-> "", db |-> db]
Fails(db, err)   == [err |-> err, db |-> db]

Has(db, t)       == t \in DOMAIN db.tables
ColumnsOf(db, t) == DOMAIN db.tables[t].cols
Put(f, k, v)     == (k :> v) @@ f
Without(f, S)    == [x \in (DOMAIN f) \ S |-> f[x]]

(* getDefaultValue, and the text the database reports for it.                   *)
DefaultText(c, d) ==
  CASE c.def = "yes" -> IF d = "postgres" THEN "true" ELSE "1"
    [] c.def = "no"  -> IF d = "postgres" THEN "false" ELSE "0"
    [] OTHER         -> c.def

(* renderColumn and the constraint each driver makes of a reference: Postgres   *)
(* names an inline one itself.                                                *)
Stored(c, data, d) ==
  [type |-> c.type, pk |-> c.pk, null |-> c.null, def |-> DefaultText(c, d), vals |-> c.vals, data |-> data]
Constraint(t, c, ref, d, inline) ==
  [name |-> <<t, c, IF inline /\ d = "postgres" THEN "fkey" ELSE "fk">>, col |-> c, ref |-> ref]
Constraints(t, cols, d) ==
  {Constraint(t, c.name, c.ref, d, TRUE) : c \in {e \in ToSet(cols) : e.ref # NoRef}}

(* A reference needs its target; on SQLite only when rows are written.         *)
TargetExists(db, t, ref, cols) ==
  ref.table = t \/ (Has(db, ref.table) /\ ref.column \in ColumnsOf(db, ref.table))
EnumKnown(db, t, c, d) == (d = "postgres" /\ c.type = "enum") => EnumType(t, c.name) \in DOMAIN db.enums
PointAt(db, t) == {u \in (DOMAIN db.tables) \ {t} : \E k \in db.tables[u].fks : k.ref.table = t}
WithoutRefsTo(db, t) ==
  [u \in (DOMAIN db.tables) \ {t} |-> [db.tables[u] EXCEPT !.fks = {k \in @ : k.ref.table # t}]]

CreateIt(db, s, d) ==
  IF Has(db, s.table) THEN Ok(db)
  ELSE IF \E c \in ToSet(s.cols) : \/ d # "sqlite" /\ c.ref # NoRef /\ ~TargetExists(db, s.table, c.ref, s.cols)
                                   \/ ~EnumKnown(db, s.table, c, d)
  THEN Fails(db, "other")
  ELSE Ok([db EXCEPT !.tables = Put(@, s.table,
         [cols |-> [name \in NamesOf(s.cols) |-> Stored(ColOf(s.cols, name), <<s.table, name>>, d)],
          idx |-> {}, fks |-> Constraints(s.table, s.cols, d)])])

(* Postgres: CASCADE.  MySQL refuses while a constraint points here; SQLite     *)
(* deletes the rows first, which their children refuse.                       *)
DropIt(db, s, d) ==
  IF ~Has(db, s.table) THEN Ok(db)
  ELSE IF d # "postgres" /\ PointAt(db, s.table) # {} THEN Fails(db, "other")
  ELSE Ok([db EXCEPT !.tables = WithoutRefsTo(db, s.table)])

CreateIndexIt(db, s, d) ==
  LET have == \E i \in db.tables[s.table].idx : i.name = s.idx.name
  IN  IF ~Has(db, s.table) \/ ~(ToSet(s.idx.cols) \subseteq ColumnsOf(db, s.table)) THEN Fails(db, "other")
      ELSE IF have THEN (IF d = "mysql" THEN Fails(db, "exists") ELSE Ok(db))
      ELSE Ok([db EXCEPT !.tables[s.table].idx = @ \cup {s.idx}])

DropIndexIt(db, s, d) ==
  LET have == Has(db, s.table) /\ \E i \in db.tables[s.table].idx : i.name = s.name
  IN  IF have THEN Ok([db EXCEPT !.tables[s.table].idx = {i \in @ : i.name # s.name}])
      ELSE IF d = "mysql" THEN Fails(db, "other") ELSE Ok(db)

Renamed(name, s) == IF name = s.from THEN s.to ELSE name
RenameIt(db, s, d) ==
  IF ~Has(db, s.table) \/ s.from \notin ColumnsOf(db, s.table) \/ s.to \in ColumnsOf(db, s.table)
  THEN Fails(db, "other")
  ELSE LET T == db.tables[s.table]
           cols == [n \in {Renamed(x, s) : x \in DOMAIN T.cols} |-> T.cols[IF n = s.to THEN s.from ELSE n]]
           idx  == {[i EXCEPT !.cols = [k \in DOMAIN i.cols |-> Renamed(i.cols[k], s)]] : i \in T.idx}
           fks  == {[k EXCEPT !.col = Renamed(k.col, s)] : k \in T.fks}
           Follow(k) == IF k.ref.table = s.table THEN [k EXCEPT !.ref.column = Renamed(k.ref.column, s)] ELSE k
           all  == [db.tables EXCEPT ![s.table] = [cols |-> cols, idx |-> idx, fks |-> fks]]
       IN  Ok([db EXCEPT !.tables = [u \in DOMAIN all |-> [all[u] EXCEPT !.fks = {Follow(k) : k \in @}]]])

DropColumnIt(db, s, d) ==
  LET T == db.tables[s.table]
      on == {i \in T.idx : s.col \in ToSet(i.cols)}
      fk == {k \in T.fks : k.col = s.col}
      pointed == \E u \in DOMAIN db.tables : \E k \in db.tables[u].fks : k.ref.table = s.table /\ k.ref.column = s.col
  IN  IF ~Has(db, s.table) \/ s.col \notin ColumnsOf(db, s.table) \/ pointed
         \/ (d = "sqlite" /\ (on # {} \/ fk # {} \/ T.cols[s.col].pk)) \/ (d = "mysql" /\ fk # {})
      THEN Fails(db, "other")
      ELSE Ok([db EXCEPT !.tables[s.table] =
             [cols |-> Without(T.cols, {s.col}), idx |-> T.idx \ on, fks |-> T.fks \ fk]])

(* Postgres keeps the values of an enum type it has; MySQL refuses to change    *)
(* the type on either end of a constraint.                                    *)
ModifyIt(db, s, d) ==
  LET c == s.col
      old == db.tables[s.table].cols[c.name]
      bound == \/ \E k \in db.tables[s.table].fks : k.col = c.name
               \/ \E u \in DOMAIN db.tables : \E k \in db.tables[u].fks : k.ref.table = s.table /\ k.ref.column = c.name
  IN  IF ~Has(db, s.table) \/ c.name \notin ColumnsOf(db, s.table) \/ ~EnumKnown(db, s.table, c, d)
         \/ (d = "mysql" /\ bound /\ c.type # old.type)
      THEN Fails(db, "other")
      ELSE Ok([db EXCEPT !.tables[s.table].cols[c.name] =
             [Stored(c, old.data, d) EXCEPT
                !.pk = old.pk,
                !.vals = IF d = "postgres" /\ c.type = "enum" THEN db.enums[EnumType(s.table, c.name)] ELSE @]])

(* A column that must have a value needs one for the rows there are.            *)
AddColumnIt(db, s, d) ==
  LET c == s.col
  IN  IF ~Has(db, s.table) \/ ~EnumKnown(db, s.table, c, d) \/ (d # "mysql" /\ ~c.null /\ c.def = "")
      THEN Fails(db, "other")
      ELSE IF c.name \in ColumnsOf(db, s.table) THEN Fails(db, "exists")
      ELSE Ok([db EXCEPT !.tables[s.table].cols = Put(@, c.name, Stored(c, <<s.table, c.name>>, d))])

AddForeignKeyIt(db, s, d) ==
  LET left == {k \in db.tables[s.table].fks : k.name \notin s.drops}
      new  == Constraint(s.table, s.col, s.ref, d, FALSE)
  IN  IF ~Has(db, s.table) \/ ~TargetExists(db, s.table, s.ref, <<>>) THEN Fails(db, "other")
      ELSE IF \E k \in left : k.name = new.name THEN Fails(db, "exists")
      ELSE Ok([db EXCEPT !.tables[s.table].fks = left \cup {new}])
DropForeignKeyIt(db, s, d) ==
  IF Has(db, s.table) /\ \E k \in db.tables[s.table].fks : k.name = s.name
  THEN Ok([db EXCEPT !.tables[s.table].fks = {k \in @ : k.name # s.name}]) ELSE Fails(db, "other")

(* SQLite's copy, with foreign keys off: constraints that point here stay.      *)
RebuildIt(db, s, d) ==
  LET old == db.tables[s.table].cols
      From(name) == IF name \in DOMAIN s.source THEN old[s.source[name]].data ELSE <<s.table, name>>
  IN  IF ~Has(db, s.table) \/ \E n \in DOMAIN s.source : s.source[n] \notin DOMAIN old
         \/ \E c \in ToSet(s.cols) : c.name \notin DOMAIN s.source /\ ~c.null /\ c.def = "" /\ ~c.pk
      THEN Fails(db, "other")
      ELSE Ok([db EXCEPT !.tables[s.table] =
             [cols |-> [n \in NamesOf(s.cols) |-> Stored(ColOf(s.cols, n), From(n), d)],
              idx |-> ToSet(s.idx), fks |-> Constraints(s.table, s.cols, d)]])

CreateEnumIt(db, s) ==
  IF s.name \in DOMAIN db.enums THEN Fails(db, "exists")
  ELSE Ok([db EXCEPT !.enums = Put(@, s.name, s.vals)])

Apply(db, s, d) ==
  CASE s.op = "create_table"    -> CreateIt(db, s, d)
    [] s.op = "drop_table"      -> DropIt(db, s, d)
    [] s.op = "create_enum"     -> CreateEnumIt(db, s)
    [] s.op = "create_index"    -> CreateIndexIt(db, s, d)
    [] s.op = "drop_index"      -> DropIndexIt(db, s, d)
    [] s.op = "rename_column"   -> RenameIt(db, s, d)
    [] s.op = "drop_column"     -> DropColumnIt(db, s, d)
    [] s.op = "modify_column"   -> ModifyIt(db, s, d)
    [] s.op = "add_column"      -> AddColumnIt(db, s, d)
    [] s.op = "add_foreign_key" -> AddForeignKeyIt(db, s, d)
    [] s.op = "drop_foreign_key" -> DropForeignKeyIt(db, s, d)
    [] OTHER                    -> RebuildIt(db, s, d)

(* The statements up to the first that fails.                                  *)
ApplyAll(db, body, d) ==
  FoldLeft(LAMBDA r, s : IF r.err # "" THEN r ELSE Apply(r.db, s, d), Ok(db), body)

(* A file: all or nothing where the dialect rolls DDL back and the file does     *)
(* not open a transaction of its own, which one statement fails as a whole.    *)
ApplyFile(db, body, d) ==
  LET r == ApplyAll(db, body, d)
  IN  IF r.err # "" /\ d # "mysql" THEN Fails(db, r.err) ELSE r

----------------------------------------------------------------------------
(* buildPlanFromDatabase: types come back as far as the dialect tells them      *)
(* apart.  MySQL's DATETIME and TIMESTAMP are one, SQLite has storage classes.   *)
SqlTypeToNormalized(c, d) ==
  IF c.type = "enum" /\ c.vals # {} THEN "enum"
  ELSE CASE d = "sqlite" /\ CanonicalStorageType(c, d) = "TEXT" -> "text"
         [] d = "sqlite" /\ CanonicalStorageType(c, d) = "INTEGER" -> "integer"
         [] d = "sqlite" /\ CanonicalStorageType(c, d) = "REAL" -> "float"
         [] d = "mysql" /\ c.type = "timestamptz" -> "datetime"
         [] OTHER -> c.type

(* groupPhysicalIndexes: a unique index of one column makes the column unique.   *)
UniqueColumns(idx) == {i.cols[1] : i \in {k \in idx : k.uniq /\ Len(k.cols) = 1}}

ReadColumn(T, name, type, vals, ref, fkNames) ==
  LET c == T.cols[name]
  IN  [name |-> name, type |-> type, pk |-> c.pk, null |-> ~c.pk /\ c.null, def |-> c.def, vals |-> vals,
       uniq |-> name \in UniqueColumns(T.idx), ref |-> ref, fkNames |-> fkNames]
ReadTable(t, T, read) ==
  LET names == Listed(DOMAIN T.cols)
  IN  TablePlan(t, [i \in DOMAIN names |-> read[names[i]]], Listed(T.idx))

(* The references of a column: SQLite's have no names; of several, the last      *)
(* listed counts there and the first on the others.                             *)
RefsOf(T, name) == {k \in T.fks : k.col = name}
RefOn(T, name)  == IF RefsOf(T, name) = {} THEN NoRef ELSE (CHOOSE k \in RefsOf(T, name) : TRUE).ref

BuildSqliteTable(t, T) ==
  ReadTable(t, T, [n \in DOMAIN T.cols |->
    ReadColumn(T, n, SqlTypeToNormalized(T.cols[n], "sqlite"), T.cols[n].vals, RefOn(T, n), {})])

(* An enum column is of a type, and its values are the type's.                   *)
BuildPgTable(t, T, enums) ==
  ReadTable(t, T, [n \in DOMAIN T.cols |->
    LET isEnum == T.cols[n].type = "enum" /\ EnumType(t, n) \in DOMAIN enums
    IN  ReadColumn(T, n, IF isEnum THEN "enum" ELSE SqlTypeToNormalized(T.cols[n], "postgres"),
                   IF isEnum THEN enums[EnumType(t, n)] ELSE {}, RefOn(T, n), {k.name : k \in RefsOf(T, n)})])

BuildMysqlTable(t, T) ==
  ReadTable(t, T, [n \in DOMAIN T.cols |->
    ReadColumn(T, n, SqlTypeToNormalized(T.cols[n], "mysql"), T.cols[n].vals, RefOn(T, n),
               {k.name : k \in RefsOf(T, n)})])

BuildPlanFromDatabase(db, among, d) ==
  LET names == SelectSeq(among, LAMBDA t : Has(db, t))
  IN  [dialect |-> d, tables |-> [i \in DOMAIN names |->
         LET T == db.tables[names[i]]
         IN  CASE d = "sqlite"   -> BuildSqliteTable(names[i], T)
               [] d = "postgres" -> BuildPgTable(names[i], T, db.enums)
               [] OTHER          -> BuildMysqlTable(names[i], T)]]

(* What a database must look like to be what a plan asks for.                  *)
Meets(db, plan, d) ==
  \A i \in DOMAIN plan.tables :
    LET t == plan.tables[i]
    IN  /\ Has(db, t.table)
        /\ NamesOf(t.cols) = ColumnsOf(db, t.table)
        /\ ToSet(t.idx) = db.tables[t.table].idx
        /\ \A c \in ToSet(t.cols) :
             LET s == db.tables[t.table].cols[c.name]
             IN  /\ CanonicalStorageType(s, d) = CanonicalStorageType(c, d) /\ s.null = c.null
                 /\ s.def = DefaultText(c, d)
                 /\ c.type = "enum" => s.vals = c.vals
        /\ {[col |-> k.col, ref |-> k.ref] : k \in db.tables[t.table].fks}
             = {[col |-> c.name, ref |-> c.ref] : c \in {e \in ToSet(t.cols) : e.ref # NoRef}}
============================================================================
