----------------------------- MODULE ModelPlan -----------------------------
(* buildMigrationPlan: from the models an application declares to the tables   *)
(* they ask for.  A column is named as in the database; inferring a type from  *)
(* validators and names is the attribute's "type", "" where nothing is said.  *)
EXTENDS Naturals, Sequences, SequencesExt

NoRef == [table |-> "", column |-> "", onDelete |-> ""]
RefTo(table, column, onDelete) == [table |-> table, column |-> column, onDelete |-> onDelete]

Col(name, type) ==
  [name |-> name, type |-> type, pk |-> FALSE, uniq |-> FALSE, null |-> TRUE, def |-> "",
   vals |-> {}, ref |-> NoRef, fkNames |-> {}]
IdCol(name) == [Col(name, "bigint") EXCEPT !.pk = TRUE, !.null = FALSE]
Needed(col) == [col EXCEPT !.null = FALSE]
CreatedAt == [Needed(Col("created_at", "datetime")) EXCEPT !.def = "utc"]
UpdatedAt == Col("updated_at", "datetime")

Index(name, cols, uniq) == [name |-> name, cols |-> cols, uniq |-> uniq]
TablePlan(table, cols, idx) == [table |-> table, cols |-> cols, idx |-> idx]

Named(cols, name) == \E i \in DOMAIN cols : cols[i].name = name
AddMissing(cols, col) == IF Named(cols, col.name) THEN cols ELSE Append(cols, col)

(* meta.modelToTable and meta.primaryKeys.                                    *)
TableOf(models, model) ==
  IF \E i \in DOMAIN models : models[i].model = model
  THEN models[CHOOSE i \in DOMAIN models : models[i].model = model].table ELSE ""
PkOf(models, table) ==
  IF \E i \in DOMAIN models : models[i].table = table
  THEN models[CHOOSE i \in DOMAIN models : models[i].table = table].pk ELSE "id"

(* x_id beside x_type points at one of several tables: never a foreign key.    *)
PolymorphicColumns(m) ==
  {m.attrs[i].name : i \in {j \in DOMAIN m.attrs :
     /\ m.attrs[j].base # ""
     /\ \E k \in DOMAIN m.attrs : m.attrs[k].typeOf = m.attrs[j].base}}

(* What a declared belongsTo says of a column; the last declaration counts.     *)
DeclaredFor(models, m, column) ==
  LET rels == SelectSeq(m.belongsTo, LAMBDA r : r.fk = column /\ TableOf(models, r.model) # "")
  IN  IF rels = <<>> THEN NoRef
      ELSE LET t == TableOf(models, Last(rels).model) IN RefTo(t, PkOf(models, t), Last(rels).onDelete)

(* Explicit first, then what the model declares; a name is only a hint for a    *)
(* model that declares no relation.                                           *)
AttributeReference(models, m, a) ==
  LET declared == DeclaredFor(models, m, a.name)
      guessed  == TableOf(models, a.base)
  IN  IF a.base = "" \/ a.fk = "no" \/ a.name \in PolymorphicColumns(m) THEN NoRef
      ELSE IF a.fk # "" THEN RefTo(a.fk, "id", "")
      ELSE IF declared # NoRef THEN declared
      ELSE IF m.belongsTo # <<>> \/ guessed = "" THEN NoRef
      ELSE RefTo(guessed, PkOf(models, guessed), "")

AttributeColumn(models, m, a) ==
  LET pk == a.name = m.pk
  IN  [name |-> a.name, pk |-> pk, uniq |-> a.uniq, null |-> ~pk /\ a.null,
       type |-> IF a.type # "" THEN a.type ELSE IF pk THEN "bigint" ELSE "string",
       def |-> a.def, vals |-> a.vals, fkNames |-> {}, ref |-> AttributeReference(models, m, a)]

(* Each belongsTo has its column, with the constraint where the target is known.*)
BelongsToColumns(models, m, cols) ==
  FoldLeft(LAMBDA cs, r :
             LET t == TableOf(models, r.model)
             IN  AddMissing(cs, [Col(r.fk, "bigint") EXCEPT !.ref =
                   IF t = "" \/ r.fk \in PolymorphicColumns(m) THEN NoRef
                   ELSE RefTo(t, PkOf(models, t), r.onDelete)]),
           cols, m.belongsTo)

TraitColumns(m, cols) ==
  LET stamped == IF "useTimestamps" \in m.traits
                 THEN AddMissing(AddMissing(cols, CreatedAt), UpdatedAt) ELSE cols
      soft    == IF "useSoftDeletes" \in m.traits
                 THEN AddMissing(stamped, Col("deleted_at", "datetime")) ELSE stamped
  IN  IF "useUuid" \in m.traits
      THEN AddMissing(soft, [Col("uuid", "string") EXCEPT !.uniq = TRUE]) ELSE soft

UniqueIndexes(table, cols) ==
  LET unique == SelectSeq(cols, LAMBDA c : c.uniq /\ ~c.pk)
  IN  [i \in DOMAIN unique |-> Index(<<table, unique[i].name, "unique">>, <<unique[i].name>>, TRUE)]

ModelTable(models, m) ==
  LET own  == [i \in DOMAIN m.attrs |-> AttributeColumn(models, m, m.attrs[i])]
      keyed == IF Named(own, m.pk) THEN own ELSE <<IdCol(m.pk)>> \o own
      cols == TraitColumns(m, BelongsToColumns(models, m, keyed))
  IN  TablePlan(m.table, cols, m.indexes \o UniqueIndexes(m.table, cols))

(* The tables the likeable, taggable and categorizable traits read and write. *)
LikesTable(m) ==
  TablePlan(m.likes,
    <<IdCol("id"), [Needed(Col("user_id", "bigint")) EXCEPT !.ref = RefTo("users", "id", "")],
      [Needed(Col(m.fkName, "bigint")) EXCEPT !.ref = RefTo(m.table, "id", "")], CreatedAt, UpdatedAt>>,
    <<Index(<<m.likes, "user_target_unique">>, <<"user_id", m.fkName>>, TRUE)>>)

Flag(name, def) == [Needed(Col(name, "boolean")) EXCEPT !.def = def]
Stamps == <<CreatedAt, UpdatedAt>>
OwnerTable(table, key, target, id, type) ==
  TablePlan(table,
    <<IdCol("id"), [Needed(Col(key, "bigint")) EXCEPT !.ref = RefTo(target, "id", "")],
      Needed(Col(id, "bigint")), Needed(Col(type, "string"))>> \o Stamps,
    <<Index(<<table, "owner_unique">>, <<key, id, type>>, TRUE), Index(<<table, "target_index">>, <<id, type>>, FALSE)>>)

TaggableTables ==
  <<TablePlan("taggables",
      <<IdCol("id"), Needed(Col("name", "string")), Needed(Col("slug", "string")), Col("description", "text"),
        [Needed(Col("order", "integer")) EXCEPT !.def = "0"], Flag("is_active", "yes"),
        Col("taggable_id", "bigint"), Needed(Col("taggable_type", "string"))>> \o Stamps,
      <<Index(<<"taggables", "target_index">>, <<"taggable_id", "taggable_type">>, FALSE),
        Index(<<"taggables", "type_slug_unique">>, <<"taggable_type", "slug">>, TRUE)>>),
    OwnerTable("taggable_models", "tag_id", "taggables", "taggable_id", "taggable_type")>>

CategorizableTables ==
  <<TablePlan("categorizables",
      <<IdCol("id"), Needed(Col("name", "string")), Needed(Col("slug", "string")), Col("description", "text"),
        Flag("is_active", "yes"), Needed(Col("categorizable_type", "string"))>> \o Stamps,
      <<Index(<<"categorizables", "type_slug_unique">>, <<"categorizable_type", "slug">>, TRUE)>>),
    OwnerTable("categorizable_models", "category_id", "categorizables", "categorizable_id", "categorizable_type")>>

TraitTables(m) ==
  (IF "likeable" \in m.traits THEN <<LikesTable(m)>> ELSE <<>>)
    \o (IF "taggable" \in m.traits THEN TaggableTables ELSE <<>>)
    \o (IF "categorizable" \in m.traits THEN CategorizableTables ELSE <<>>)

(* belongsToMany with a pivot described inline.                                *)
PivotTable(models, m, p) ==
  TablePlan(p.table,
    <<IdCol("id"), [Needed(Col(m.fkName, "bigint")) EXCEPT !.ref = RefTo(m.table, "id", "")],
      [Needed(Col(p.relatedKey, "bigint")) EXCEPT !.ref = RefTo(TableOf(models, p.model), "id", "")]>>
      \o p.cols \o (IF p.timestamps THEN <<CreatedAt, UpdatedAt>> ELSE <<>>),
    <<Index(<<p.table, m.fkName, p.relatedKey, "unique">>, <<m.fkName, p.relatedKey>>, TRUE)>>)

(* ensureTable: the first to claim a name has it.                              *)
EnsureTables(tables, more) ==
  FoldLeft(LAMBDA ts, t : IF \E i \in DOMAIN ts : ts[i].table = t.table THEN ts ELSE Append(ts, t),
           tables, more)

(* A foreign key has the type of the column it points at.  One pass, in the     *)
(* order of the tables.                                                       *)
Referenced(tables, ref) ==
  {tables[i].cols[j] : <<i, j>> \in {<<i, j>> \in (DOMAIN tables) \X (1 .. 20) :
     tables[i].table = ref.table /\ j \in DOMAIN tables[i].cols /\ tables[i].cols[j].name = ref.column}}

AlignColumn(tables, i, j) ==
  LET col == tables[i].cols[j]
      to  == Referenced(tables, col.ref)
  IN  IF col.ref = NoRef \/ to = {} THEN tables
      ELSE [tables EXCEPT ![i].cols[j].type = (CHOOSE c \in to : TRUE).type]

AlignTypes(tables) ==
  LET places == FlattenSeq([i \in DOMAIN tables |-> [j \in DOMAIN tables[i].cols |-> <<i, j>>]])
  IN  FoldLeft(LAMBDA ts, p : AlignColumn(ts, p[1], p[2]), tables, places)

BuildMigrationPlan(models, d) ==
  LET own    == [i \in DOMAIN models |-> ModelTable(models, models[i])]
      traits == EnsureTables(own, FlattenSeq([i \in DOMAIN models |-> TraitTables(models[i])]))
      pivots == FlattenSeq([i \in DOMAIN models |->
                  [k \in DOMAIN models[i].pivots |-> PivotTable(models, models[i], models[i].pivots[k])]])
  IN  [dialect |-> d, tables |-> AlignTypes(EnsureTables(traits, pivots))]
============================================================================
