--------------------------- MODULE ModelRelations ---------------------------
(* resolveRelation, eagerLoadRelation and the query side of                    *)
(* BelongsToManyRelationBuilder: get() reads some parents and then, at the     *)
(* same time, the rows of each relation named in with(), in one or two         *)
(* statements, while others write.                                           *)
EXTENDS Naturals, Sequences, FiniteSets, SequencesExt

CONSTANTS
  Parents, RelatedIds, MidIds,  \* ids of the parent, related, and pivot or through rows
  Schemas,     \* a schema: for each relation name the kinds that declare it
  Worlds,      \* what the tables may hold at first: fk, owner and mid
  MaxChanges   \* bound: rows others write

None == 0

(* The tables refer to rows that there are: a pivot row to a related row.        *)
ASSUME ModelRelationsAssumption ==
  /\ MaxChanges \in Nat /\ None \notin RelatedIds
  /\ \A w \in Worlds :
       /\ w.fk \in [Parents -> RelatedIds \cup {None}]
       /\ DOMAIN w.owner \subseteq RelatedIds /\ w.owner \in [DOMAIN w.owner -> Parents \cup MidIds]
       /\ DOMAIN w.mid \subseteq MidIds
       /\ w.mid \in [DOMAIN w.mid -> [parent : Parents, related : DOMAIN w.owner]]

VARIABLES
  schema,
  known,     \* the related model is registered
  relationCache,
  fk,        \* the parents' own foreign keys
  owner,     \* the related rows there are, and the parent or through row each has
  mid,       \* the pivot or through rows there are
  load,      \* the get() under way, and a load for each relation
  slots,     \* what setRelation stored, by relation and parent
  pivot,     \* a belongsToMany builder's get and count
  everMid, everEnd, always, \* ghosts: links that held during the load
  changes

relationVars == <<schema, known, relationCache, fk, owner, mid, load, slots, pivot, everMid, everEnd, always, changes>>

Names == DOMAIN schema
Kinds == <<"hasMany", "hasOne", "belongsTo", "belongsToMany", "hasManyThrough", "hasOneThrough">>
Direct == {"hasMany", "hasOne"}
Through == {"hasManyThrough", "hasOneThrough"}
One == {"hasOne", "belongsTo", "hasOneThrough"}

(* The kinds are tried in this order; a registered model's table is its own, any *)
(* other one's is guessed from its name.                                      *)
ResolveRelation(declared, registered) ==
  LET order == {i \in DOMAIN Kinds : Kinds[i] \in declared}
  IN  [kind |-> IF order = {} THEN "none" ELSE Kinds[Min(order)],
       table |-> IF registered THEN "declared" ELSE "guessed"]

Kind(name) == ResolveRelation(schema[name], TRUE).kind

(* What is linked at this moment: parent to middle row, middle row to related.   *)
MidLinks(m) == {<<m[i].parent, i>> : i \in DOMAIN m}
EndLinks(m, o) ==
  {<<"pivot", i, m[i].related>> : i \in {j \in DOMAIN m : m[j].related \in DOMAIN o}}
    \cup {<<"own", o[r], r>> : r \in DOMAIN o}
(* The pairs a relation consists of, given such links.                          *)
Pairs(kind, midLinks, endLinks, keys) ==
  LET by == IF kind = "belongsToMany" THEN "pivot" ELSE "own"
  IN  CASE kind = "none" -> {}
        [] kind = "belongsTo" -> keys
        [] kind \in Direct -> {pr \in Parents \X RelatedIds : <<by, pr[1], pr[2]>> \in endLinks}
        [] OTHER -> {pr \in Parents \X RelatedIds :
                       \E i \in MidIds : <<pr[1], i>> \in midLinks /\ <<by, i, pr[2]>> \in endLinks}
KeyLinks(f, o) == {<<p, f[p]>> : p \in {q \in Parents : f[q] \in DOMAIN o}}
Linked(name) == Pairs(Kind(name), MidLinks(mid), EndLinks(mid, owner), KeyLinks(fk, owner))

NoLoad == [pc |-> "idle"]
Unset == {None}   \* undefined, where setRelation never was called
Unloaded == [p \in Parents |-> Unset]

RelationInit ==
  /\ schema \in Schemas
  /\ known \in BOOLEAN /\ relationCache = [n \in {} |-> ""]
  /\ \E w \in Worlds : fk = w.fk /\ owner = w.owner /\ mid = w.mid
  /\ load = NoLoad /\ slots = <<>> /\ pivot = [pc |-> "idle"]
  /\ everMid = {} /\ everEnd = {} /\ always = <<>> /\ changes = 0

----------------------------------------------------------------------------
(* get(): the parents and their keys, unless select() left the keys out.         *)
ReadParents ==
  /\ load.pc = "idle" /\ pivot.pc = "idle"
  /\ \E here \in SUBSET Parents, keyed \in BOOLEAN :
       /\ here # {}
       /\ load' = [pc |-> "loading", here |-> here, keyed |-> keyed, fk |-> fk,
                   rel |-> [n \in Names |-> [pc |-> "resolve", mids |-> <<>>]]]
       /\ slots' = [n \in Names |-> Unloaded]
  /\ everMid' = MidLinks(mid) /\ everEnd' = EndLinks(mid, owner)
  /\ always' = [n \in Names |-> Linked(n)]
  /\ UNCHANGED <<schema, known, relationCache, fk, owner, mid, pivot, changes>>

Loading(n, pc) == load.pc = "loading" /\ n \in Names /\ load.rel[n].pc = pc
Goto(n, pc) == load' = [load EXCEPT !.rel[n].pc = pc]
Unwritten == UNCHANGED <<schema, known, fk, owner, mid, pivot, everMid, everEnd, always, changes>>

(* Resolution is kept for a model and a name, also one that guessed.            *)
Resolve(n) ==
  /\ Loading(n, "resolve")
  /\ LET rel == IF n \in DOMAIN relationCache THEN relationCache[n] ELSE ResolveRelation(schema[n], known)
         ids == IF ~load.keyed THEN {}
                ELSE IF rel.kind = "belongsTo" THEN {p \in load.here : load.fk[p] # None} ELSE load.here
     IN  /\ relationCache' = [m \in DOMAIN relationCache \cup {n} |-> IF m = n THEN rel ELSE relationCache[m]]
         /\ IF rel.kind = "none" THEN Goto(n, "failed")
            ELSE IF ids = {} THEN Goto(n, "done")
            ELSE IF rel.kind \in {"belongsToMany"} \cup Through THEN Goto(n, "middle")
            ELSE Goto(n, IF rel.table = "guessed" THEN "failed" ELSE "rows")
  /\ UNCHANGED slots /\ Unwritten

Store(n, of) ==
  slots' = [slots EXCEPT ![n] = [p \in Parents |-> IF p \in load.here THEN of[p] ELSE @[p]]]

(* The first statement of the two: pivot rows, or rows of the through table.     *)
MiddleRows(n) ==
  /\ Loading(n, "middle")
  /\ LET found == {i \in DOMAIN mid : mid[i].parent \in load.here}
     IN  IF found = {}
         THEN Store(n, [p \in load.here |-> {}]) /\ Goto(n, "done")
         ELSE /\ load' = [load EXCEPT !.rel[n] =
                   [pc |-> IF relationCache[n].table = "guessed" THEN "failed" ELSE "rows",
                    mids |-> [i \in found |-> mid[i]]]]
              /\ UNCHANGED slots
  /\ UNCHANGED relationCache /\ Unwritten

(* The related rows, in the database's order, handed out to the parents; a single *)
(* one is the first there is.                                                 *)
Handed(kind, rows) == IF kind \in One THEN {S \in SUBSET rows : Cardinality(S) = IF rows = {} THEN 0 ELSE 1} ELSE {rows}
FoundForAnyone(n, p) ==
  LET mids == load.rel[n].mids
  IN  CASE Kind(n) \in Direct -> {r \in DOMAIN owner : owner[r] = p}
        [] Kind(n) = "belongsTo" -> {load.fk[p]} \cap DOMAIN owner
        [] OTHER -> {mids[i].related : i \in DOMAIN mids} \cap DOMAIN owner
FoundFor(n, p) ==
  LET mids == load.rel[n].mids
  IN  CASE Kind(n) \in Direct -> {r \in DOMAIN owner : owner[r] = p}
        [] Kind(n) = "belongsTo" -> {load.fk[p]} \cap DOMAIN owner
        [] Kind(n) = "belongsToMany" ->
             {mids[i].related : i \in {j \in DOMAIN mids : mids[j].parent = p}} \cap DOMAIN owner
        [] OTHER -> {r \in DOMAIN owner : owner[r] \in DOMAIN mids /\ mids[owner[r]].parent = p}
RelatedRows(n) ==
  /\ Loading(n, "rows")
  /\ \E chosen \in [load.here -> SUBSET RelatedIds] :
       /\ \A p \in load.here : chosen[p] \in Handed(Kind(n), FoundFor(n, p))
       /\ Store(n, chosen)
  /\ Goto(n, "done")
  /\ UNCHANGED relationCache /\ Unwritten

(* Promise.all: done when all are; one that fails fails the get(), and the others *)
(* go on storing on rows nobody receives.                                     *)
Loaded ==
  /\ load.pc = "loading"
  /\ \/ (\A n \in Names : load.rel[n].pc = "done") /\ load' = [load EXCEPT !.pc = "loaded"]
     \/ (\E n \in Names : load.rel[n].pc = "failed") /\ load' = [load EXCEPT !.pc = "failed"]
  /\ UNCHANGED <<relationCache, slots>> /\ Unwritten

LoadAgain ==
  /\ load.pc \in {"loaded", "failed"}
  /\ load' = NoLoad /\ slots' = <<>> /\ everMid' = {} /\ everEnd' = {} /\ always' = <<>>
  /\ UNCHANGED <<schema, known, relationCache, fk, owner, mid, pivot, changes>>

Register ==
  /\ ~known /\ known' = TRUE
  /\ UNCHANGED <<schema, relationCache, fk, owner, mid, load, slots, pivot, everMid, everEnd, always, changes>>

----------------------------------------------------------------------------
(* parent.relation(): the parent's pivot rows, joined with the related rows, under *)
(* wherePivotIn (which drops an empty list), where and limit; count() asks the     *)
(* pivot alone and knows nothing of where and limit.  A duplicate counts twice.   *)
PivotRows(p, values) == {i \in DOMAIN mid : mid[i].parent = p /\ (values = {} \/ mid[i].related \in values)}
PivotGet ==
  /\ pivot.pc = "idle" /\ load.pc = "idle"
  /\ \E p \in Parents, values, wheres \in SUBSET RelatedIds, first \in BOOLEAN :
       LET found == {i \in PivotRows(p, values) : mid[i].related \in DOMAIN owner \cap wheres}
       IN  \E ids \in Handed(IF first THEN "hasOne" ELSE "belongsToMany", found) :
             pivot' = [pc |-> "got", parent |-> p, values |-> values, all |-> ~first /\ wheres = RelatedIds,
                       ids |-> ids, rows |-> {}]
  /\ UNCHANGED <<schema, known, relationCache, fk, owner, mid, load, slots, everMid, everEnd, always, changes>>
PivotCount ==
  /\ pivot.pc = "got"
  /\ pivot' = [pivot EXCEPT !.pc = "counted", !.rows = PivotRows(pivot.parent, pivot.values)]
  /\ UNCHANGED <<schema, known, relationCache, fk, owner, mid, load, slots, everMid, everEnd, always, changes>>
PivotEnds ==
  /\ pivot.pc = "counted" /\ pivot' = [pc |-> "idle"]
  /\ UNCHANGED <<schema, known, relationCache, fk, owner, mid, load, slots, everMid, everEnd, always, changes>>

(* Others' writes; a related row takes its pivot rows along (ON DELETE CASCADE). *)
Change ==
  /\ load.pc = "loading" /\ changes < MaxChanges /\ changes' = changes + 1
  /\ \/ \E r \in DOMAIN owner :
          /\ owner' = [x \in (DOMAIN owner) \ {r} |-> owner[x]]
          /\ mid' = [i \in {j \in DOMAIN mid : mid[j].related # r} |-> mid[i]]
          /\ UNCHANGED fk
     \/ \E r \in RelatedIds \ DOMAIN owner, o \in Parents \cup MidIds :
          owner' = [x \in DOMAIN owner \cup {r} |-> IF x = r THEN o ELSE owner[x]] /\ UNCHANGED <<mid, fk>>
     \/ \E i \in DOMAIN mid, p \in Parents : mid' = [mid EXCEPT ![i].parent = p] /\ UNCHANGED <<owner, fk>>
     \/ \E i \in DOMAIN mid : mid' = [j \in (DOMAIN mid) \ {i} |-> mid[j]] /\ UNCHANGED <<owner, fk>>
     \/ \E p \in Parents, r \in DOMAIN owner : fk' = [fk EXCEPT ![p] = r] /\ UNCHANGED <<owner, mid>>
  /\ UNCHANGED <<schema, known, relationCache, load, slots, pivot>>
  /\ everMid' = everMid \cup MidLinks(mid')
  /\ everEnd' = everEnd \cup EndLinks(mid', owner')
  /\ always' = [n \in Names |-> always[n] \cap Linked(n)']

RelationNext ==
  \/ ReadParents \/ Loaded \/ LoadAgain \/ Register
  \/ \E n \in Names : Resolve(n) \/ MiddleRows(n) \/ RelatedRows(n)
  \/ PivotGet \/ PivotCount \/ PivotEnds \/ Change

----------------------------------------------------------------------------
RelationTypes ==
  /\ load.pc \in {"idle", "loading", "loaded", "failed"}
  /\ \A n \in DOMAIN relationCache : relationCache[n].kind \in Range(Kinds) \cup {"none"}
  /\ changes \in 0 .. MaxChanges

SlotPairs(n) == {pr \in Parents \X RelatedIds : pr[2] \in slots[n][pr[1]]}

OwnRelatedRows ==
  load.pc = "loaded" =>
    \A n \in Names :
      /\ SlotPairs(n) \subseteq Pairs(Kind(n), everMid, everEnd, {<<p, load.fk[p]>> : p \in load.here})
      /\ load.keyed =>
           \A p \in load.here :
             LET stayed == {l \in always[n] : l[1] = p}
             IN  IF Kind(n) \in One THEN stayed # {} => \E r \in RelatedIds : <<p, r>> \in SlotPairs(n)
                 ELSE stayed \subseteq SlotPairs(n)

(* After with() a relation is set on every row, empty where there is nothing;      *)
(* left out only where no row has the key it goes by.                           *)
EveryRowHasItsSlot ==
  load.pc = "loaded" =>
    \A n \in Names :
      \/ \A p \in load.here : slots[n][p] # Unset
      \/ ~load.keyed
      \/ Kind(n) = "belongsTo" /\ \A p \in load.here : load.fk[p] = None

(* count() and get() of a relation under the same pivot conditions agree while     *)
(* every pivot row has its row (BelongsToManyRelationBuilder), where and first     *)
(* apart, which count() does not see.                                          *)
CountIsWhatGetReturns ==
  (pivot.pc = "counted" /\ pivot.all /\ \A i \in DOMAIN mid : mid[i].related \in DOMAIN owner) =>
    pivot.rows = pivot.ids

(* What an eager load hands a parent are its own related rows: every one of them  *)
(* was linked to it (both halves of a link held during the load, for the          *)
(* relations that take two statements), and of those that stayed linked none is   *)
(* missing; a single-row relation has one whenever one stayed.  Every row gets its *)
(* slot, and the relation's own count() and get() agree.                          *)
LoadedRowsAreRelated == OwnRelatedRows /\ EveryRowHasItsSlot /\ CountIsWhatGetReturns
============================================================================
