--------------------------- MODULE ModelInstance ---------------------------
(***************************************************************************)
(* ModelInstance of orm.ts for a row that exists: several instances of one  *)
(* row, each with its attributes and its copy-on-write snapshot, used and   *)
(* saved, deleted, restored and refreshed at the same time.  Every await in *)
(* a method is a point where the application goes on with the instance, and *)
(* nothing keeps it from calling another method, or the same one again.     *)
(***************************************************************************)
EXTENDS Naturals, FiniteSets, Functions

CONSTANTS
  Instances,    \* instances of the one row
  MethodCalls,  \* method calls that may be under way at once, on any of them
  NoInstance,   \* what a call that is not made is on
  Columns,      \* its columns, deleted_at apart
  DeletedAt,    \* the column deleted_at
  Values,       \* column values; for deleted_at 0 is null and 1 a time
  Setter,       \* Setter[c][v]: the definition's `set` mutator of c (the identity if none)
  SoftDeletes,  \* the model uses soft deletes
  NoSnapshot,   \* null of _original
  NoRow,        \* the row does not exist (any more)
  MaxInstanceCalls  \* bound: changes, method calls and deletions by others in a run

All == Columns \cup {DeletedAt}

ASSUME ModelInstanceAssumption ==
  /\ DeletedAt \notin Columns /\ NoInstance \notin Instances
  /\ {0, 1} \subseteq Values
  /\ Setter \in [Columns -> [Values -> Values]]
  /\ SoftDeletes \in BOOLEAN /\ MaxInstanceCalls \in Nat
  /\ NoSnapshot \notin [All -> Values] /\ NoRow \notin [All -> Values]

VARIABLES
  stored,    \* the row in the database
  attrs,     \* _attributes
  orig,      \* _original
  target,    \* the instance a call is on
  pc,        \* its method, and how far it is
  carried,   \* what its statement carries: the changes, or the row it read
  acked,     \* ghost: what the database last confirmed to the instance, by column
  touched,   \* ghost: columns set since they were last read or saved
  meant,     \* ghost: the touched columns when a save took its changes
  since,     \* ghost: the columns changed since a save took its changes
  overtaken, \* ghost: columns changed that a save or a restore declared clean
  made       \* ghost: how many calls so far, for MaxInstanceCalls

instanceVars == <<stored, attrs, orig, target, pc, carried, acked, touched, meant, since, overtaken, made>>
calling == <<target, pc, carried, meant>>
confirmed == <<acked, touched, overtaken>>

Image == [All -> Values]
PartOfImage == UNION {[D -> Values] : D \in SUBSET All}
Nothing == [c \in {} |-> 0]

Methods == {"delete", "restore", "refresh"}
Done == {"saved", "deleted", "restored", "read"}
Sending == {"update", "saved"}

InstanceTypes ==
  /\ stored \in Image \cup {NoRow}
  /\ attrs \in [Instances -> Image]
  /\ orig \in [Instances -> Image \cup {NoSnapshot}]
  /\ target \in [MethodCalls -> Instances \cup {NoInstance}]
  /\ pc \in [MethodCalls -> {"idle", "beforeUpdate", "update"} \cup Methods \cup Done]
  /\ \A k \in MethodCalls : target[k] = NoInstance <=> pc[k] = "idle"
  /\ carried \in [MethodCalls -> PartOfImage \cup {NoRow}]
  /\ \A k \in MethodCalls : pc[k] \in Sending => carried[k] \in PartOfImage
  /\ \A k \in MethodCalls : pc[k] = "read" => carried[k] \in Image \cup {NoRow}
  /\ acked \in [Instances -> Image]
  /\ touched \in [Instances -> SUBSET Columns] /\ overtaken \in [Instances -> SUBSET Columns]
  /\ meant \in [MethodCalls -> SUBSET Columns] /\ since \in [MethodCalls -> SUBSET Columns]
  /\ made \in 0..MaxInstanceCalls

LoadedRow == [c \in All |-> 0]

InstanceInit ==
  /\ stored = LoadedRow
  /\ attrs = [i \in Instances |-> LoadedRow] /\ orig = [i \in Instances |-> NoSnapshot]
  /\ target = [k \in MethodCalls |-> NoInstance]
  /\ pc = [k \in MethodCalls |-> "idle"] /\ carried = [k \in MethodCalls |-> Nothing]
  /\ acked = attrs
  /\ touched = [i \in Instances |-> {}] /\ overtaken = [i \in Instances |-> {}]
  /\ meant = [k \in MethodCalls |-> {}] /\ since = [k \in MethodCalls |-> {}]
  /\ made = 0

Counted == made < MaxInstanceCalls /\ made' = made + 1

Enter(k, l) == pc' = [pc EXCEPT ![k] = l]
CallBegins(k, i, l) == pc[k] = "idle" /\ Enter(k, l) /\ target' = [target EXCEPT ![k] = i]
Ends(k) ==
  /\ Enter(k, "idle") /\ target' = [target EXCEPT ![k] = NoInstance]
  /\ carried' = [carried EXCEPT ![k] = Nothing] /\ meant' = [meant EXCEPT ![k] = {}]

\* Columns of instance i change under the saves that have taken their changes.
Overtakes(i, cols) ==
  since' = [k \in MethodCalls |-> IF target[k] = i /\ pc[k] \in Sending THEN since[k] \cup cols ELSE since[k]]

\* The columns getChanges() lists.
Dirty(i) == IF orig[i] = NoSnapshot THEN {} ELSE {c \in All : attrs[i][c] # orig[i][c]}

\* Mutant of Changes: the whole row is written back.
WholeRow(i) == IF Dirty(i) = {} THEN Nothing ELSE attrs[i]

\* getChanges()
Changes(i) == Restrict(attrs[i], Dirty(i))

\* Mutant of Snapshot: the first mutation takes none.
NoFirstSnapshot(i) == UNCHANGED orig

\* Copy-on-write: the first mutation keeps a copy of the attributes.
Snapshot(i) == orig' = [orig EXCEPT ![i] = IF @ = NoSnapshot THEN attrs[i] ELSE @]

----------------------------------------------------------------------------
(* set(), fill() and forceFill(): synchronous, at any time.                  *)

Set(i, c, v) ==
  /\ Counted
  /\ Snapshot(i)
  /\ attrs' = [attrs EXCEPT ![i][c] = v]
  /\ touched' = [touched EXCEPT ![i] = @ \cup {c}]
  /\ Overtakes(i, {c})
  /\ UNCHANGED <<stored, calling, acked, overtaken>>

----------------------------------------------------------------------------
(* save(), the update branch.                                              *)

\* save() up to `await hooks.beforeUpdate`: the mutators of the dirty columns.
Save(k, i) ==
  /\ Counted
  /\ CallBegins(k, i, "beforeUpdate")
  /\ attrs' = [attrs EXCEPT ![i] = [c \in All |->
       IF c \in Dirty(i) \cap Columns THEN Setter[c][attrs[i][c]] ELSE attrs[i][c]]]
  /\ Overtakes(i, {c \in Dirty(i) \cap Columns : Setter[c][attrs[i][c]] # attrs[i][c]})
  /\ UNCHANGED <<stored, orig, carried, meant, confirmed>>

\* The hook is over: the changes of this moment go out, if there are any.
SendUpdate(k, i) ==
  /\ pc[k] = "beforeUpdate" /\ target[k] = i
  /\ carried' = [carried EXCEPT ![k] = Changes(i)]
  /\ meant' = [meant EXCEPT ![k] = touched[i]]
  /\ Enter(k, IF Dirty(i) = {} THEN "saved" ELSE "update")
  /\ UNCHANGED <<stored, attrs, orig, target, since, confirmed>>

\* UPDATE ... SET the changes WHERE pk: a missing row is not noticed.
Update(k) ==
  /\ pc[k] = "update"
  /\ stored' = IF stored = NoRow THEN NoRow
            ELSE [c \in All |-> IF c \in DOMAIN carried[k] THEN carried[k][c] ELSE stored[c]]
  /\ Enter(k, "saved")
  /\ UNCHANGED <<attrs, orig, target, carried, meant, since, confirmed>>

\* The rest of save(), the afterUpdate hook included: whatever the attributes
\* are by now is the snapshot.
SaveResolves(k, i) ==
  /\ pc[k] = "saved" /\ target[k] = i
  /\ orig' = [orig EXCEPT ![i] = attrs[i]]
  /\ acked' = [acked EXCEPT ![i] = [c \in All |->
       IF c \in DOMAIN carried[k] THEN carried[k][c] ELSE acked[i][c]]]
  /\ LET done == DOMAIN carried[k] \ since[k]
     IN  /\ touched' = [touched EXCEPT ![i] = @ \ done]
         /\ overtaken' = [overtaken EXCEPT ![i] = (@ \cup since[k]) \ done]
  /\ Ends(k) /\ since' = [since EXCEPT ![k] = {}]
  /\ UNCHANGED <<stored, attrs>>

----------------------------------------------------------------------------
(* delete(), restore() and refresh().                                      *)

Call(k, i, method) ==
  /\ Counted
  /\ CallBegins(k, i, method) /\ (method = "restore" => SoftDeletes)
  /\ UNCHANGED <<stored, attrs, orig, carried, meant, since, confirmed>>

WithDeletedAt(r, v) == IF r = NoRow THEN NoRow ELSE [r EXCEPT ![DeletedAt] = v]

\* The method's statement takes effect.
Delete(k) ==
  /\ pc[k] = "delete"
  /\ stored' = IF SoftDeletes THEN WithDeletedAt(stored, 1) ELSE NoRow
  /\ Enter(k, "deleted")
  /\ UNCHANGED <<attrs, orig, target, carried, meant, since, confirmed>>

Restore(k) ==
  /\ pc[k] = "restore"
  /\ stored' = WithDeletedAt(stored, 0)
  /\ Enter(k, "restored")
  /\ UNCHANGED <<attrs, orig, target, carried, meant, since, confirmed>>

ReadRow(k) ==
  /\ pc[k] = "refresh"
  /\ carried' = [carried EXCEPT ![k] = stored]
  /\ Enter(k, "read")
  /\ UNCHANGED <<stored, attrs, orig, target, meant, since, confirmed>>

DeleteResolves(k, i) ==
  /\ pc[k] = "deleted" /\ target[k] = i
  /\ attrs' = [attrs EXCEPT ![i][DeletedAt] = IF SoftDeletes THEN 1 ELSE @]
  /\ Ends(k)
  /\ UNCHANGED <<stored, orig, since, confirmed>>

\* restore() drops the snapshot, and with it what else was dirty.
RestoreResolves(k, i) ==
  /\ pc[k] = "restored" /\ target[k] = i
  /\ attrs' = [attrs EXCEPT ![i][DeletedAt] = 0]
  /\ orig' = [orig EXCEPT ![i] = NoSnapshot]
  /\ overtaken' = [overtaken EXCEPT ![i] = @ \cup (Dirty(i) \cap Columns)]
  /\ Ends(k)
  /\ UNCHANGED <<stored, acked, touched, since>>

\* refresh() takes the row it read, whatever was set or saved since.
RefreshResolves(k, i) ==
  /\ pc[k] = "read" /\ target[k] = i
  /\ Ends(k)
  /\ IF carried[k] = NoRow THEN UNCHANGED <<attrs, orig, since, confirmed>>
     ELSE /\ attrs' = [attrs EXCEPT ![i] = carried[k]]
          /\ orig' = [orig EXCEPT ![i] = NoSnapshot]
          /\ Overtakes(i, {c \in Columns : carried[k][c] # attrs[i][c]})
          /\ acked' = [acked EXCEPT ![i] = carried[k]]
          /\ touched' = [touched EXCEPT ![i] = {}]
          /\ overtaken' = [overtaken EXCEPT ![i] = {}]
  /\ UNCHANGED stored

\* A hook or the statement rejects, before or after it took effect.
Rejects(k) ==
  /\ pc[k] # "idle"
  /\ Ends(k) /\ since' = [since EXCEPT ![k] = {}]
  /\ UNCHANGED <<stored, attrs, orig, confirmed>>

\* The steps of a call of a method of i.
Proceed(k, i) ==
  /\ \/ SendUpdate(k, i) \/ SaveResolves(k, i)
     \/ DeleteResolves(k, i) \/ RestoreResolves(k, i) \/ RefreshResolves(k, i)
     \/ target[k] = i /\ (Update(k) \/ Delete(k) \/ Restore(k) \/ ReadRow(k) \/ Rejects(k))
  /\ UNCHANGED made

\* Another client deletes the row.
OthersDelete == Counted /\ stored' = NoRow /\ UNCHANGED <<attrs, orig, calling, since, confirmed>>

InstanceNext ==
  \/ OthersDelete
  \/ \E i \in Instances :
       \/ \E c \in Columns, v \in Values : Set(i, c, v)
       \/ \E k \in MethodCalls :
            Save(k, i) \/ (\E m \in Methods : Call(k, i, m)) \/ Proceed(k, i)

InstanceSpec == InstanceInit /\ [][InstanceNext]_instanceVars

----------------------------------------------------------------------------
(* Properties.                                                             *)

\* fill() in orm.ts tells of the save() that "SILENTLY SKIPPED the UPDATE
\* statement while the in-memory instance showed the new values".  A value the
\* database has not confirmed is among the changes of the next save(), through
\* any history of overlapping saves, failures, refreshes and deletes, but for the
\* columns that changed between the moment a save took its changes and the moment
\* it resolved, or were dirty when restore() resolved: those are declared clean,
\* until a save has carried them or a refresh has read them.
UnsavedIsDirty ==
  \A i \in Instances : {c \in Columns : attrs[i][c] # acked[i][c]} \subseteq Dirty(i) \cup overtaken[i]

\* Two instances of one row do not undo each other's work: a column changes in
\* the database only by a save of an instance on which it had been set.
SavesKeepOthersColumns ==
  [][\A c \in Columns : stored # NoRow /\ stored' # NoRow /\ stored'[c] # stored[c] =>
       \E k \in MethodCalls : pc[k] = "update" /\ c \in meant[k]]_instanceVars
============================================================================
