------------------------- MODULE ModelQueries_proofs -------------------------
(***************************************************************************)
(* Proofs about the models: instances of a row, for any number of them, any  *)
(* columns, values and mutators; the executor their statements go to, for    *)
(* any configurations; the loading of relations; and the builder, whose      *)
(* statements mean the chain, for chains of any length.                      *)
(***************************************************************************)
EXTENDS ModelQueries, SharedLemmas, FiniteSetTheorems, SequenceTheorems, TLAPS

USE ModelInstanceAssumption

\* What an instance takes the database to hold in column c.
Base(i, c) == IF orig[i] = NoSnapshot THEN attrs[i][c] ELSE orig[i][c]

\* The snapshot is what the database last confirmed.
ConfirmedAt(i) == \A c \in Columns : c \notin overtaken[i] => acked[i][c] = Base(i, c)

\* Only columns that have been set are dirty.
OwnedAt(i) == \A c \in Columns : c \in Dirty(i) => c \in touched[i]

\* What a save carries had been set, and is what the attributes still are, or the
\* column has changed since; what it leaves out is what was confirmed.
CarriesAt(k) ==
  pc[k] \in Sending =>
    \A c \in Columns :
      /\ c \in DOMAIN carried[k] =>
           c \in meant[k] /\ (c \notin since[k] => carried[k][c] = attrs[target[k]][c])
      /\ c \notin DOMAIN carried[k] /\ c \notin since[k] /\ c \notin overtaken[target[k]] =>
           attrs[target[k]][c] = acked[target[k]][c]

Confirmed == \A i \in Instances : ConfirmedAt(i)
Owned == \A i \in Instances : OwnedAt(i)
Carries == \A k \in MethodCalls : CarriesAt(k)

InstanceInv == InstanceTypes /\ Confirmed /\ Owned /\ Carries

LEMMA ChangesType == ASSUME InstanceTypes, NEW i \in Instances
                     PROVE  /\ Dirty(i) \subseteq All
                            /\ Changes(i) \in PartOfImage
                            /\ DOMAIN Changes(i) = Dirty(i)
                            /\ \A c \in Dirty(i) : Changes(i)[c] = attrs[i][c]
<1>1. Dirty(i) \in SUBSET All
  BY DEF Dirty
<1>2. attrs[i] \in [All -> Values]
  BY DEF InstanceTypes, Image
<1>3. Changes(i) \in [Dirty(i) -> Values]
  BY <1>1, <1>2 DEF Changes, Restrict
<1>4. Changes(i) \in PartOfImage
  BY <1>1, <1>3 DEF PartOfImage
<1> QED BY <1>1, <1>3, <1>4 DEF Changes, Restrict

LEMMA NothingType == Nothing \in PartOfImage /\ DOMAIN Nothing = {}
<1>1. Nothing \in [{} -> Values]
  BY DEF Nothing
<1> QED BY <1>1 DEF PartOfImage, Nothing

LEMMA ImageExcept == ASSUME NEW r \in Image, NEW c \in All, NEW v \in Values
                     PROVE  [r EXCEPT ![c] = v] \in Image
BY DEF Image

LEMMA OvertakesType == ASSUME InstanceTypes, NEW i \in Instances, NEW cols \in SUBSET Columns, Overtakes(i, cols)
                       PROVE  /\ since' \in [MethodCalls -> SUBSET Columns]
                              /\ \A k \in MethodCalls : since'[k] = IF target[k] = i /\ pc[k] \in Sending
                                                                    THEN since[k] \cup cols ELSE since[k]
BY DEF InstanceTypes, Overtakes

LEMMA InstanceInvInit == InstanceInit => InstanceInv
<1> SUFFICES ASSUME InstanceInit PROVE InstanceInv
  OBVIOUS
<1>1. LoadedRow \in Image
  BY DEF LoadedRow, Image
<1>2. InstanceTypes
  BY <1>1, NothingType DEF InstanceInit, InstanceTypes, Sending
<1>3. Confirmed /\ Owned
  BY DEF InstanceInit, Confirmed, ConfirmedAt, Owned, OwnedAt, Base, Dirty
<1>4. Carries
  BY DEF InstanceInit, Carries, CarriesAt, Sending
<1> QED BY <1>2, <1>3, <1>4 DEF InstanceInv

LEMMA InstanceTypesNext == InstanceTypes /\ [InstanceNext]_instanceVars => InstanceTypes'
<1> SUFFICES ASSUME InstanceTypes, [InstanceNext]_instanceVars PROVE InstanceTypes'
  OBVIOUS
<1> USE NothingType DEF InstanceTypes, Enter, CallBegins, Ends, calling, confirmed, Counted, Methods, Done, Sending
<1>1. CASE UNCHANGED instanceVars
  BY <1>1 DEF instanceVars
<1>2. ASSUME NEW i \in Instances, NEW c \in Columns, NEW v \in Values, Set(i, c, v) PROVE InstanceTypes'
  <2>1. attrs' \in [Instances -> Image]
    BY <1>2, ImageExcept DEF Set, All
  <2>2. orig' \in [Instances -> Image \cup {NoSnapshot}]
    BY <1>2 DEF Set, Snapshot
  <2>3. touched' \in [Instances -> SUBSET Columns]
    BY <1>2 DEF Set
  <2>4. since' \in [MethodCalls -> SUBSET Columns]
    BY <1>2, OvertakesType DEF Set
  <2> QED BY <1>2, <2>1, <2>2, <2>3, <2>4 DEF Set
<1>3. ASSUME NEW i \in Instances, NEW k \in MethodCalls, Save(k, i) PROVE InstanceTypes'
  <2>1. attrs' \in [Instances -> Image]
    BY <1>3 DEF Save, Image, All
  <2>2. since' \in [MethodCalls -> SUBSET Columns]
    <3>1. {c \in Dirty(i) \cap Columns : Setter[c][attrs[i][c]] # attrs[i][c]} \in SUBSET Columns
      OBVIOUS
    <3> QED BY <1>3, <3>1, OvertakesType DEF Save
  <2>3. /\ target' \in [MethodCalls -> Instances \cup {NoInstance}]
        /\ pc' \in [MethodCalls -> {"idle", "beforeUpdate", "update"} \cup Methods \cup Done]
        /\ \A n \in MethodCalls : target'[n] = NoInstance <=> pc'[n] = "idle"
    BY <1>3 DEF Save
  <2>4. \A n \in MethodCalls : pc'[n] \in Sending \cup {"read"} => pc'[n] = pc[n]
    BY <1>3 DEF Save
  <2>5. UNCHANGED <<stored, orig, carried, meant, acked, touched, overtaken>> /\ made' \in 0..MaxInstanceCalls
    BY <1>3 DEF Save
  <2> QED BY <2>1, <2>2, <2>3, <2>4, <2>5
<1>4. ASSUME NEW i \in Instances, NEW k \in MethodCalls, SendUpdate(k, i), UNCHANGED made PROVE InstanceTypes'
  BY <1>4, ChangesType DEF SendUpdate
<1>5. ASSUME NEW k \in MethodCalls, Update(k), UNCHANGED made PROVE InstanceTypes'
  <2>1. stored' \in Image \cup {NoRow}
    BY <1>5 DEF Update, Image, PartOfImage
  <2> QED BY <1>5, <2>1 DEF Update
<1>6. ASSUME NEW i \in Instances, NEW k \in MethodCalls, SaveResolves(k, i), UNCHANGED made PROVE InstanceTypes'
  <2>1. acked' \in [Instances -> Image]
    BY <1>6 DEF SaveResolves, Image, PartOfImage
  <2>2. orig' \in [Instances -> Image \cup {NoSnapshot}]
    BY <1>6 DEF SaveResolves
  <2>3. touched' \in [Instances -> SUBSET Columns] /\ overtaken' \in [Instances -> SUBSET Columns]
    BY <1>6 DEF SaveResolves
  <2> QED BY <1>6, <2>1, <2>2, <2>3 DEF SaveResolves
<1>7. ASSUME NEW i \in Instances, NEW k \in MethodCalls, NEW m \in Methods, Call(k, i, m) PROVE InstanceTypes'
  BY <1>7 DEF Call
<1>8. ASSUME NEW k \in MethodCalls, Delete(k) \/ Restore(k), UNCHANGED made PROVE InstanceTypes'
  <2>1. stored' \in Image \cup {NoRow}
    BY <1>8, ImageExcept DEF Delete, Restore, WithDeletedAt, All
  <2> QED BY <1>8, <2>1 DEF Delete, Restore
<1>9. ASSUME NEW k \in MethodCalls, ReadRow(k), UNCHANGED made PROVE InstanceTypes'
  <2>1. stored \in PartOfImage \cup {NoRow}
    BY DEF Image, PartOfImage
  <2> QED BY <1>9, <2>1 DEF ReadRow
<1>10. ASSUME NEW i \in Instances, NEW k \in MethodCalls, DeleteResolves(k, i) \/ RestoreResolves(k, i), UNCHANGED made PROVE InstanceTypes'
  <2>1. attrs' \in [Instances -> Image]
    <3>1. attrs[i][DeletedAt] \in Values
      BY DEF Image, All
    <3>2. CASE DeleteResolves(k, i)
      BY <3>1, <3>2, ImageExcept DEF DeleteResolves, All
    <3>3. CASE RestoreResolves(k, i)
      BY <3>3, ImageExcept DEF RestoreResolves, All
    <3> QED BY <1>10, <3>2, <3>3
  <2>2. orig' \in [Instances -> Image \cup {NoSnapshot}]
    BY <1>10 DEF DeleteResolves, RestoreResolves
  <2>3. overtaken' \in [Instances -> SUBSET Columns]
    BY <1>10 DEF DeleteResolves, RestoreResolves
  <2> QED BY <1>10, <2>1, <2>2, <2>3 DEF DeleteResolves, RestoreResolves
<1>11. ASSUME NEW i \in Instances, NEW k \in MethodCalls, RefreshResolves(k, i), UNCHANGED made PROVE InstanceTypes'
  <2>1. since' \in [MethodCalls -> SUBSET Columns]
    <3>1. {c \in Columns : carried[k][c] # attrs[i][c]} \in SUBSET Columns
      OBVIOUS
    <3> QED BY <1>11, <3>1, OvertakesType DEF RefreshResolves
  <2> QED BY <1>11, <2>1 DEF RefreshResolves
<1>12. ASSUME NEW k \in MethodCalls, Rejects(k), UNCHANGED made PROVE InstanceTypes'
  BY <1>12 DEF Rejects
<1>13. CASE OthersDelete
  BY <1>13 DEF OthersDelete
<1> QED
  BY <1>1, <1>2, <1>3, <1>4, <1>5, <1>6, <1>7, <1>8, <1>9, <1>10, <1>11, <1>12, <1>13 DEF InstanceNext, Proceed

\* The part of an instance's state the invariants speak of.
Stands(i) ==
  /\ attrs'[i] = attrs[i] /\ orig'[i] = orig[i] /\ acked'[i] = acked[i]
  /\ touched'[i] = touched[i] /\ overtaken'[i] = overtaken[i]

LEMMA StandingInstance == ASSUME NEW i \in Instances, ConfirmedAt(i), OwnedAt(i), Stands(i)
                          PROVE  ConfirmedAt(i)' /\ OwnedAt(i)'
<1>1. \A c \in Columns : Base(i, c)' = Base(i, c)
  BY DEF Stands, Base
<1>2. Dirty(i)' = Dirty(i)
  BY DEF Stands, Dirty
<1> QED BY <1>1, <1>2 DEF Stands, ConfirmedAt, OwnedAt

\* A call goes on, on an instance that stands.
LEMMA StandingCall ==
  ASSUME InstanceTypes, NEW k \in MethodCalls, CarriesAt(k),
         pc'[k] \in Sending => /\ pc[k] \in Sending /\ carried'[k] = carried[k] /\ meant'[k] = meant[k]
                               /\ since'[k] = since[k] /\ target'[k] = target[k],
         pc[k] \in Sending => Stands(target[k])
  PROVE  CarriesAt(k)'
BY DEF CarriesAt, Stands

LEMMA InstanceInvNext == InstanceInv /\ [InstanceNext]_instanceVars => InstanceInv'
<1> SUFFICES ASSUME InstanceTypes, Confirmed, Owned, Carries, [InstanceNext]_instanceVars
             PROVE  Confirmed' /\ Owned' /\ Carries'
  BY InstanceTypesNext DEF InstanceInv
<1>t. /\ attrs \in [Instances -> Image] /\ orig \in [Instances -> Image \cup {NoSnapshot}]
      /\ acked \in [Instances -> Image]
      /\ touched \in [Instances -> SUBSET Columns] /\ overtaken \in [Instances -> SUBSET Columns]
      /\ target \in [MethodCalls -> Instances \cup {NoInstance}]
      /\ pc \in [MethodCalls -> {"idle", "beforeUpdate", "update"} \cup Methods \cup Done]
      /\ carried \in [MethodCalls -> PartOfImage \cup {NoRow}]
      /\ meant \in [MethodCalls -> SUBSET Columns] /\ since \in [MethodCalls -> SUBSET Columns]
      /\ NoSnapshot \notin Image
      /\ \A k \in MethodCalls : pc[k] \in Sending => target[k] \in Instances
  BY DEF InstanceTypes, Image, Sending
<1>a. /\ \A i \in Instances : ConfirmedAt(i) /\ OwnedAt(i)
      /\ \A k \in MethodCalls : CarriesAt(k)
  BY DEF Confirmed, Owned, Carries
<1> USE DEF Enter, confirmed
\* One instance changes, the calls on the others and their instances stand.
<1>b. ASSUME NEW i \in Instances, \A j \in Instances : j # i => Stands(j),
             ConfirmedAt(i)', OwnedAt(i)',
             \A n \in MethodCalls : pc'[n] \in Sending /\ target[n] # i =>
               /\ pc[n] \in Sending /\ carried'[n] = carried[n] /\ meant'[n] = meant[n] /\ target'[n] = target[n]
               /\ since'[n] = since[n],
             \A n \in MethodCalls : pc'[n] \in Sending /\ target[n] = i => CarriesAt(n)'
      PROVE  Confirmed' /\ Owned' /\ Carries'
  <2>1. ASSUME NEW j \in Instances PROVE ConfirmedAt(j)' /\ OwnedAt(j)'
    BY <1>a, <1>b, StandingInstance
  <2>2. ASSUME NEW n \in MethodCalls PROVE CarriesAt(n)'
    <3>1. CASE pc'[n] \in Sending /\ target[n] = i
      BY <1>b, <3>1
    <3>2. CASE pc'[n] \in Sending /\ target[n] # i
      <4>1. Stands(target[n])
        BY <1>t, <1>b, <3>2
      <4> QED BY <1>a, <1>b, <3>2, <4>1, StandingCall
    <3>3. CASE pc'[n] \notin Sending
      BY <3>3 DEF CarriesAt
    <3> QED BY <3>1, <3>2, <3>3
  <2> QED BY <2>1, <2>2 DEF Confirmed, Owned, Carries
\* Nothing of any instance changes; at most call d does.
<1>c. ASSUME UNCHANGED <<attrs, orig, acked, touched, overtaken>>, NEW d \in MethodCalls, CarriesAt(d)',
             \A n \in MethodCalls : n # d => /\ pc'[n] = pc[n] /\ carried'[n] = carried[n] /\ meant'[n] = meant[n]
                                             /\ target'[n] = target[n] /\ since'[n] = since[n]
      PROVE  Confirmed' /\ Owned' /\ Carries'
  <2>1. \A j \in Instances : Stands(j)
    BY <1>c DEF Stands
  <2>2. ASSUME NEW j \in Instances PROVE ConfirmedAt(j)' /\ OwnedAt(j)'
    BY <1>a, <2>1, StandingInstance
  <2>3. ASSUME NEW n \in MethodCalls, n # d PROVE CarriesAt(n)'
    <3>1. pc[n] \in Sending => Stands(target[n])
      BY <1>t, <2>1
    <3> QED BY <1>a, <1>c, <2>3, <3>1, StandingCall
  <2> QED BY <1>c, <2>2, <2>3 DEF Confirmed, Owned, Carries
<1>1. CASE UNCHANGED instanceVars \/ OthersDelete
  <2>1. UNCHANGED <<attrs, orig, acked, touched, overtaken, target, pc, carried, meant, since>>
    BY <1>1 DEF instanceVars, OthersDelete, calling
  <2> QED BY <2>1 DEF Confirmed, ConfirmedAt, Owned, OwnedAt, Carries, CarriesAt, Base, Dirty
<1>2. ASSUME NEW i \in Instances, NEW c \in Columns, NEW v \in Values, Set(i, c, v) PROVE Confirmed' /\ Owned' /\ Carries'
  <2>1. /\ attrs'[i] = [attrs[i] EXCEPT ![c] = v]
        /\ orig'[i] = IF orig[i] = NoSnapshot THEN attrs[i] ELSE orig[i]
        /\ touched'[i] = touched[i] \cup {c}
        /\ UNCHANGED <<pc, target, carried, meant, acked, overtaken>>
        /\ \A j \in Instances : j # i => Stands(j)
    BY <1>2, <1>t DEF Set, Snapshot, calling, Stands
  <2>2. \A n \in MethodCalls : since'[n] = IF target[n] = i /\ pc[n] \in Sending THEN since[n] \cup {c} ELSE since[n]
    BY <1>2, OvertakesType DEF Set
  <2>3. ConfirmedAt(i)'
    BY <1>a, <2>1, <1>t DEF ConfirmedAt, Base
  <2>4. OwnedAt(i)'
    BY <1>a, <2>1, <1>t DEF OwnedAt, Dirty, Image, All
  <2>5. ASSUME NEW n \in MethodCalls, target[n] = i, pc[n] \in Sending PROVE CarriesAt(n)'
    <3>1. CarriesAt(n) /\ since'[n] = since[n] \cup {c}
      BY <1>a, <2>2, <2>5
    <3>2. \A e \in Columns : e # c => attrs'[i][e] = attrs[i][e]
      BY <2>1, <1>t DEF Image, All
    <3> QED BY <2>1, <2>5, <3>1, <3>2 DEF CarriesAt
  <2>6. \A n \in MethodCalls : pc'[n] \in Sending =>
          /\ pc[n] \in Sending /\ carried'[n] = carried[n] /\ meant'[n] = meant[n] /\ target'[n] = target[n]
          /\ target[n] # i => since'[n] = since[n]
    BY <2>1, <2>2
  <2> QED BY <1>b, <2>1, <2>3, <2>4, <2>5, <2>6
<1>3. ASSUME NEW i \in Instances, NEW k \in MethodCalls, Save(k, i) PROVE Confirmed' /\ Owned' /\ Carries'
  <2> DEFINE Mutated == {c \in Dirty(i) \cap Columns : Setter[c][attrs[i][c]] # attrs[i][c]}
  <2>1. /\ attrs'[i] = [c \in All |-> IF c \in Dirty(i) \cap Columns THEN Setter[c][attrs[i][c]] ELSE attrs[i][c]]
        /\ pc[k] = "idle" /\ pc'[k] = "beforeUpdate"
        /\ \A n \in MethodCalls : n # k => pc'[n] = pc[n] /\ target'[n] = target[n]
        /\ UNCHANGED <<orig, carried, meant, acked, touched, overtaken>>
        /\ \A j \in Instances : j # i => Stands(j)
    BY <1>3, <1>t DEF Save, CallBegins, Stands
  <2>2. \A n \in MethodCalls : since'[n] = IF target[n] = i /\ pc[n] \in Sending THEN since[n] \cup Mutated ELSE since[n]
    BY <1>3, OvertakesType DEF Save
  <2>3. ConfirmedAt(i)'
    BY <1>a, <2>1, <1>t DEF ConfirmedAt, Base, Dirty, All
  <2>4. OwnedAt(i)'
    BY <1>a, <2>1, <1>t DEF OwnedAt, Dirty, Image
  <2>5. ASSUME NEW n \in MethodCalls, target[n] = i, pc[n] \in Sending PROVE CarriesAt(n)'
    <3>1. CarriesAt(n) /\ since'[n] = since[n] \cup Mutated /\ n # k
      BY <1>a, <2>1, <2>2, <2>5 DEF Sending
    <3>2. \A e \in Columns : e \notin Mutated => attrs'[i][e] = attrs[i][e]
      BY <2>1, <1>t DEF Image, All
    <3> QED BY <2>1, <2>5, <3>1, <3>2 DEF CarriesAt
  <2>6. \A n \in MethodCalls : pc'[n] \in Sending =>
          /\ pc[n] \in Sending /\ carried'[n] = carried[n] /\ meant'[n] = meant[n] /\ target'[n] = target[n]
          /\ target[n] # i => since'[n] = since[n]
    BY <2>1, <2>2 DEF Sending
  <2>7. ASSUME NEW n \in MethodCalls, pc'[n] \in Sending, target[n] = i PROVE CarriesAt(n)'
    BY <2>5, <2>6, <2>7
  <2> QED BY <1>b, <2>1, <2>3, <2>4, <2>6, <2>7
<1>4. ASSUME NEW i \in Instances, NEW k \in MethodCalls, SendUpdate(k, i) PROVE Confirmed' /\ Owned' /\ Carries'
  <2>1. /\ carried'[k] = Changes(i) /\ meant'[k] = touched[i] /\ target'[k] = i
        /\ UNCHANGED <<attrs, orig, acked, touched, overtaken, since, target>>
        /\ \A n \in MethodCalls : n # k => pc'[n] = pc[n] /\ carried'[n] = carried[n] /\ meant'[n] = meant[n]
    BY <1>4, <1>t DEF SendUpdate
  <2>2. DOMAIN Changes(i) = Dirty(i) /\ \A c \in Dirty(i) : Changes(i)[c] = attrs[i][c]
    BY ChangesType
  <2>3. ASSUME NEW c \in Columns, c \notin overtaken[i], c \notin Dirty(i) PROVE attrs[i][c] = acked[i][c]
    BY <1>a, <2>3 DEF ConfirmedAt, Base, Dirty, All
  <2>4. \A c \in Columns : c \in Dirty(i) => c \in touched[i]
    BY <1>a DEF OwnedAt
  <2>5. \A c \in Columns :
          /\ c \in DOMAIN carried'[k] => c \in meant'[k] /\ carried'[k][c] = attrs[i][c]
          /\ c \notin DOMAIN carried'[k] /\ c \notin overtaken[i] => attrs[i][c] = acked[i][c]
    BY <2>1, <2>2, <2>3, <2>4
  <2>6. CarriesAt(k)'
    BY <2>1, <2>5 DEF CarriesAt
  <2> QED BY <1>c, <2>1, <2>6
<1>5. ASSUME NEW k \in MethodCalls, Update(k) PROVE Confirmed' /\ Owned' /\ Carries'
  <2>1. /\ UNCHANGED <<attrs, orig, acked, touched, overtaken, since, target, carried, meant>>
        /\ pc[k] \in Sending /\ \A n \in MethodCalls : n # k => pc'[n] = pc[n]
    BY <1>5, <1>t DEF Update, Sending
  <2>2. CarriesAt(k)'
    BY <1>a, <2>1 DEF CarriesAt
  <2> QED BY <1>c, <2>1, <2>2
<1>6. ASSUME NEW i \in Instances, NEW k \in MethodCalls, SaveResolves(k, i) PROVE Confirmed' /\ Owned' /\ Carries'
  <2> DEFINE done == DOMAIN carried[k] \ since[k]
  <2>1. /\ pc[k] \in Sending /\ target[k] = i /\ pc'[k] = "idle" /\ orig'[i] = attrs[i] /\ attrs' = attrs
        /\ acked'[i] = [c \in All |-> IF c \in DOMAIN carried[k] THEN carried[k][c] ELSE acked[i][c]]
        /\ overtaken'[i] = (overtaken[i] \cup since[k]) \ done
        /\ \A n \in MethodCalls : n # k => /\ pc'[n] = pc[n] /\ target'[n] = target[n] /\ carried'[n] = carried[n]
                                           /\ meant'[n] = meant[n] /\ since'[n] = since[n]
        /\ \A j \in Instances : j # i => Stands(j)
    BY <1>6, <1>t DEF SaveResolves, Ends, Stands, Sending
  <2>2. CarriesAt(k)
    BY <1>a
  <2>3. ASSUME NEW c \in Columns
        PROVE  /\ c \in done => acked'[i][c] = attrs[i][c]
               /\ c \notin DOMAIN carried[k] => acked'[i][c] = acked[i][c]
               /\ c \notin overtaken'[i] => acked'[i][c] = attrs[i][c]
    <3>1. acked'[i][c] = IF c \in DOMAIN carried[k] THEN carried[k][c] ELSE acked[i][c]
      BY <2>1 DEF All
    <3>2. c \in done => acked'[i][c] = attrs[i][c]
      BY <2>1, <2>2, <3>1 DEF CarriesAt
    <3>3. ASSUME c \notin overtaken'[i], c \notin done PROVE acked'[i][c] = attrs[i][c]
      <4>1. c \notin overtaken[i] /\ c \notin since[k] /\ c \notin DOMAIN carried[k]
        BY <2>1, <3>3
      <4> QED BY <2>1, <2>2, <3>1, <4>1 DEF CarriesAt
    <3> QED BY <3>1, <3>2, <3>3
  <2>4. ConfirmedAt(i)'
    BY <2>1, <2>3 DEF ConfirmedAt, Base
  <2>5. OwnedAt(i)'
    BY <2>1 DEF OwnedAt, Dirty
  <2>6. ASSUME NEW n \in MethodCalls, target[n] = i, pc[n] \in Sending, n # k PROVE CarriesAt(n)'
    <3>1. CarriesAt(n)
      BY <1>a
    <3>2. \A c \in Columns : c \notin overtaken'[i] => attrs[i][c] = acked'[i][c]
      BY <2>3
    <3>3. /\ target'[n] = i /\ carried'[n] = carried[n] /\ meant'[n] = meant[n] /\ since'[n] = since[n] /\ attrs' = attrs
      BY <2>1, <2>6
    <3> QED BY <2>6, <3>1, <3>2, <3>3 DEF CarriesAt
  <2>7. \A n \in MethodCalls : pc'[n] \in Sending =>
          /\ pc[n] \in Sending /\ carried'[n] = carried[n] /\ meant'[n] = meant[n] /\ target'[n] = target[n]
          /\ target[n] # i => since'[n] = since[n]
    BY <2>1 DEF Sending
  <2>8. ASSUME NEW n \in MethodCalls, pc'[n] \in Sending, target[n] = i PROVE CarriesAt(n)'
    <3>1. n # k
      BY <2>1, <2>8 DEF Sending
    <3> QED BY <2>6, <2>7, <2>8, <3>1
  <2> QED BY <1>b, <2>1, <2>4, <2>5, <2>7, <2>8
<1>7. ASSUME NEW i \in Instances, NEW k \in MethodCalls, NEW m \in Methods, Call(k, i, m) PROVE Confirmed' /\ Owned' /\ Carries'
  <2>1. /\ UNCHANGED <<attrs, orig, acked, touched, overtaken, carried, meant, since>> /\ pc'[k] = m
        /\ \A n \in MethodCalls : n # k => pc'[n] = pc[n] /\ target'[n] = target[n]
    BY <1>7, <1>t DEF Call, CallBegins
  <2>2. CarriesAt(k)'
    BY <2>1 DEF CarriesAt, Sending, Methods
  <2> QED BY <1>c, <2>1, <2>2
<1>8. ASSUME NEW k \in MethodCalls, Delete(k) \/ Restore(k) \/ ReadRow(k) \/ Rejects(k) PROVE Confirmed' /\ Owned' /\ Carries'
  <2>1. /\ UNCHANGED <<attrs, orig, acked, touched, overtaken>> /\ pc'[k] \notin Sending
        /\ \A n \in MethodCalls : n # k => /\ pc'[n] = pc[n] /\ target'[n] = target[n] /\ since'[n] = since[n]
                                           /\ carried'[n] = carried[n] /\ meant'[n] = meant[n]
    BY <1>8, <1>t DEF Delete, Restore, ReadRow, Rejects, Ends, Sending
  <2>2. CarriesAt(k)'
    BY <2>1 DEF CarriesAt
  <2> QED BY <1>c, <2>1, <2>2
<1>9. ASSUME NEW i \in Instances, NEW k \in MethodCalls, DeleteResolves(k, i) PROVE Confirmed' /\ Owned' /\ Carries'
  <2>1. /\ \A c \in Columns : attrs'[i][c] = attrs[i][c]
        /\ UNCHANGED <<orig, acked, touched, overtaken, since>> /\ pc[k] \notin Sending /\ pc'[k] \notin Sending
        /\ \A n \in MethodCalls : n # k => /\ pc'[n] = pc[n] /\ target'[n] = target[n]
                                           /\ carried'[n] = carried[n] /\ meant'[n] = meant[n]
        /\ \A j \in Instances : j # i => Stands(j)
    BY <1>9, <1>t DEF DeleteResolves, Ends, Sending, Stands, Image, All
  <2>2. ConfirmedAt(i)' /\ OwnedAt(i)'
    BY <1>a, <2>1 DEF ConfirmedAt, OwnedAt, Base, Dirty, All
  <2>3. \A n \in MethodCalls : pc'[n] \in Sending =>
          /\ pc[n] \in Sending /\ carried'[n] = carried[n] /\ meant'[n] = meant[n] /\ target'[n] = target[n]
          /\ target[n] # i => since'[n] = since[n]
    BY <2>1
  <2>4. ASSUME NEW n \in MethodCalls, pc'[n] \in Sending, target[n] = i PROVE CarriesAt(n)'
    <3>1. CarriesAt(n)
      BY <1>a
    <3> QED BY <2>1, <2>3, <2>4, <3>1 DEF CarriesAt
  <2> QED BY <1>b, <2>1, <2>2, <2>3, <2>4
<1>10. ASSUME NEW i \in Instances, NEW k \in MethodCalls, RestoreResolves(k, i) PROVE Confirmed' /\ Owned' /\ Carries'
  <2>1. /\ \A c \in Columns : attrs'[i][c] = attrs[i][c]
        /\ orig'[i] = NoSnapshot /\ UNCHANGED <<acked, touched, since>> /\ pc[k] \notin Sending /\ pc'[k] \notin Sending
        /\ overtaken'[i] = overtaken[i] \cup (Dirty(i) \cap Columns)
        /\ \A n \in MethodCalls : n # k => /\ pc'[n] = pc[n] /\ target'[n] = target[n]
                                           /\ carried'[n] = carried[n] /\ meant'[n] = meant[n]
        /\ \A j \in Instances : j # i => Stands(j)
    BY <1>10, <1>t DEF RestoreResolves, Ends, Sending, Stands, Image, All
  <2>2. ConfirmedAt(i)'
    BY <1>a, <2>1, <1>t DEF ConfirmedAt, Base, Dirty, All
  <2>3. OwnedAt(i)'
    BY <2>1 DEF OwnedAt, Dirty
  <2>4. \A n \in MethodCalls : pc'[n] \in Sending =>
          /\ pc[n] \in Sending /\ carried'[n] = carried[n] /\ meant'[n] = meant[n] /\ target'[n] = target[n]
          /\ target[n] # i => since'[n] = since[n]
    BY <2>1
  <2>5. ASSUME NEW n \in MethodCalls, pc'[n] \in Sending, target[n] = i PROVE CarriesAt(n)'
    <3>1. CarriesAt(n)
      BY <1>a
    <3> QED BY <2>1, <2>4, <2>5, <3>1 DEF CarriesAt
  <2> QED BY <1>b, <2>1, <2>2, <2>3, <2>4, <2>5
<1>11. ASSUME NEW i \in Instances, NEW k \in MethodCalls, RefreshResolves(k, i) PROVE Confirmed' /\ Owned' /\ Carries'
  <2>1. /\ pc[k] \notin Sending /\ pc'[k] \notin Sending
        /\ \A n \in MethodCalls : n # k => /\ pc'[n] = pc[n] /\ target'[n] = target[n]
                                           /\ carried'[n] = carried[n] /\ meant'[n] = meant[n]
    BY <1>11, <1>t DEF RefreshResolves, Ends, Sending
  <2>2. CASE carried[k] = NoRow
    <3>1. UNCHANGED <<attrs, orig, since, acked, touched, overtaken>>
      BY <1>11, <2>2 DEF RefreshResolves
    <3>2. CarriesAt(k)'
      BY <2>1 DEF CarriesAt
    <3> QED BY <1>c, <2>1, <3>1, <3>2
  <2>3. CASE carried[k] # NoRow
    <3> DEFINE Replaced == {c \in Columns : carried[k][c] # attrs[i][c]}
    <3>1. /\ attrs'[i] = carried[k] /\ orig'[i] = NoSnapshot /\ acked'[i] = carried[k]
          /\ \A j \in Instances : j # i => Stands(j)
      BY <1>11, <2>3, <1>t DEF RefreshResolves, Stands
    <3>2. \A n \in MethodCalls : since'[n] = IF target[n] = i /\ pc[n] \in Sending THEN since[n] \cup Replaced ELSE since[n]
      BY <1>11, <2>3, OvertakesType DEF RefreshResolves
    <3>3. ConfirmedAt(i)' /\ OwnedAt(i)'
      BY <3>1 DEF ConfirmedAt, OwnedAt, Base, Dirty
    <3>4. ASSUME NEW n \in MethodCalls, target[n] = i, pc[n] \in Sending PROVE CarriesAt(n)'
      <4>1. CarriesAt(n) /\ since'[n] = since[n] \cup Replaced /\ n # k
        BY <1>a, <2>1, <3>2, <3>4
      <4>2. \A c \in Columns : c \notin Replaced => attrs'[i][c] = attrs[i][c]
        BY <3>1
      <4> QED BY <2>1, <3>1, <3>4, <4>1, <4>2 DEF CarriesAt
    <3>5. \A n \in MethodCalls : pc'[n] \in Sending =>
            /\ pc[n] \in Sending /\ carried'[n] = carried[n] /\ meant'[n] = meant[n] /\ target'[n] = target[n]
            /\ target[n] # i => since'[n] = since[n]
      BY <2>1, <3>2
    <3>6. ASSUME NEW n \in MethodCalls, pc'[n] \in Sending, target[n] = i PROVE CarriesAt(n)'
      BY <3>4, <3>5, <3>6
    <3> HIDE DEF Replaced
    <3> QED BY <1>b, <3>1, <3>3, <3>5, <3>6
  <2> QED BY <2>2, <2>3
<1> QED BY <1>1, <1>2, <1>3, <1>4, <1>5, <1>6, <1>7, <1>8, <1>9, <1>10, <1>11 DEF InstanceNext, Proceed

THEOREM InstanceInvariance == InstanceSpec => []InstanceInv
BY InstanceInvInit, InstanceInvNext, PTL DEF InstanceSpec

\* Every state of every run has the types InstanceTypes gives.
THEOREM TypesAreKept == InstanceSpec => []InstanceTypes
BY InstanceInvariance, PTL DEF InstanceInv

\* save() of orm.ts forgets no change, however many methods of an instance overlap:
\* what the database has not confirmed stays among the changes of the next save(),
\* but for columns changed between a save's UPDATE and its end, or dirty when a
\* restore() ended.
THEOREM NothingForgotten == InstanceSpec => []UnsavedIsDirty
<1>1. InstanceInv => UnsavedIsDirty
  BY DEF InstanceInv, Confirmed, ConfirmedAt, UnsavedIsDirty, Base, Dirty, InstanceTypes, All, Image
<1> QED BY <1>1, InstanceInvariance, PTL

\* Only a save of an instance on which a column has been set changes the column:
\* the UPDATE of save() in orm.ts carries the changed columns and no others.
THEOREM NoClobbering == InstanceSpec => SavesKeepOthersColumns
<1> DEFINE Kept == \A c \in Columns : stored # NoRow /\ stored' # NoRow /\ stored'[c] # stored[c] =>
                     \E k \in MethodCalls : pc[k] = "update" /\ c \in meant[k]
<1>1. InstanceInv /\ [InstanceNext]_instanceVars => [Kept]_instanceVars
  <2> SUFFICES ASSUME InstanceInv, InstanceNext, NEW c \in Columns, stored # NoRow, stored' # NoRow, stored'[c] # stored[c]
               PROVE  \E k \in MethodCalls : pc[k] = "update" /\ c \in meant[k]
    OBVIOUS
  <2>1. PICK i \in Instances, k \in MethodCalls : Proceed(k, i)
    BY DEF InstanceNext, OthersDelete, Set, Save, Call
  <2>2. CASE Update(k)
    <3>1. pc[k] = "update" /\ c \in DOMAIN carried[k]
      BY <2>2 DEF Update, All
    <3> QED BY <3>1 DEF InstanceInv, Carries, CarriesAt, Sending
  <2>3. CASE Delete(k) \/ Restore(k)
    BY <2>3 DEF Delete, Restore, WithDeletedAt, InstanceInv, InstanceTypes, Image, All
  <2> QED
    BY <2>1, <2>2, <2>3 DEF Proceed, SendUpdate, SaveResolves, ReadRow, DeleteResolves, RestoreResolves,
                             RefreshResolves, Rejects
<1> QED BY <1>1, InstanceInvariance, PTL DEF InstanceSpec, SavesKeepOthersColumns

HIDE ModelInstanceAssumption

----------------------------------------------------------------------------
USE OrmExecutorAssumption

(* What makes it inductive: _executor is for _executorForDb when there is one, and *)
(* for the dialect and database of the keys otherwise, unless opening that one     *)
(* failed; what a method holds is what it was given, for the configuration of then. *)
ExecutorFor(exec, global, dialect, database, stands) ==
  IF global # NoDb THEN exec.handle = global
  ELSE stands \/ (exec.dialect = dialect /\ exec.database = database)

HeldFor(m) ==
  m # NoMethod => m.config \in Configs /\ ExecutorFor(m.exec, m.global, m.config.dialect, m.config.database, m.refused)

ExecutorInv ==
  /\ config \in Configs
  /\ opened \in Nat
  /\ ExecutorTypes
  /\ executor # NoExecutor => ExecutorFor(executor, key.forDb, key.dialect, key.database, refused)
  /\ underway = [u \in Users |-> underway[u]]
  /\ \A u \in Users : HeldFor(underway[u])
  /\ StatementsGoWhereConfigured

LEMMA NoneIsZero == NoDb = 0 /\ NoExecutor.handle = 0 /\ NoMethod.exec.handle = 0
<1>1. NoDb = 0
  BY DEF NoDb
<1>2. NoExecutor.handle = NoDb
  BY DEF NoExecutor
<1>3. NoMethod.exec = NoExecutor
  BY DEF NoMethod
<1> QED BY <1>1, <1>2, <1>3

LEMMA ExecutorInvInit == ExecutorInit => ExecutorInv
<1> SUFFICES ASSUME ExecutorInit PROVE ExecutorInv
  OBVIOUS
<1>1. /\ opened = 0 /\ globalDb = 0 /\ executor = NoExecutor /\ executor.handle = 0 /\ key.forDb = 0
      /\ configs = 0 /\ refusals = 0 /\ refused = FALSE /\ reached = NoStatement /\ config \in Configs
      /\ underway = [u \in Users |-> NoMethod] /\ NoMethod.exec.handle = 0
  <2>1. /\ opened = 0 /\ globalDb = NoDb /\ executor = NoExecutor /\ configs = 0 /\ refusals = 0
        /\ refused = FALSE /\ reached = NoStatement /\ config \in Configs
        /\ underway = [u \in Users |-> NoMethod]
    BY DEF ExecutorInit
  <2>2. key = [forDb |-> NoDb, dialect |-> "none", database |-> ""]
    BY DEF ExecutorInit
  <2>3. key.forDb = NoDb
    BY <2>2
  <2> QED BY <2>1, <2>3, NoneIsZero
<1>2. ExecutorTypes
  <2>1. \A u \in Users : underway[u].exec.handle = 0
    BY <1>1
  <2>2. 0 \in 0 .. 0 /\ 0 \in 0 .. MaxConfigs /\ 0 \in 0 .. MaxRefusals
    BY OrmExecutorAssumption
  <2> QED BY <1>1, <2>1, <2>2 DEF ExecutorTypes
<1>3. \A u \in Users : HeldFor(underway[u])
  BY <1>1 DEF HeldFor
<1> QED BY <1>1, <1>2, <1>3 DEF ExecutorInv, StatementsGoWhereConfigured

\* What getExecutor returns, and leaves behind, is for the configuration there is.
LEMMA GivenExecutor ==
  ASSUME ExecutorInv, GetGlobal \/ GetFitting \/ GetNew
  PROVE  /\ opened' \in Nat /\ opened <= opened' /\ refused' \in BOOLEAN
         /\ executor'.handle \in 0 .. opened' /\ key'.forDb \in 0 .. opened'
         /\ ExecutorFor(executor', key'.forDb, key'.dialect, key'.database, refused')
         /\ ExecutorFor(executor', globalDb, config.dialect, config.database, refused')
<1>t. /\ opened \in Nat /\ globalDb \in 0 .. opened /\ executor.handle \in 0 .. opened /\ key.forDb \in 0 .. opened
      /\ refused \in BOOLEAN
      /\ executor # NoExecutor => ExecutorFor(executor, key.forDb, key.dialect, key.database, refused)
  BY DEF ExecutorInv, ExecutorTypes
<1>1. CASE GetGlobal
  <2>1. CASE executor # NoExecutor /\ key.forDb = globalDb
    <3>1. executor' = executor /\ key' = key /\ opened' = opened /\ refused' = FALSE /\ globalDb # NoDb
      BY <1>1, <2>1 DEF GetGlobal
    <3>2. executor.handle = globalDb
      BY <1>t, <2>1, <3>1 DEF ExecutorFor
    <3>3. opened <= opened
      BY <1>t
    <3>4. /\ ExecutorFor(executor, key.forDb, key.dialect, key.database, FALSE)
          /\ ExecutorFor(executor, globalDb, config.dialect, config.database, FALSE)
      BY <2>1, <3>1, <3>2 DEF ExecutorFor
    <3>5. refused' \in BOOLEAN
      BY <3>1
    <3> QED BY <1>t, <3>1, <3>3, <3>4, <3>5
  <2>2. CASE ~(executor # NoExecutor /\ key.forDb = globalDb)
    <3>1. /\ executor' = GlobalExecutor /\ opened' = opened /\ refused' = FALSE /\ globalDb # NoDb
          /\ key' = [forDb |-> globalDb, dialect |-> "sqlite", database |-> ""]
      BY <1>1, <2>2 DEF GetGlobal
    <3>2. executor'.handle = globalDb
      BY <3>1 DEF GlobalExecutor
    <3>3. key'.forDb = globalDb
      BY <3>1
    <3>4. opened \in Nat /\ opened <= opened
      BY <1>t
    <3>5. opened' \in Nat /\ opened <= opened'
      BY <3>1, <3>4
    <3>6. refused' \in BOOLEAN
      BY <3>1
    <3>7. executor'.handle \in 0 .. opened' /\ key'.forDb \in 0 .. opened'
      BY <1>t, <3>1, <3>2, <3>3
    <3>8. /\ ExecutorFor(executor', key'.forDb, key'.dialect, key'.database, refused')
          /\ ExecutorFor(executor', globalDb, config.dialect, config.database, refused')
      BY <3>1, <3>2, <3>3 DEF ExecutorFor
    <3> QED BY <3>5, <3>6, <3>7, <3>8
  <2> QED BY <2>1, <2>2
<1>2. CASE GetFitting
  <2>1. /\ UNCHANGED <<executor, key, opened, refused>> /\ globalDb = NoDb /\ executor # NoExecutor
        /\ key.forDb = NoDb /\ key.dialect = config.dialect /\ key.database = config.database
    BY <1>2 DEF GetFitting, Fits
  <2> QED BY <1>t, <2>1 DEF ExecutorFor
<1>3. CASE GetNew
  <2>1. /\ key'.forDb = NoDb /\ key'.dialect = config.dialect /\ key'.database = config.database
        /\ globalDb = NoDb /\ refused' = FALSE
    BY <1>3 DEF GetNew, KeyOfConfig
  <2>2. executor'.dialect = config.dialect /\ executor'.database = config.database
    BY <1>3 DEF GetNew
  <2>3. /\ opened' = IF config.dialect = "sqlite" THEN opened + 1 ELSE opened
        /\ executor'.handle = IF config.dialect = "sqlite" THEN opened + 1 ELSE NoDb
    BY <1>3 DEF GetNew
  <2>4. opened' \in Nat /\ opened <= opened' /\ executor'.handle \in 0 .. opened'
    BY <1>t, <2>3, NoneIsZero
  <2>5. key'.forDb \in 0 .. opened'
    BY <2>1, <2>4, NoneIsZero
  <2>6. refused' \in BOOLEAN
    BY <2>1
  <2>7. /\ ExecutorFor(executor', key'.forDb, key'.dialect, key'.database, refused')
        /\ ExecutorFor(executor', globalDb, config.dialect, config.database, refused')
    BY <2>1, <2>2 DEF ExecutorFor
  <2> QED BY <2>4, <2>5, <2>6, <2>7
<1> QED BY <1>1, <1>2, <1>3

LEMMA ExecutorInvNext == ExecutorInv /\ [ExecutorNext]_executorVars => ExecutorInv'
<1> SUFFICES ASSUME ExecutorInv, [ExecutorNext]_executorVars PROVE ExecutorInv'
  OBVIOUS
<1>t. /\ opened \in Nat /\ globalDb \in 0 .. opened /\ executor.handle \in 0 .. opened /\ key.forDb \in 0 .. opened
      /\ refused \in BOOLEAN /\ configs \in 0 .. MaxConfigs /\ refusals \in 0 .. MaxRefusals /\ config \in Configs
      /\ underway = [u \in Users |-> underway[u]]
      /\ \A u \in Users : underway[u].exec.handle \in 0 .. opened /\ HeldFor(underway[u])
      /\ executor # NoExecutor => ExecutorFor(executor, key.forDb, key.dialect, key.database, refused)
  BY DEF ExecutorInv, ExecutorTypes
<1>1. CASE UNCHANGED executorVars
  BY <1>1 DEF executorVars, ExecutorInv, ExecutorTypes, StatementsGoWhereConfigured
<1>2. CASE SetConfig
  <2>1. /\ UNCHANGED <<globalDb, executor, key, opened, underway, reached, refused, refusals>>
        /\ config' \in Configs /\ configs' \in 0 .. MaxConfigs
    BY <1>2, <1>t DEF SetConfig, Configure
  <2> QED BY <2>1, <1>t DEF ExecutorInv, ExecutorTypes, StatementsGoWhereConfigured
<1>3. CASE ConfigureOrm
  <2>1. /\ opened' = opened + 1 /\ globalDb' = opened + 1 /\ executor' = NoExecutor /\ refused' = FALSE
        /\ UNCHANGED <<config, underway, reached, refusals>> /\ configs' \in 0 .. MaxConfigs
    BY <1>3, <1>t DEF ConfigureOrm, Configure
  <2>2. executor'.handle = 0 /\ key'.forDb \in 0 .. opened'
    <3>1. key' = [key EXCEPT !.forDb = NoDb]
      BY <1>3 DEF ConfigureOrm
    <3>2. key'.forDb = NoDb \/ key'.forDb = key.forDb
      BY <3>1
    <3>3. key'.forDb \in 0 .. opened'
      BY <1>t, <2>1, <3>2, NoneIsZero
    <3>4. executor'.handle = 0
      BY <2>1, NoneIsZero
    <3> QED BY <3>3, <3>4
  <2>3. ExecutorTypes'
    <3>1. \A i \in 0 .. opened : i \in 0 .. opened'
      BY <1>t, <2>1
    <3>2. /\ globalDb' \in 0 .. opened' /\ executor'.handle \in 0 .. opened'
          /\ \A u \in Users : underway'[u].exec.handle \in 0 .. opened'
      BY <1>t, <2>1, <2>2, <3>1
    <3> QED BY <1>t, <2>1, <2>2, <3>2 DEF ExecutorTypes
  <2>4. (\A u \in Users : HeldFor(underway'[u])) /\ StatementsGoWhereConfigured'
    BY <1>t, <2>1 DEF ExecutorInv, StatementsGoWhereConfigured
  <2> QED BY <1>t, <2>1, <2>3, <2>4 DEF ExecutorInv
<1>4. CASE ConfigureOrmThrows
  <2>1. /\ UNCHANGED <<config, executor, key, underway, reached, refused>>
        /\ configs' \in 0 .. MaxConfigs /\ refusals' \in 0 .. MaxRefusals
        /\ opened' \in Nat /\ opened <= opened' /\ globalDb' \in 0 .. opened'
    BY <1>4, <1>t DEF ConfigureOrmThrows, Configure, Refuse
  <2>2. ExecutorTypes'
    BY <1>t, <2>1 DEF ExecutorTypes
  <2> QED BY <1>t, <2>1, <2>2 DEF ExecutorInv, StatementsGoWhereConfigured
<1>5. ASSUME NEW u \in Users, Begin(u) PROVE ExecutorInv'
  <2>1. /\ GetGlobal \/ GetFitting \/ GetNew
        /\ UNCHANGED <<config, globalDb, reached, configs, refusals>>
        /\ \A n \in Users : n # u => underway'[n] = underway[n]
        /\ underway' = [n \in Users |-> underway'[n]]
        /\ underway'[u] = [exec |-> executor', global |-> globalDb, config |-> config, refused |-> refused']
    BY <1>5, <1>t DEF Begin
  <2>2. /\ opened' \in Nat /\ opened <= opened' /\ refused' \in BOOLEAN
        /\ executor'.handle \in 0 .. opened' /\ key'.forDb \in 0 .. opened'
        /\ ExecutorFor(executor', key'.forDb, key'.dialect, key'.database, refused')
        /\ ExecutorFor(executor', globalDb, config.dialect, config.database, refused')
    BY <2>1, GivenExecutor
  <2>3. /\ underway'[u].exec = executor' /\ underway'[u].global = globalDb /\ underway'[u].config = config
        /\ underway'[u].refused = refused'
    BY <2>1
  <2>4. HeldFor(underway'[u]) /\ underway'[u].exec.handle \in 0 .. opened'
    BY <1>t, <2>2, <2>3 DEF HeldFor
  <2>5. \A n \in Users : HeldFor(underway'[n]) /\ underway'[n].exec.handle \in 0 .. opened'
    BY <1>t, <2>1, <2>2, <2>4
  <2>6. ExecutorTypes'
    BY <1>t, <2>1, <2>2, <2>5 DEF ExecutorTypes
  <2>7. StatementsGoWhereConfigured'
    BY <2>1 DEF ExecutorInv, StatementsGoWhereConfigured
  <2> QED BY <1>t, <2>1, <2>2, <2>5, <2>6, <2>7 DEF ExecutorInv
<1>6. ASSUME NEW u \in Users, BeginThrows(u) PROVE ExecutorInv'
  <2>1. /\ key'.forDb = NoDb /\ refused' = (executor # NoExecutor) /\ refusals' \in 0 .. MaxRefusals
        /\ UNCHANGED <<config, globalDb, executor, opened, underway, reached, configs>>
    BY <1>6, <1>t DEF BeginThrows, KeyOfConfig, Refuse
  <2>2. executor' # NoExecutor => ExecutorFor(executor', key'.forDb, key'.dialect, key'.database, refused')
    BY <2>1 DEF ExecutorFor
  <2>3. ExecutorTypes'
    <3>1. key'.forDb \in 0 .. opened
      BY <1>t, <2>1, NoneIsZero
    <3>2. refused' \in BOOLEAN
      BY <2>1
    <3> QED BY <1>t, <2>1, <3>1, <3>2 DEF ExecutorTypes
  <2>4. StatementsGoWhereConfigured'
    BY <2>1 DEF ExecutorInv, StatementsGoWhereConfigured
  <2> QED BY <1>t, <2>1, <2>2, <2>3, <2>4 DEF ExecutorInv
<1>7. ASSUME NEW u \in Users, Statement(u) PROVE ExecutorInv'
  <2> DEFINE m == underway[u]
  <2>1. /\ m # NoMethod /\ reached'.of = m /\ reached'.handle = m.exec.handle /\ reached'.text = m.exec.dialect
        /\ reached'.now = config
        /\ reached'.at = IF m.exec.handle = NoDb THEN config ELSE [dialect |-> m.exec.dialect, database |-> m.exec.database]
        /\ UNCHANGED <<config, globalDb, executor, key, opened, underway, refused, configs, refusals>>
    BY <1>7 DEF Statement
  <2>2. HeldFor(m)
    BY <1>t
  <2> HIDE DEF m
  <2>3. StatementsGoWhereConfigured'
    <3>1. CASE m.global # NoDb
      BY <2>1, <2>2, <3>1 DEF HeldFor, ExecutorFor, StatementsGoWhereConfigured
    <3>2. CASE m.global = NoDb /\ ~m.refused
      <4>1. m.exec.dialect = m.config.dialect /\ m.exec.database = m.config.database /\ m.config \in Configs
        BY <2>1, <2>2, <3>2 DEF HeldFor, ExecutorFor
      <4>2. m.config = [dialect |-> m.exec.dialect, database |-> m.exec.database]
        BY <4>1 DEF Configs
      <4> QED BY <2>1, <3>2, <4>1, <4>2 DEF StatementsGoWhereConfigured
    <3>3. CASE m.global = NoDb /\ m.refused
      BY <2>1, <3>3 DEF StatementsGoWhereConfigured
    <3> QED BY <3>1, <3>2, <3>3
  <2> QED BY <1>t, <2>1, <2>3 DEF ExecutorInv, ExecutorTypes
<1>8. ASSUME NEW u \in Users, End(u) PROVE ExecutorInv'
  <2>1. /\ UNCHANGED <<config, globalDb, executor, key, opened, reached, refused, configs, refusals>>
        /\ underway' = [n \in Users |-> underway'[n]]
        /\ \A n \in Users : underway'[n] = underway[n] \/ underway'[n] = NoMethod
    BY <1>8, <1>t DEF End
  <2>3. \A n \in Users : HeldFor(underway'[n]) /\ underway'[n].exec.handle \in 0 .. opened'
    BY <1>t, <2>1, NoneIsZero DEF HeldFor
  <2>4. ExecutorTypes'
    BY <1>t, <2>1, <2>3 DEF ExecutorTypes
  <2>5. StatementsGoWhereConfigured'
    BY <2>1 DEF ExecutorInv, StatementsGoWhereConfigured
  <2> QED BY <1>t, <2>1, <2>3, <2>4, <2>5 DEF ExecutorInv
<1> QED BY <1>1, <1>2, <1>3, <1>4, <1>5, <1>6, <1>7, <1>8 DEF ExecutorNext

\* A statement of a model goes where the configuration said when its method began,
\* whatever is configured in between, with setConfig or a Database of one's own, and
\* whichever methods are under way, but for methods that began with the executor of
\* before because the configured database could not be opened (getExecutor).
THEOREM ConfiguredExecutor == ExecutorSpec => []StatementsGoWhereConfigured
<1>1. ExecutorInv => StatementsGoWhereConfigured
  BY DEF ExecutorInv
<1> QED BY <1>1, ExecutorInvInit, ExecutorInvNext, PTL DEF ExecutorSpec

HIDE OrmExecutorAssumption

----------------------------------------------------------------------------
(* What makes LoadedRowsAreRelated inductive, RelatedInv: everything a pending    *)
(* relation has read was true at a moment of the load (MidsOk: the rows of the    *)
(* first statement, and through them goes whatever link has stayed); a relation   *)
(* that is done handed over links that held and, where its key was there to read, *)
(* every link that stayed (HandedOver); a cached guess is about the table and     *)
(* never about the kind (CacheOk); and the rows pivot() is about to answer with   *)
(* are the pivot rows there are (PivotOk).                                        *)

TwoSteps == {"belongsToMany"} \cup Through
MidRows == [parent : Parents, related : RelatedIds]

\* Pivot rows refer to related rows that there are.
TablesOk ==
  /\ fk \in [Parents -> RelatedIds \cup {None}]
  /\ DOMAIN owner \subseteq RelatedIds
  /\ DOMAIN mid \subseteq MidIds /\ mid \in [DOMAIN mid -> MidRows]
  /\ \A i \in DOMAIN mid : mid[i].related \in DOMAIN owner

\* A guess is about the table only, never about the kind.
CacheOk == \A n \in DOMAIN relationCache : n \in Names /\ relationCache[n].kind = Kind(n)

MidsRead == {<<>>} \cup UNION {[S -> MidRows] : S \in SUBSET MidIds}
Loads ==
  [pc : {"loading", "loaded", "failed"}, here : SUBSET Parents, keyed : BOOLEAN,
   fk : [Parents -> RelatedIds \cup {None}],
   rel : [Names -> [pc : {"resolve", "middle", "rows", "done", "failed"}, mids : MidsRead]]]

LoadShape ==
  load.pc # "idle" =>
    /\ load \in Loads /\ slots \in [Names -> [Parents -> SUBSET (RelatedIds \cup {None})]]
    /\ \A n \in Names : always[n] \subseteq Parents \X RelatedIds

\* What holds at this moment has held during the load, and what held all along
\* holds; the keys of the parents are those they were read with.
GhostsOk ==
  /\ load.pc # "idle" =>
       \A n \in Names : Kind(n) = "belongsTo" => \A l \in always[n] : l[2] = load.fk[l[1]]
  /\ load.pc = "loading" =>
       /\ MidLinks(mid) \subseteq everMid /\ EndLinks(mid, owner) \subseteq everEnd
       /\ \A n \in Names : always[n] \subseteq Linked(n)

\* The rows of the first statement: what they say held, and through them goes
\* whatever has stayed.
MidsOk(n) ==
  LET mids == load.rel[n].mids
  IN  /\ DOMAIN mids \subseteq MidIds /\ mids \in [DOMAIN mids -> MidRows]
      /\ \A i \in DOMAIN mids :
           /\ <<mids[i].parent, i>> \in everMid
           /\ Kind(n) = "belongsToMany" => <<"pivot", i, mids[i].related>> \in everEnd
      /\ \A l \in always[n] : l[1] \in load.here =>
           IF Kind(n) = "belongsToMany"
           THEN \E i \in DOMAIN mids : mids[i].parent = l[1] /\ mids[i].related = l[2]
           ELSE owner[l[2]] \in DOMAIN mids /\ mids[owner[l[2]]].parent = l[1]

StayedAreThere(n, p) ==
  LET stayed == {l \in always[n] : l[1] = p}
  IN  IF Kind(n) \in One THEN stayed # {} => \E r \in RelatedIds : <<p, r>> \in SlotPairs(n)
      ELSE stayed \subseteq SlotPairs(n)

HandedOver(n) ==
  /\ SlotPairs(n) \subseteq Pairs(Kind(n), everMid, everEnd, {<<p, load.fk[p]>> : p \in load.here})
  /\ load.keyed => \A p \in load.here : StayedAreThere(n, p)
  /\ \/ \A p \in load.here : slots[n][p] # Unset
     \/ ~load.keyed
     \/ Kind(n) = "belongsTo" /\ \A p \in load.here : load.fk[p] = None

RelationOk(n) ==
  LET at == load.rel[n].pc
  IN  /\ at \in {"resolve", "middle", "rows"} => slots[n] = Unloaded
      /\ at \in {"middle", "rows"} => n \in DOMAIN relationCache /\ load.keyed /\ Kind(n) # "none"
      /\ at = "middle" => Kind(n) \in TwoSteps
      /\ at = "rows" /\ Kind(n) \in TwoSteps => MidsOk(n)
      /\ at = "done" => HandedOver(n)

PivotOk ==
  /\ pivot.pc \in {"idle", "got", "counted"}
  /\ pivot.pc # "idle" =>
       /\ load.pc = "idle"
       /\ pivot \in [pc : {"got", "counted"}, parent : Parents, values : SUBSET RelatedIds, all : BOOLEAN,
                     ids : SUBSET MidIds, rows : SUBSET MidIds]
       /\ pivot.all => pivot.ids = PivotRows(pivot.parent, pivot.values)
  /\ pivot.pc = "counted" => pivot.rows = PivotRows(pivot.parent, pivot.values)

RelatedInv ==
  /\ load.pc \in {"idle", "loading", "loaded", "failed"} /\ changes \in 0 .. MaxChanges
  /\ TablesOk /\ CacheOk /\ LoadShape /\ GhostsOk /\ PivotOk
  /\ load.pc # "idle" => \A n \in Names : RelationOk(n)
  /\ load.pc = "loaded" => \A n \in Names : load.rel[n].pc = "done"

RelationPcs == {"resolve", "middle", "rows", "done", "failed"}
AllKinds == {"hasMany", "hasOne", "belongsTo", "belongsToMany", "hasManyThrough", "hasOneThrough", "none"}

USE ModelRelationsAssumption

LEMMA KindIs == ASSUME NEW declared, NEW registered
                PROVE  ResolveRelation(declared, registered).kind \in AllKinds
<1> DEFINE order == {i \in DOMAIN Kinds : Kinds[i] \in declared}
<1>1. DOMAIN Kinds = 1 .. 6 /\ \A i \in 1 .. 6 : Kinds[i] \in AllKinds
  BY DEF Kinds, AllKinds
<1>2. CASE order = {}
  BY <1>2 DEF ResolveRelation, AllKinds
<1>3. CASE order # {}
  <2>1. order \subseteq Nat
    BY <1>1
  <2>2. PICK m \in order : \A i \in order : m <= i
    BY <1>3, <2>1, LeastNumber
  <2>3. Min(order) \in order
    BY <2>2 DEF Min
  <2> QED BY <1>1, <1>3, <2>3 DEF ResolveRelation
<1> QED BY <1>2, <1>3

LEMMA KindOf == ASSUME NEW n PROVE Kind(n) \in AllKinds
BY KindIs DEF Kind

LEMMA KindTypes == AllKinds \subseteq Range(Kinds) \cup {"none"}
<1>1. DOMAIN Kinds = 1 .. 6
  BY DEF Kinds
<1> SUFFICES ASSUME NEW k \in AllKinds, k # "none" PROVE \E i \in 1 .. 6 : Kinds[i] = k
  BY <1>1 DEF Range
<1>2. /\ Kinds[1] = "hasMany" /\ Kinds[2] = "hasOne" /\ Kinds[3] = "belongsTo"
      /\ Kinds[4] = "belongsToMany" /\ Kinds[5] = "hasManyThrough" /\ Kinds[6] = "hasOneThrough"
  BY DEF Kinds
<1> QED BY <1>2 DEF AllKinds

\* What a link is.
LEMMA LinksMean ==
  ASSUME NEW m, NEW o, NEW f, DOMAIN o \subseteq RelatedIds, NEW kind \in AllKinds, NEW p, NEW r,
         <<p, r>> \in Pairs(kind, MidLinks(m), EndLinks(m, o), KeyLinks(f, o))
  PROVE  /\ p \in Parents /\ r \in DOMAIN o /\ r \in RelatedIds
         /\ kind \in Direct => o[r] = p
         /\ kind = "belongsTo" => r = f[p]
         /\ kind = "belongsToMany" => \E i \in DOMAIN m : m[i].parent = p /\ m[i].related = r
         /\ kind \in Through => o[r] \in DOMAIN m /\ m[o[r]].parent = p
<1>1. ASSUME NEW i, NEW x, <<"pivot", i, x>> \in EndLinks(m, o)
      PROVE  i \in DOMAIN m /\ m[i].related = x /\ x \in DOMAIN o
  BY <1>1 DEF EndLinks
<1>2. ASSUME NEW i, NEW x, <<"own", i, x>> \in EndLinks(m, o)
      PROVE  x \in DOMAIN o /\ o[x] = i
  BY <1>2 DEF EndLinks
<1>3. ASSUME NEW i, <<p, i>> \in MidLinks(m) PROVE i \in DOMAIN m /\ m[i].parent = p
  BY <1>3 DEF MidLinks
<1>4. CASE kind = "none"
  <2>1. \A l, e, keys : Pairs("none", l, e, keys) = {}
    BY DEF Pairs, Direct
  <2> QED BY <1>4, <2>1
<1>5. CASE kind = "belongsTo"
  BY <1>5 DEF Pairs, KeyLinks, Direct, Through
<1>6. CASE kind \in Direct
  <2>1. p \in Parents /\ <<"own", p, r>> \in EndLinks(m, o)
    BY <1>6 DEF Pairs, Direct
  <2> QED BY <1>2, <1>6, <2>1 DEF Direct, Through
<1>7. CASE kind = "belongsToMany"
  <2>1. p \in Parents /\ \E i \in MidIds : <<p, i>> \in MidLinks(m) /\ <<"pivot", i, r>> \in EndLinks(m, o)
    BY <1>7 DEF Pairs, Direct
  <2> QED BY <1>1, <1>3, <1>7, <2>1 DEF Direct, Through
<1>8. CASE kind \in Through
  <2>1. p \in Parents /\ \E i \in MidIds : <<p, i>> \in MidLinks(m) /\ <<"own", i, r>> \in EndLinks(m, o)
    BY <1>8 DEF Pairs, Direct, Through
  <2> QED BY <1>2, <1>3, <1>8, <2>1 DEF Direct, Through
<1> QED BY <1>4, <1>5, <1>6, <1>7, <1>8 DEF AllKinds, Direct, Through

LEMMA LinkedMeans ==
  ASSUME TablesOk, NEW n, NEW p, NEW r, <<p, r>> \in Linked(n)
  PROVE  /\ p \in Parents /\ r \in DOMAIN owner /\ r \in RelatedIds
         /\ Kind(n) \in Direct => owner[r] = p
         /\ Kind(n) = "belongsTo" => r = fk[p]
         /\ Kind(n) = "belongsToMany" => \E i \in DOMAIN mid : mid[i].parent = p /\ mid[i].related = r
         /\ Kind(n) \in Through => owner[r] \in DOMAIN mid /\ mid[owner[r]].parent = p
<1>1. Kind(n) \in AllKinds /\ DOMAIN owner \subseteq RelatedIds
  BY KindOf DEF TablesOk
<1>2. <<p, r>> \in Pairs(Kind(n), MidLinks(mid), EndLinks(mid, owner), KeyLinks(fk, owner))
  BY DEF Linked
<1> QED BY <1>1, <1>2, LinksMean

LEMMA LinkedArePairs ==
  ASSUME DOMAIN owner \subseteq RelatedIds, NEW n PROVE Linked(n) \subseteq Parents \X RelatedIds
<1>1. KeyLinks(fk, owner) \subseteq Parents \X RelatedIds
  BY DEF KeyLinks
<1>2. ASSUME NEW kind \in AllKinds, NEW m, NEW e, NEW keys, keys \subseteq Parents \X RelatedIds
      PROVE  Pairs(kind, m, e, keys) \subseteq Parents \X RelatedIds
  BY <1>2 DEF Pairs, AllKinds, Direct
<1> QED BY <1>1, <1>2, KindOf DEF Linked

LEMMA PairsGrow ==
  ASSUME NEW kind \in AllKinds, NEW m1, NEW m2, NEW e1, NEW e2, NEW keys, m1 \subseteq m2, e1 \subseteq e2
  PROVE  Pairs(kind, m1, e1, keys) \subseteq Pairs(kind, m2, e2, keys)
<1>1. CASE kind \in {"none", "belongsTo"}
  BY <1>1 DEF Pairs
<1>2. CASE kind \in Direct
  BY <1>2 DEF Pairs, Direct
<1>3. CASE kind \in TwoSteps
  BY <1>3 DEF Pairs, TwoSteps, Through, Direct
<1> QED BY <1>1, <1>2, <1>3 DEF AllKinds, Direct, TwoSteps, Through

\* One relation's load moves on; the others and the tables stay.
LEMMA OneMoves ==
  ASSUME RelatedInv, NEW n \in Names, load.pc = "loading",
         NEW at \in RelationPcs, NEW mids \in MidsRead,
         load' = [load EXCEPT !.rel[n] = [pc |-> at, mids |-> mids]], Unwritten,
         slots' \in [Names -> [Parents -> SUBSET (RelatedIds \cup {None})]],
         \A m \in Names \ {n} : slots'[m] = slots[m],
         CacheOk', DOMAIN relationCache \subseteq DOMAIN relationCache',
         RelationOk(n)'
  PROVE  RelatedInv'
<1>1. load \in Loads /\ DOMAIN load.rel = Names
  BY DEF RelatedInv, LoadShape, Loads
<1>2. /\ load' \in Loads /\ load'.pc = load.pc /\ load'.here = load.here /\ load'.keyed = load.keyed
      /\ load'.fk = load.fk /\ \A m \in Names \ {n} : load'.rel[m] = load.rel[m]
  <2>1. [pc |-> at, mids |-> mids] \in [pc : RelationPcs, mids : MidsRead]
    OBVIOUS
  <2> QED BY <1>1, <2>1 DEF Loads, RelationPcs
<1>3. Names' = Names /\ \A m : Kind(m)' = Kind(m)
  BY DEF Unwritten, Names, Kind
<1>4. \A m \in Names : Linked(m)' = Linked(m)
  BY <1>3 DEF Unwritten, Linked
<1>5. TablesOk' /\ changes' \in 0 .. MaxChanges
  BY DEF Unwritten, TablesOk, RelatedInv
<1>6. LoadShape'
  BY <1>1, <1>2, <1>3 DEF LoadShape, RelatedInv, Unwritten, Loads
<1>7. GhostsOk'
  BY <1>2, <1>3, <1>4 DEF GhostsOk, RelatedInv, Unwritten
<1>8. PivotOk'
  BY <1>2 DEF PivotOk, RelatedInv, Unwritten, PivotRows
<1>9. ASSUME NEW m \in Names, m # n PROVE RelationOk(m)'
  <2>1. RelationOk(m)
    BY DEF RelatedInv
  <2>2. /\ slots'[m] = slots[m] /\ load'.rel[m] = load.rel[m] /\ load'.here = load.here /\ load'.keyed = load.keyed
        /\ load'.fk = load.fk /\ Kind(m)' = Kind(m) /\ owner' = owner /\ always' = always
        /\ everMid' = everMid /\ everEnd' = everEnd
    BY <1>2, <1>3, <1>9 DEF Unwritten
  <2>3. MidsOk(m) => MidsOk(m)'
    BY <2>2 DEF MidsOk
  <2>4. SlotPairs(m)' = SlotPairs(m)
    BY <2>2 DEF SlotPairs
  <2>5. HandedOver(m) => HandedOver(m)'
    BY <2>2, <2>4 DEF HandedOver, StayedAreThere
  <2> QED BY <2>1, <2>2, <2>3, <2>5 DEF RelationOk
<1>10. load'.pc \in {"idle", "loading", "loaded", "failed"}
  BY <1>2
<1> QED BY <1>3, <1>5, <1>6, <1>7, <1>8, <1>9, <1>10 DEF RelatedInv

LEMMA GotoIs ==
  ASSUME load \in Loads, NEW n \in Names, NEW at \in RelationPcs, Goto(n, at)
  PROVE  /\ load.rel[n].mids \in MidsRead
         /\ load' = [load EXCEPT !.rel[n] = [pc |-> at, mids |-> load.rel[n].mids]]
<1>1. load.rel[n] \in [pc : RelationPcs, mids : MidsRead]
  BY DEF Loads, RelationPcs
<1>2. [load.rel[n] EXCEPT !.pc = at] = [pc |-> at, mids |-> load.rel[n].mids]
  BY <1>1
<1>3. load' = [load EXCEPT !.rel[n] = [load.rel[n] EXCEPT !.pc = at]]
  BY DEF Goto
<1> QED BY <1>1, <1>2, <1>3

LEMMA ReadAs ==
  ASSUME load \in Loads, NEW n \in Names, NEW v, load' = [load EXCEPT !.rel[n] = v], Unwritten
  PROVE  /\ load'.here = load.here /\ load'.keyed = load.keyed /\ load'.fk = load.fk /\ load'.rel[n] = v
         /\ Names' = Names /\ Kind(n)' = Kind(n) /\ owner' = owner /\ always' = always
         /\ everMid' = everMid /\ everEnd' = everEnd
BY DEF Loads, Unwritten, Names, Kind

\* Where nothing has been handed out nothing wrong has been.
LEMMA NothingHanded ==
  ASSUME NEW n \in Names, slots[n] = Unloaded PROVE SlotPairs(n) = {}
<1> SUFFICES ASSUME NEW p \in Parents, NEW r \in RelatedIds, r \in slots[n][p] PROVE FALSE
  BY DEF SlotPairs
<1>1. slots[n][p] = {None}
  BY DEF Unloaded, Unset
<1> QED BY <1>1

LEMMA ResolveKeeps ==
  ASSUME RelatedInv, NEW n \in Names, Resolve(n)
  PROVE  RelatedInv'
<1> DEFINE rel == IF n \in DOMAIN relationCache THEN relationCache[n] ELSE ResolveRelation(schema[n], known)
           ids == IF ~load.keyed THEN {}
                  ELSE IF rel.kind = "belongsTo" THEN {p \in load.here : load.fk[p] # None} ELSE load.here
           at == IF rel.kind = "none" THEN "failed"
                 ELSE IF ids = {} THEN "done"
                 ELSE IF rel.kind \in {"belongsToMany"} \cup Through THEN "middle"
                 ELSE IF rel.table = "guessed" THEN "failed" ELSE "rows"
<1>1. /\ load.pc = "loading" /\ load.rel[n].pc = "resolve" /\ Goto(n, at) /\ slots' = slots /\ Unwritten
      /\ relationCache' = [m \in DOMAIN relationCache \cup {n} |-> IF m = n THEN rel ELSE relationCache[m]]
  BY DEF Resolve, Loading
<1>2. rel.kind = Kind(n)
  BY DEF RelatedInv, CacheOk, Kind, ResolveRelation
<1>3. at \in RelationPcs
  BY DEF RelationPcs
<1>4. load \in Loads /\ slots \in [Names -> [Parents -> SUBSET (RelatedIds \cup {None})]] /\ slots[n] = Unloaded
  BY <1>1 DEF RelatedInv, LoadShape, RelationOk
<1>5. /\ load.rel[n].mids \in MidsRead
      /\ load' = [load EXCEPT !.rel[n] = [pc |-> at, mids |-> load.rel[n].mids]]
  BY <1>1, <1>3, <1>4, GotoIs
<1>6. /\ load'.here = load.here /\ load'.keyed = load.keyed /\ load'.fk = load.fk
      /\ load'.rel[n] = [pc |-> at, mids |-> load.rel[n].mids]
      /\ Names' = Names /\ Kind(n)' = Kind(n) /\ owner' = owner /\ always' = always
      /\ everMid' = everMid /\ everEnd' = everEnd
  <2> HIDE DEF at, ids, rel
  <2> QED BY <1>1, <1>4, <1>5, ReadAs
<1>7. CacheOk' /\ DOMAIN relationCache \subseteq DOMAIN relationCache' /\ n \in DOMAIN relationCache'
  <2>1. \A m : Kind(m)' = Kind(m)
    BY <1>1 DEF Unwritten, Kind
  <2> QED BY <1>1, <1>2, <1>6, <2>1 DEF CacheOk, RelatedInv
<1>8. load'.rel[n].pc = at
  BY <1>6
<1>9. at = "middle" => Kind(n) \in TwoSteps
  BY <1>2 DEF TwoSteps
<1>10. at = "rows" => Kind(n) \notin TwoSteps
  BY <1>2 DEF TwoSteps
<1>11. at \in {"middle", "rows"} => ids # {} /\ Kind(n) # "none"
  <2> HIDE DEF ids, rel
  <2>1. rel.kind = "none" => at = "failed"
    OBVIOUS
  <2>2. ids = {} => at \in {"failed", "done"}
    OBVIOUS
  <2> HIDE DEF at
  <2> QED BY <1>2, <2>1, <2>2
<1>12. at = "done" => ids = {}
  OBVIOUS
<1>13. ids # {} => load.keyed
  OBVIOUS
<1>14. ASSUME ids = {}, load.keyed, NEW p \in load.here PROVE Kind(n) = "belongsTo" /\ load.fk[p] = None
  <2>1. ids = IF Kind(n) = "belongsTo" THEN {q \in load.here : load.fk[q] # None} ELSE load.here
    BY <1>2, <1>14
  <2> HIDE DEF ids
  <2> QED BY <1>14, <2>1
<1> HIDE DEF at, ids, rel
<1>15. ASSUME ids = {} PROVE HandedOver(n)'
  <2>1. SlotPairs(n) = {} /\ SlotPairs(n)' = SlotPairs(n)
    BY <1>1, <1>4, NothingHanded DEF SlotPairs
  <2>2. ASSUME load.keyed, NEW p \in load.here PROVE {l \in always[n] : l[1] = p} = {} /\ Kind(n) \in One
    <3>1. Kind(n) = "belongsTo" /\ load.fk[p] = None
      BY <1>14, <1>15, <2>2
    <3>2. ASSUME NEW l \in always[n], l[1] = p PROVE FALSE
      <4>1. l[2] = None
        BY <1>1, <3>1, <3>2 DEF RelatedInv, GhostsOk
      <4>2. l[2] \in RelatedIds
        BY <1>1 DEF RelatedInv, LoadShape
      <4> QED BY <4>1, <4>2
    <3> QED BY <3>1, <3>2 DEF One
  <2>3. load.keyed => \A p \in load.here : StayedAreThere(n, p)'
    BY <1>6, <2>2 DEF StayedAreThere
  <2>4. ~load.keyed \/ (\A p \in load.here : slots'[n][p] # Unset) \/ (Kind(n) = "belongsTo" /\ \A p \in load.here : load.fk[p] = None)
    BY <1>14, <1>15
  <2> QED BY <1>6, <2>1, <2>3, <2>4 DEF HandedOver
<1>16. RelationOk(n)'
  BY <1>1, <1>4, <1>6, <1>7, <1>8, <1>9, <1>10, <1>11, <1>12, <1>13, <1>15 DEF RelationOk
<1> QED BY <1>1, <1>3, <1>4, <1>5, <1>7, <1>16, OneMoves

\* Slots of one relation are filled for the parents that were read.
LEMMA StoreIs ==
  ASSUME slots \in [Names -> [Parents -> SUBSET (RelatedIds \cup {None})]], NEW n \in Names,
         slots[n] = Unloaded, NEW of, \A p \in load.here : of[p] \in SUBSET RelatedIds, Store(n, of)
  PROVE  /\ slots' \in [Names -> [Parents -> SUBSET (RelatedIds \cup {None})]]
         /\ \A m \in Names \ {n} : slots'[m] = slots[m]
         /\ \A p \in Parents : slots'[n][p] = IF p \in load.here THEN of[p] ELSE {None}
<1> DEFINE new == [p \in Parents |-> IF p \in load.here THEN of[p] ELSE slots[n][p]]
<1>1. slots' = [slots EXCEPT ![n] = new]
  BY DEF Store
<1>2. new \in [Parents -> SUBSET (RelatedIds \cup {None})]
  <2> SUFFICES ASSUME NEW p \in Parents
               PROVE  (IF p \in load.here THEN of[p] ELSE slots[n][p]) \in SUBSET (RelatedIds \cup {None})
    OBVIOUS
  <2>1. CASE p \in load.here
    BY <2>1
  <2>2. CASE p \notin load.here
    BY <2>2
  <2> QED BY <2>1, <2>2
<1>3. \A p \in Parents : new[p] = IF p \in load.here THEN of[p] ELSE {None}
  BY DEF Unloaded, Unset
<1> HIDE DEF new
<1>4. slots'[n] = new /\ \A m \in Names \ {n} : slots'[m] = slots[m]
  BY <1>1
<1> QED BY <1>1, <1>2, <1>3, <1>4

\* What has been handed out, once the parents got what `of' says.
LEMMA HandedOut ==
  ASSUME NEW n \in Names, NEW of, \A p \in load.here : of[p] \in SUBSET RelatedIds, load.here \subseteq Parents,
         \A p \in Parents : slots'[n][p] = (IF p \in load.here THEN of[p] ELSE {None}),
         load'.here = load.here, load'.keyed = load.keyed, load'.fk = load.fk,
         Kind(n)' = Kind(n), always' = always, everMid' = everMid, everEnd' = everEnd,
         \A p \in load.here : \A r \in of[p] :
           <<p, r>> \in Pairs(Kind(n), everMid, everEnd, {<<q, load.fk[q]>> : q \in load.here}),
         always[n] \subseteq Parents \X RelatedIds,
         \A p \in load.here :
           IF Kind(n) \in One THEN (\E r : <<p, r>> \in always[n]) => of[p] # {}
           ELSE \A r : <<p, r>> \in always[n] => r \in of[p]
  PROVE  HandedOver(n)'
<1>1. SlotPairs(n)' = {pr \in Parents \X RelatedIds : pr[1] \in load.here /\ pr[2] \in of[pr[1]]}
  <2>1. \A pr \in Parents \X RelatedIds :
          pr[2] \in slots'[n][pr[1]] <=> pr[1] \in load.here /\ pr[2] \in of[pr[1]]
    OBVIOUS
  <2> QED BY <2>1 DEF SlotPairs
<1>2. SlotPairs(n)' \subseteq Pairs(Kind(n), everMid, everEnd, {<<p, load.fk[p]>> : p \in load.here})
  BY <1>1
<1>3. ASSUME NEW p \in load.here PROVE StayedAreThere(n, p)'
  <2>1. CASE Kind(n) \in One
    <3>1. ASSUME NEW l \in always[n], l[1] = p PROVE \E r \in RelatedIds : <<p, r>> \in SlotPairs(n)'
      <4>1. <<p, l[2]>> \in always[n]
        BY <3>1
      <4>2. of[p] # {}
        BY <2>1, <4>1
      <4> QED BY <1>1, <4>2
    <3> QED BY <2>1, <3>1 DEF StayedAreThere
  <2>2. CASE Kind(n) \notin One
    <3>1. ASSUME NEW l \in always[n], l[1] = p PROVE l \in SlotPairs(n)'
      <4>1. l = <<p, l[2]>> /\ l[2] \in RelatedIds
        BY <3>1
      <4>2. l[2] \in of[p]
        BY <2>2, <4>1
      <4> QED BY <1>1, <4>1, <4>2
    <3> QED BY <2>2, <3>1 DEF StayedAreThere
  <2> QED BY <2>1, <2>2
<1>4. \A p \in load.here : slots'[n][p] # Unset
  BY DEF Unset
<1> QED BY <1>2, <1>3, <1>4 DEF HandedOver

LEMMA MiddleRowsKeeps ==
  ASSUME RelatedInv, NEW n \in Names, MiddleRows(n)
  PROVE  RelatedInv'
<1> DEFINE found == {i \in DOMAIN mid : mid[i].parent \in load.here}
           mids == [i \in found |-> mid[i]]
           nothing == [p \in load.here |-> {}]
           to == IF relationCache[n].table = "guessed" THEN "failed" ELSE "rows"
<1>1. load.pc = "loading" /\ load.rel[n].pc = "middle" /\ relationCache' = relationCache /\ Unwritten
  BY DEF MiddleRows, Loading
<1>2. IF found = {} THEN Store(n, nothing) /\ Goto(n, "done")
      ELSE load' = [load EXCEPT !.rel[n] = [pc |-> to, mids |-> mids]] /\ slots' = slots
  BY DEF MiddleRows
<1>3. /\ load \in Loads /\ slots \in [Names -> [Parents -> SUBSET (RelatedIds \cup {None})]] /\ slots[n] = Unloaded
      /\ n \in DOMAIN relationCache /\ load.keyed /\ Kind(n) \in TwoSteps
      /\ load.here \subseteq Parents /\ always[n] \subseteq Parents \X RelatedIds /\ always[n] \subseteq Linked(n)
      /\ TablesOk /\ MidLinks(mid) \subseteq everMid /\ EndLinks(mid, owner) \subseteq everEnd
  BY <1>1 DEF RelatedInv, LoadShape, RelationOk, Loads, GhostsOk
<1>4. CacheOk' /\ DOMAIN relationCache' = DOMAIN relationCache
  BY <1>1 DEF RelatedInv, CacheOk, Unwritten, Kind, Names
<1>5. found \subseteq MidIds /\ mids \in [found -> MidRows] /\ mids \in MidsRead
  <2>1. DOMAIN mid \subseteq MidIds /\ \A i \in DOMAIN mid : mid[i] \in MidRows
    BY <1>3 DEF TablesOk
  <2>2. found \in SUBSET MidIds /\ mids \in [found -> MidRows]
    BY <2>1
  <2> HIDE DEF found, mids
  <2> QED BY <2>2 DEF MidsRead
<1>6. ASSUME NEW p \in load.here, NEW r, <<p, r>> \in always[n]
      PROVE  /\ Kind(n) = "belongsToMany" => \E i \in found : mid[i].parent = p /\ mid[i].related = r
             /\ Kind(n) # "belongsToMany" => owner[r] \in found /\ mid[owner[r]].parent = p
  BY <1>3, <1>6, LinkedMeans DEF TwoSteps
<1>7. CASE found = {}
  <2>1. Store(n, nothing) /\ Goto(n, "done") /\ \A p \in load.here : nothing[p] = {}
    BY <1>2, <1>7
  <2> HIDE DEF nothing
  <2>2. /\ slots' \in [Names -> [Parents -> SUBSET (RelatedIds \cup {None})]]
        /\ \A m \in Names \ {n} : slots'[m] = slots[m]
        /\ \A p \in Parents : slots'[n][p] = IF p \in load.here THEN nothing[p] ELSE {None}
    BY <1>3, <2>1, StoreIs
  <2>3. /\ load.rel[n].mids \in MidsRead
        /\ load' = [load EXCEPT !.rel[n] = [pc |-> "done", mids |-> load.rel[n].mids]]
    BY <1>3, <2>1, GotoIs DEF RelationPcs
  <2>4. /\ load'.here = load.here /\ load'.keyed = load.keyed /\ load'.fk = load.fk
        /\ load'.rel[n] = [pc |-> "done", mids |-> load.rel[n].mids]
        /\ Names' = Names /\ Kind(n)' = Kind(n) /\ owner' = owner /\ always' = always
        /\ everMid' = everMid /\ everEnd' = everEnd
    BY <1>1, <1>3, <2>3, ReadAs
  <2>5. \A p \in load.here : \A r : <<p, r>> \notin always[n]
    BY <1>6, <1>7
  <2>6. HandedOver(n)'
    BY <1>3, <2>1, <2>2, <2>4, <2>5, HandedOut
  <2>7. RelationOk(n)'
    BY <2>4, <2>6 DEF RelationOk
  <2> QED BY <1>1, <1>4, <2>2, <2>3, <2>7, OneMoves DEF RelationPcs
<1>8. CASE found # {}
  <2>1. load' = [load EXCEPT !.rel[n] = [pc |-> to, mids |-> mids]] /\ slots' = slots /\ to \in {"failed", "rows"}
    BY <1>2, <1>8
  <2> HIDE DEF mids, to
  <2>2. /\ load'.here = load.here /\ load'.keyed = load.keyed /\ load'.fk = load.fk
        /\ load'.rel[n] = [pc |-> to, mids |-> mids]
        /\ Names' = Names /\ Kind(n)' = Kind(n) /\ owner' = owner /\ always' = always
        /\ everMid' = everMid /\ everEnd' = everEnd
    BY <1>1, <1>3, <2>1, ReadAs
  <2>3. DOMAIN mids = found /\ \A i \in found : mids[i] = mid[i]
    BY DEF mids
  <2>4. \A i \in found : <<mids[i].parent, i>> \in everMid
    BY <1>3, <2>3 DEF MidLinks
  <2>5. \A i \in found : <<"pivot", i, mids[i].related>> \in everEnd
    BY <1>3, <2>3 DEF EndLinks, TablesOk
  <2>6. \A l \in always[n] : l[1] \in load.here =>
          IF Kind(n) = "belongsToMany"
          THEN \E i \in DOMAIN mids : mids[i].parent = l[1] /\ mids[i].related = l[2]
          ELSE owner[l[2]] \in DOMAIN mids /\ mids[owner[l[2]]].parent = l[1]
    <3> SUFFICES ASSUME NEW l \in always[n], l[1] \in load.here
                 PROVE  IF Kind(n) = "belongsToMany"
                        THEN \E i \in DOMAIN mids : mids[i].parent = l[1] /\ mids[i].related = l[2]
                        ELSE owner[l[2]] \in DOMAIN mids /\ mids[owner[l[2]]].parent = l[1]
      OBVIOUS
    <3>1. <<l[1], l[2]>> \in always[n]
      BY <1>3
    <3> QED BY <1>6, <2>3, <3>1
  <2>7. MidsOk(n)'
    BY <1>5, <2>2, <2>3, <2>4, <2>5, <2>6 DEF MidsOk
  <2>8. RelationOk(n)'
    BY <1>3, <1>4, <2>1, <2>2, <2>7 DEF RelationOk, TwoSteps, Through
  <2> QED BY <1>1, <1>3, <1>4, <1>5, <2>1, <2>8, OneMoves DEF RelationPcs
<1> QED BY <1>7, <1>8

\* What Handed hands out are rows there are: all, or one if there is one.
LEMMA HandedIs ==
  ASSUME NEW kind, NEW rows, NEW S \in Handed(kind, rows)
  PROVE  /\ S \subseteq rows
         /\ kind \in One => (rows # {} => S # {})
         /\ kind \notin One => S = rows
BY FS_EmptySet DEF Handed

LEMMA RelatedRowsKeeps ==
  ASSUME RelatedInv, NEW n \in Names, RelatedRows(n)
  PROVE  RelatedInv'
<1>1. load.pc = "loading" /\ load.rel[n].pc = "rows" /\ relationCache' = relationCache /\ Unwritten /\ Goto(n, "done")
  BY DEF RelatedRows, Loading
<1>2. PICK of \in [load.here -> SUBSET RelatedIds] :
        (\A p \in load.here : of[p] \in Handed(Kind(n), FoundFor(n, p))) /\ Store(n, of)
  BY DEF RelatedRows
<1>3. /\ load \in Loads /\ slots \in [Names -> [Parents -> SUBSET (RelatedIds \cup {None})]] /\ slots[n] = Unloaded
      /\ Kind(n) \in AllKinds /\ Kind(n) # "none"
      /\ Kind(n) \in TwoSteps => MidsOk(n)
      /\ load.here \subseteq Parents /\ always[n] \subseteq Parents \X RelatedIds /\ always[n] \subseteq Linked(n)
      /\ TablesOk /\ MidLinks(mid) \subseteq everMid /\ EndLinks(mid, owner) \subseteq everEnd
      /\ Kind(n) = "belongsTo" => \A l \in always[n] : l[2] = load.fk[l[1]]
  BY <1>1, KindOf DEF RelatedInv, LoadShape, RelationOk, Loads, GhostsOk
<1>4. CacheOk' /\ DOMAIN relationCache' = DOMAIN relationCache
  BY <1>1 DEF RelatedInv, CacheOk, Unwritten, Kind, Names
<1>5. /\ slots' \in [Names -> [Parents -> SUBSET (RelatedIds \cup {None})]]
      /\ \A m \in Names \ {n} : slots'[m] = slots[m]
      /\ \A p \in Parents : slots'[n][p] = IF p \in load.here THEN of[p] ELSE {None}
  BY <1>2, <1>3, StoreIs
<1>6. /\ load.rel[n].mids \in MidsRead
      /\ load' = [load EXCEPT !.rel[n] = [pc |-> "done", mids |-> load.rel[n].mids]]
  BY <1>1, <1>3, GotoIs DEF RelationPcs
<1>7. /\ load'.here = load.here /\ load'.keyed = load.keyed /\ load'.fk = load.fk
      /\ load'.rel[n] = [pc |-> "done", mids |-> load.rel[n].mids]
      /\ Names' = Names /\ Kind(n)' = Kind(n) /\ owner' = owner /\ always' = always
      /\ everMid' = everMid /\ everEnd' = everEnd
  BY <1>1, <1>3, <1>6, ReadAs
<1> DEFINE mids == load.rel[n].mids
           keys == {<<q, load.fk[q]>> : q \in load.here}
<1>8. ASSUME NEW p \in load.here, NEW r \in FoundFor(n, p), r \in RelatedIds
      PROVE  <<p, r>> \in Pairs(Kind(n), everMid, everEnd, keys)
  <2>1. CASE Kind(n) \in Direct
    <3>1. r \in DOMAIN owner /\ owner[r] = p
      BY <1>8, <2>1 DEF FoundFor, Direct
    <3>2. <<"own", p, r>> \in everEnd
      BY <1>3, <3>1 DEF EndLinks
    <3> QED BY <1>3, <1>8, <2>1, <3>2 DEF Pairs, Direct
  <2>2. CASE Kind(n) = "belongsTo"
    <3>1. r = load.fk[p]
      BY <1>8, <2>2 DEF FoundFor, Direct
    <3> QED BY <2>2, <3>1 DEF Pairs, Direct
  <2>3. CASE Kind(n) = "belongsToMany"
    <3>1. PICK i \in DOMAIN mids : mids[i].parent = p /\ mids[i].related = r
      BY <1>8, <2>3 DEF FoundFor, Direct
    <3>2. i \in MidIds /\ <<p, i>> \in everMid /\ <<"pivot", i, r>> \in everEnd
      BY <1>3, <2>3, <3>1 DEF MidsOk, TwoSteps
    <3> QED BY <1>3, <1>8, <2>3, <3>2 DEF Pairs, Direct
  <2>4. CASE Kind(n) \in Through
    <3>1. r \in DOMAIN owner /\ owner[r] \in DOMAIN mids /\ mids[owner[r]].parent = p
      BY <1>8, <2>4 DEF FoundFor, Direct, Through
    <3>2. owner[r] \in MidIds /\ <<p, owner[r]>> \in everMid
      BY <1>3, <2>4, <3>1 DEF MidsOk, TwoSteps
    <3>3. <<"own", owner[r], r>> \in everEnd
      BY <1>3, <3>1 DEF EndLinks
    <3> QED BY <1>3, <1>8, <2>4, <3>2, <3>3 DEF Pairs, Direct, Through
  <2> QED BY <1>3, <2>1, <2>2, <2>3, <2>4 DEF AllKinds, Direct, Through
<1>9. ASSUME NEW p \in load.here, NEW r, <<p, r>> \in always[n] PROVE r \in FoundFor(n, p)
  <2>1. /\ r \in DOMAIN owner
        /\ Kind(n) \in Direct => owner[r] = p
    BY <1>3, <1>9, LinkedMeans
  <2>2. CASE Kind(n) \in Direct
    BY <2>1, <2>2 DEF FoundFor, Direct
  <2>3. CASE Kind(n) = "belongsTo"
    <3>1. r = load.fk[p]
      BY <1>3, <1>9, <2>3
    <3> QED BY <2>1, <2>3, <3>1 DEF FoundFor, Direct
  <2>4. CASE Kind(n) = "belongsToMany"
    <3>1. PICK i \in DOMAIN mids : mids[i].parent = p /\ mids[i].related = r
      BY <1>3, <1>9, <2>4 DEF MidsOk, TwoSteps
    <3> QED BY <2>1, <2>4, <3>1 DEF FoundFor, Direct
  <2>5. CASE Kind(n) \in Through
    <3>1. owner[r] \in DOMAIN mids /\ mids[owner[r]].parent = p
      BY <1>3, <1>9, <2>5 DEF MidsOk, TwoSteps, Through
    <3> QED BY <2>1, <2>5, <3>1 DEF FoundFor, Direct, Through
  <2> QED BY <1>3, <2>2, <2>3, <2>4, <2>5 DEF AllKinds, Direct, Through
<1>10. \A p \in load.here : of[p] \in SUBSET RelatedIds
  BY <1>2
<1>11. \A p \in load.here : \A r \in of[p] : <<p, r>> \in Pairs(Kind(n), everMid, everEnd, keys)
  <2> SUFFICES ASSUME NEW p \in load.here, NEW r \in of[p] PROVE <<p, r>> \in Pairs(Kind(n), everMid, everEnd, keys)
    OBVIOUS
  <2>1. of[p] \in Handed(Kind(n), FoundFor(n, p))
    BY <1>2
  <2>2. r \in FoundFor(n, p)
    BY <2>1, HandedIs
  <2> QED BY <1>8, <1>10, <2>2
<1>12. \A p \in load.here :
        IF Kind(n) \in One THEN (\E r : <<p, r>> \in always[n]) => of[p] # {}
        ELSE \A r : <<p, r>> \in always[n] => r \in of[p]
  <2> SUFFICES ASSUME NEW p \in load.here
               PROVE  IF Kind(n) \in One THEN (\E r : <<p, r>> \in always[n]) => of[p] # {}
                      ELSE \A r : <<p, r>> \in always[n] => r \in of[p]
    OBVIOUS
  <2>1. of[p] \in Handed(Kind(n), FoundFor(n, p))
    BY <1>2
  <2>2. \A r : <<p, r>> \in always[n] => r \in FoundFor(n, p)
    BY <1>9
  <2>3. /\ Kind(n) \in One => (FoundFor(n, p) # {} => of[p] # {})
        /\ Kind(n) \notin One => of[p] = FoundFor(n, p)
    BY <2>1, HandedIs
  <2> QED BY <2>2, <2>3
<1>13. HandedOver(n)'
  BY <1>3, <1>5, <1>7, <1>10, <1>11, <1>12, HandedOut
<1>14. RelationOk(n)'
  BY <1>7, <1>13 DEF RelationOk
<1> QED BY <1>1, <1>4, <1>5, <1>6, <1>14, OneMoves DEF RelationPcs

\* Others' writes keep the tables, and no related row is moved to another owner.
LEMMA ChangeKeepsTables ==
  ASSUME TablesOk, Change
  PROVE  /\ TablesOk'
         /\ \A r \in DOMAIN owner \cap DOMAIN owner' : owner'[r] = owner[r]
<1> USE DEF TablesOk
<1>1. CASE \E r \in DOMAIN owner :
             /\ owner' = [x \in (DOMAIN owner) \ {r} |-> owner[x]]
             /\ mid' = [i \in {j \in DOMAIN mid : mid[j].related # r} |-> mid[i]]
             /\ UNCHANGED fk
  <2>1. PICK r \in DOMAIN owner :
             /\ owner' = [x \in (DOMAIN owner) \ {r} |-> owner[x]]
             /\ mid' = [i \in {j \in DOMAIN mid : mid[j].related # r} |-> mid[i]]
             /\ UNCHANGED fk
    BY <1>1
  <2>2. /\ DOMAIN owner' = (DOMAIN owner) \ {r} /\ \A x \in DOMAIN owner' : owner'[x] = owner[x]
        /\ DOMAIN mid' = {j \in DOMAIN mid : mid[j].related # r} /\ \A i \in DOMAIN mid' : mid'[i] = mid[i]
        /\ mid' \in [DOMAIN mid' -> MidRows]
    BY <2>1
  <2> QED BY <2>1, <2>2
<1>2. CASE \E r \in RelatedIds \ DOMAIN owner, o \in Parents \cup MidIds :
             owner' = [x \in DOMAIN owner \cup {r} |-> IF x = r THEN o ELSE owner[x]] /\ UNCHANGED <<mid, fk>>
  BY <1>2
<1>3. CASE \E i \in DOMAIN mid, p \in Parents : mid' = [mid EXCEPT ![i].parent = p] /\ UNCHANGED <<owner, fk>>
  <2>1. PICK i \in DOMAIN mid : \E p \in Parents : mid' = [mid EXCEPT ![i].parent = p] /\ UNCHANGED <<owner, fk>>
    BY <1>3
  <2>2. PICK p \in Parents : mid' = [mid EXCEPT ![i].parent = p] /\ UNCHANGED <<owner, fk>>
    BY <2>1
  <2>3. mid[i] \in MidRows
    OBVIOUS
  <2>4. [mid[i] EXCEPT !.parent = p] \in MidRows /\ [mid[i] EXCEPT !.parent = p].related = mid[i].related
    BY <2>3 DEF MidRows
  <2>5. mid' = [mid EXCEPT ![i] = [mid[i] EXCEPT !.parent = p]]
    BY <2>2
  <2> QED BY <2>2, <2>4, <2>5
<1>4. CASE \E i \in DOMAIN mid : mid' = [j \in (DOMAIN mid) \ {i} |-> mid[j]] /\ UNCHANGED <<owner, fk>>
  BY <1>4
<1>5. CASE \E p \in Parents, r \in DOMAIN owner : fk' = [fk EXCEPT ![p] = r] /\ UNCHANGED <<owner, mid>>
  BY <1>5
<1> QED BY <1>1, <1>2, <1>3, <1>4, <1>5 DEF Change

LEMMA ChangeKeeps ==
  ASSUME RelatedInv, Change
  PROVE  RelatedInv'
<1>1. /\ load.pc = "loading" /\ UNCHANGED <<schema, known, relationCache, load, slots, pivot>>
      /\ everMid' = everMid \cup MidLinks(mid') /\ everEnd' = everEnd \cup EndLinks(mid', owner')
      /\ always' = [n \in Names |-> always[n] \cap Linked(n)'] /\ changes' \in 0 .. MaxChanges
  BY DEF Change, RelatedInv
<1>2. TablesOk /\ TablesOk' /\ \A r \in DOMAIN owner \cap DOMAIN owner' : owner'[r] = owner[r]
  BY ChangeKeepsTables DEF RelatedInv
<1>3. Names' = Names /\ \A n : Kind(n)' = Kind(n)
  BY <1>1 DEF Names, Kind
<1>4. \A n \in Names : always'[n] \subseteq always[n] /\ always'[n] \subseteq Linked(n)'
  BY <1>1
<1>5. CacheOk'
  BY <1>1, <1>3 DEF CacheOk, RelatedInv
<1>6. load \in Loads /\ LoadShape'
  BY <1>1, <1>3, <1>4 DEF LoadShape, RelatedInv, Loads
<1>7. GhostsOk'
  BY <1>1, <1>3, <1>4 DEF GhostsOk, RelatedInv
<1>8. PivotOk'
  <2>1. pivot.pc = "idle"
    BY <1>1 DEF RelatedInv, PivotOk
  <2> QED BY <1>1, <2>1 DEF PivotOk
<1>9. ASSUME NEW n \in Names PROVE RelationOk(n)'
  <2>1. RelationOk(n) /\ Kind(n)' = Kind(n) /\ Kind(n) \in AllKinds
    BY <1>1, <1>3, KindOf DEF RelatedInv
  <2>2. /\ always'[n] \subseteq always[n] /\ always[n] \subseteq Linked(n) /\ always'[n] \subseteq Linked(n)'
        /\ always[n] \subseteq Parents \X RelatedIds
    BY <1>1, <1>4 DEF RelatedInv, GhostsOk, LoadShape
  <2>3. everMid \subseteq everMid' /\ everEnd \subseteq everEnd'
    BY <1>1
  <2>4. ASSUME NEW l \in always'[n] PROVE l[2] \in DOMAIN owner /\ owner'[l[2]] = owner[l[2]]
    <3>1. l = <<l[1], l[2]>>
      BY <2>2
    <3>2. <<l[1], l[2]>> \in Linked(n)
      BY <2>2, <3>1
    <3>3. l[2] \in DOMAIN owner
      BY <1>2, <3>2, LinkedMeans
    <3>4. <<l[1], l[2]>> \in Pairs(Kind(n), MidLinks(mid'), EndLinks(mid', owner'), KeyLinks(fk', owner'))
      BY <2>1, <2>2, <3>1 DEF Linked
    <3>5. DOMAIN owner' \subseteq RelatedIds
      BY <1>2 DEF TablesOk
    <3>6. l[2] \in DOMAIN owner'
      BY <2>1, <3>4, <3>5, LinksMean
    <3> QED BY <1>2, <3>3, <3>6
  <2>5. MidsOk(n) => MidsOk(n)'
    <3> SUFFICES ASSUME MidsOk(n) PROVE MidsOk(n)'
      OBVIOUS
    <3> DEFINE mids == load.rel[n].mids
    <3>1. DOMAIN mids \subseteq MidIds /\ mids \in [DOMAIN mids -> MidRows]
      BY DEF MidsOk
    <3>2. \A i \in DOMAIN mids : <<mids[i].parent, i>> \in everMid' /\ (Kind(n) = "belongsToMany" => <<"pivot", i, mids[i].related>> \in everEnd')
      BY <2>3 DEF MidsOk
    <3>3. \A l \in always'[n] : l[1] \in load.here =>
            IF Kind(n) = "belongsToMany"
            THEN \E i \in DOMAIN mids : mids[i].parent = l[1] /\ mids[i].related = l[2]
            ELSE owner'[l[2]] \in DOMAIN mids /\ mids[owner'[l[2]]].parent = l[1]
      BY <2>2, <2>4 DEF MidsOk
    <3>4. load' = load
      BY <1>1
    <3> QED BY <2>1, <3>1, <3>2, <3>3, <3>4 DEF MidsOk
  <2>6. HandedOver(n) => HandedOver(n)'
    <3> SUFFICES ASSUME HandedOver(n) PROVE HandedOver(n)'
      OBVIOUS
    <3> DEFINE keys == {<<p, load.fk[p]>> : p \in load.here}
    <3>1. SlotPairs(n)' = SlotPairs(n) /\ load' = load /\ slots' = slots
      BY <1>1 DEF SlotPairs
    <3> HIDE DEF keys
    <3>2. Pairs(Kind(n), everMid, everEnd, keys) \subseteq Pairs(Kind(n), everMid', everEnd', keys)
      BY ONLY <2>3, PairsGrow, KindOf
    <3>3. SlotPairs(n) \subseteq Pairs(Kind(n), everMid, everEnd, keys)
      BY DEF HandedOver, keys
    <3>4. SlotPairs(n) \subseteq Pairs(Kind(n), everMid', everEnd', keys)
      BY ONLY <3>2, <3>3
    <3> USE DEF keys
    <3>5. ASSUME NEW p \in load.here, StayedAreThere(n, p) PROVE StayedAreThere(n, p)'
      BY <2>1, <2>2, <3>1, <3>5 DEF StayedAreThere
    <3> QED BY <2>1, <3>1, <3>4, <3>5 DEF HandedOver
  <2> QED BY <1>1, <2>1, <2>5, <2>6 DEF RelationOk
<1> QED BY <1>1, <1>2, <1>3, <1>5, <1>6, <1>7, <1>8, <1>9 DEF RelatedInv

LEMMA ReadParentsKeeps ==
  ASSUME RelatedInv, ReadParents
  PROVE  RelatedInv'
<1>1. PICK here \in SUBSET Parents, keyed \in BOOLEAN :
        /\ load' = [pc |-> "loading", here |-> here, keyed |-> keyed, fk |-> fk,
                    rel |-> [n \in Names |-> [pc |-> "resolve", mids |-> <<>>]]]
        /\ slots' = [n \in Names |-> Unloaded]
  BY DEF ReadParents
<1>2. /\ load.pc = "idle" /\ pivot.pc = "idle"
      /\ everMid' = MidLinks(mid) /\ everEnd' = EndLinks(mid, owner)
      /\ always' = [n \in Names |-> Linked(n)]
      /\ UNCHANGED <<schema, known, relationCache, fk, owner, mid, pivot, changes>>
  BY DEF ReadParents
<1>3. Names' = Names /\ \A n : Kind(n)' = Kind(n) /\ Linked(n)' = Linked(n)
  BY <1>2 DEF Names, Kind, Linked
<1>4. TablesOk' /\ CacheOk' /\ PivotOk' /\ changes' \in 0 .. MaxChanges
  BY <1>2, <1>3 DEF RelatedInv, TablesOk, CacheOk, PivotOk
<1>5. /\ load'.pc = "loading" /\ load'.fk = fk /\ \A n \in Names : load'.rel[n].pc = "resolve"
      /\ \A n \in Names : slots'[n] = Unloaded
  BY <1>1
<1>6. load' \in Loads
  <2>1. [n \in Names |-> [pc |-> "resolve", mids |-> <<>>]]
          \in [Names -> [pc : {"resolve", "middle", "rows", "done", "failed"}, mids : MidsRead]]
    BY DEF MidsRead
  <2>2. fk \in [Parents -> RelatedIds \cup {None}]
    BY DEF RelatedInv, TablesOk
  <2> QED BY <1>1, <2>1, <2>2 DEF Loads
<1>7. \A n \in Names : Linked(n) \subseteq Parents \X RelatedIds
  BY LinkedArePairs DEF RelatedInv, TablesOk
<1>8. Unloaded \in [Parents -> SUBSET (RelatedIds \cup {None})]
  BY DEF Unloaded, Unset
<1>9. LoadShape'
  <2>1. load' \in Loads' /\ slots' \in [Names' -> [Parents -> SUBSET (RelatedIds \cup {None})]]
    BY <1>1, <1>3, <1>6, <1>8 DEF Loads
  <2>2. \A n \in Names' : always'[n] \subseteq Parents \X RelatedIds
    BY <1>2, <1>3, <1>7
  <2> QED BY <2>1, <2>2 DEF LoadShape
<1>10. GhostsOk'
  <2>1. ASSUME NEW n \in Names, Kind(n) = "belongsTo", NEW l \in Linked(n) PROVE l[2] = fk[l[1]]
    <3>1. <<l[1], l[2]>> \in Linked(n)
      BY <1>7
    <3> QED BY <2>1, <3>1, LinkedMeans DEF RelatedInv
  <2>2. \A n \in Names : always'[n] = Linked(n)
    BY <1>2
  <2>3. \A n \in Names' : Kind(n)' = "belongsTo" => \A l \in always'[n] : l[2] = load'.fk[l[1]]
    BY <1>3, <1>5, <2>1, <2>2
  <2>4. \A n \in Names' : always'[n] \subseteq Linked(n)'
    BY <1>3, <2>2
  <2>5. MidLinks(mid)' = MidLinks(mid) /\ EndLinks(mid, owner)' = EndLinks(mid, owner)
    BY <1>2
  <2> QED BY <1>2, <2>3, <2>4, <2>5 DEF GhostsOk
<1>11. \A n \in Names' : RelationOk(n)'
  BY <1>3, <1>5 DEF RelationOk
<1> QED BY <1>4, <1>5, <1>9, <1>10, <1>11 DEF RelatedInv

\* Steps that leave the tables and every relation of a load alone.
LEMMA RestStays ==
  ASSUME RelatedInv, load.pc \in {"loading", "loaded", "failed"}, load'.pc \in {load.pc, "loaded", "failed"},
         load' = [load EXCEPT !.pc = load'.pc], load'.pc = "loaded" => \A n \in Names : load.rel[n].pc = "done",
         UNCHANGED <<schema, relationCache, slots, fk, owner, mid, pivot, everMid, everEnd, always, changes>>
  PROVE  RelatedInv'
<1>1. load \in Loads
  BY DEF RelatedInv, LoadShape
<1>2. /\ load' \in Loads /\ load'.here = load.here /\ load'.keyed = load.keyed
      /\ load'.fk = load.fk /\ load'.rel = load.rel /\ load'.pc \in {"loading", "loaded", "failed"}
      /\ load'.pc = "loading" => load.pc = "loading"
  BY <1>1 DEF Loads
<1>3. Names' = Names /\ \A n : Kind(n)' = Kind(n)
  BY DEF Names, Kind
<1>4. \A n : Linked(n)' = Linked(n)
  BY <1>3 DEF Linked
<1>5. TablesOk' /\ CacheOk' /\ changes' \in 0 .. MaxChanges
  BY <1>3 DEF RelatedInv, TablesOk, CacheOk
<1>6. PivotOk'
  <2>1. pivot.pc = "idle"
    BY DEF RelatedInv, PivotOk
  <2> QED BY <2>1 DEF PivotOk
<1>7. LoadShape'
  BY <1>1, <1>2, <1>3 DEF LoadShape, RelatedInv, Loads
<1>8. GhostsOk'
  BY <1>2, <1>3, <1>4 DEF GhostsOk, RelatedInv
<1>9. ASSUME NEW n \in Names PROVE RelationOk(n)'
  <2>1. RelationOk(n) /\ Kind(n)' = Kind(n)
    BY <1>3 DEF RelatedInv
  <2>2. MidsOk(n) => MidsOk(n)'
    BY <1>2, <2>1 DEF MidsOk
  <2>3. SlotPairs(n)' = SlotPairs(n)
    BY DEF SlotPairs
  <2>4. HandedOver(n) => HandedOver(n)'
    <3>1. /\ load'.here = load.here /\ load'.keyed = load.keyed /\ load'.fk = load.fk
          /\ slots' = slots /\ always' = always /\ everMid' = everMid /\ everEnd' = everEnd
      BY <1>2
    <3>2. \A p : StayedAreThere(n, p)' <=> StayedAreThere(n, p)
      BY <2>1, <2>3, <3>1 DEF StayedAreThere
    <3> QED BY <2>1, <2>3, <3>1, <3>2 DEF HandedOver
  <2> QED BY <1>2, <2>1, <2>2, <2>4 DEF RelationOk
<1> QED BY <1>2, <1>3, <1>5, <1>6, <1>7, <1>8, <1>9 DEF RelatedInv

\* Where no load is under way, only the tables, what is cached and the pivot's
\* builder matter.
LEMMA NoLoadStays ==
  ASSUME RelatedInv, load'.pc = "idle", PivotOk',
         UNCHANGED <<schema, relationCache, fk, owner, mid, changes>>
  PROVE  RelatedInv'
<1>1. Names' = Names /\ \A n : Kind(n)' = Kind(n)
  BY DEF Names, Kind
<1>2. TablesOk' /\ CacheOk' /\ changes' \in 0 .. MaxChanges
  BY <1>1 DEF RelatedInv, TablesOk, CacheOk
<1> QED BY <1>2 DEF RelatedInv, LoadShape, GhostsOk

LEMMA PivotGetKeeps ==
  ASSUME RelatedInv, PivotGet
  PROVE  RelatedInv'
<1>1. /\ load.pc = "idle"
      /\ UNCHANGED <<schema, known, relationCache, fk, owner, mid, load, slots, everMid, everEnd, always, changes>>
  BY DEF PivotGet
<1>2. PICK p \in Parents, values \in SUBSET RelatedIds, wheres \in SUBSET RelatedIds, first \in BOOLEAN :
        \E ids \in Handed(IF first THEN "hasOne" ELSE "belongsToMany",
                          {i \in PivotRows(p, values) : mid[i].related \in DOMAIN owner \cap wheres}) :
          pivot' = [pc |-> "got", parent |-> p, values |-> values, all |-> ~first /\ wheres = RelatedIds,
                    ids |-> ids, rows |-> {}]
  BY DEF PivotGet
<1> DEFINE found == {i \in PivotRows(p, values) : mid[i].related \in DOMAIN owner \cap wheres}
           all == ~first /\ wheres = RelatedIds
<1>3. PICK ids \in Handed(IF first THEN "hasOne" ELSE "belongsToMany", found) :
        pivot' = [pc |-> "got", parent |-> p, values |-> values, all |-> all, ids |-> ids, rows |-> {}]
  BY <1>2
<1>4. PivotRows(p, values) \subseteq MidIds
  BY DEF PivotRows, RelatedInv, TablesOk
<1>5. ids \subseteq MidIds
  BY <1>3, <1>4, HandedIs
<1>6. ASSUME all PROVE ids = PivotRows(p, values)
  <2>1. ids = found
    <3>1. ids \in Handed("belongsToMany", found)
      BY <1>3, <1>6
    <3> QED BY <3>1, HandedIs DEF One
  <2>2. \A i \in PivotRows(p, values) : mid[i].related \in DOMAIN owner /\ mid[i].related \in RelatedIds
    BY DEF PivotRows, RelatedInv, TablesOk, MidRows
  <2> QED BY <1>6, <2>1, <2>2
<1>7. all \in BOOLEAN
  BY Zenon
<1> HIDE DEF all, found
<1>8. pivot' \in [pc : {"got", "counted"}, parent : Parents, values : SUBSET RelatedIds, all : BOOLEAN,
                  ids : SUBSET MidIds, rows : SUBSET MidIds]
  <2>1. "got" \in {"got", "counted"} /\ {} \in SUBSET MidIds /\ ids \in SUBSET MidIds
    BY <1>5
  <2> QED BY <1>3, <1>7, <2>1
<1>9. pivot'.pc = "got" /\ pivot'.parent = p /\ pivot'.values = values /\ pivot'.ids = ids
  BY <1>3
<1>10. pivot'.all = all
  BY <1>3, Zenon
<1>11. PivotRows(p, values)' = PivotRows(p, values)
  BY <1>1 DEF PivotRows
<1>12. PivotRows(pivot.parent, pivot.values)' = PivotRows(p, values)
  BY <1>1, <1>9 DEF PivotRows
<1>13. PivotOk'
  BY <1>1, <1>6, <1>8, <1>9, <1>10, <1>12 DEF PivotOk
<1> QED BY <1>1, <1>13, NoLoadStays

LEMMA PivotCountKeeps ==
  ASSUME RelatedInv, PivotCount
  PROVE  RelatedInv'
<1>1. /\ pivot.pc = "got" /\ pivot' = [pivot EXCEPT !.pc = "counted", !.rows = PivotRows(pivot.parent, pivot.values)]
      /\ UNCHANGED <<schema, known, relationCache, fk, owner, mid, load, slots, everMid, everEnd, always, changes>>
  BY DEF PivotCount
<1>2. /\ load.pc = "idle"
      /\ pivot \in [pc : {"got", "counted"}, parent : Parents, values : SUBSET RelatedIds, all : BOOLEAN,
                    ids : SUBSET MidIds, rows : SUBSET MidIds]
      /\ pivot.all => pivot.ids = PivotRows(pivot.parent, pivot.values)
  BY <1>1 DEF RelatedInv, PivotOk
<1>3. PivotRows(pivot.parent, pivot.values) \subseteq MidIds
  BY DEF PivotRows, RelatedInv, TablesOk
<1>4. /\ pivot'.pc = "counted" /\ pivot'.parent = pivot.parent /\ pivot'.values = pivot.values
      /\ pivot'.ids = pivot.ids /\ pivot'.rows = PivotRows(pivot.parent, pivot.values)
      /\ pivot' \in [pc : {"got", "counted"}, parent : Parents, values : SUBSET RelatedIds, all : BOOLEAN,
                     ids : SUBSET MidIds, rows : SUBSET MidIds]
  BY <1>1, <1>2, <1>3
<1>5. pivot'.all = pivot.all
  BY <1>1, <1>2, Zenon
<1>6. PivotRows(pivot.parent, pivot.values)' = PivotRows(pivot.parent, pivot.values)
  BY <1>1, <1>4 DEF PivotRows
<1>7. PivotOk'
  BY <1>1, <1>2, <1>4, <1>5, <1>6 DEF PivotOk
<1> QED BY <1>1, <1>2, <1>7, NoLoadStays

LEMMA RelatedInvInit == RelationInit => RelatedInv
<1> SUFFICES ASSUME RelationInit PROVE RelatedInv
  OBVIOUS
<1>1. PICK w \in Worlds : fk = w.fk /\ owner = w.owner /\ mid = w.mid
  BY DEF RelationInit
<1>2. /\ w.fk \in [Parents -> RelatedIds \cup {None}]
      /\ DOMAIN w.owner \subseteq RelatedIds
      /\ DOMAIN w.mid \subseteq MidIds
      /\ w.mid \in [DOMAIN w.mid -> [parent : Parents, related : DOMAIN w.owner]]
  OBVIOUS
<1>3. \A i \in DOMAIN w.mid : w.mid[i].related \in DOMAIN w.owner /\ w.mid[i] \in MidRows
  BY <1>2 DEF MidRows
<1>4. TablesOk
  BY <1>1, <1>2, <1>3 DEF TablesOk
<1>5. /\ load.pc = "idle" /\ pivot.pc = "idle" /\ changes = 0 /\ DOMAIN relationCache = {}
  BY DEF RelationInit, NoLoad
<1> QED BY <1>4, <1>5 DEF RelatedInv, CacheOk, LoadShape, GhostsOk, PivotOk

LEMMA RelatedInvNext == RelatedInv /\ [RelationNext]_relationVars => RelatedInv'
<1> SUFFICES ASSUME RelatedInv, [RelationNext]_relationVars PROVE RelatedInv'
  OBVIOUS
<1>1. CASE ReadParents
  BY <1>1, ReadParentsKeeps
<1>2. CASE Loaded
  <2>1. /\ load.pc = "loading" /\ UNCHANGED <<relationCache, slots>> /\ Unwritten
        /\ \/ load' = [load EXCEPT !.pc = "loaded"]
           \/ load' = [load EXCEPT !.pc = "failed"]
    BY <1>2 DEF Loaded
  <2>2. load \in Loads
    BY <2>1 DEF RelatedInv, LoadShape
  <2>3. load'.pc \in {"loaded", "failed"} /\ load' = [load EXCEPT !.pc = load'.pc]
    BY <2>1, <2>2 DEF Loads
  <2>4. load'.pc = "loaded" => \A n \in Names : load.rel[n].pc = "done"
    BY <1>2, <2>2 DEF Loaded, Loads
  <2> QED BY <2>1, <2>3, <2>4, RestStays DEF Unwritten
<1>3. CASE LoadAgain
  <2>1. /\ load.pc \in {"loaded", "failed"} /\ load'.pc = "idle" /\ UNCHANGED <<schema, relationCache, fk, owner, mid, pivot, changes>>
    BY <1>3 DEF LoadAgain, NoLoad
  <2>2. pivot.pc = "idle"
    BY <2>1 DEF RelatedInv, PivotOk
  <2>3. PivotOk'
    BY <2>1, <2>2 DEF PivotOk
  <2> QED BY <2>1, <2>3, NoLoadStays
<1>4. CASE Register \/ UNCHANGED relationVars
  <2>1. UNCHANGED <<schema, relationCache, fk, owner, mid, load, slots, pivot, everMid, everEnd, always, changes>>
    BY <1>4 DEF Register, relationVars
  <2>2. CASE load.pc = "idle"
    <3>1. PivotOk'
      BY <2>1 DEF RelatedInv, PivotOk, PivotRows
    <3> QED BY <2>1, <2>2, <3>1, NoLoadStays
  <2>3. CASE load.pc # "idle"
    <3>1. load.pc \in {"loading", "loaded", "failed"} /\ load \in Loads
      BY <2>3 DEF RelatedInv, LoadShape
    <3>2. load' = [load EXCEPT !.pc = load'.pc]
      BY <2>1, <3>1 DEF Loads
    <3>3. load'.pc = "loaded" => \A n \in Names : load.rel[n].pc = "done"
      BY <2>1 DEF RelatedInv
    <3> QED BY <2>1, <3>1, <3>2, <3>3, RestStays
  <2> QED BY <2>2, <2>3
<1>5. CASE \E n \in Names : Resolve(n) \/ MiddleRows(n) \/ RelatedRows(n)
  BY <1>5, ResolveKeeps, MiddleRowsKeeps, RelatedRowsKeeps
<1>6. CASE PivotGet
  BY <1>6, PivotGetKeeps
<1>7. CASE PivotCount
  BY <1>7, PivotCountKeeps
<1>8. CASE PivotEnds
  <2>1. /\ pivot.pc = "counted" /\ pivot'.pc = "idle"
        /\ UNCHANGED <<schema, known, relationCache, fk, owner, mid, load, slots, everMid, everEnd, always, changes>>
    BY <1>8 DEF PivotEnds
  <2>2. load.pc = "idle"
    BY <2>1 DEF RelatedInv, PivotOk
  <2>3. PivotOk'
    BY <2>1 DEF PivotOk
  <2> QED BY <2>1, <2>2, <2>3, NoLoadStays
<1>9. CASE Change
  BY <1>9, ChangeKeeps
<1> QED BY <1>1, <1>2, <1>3, <1>4, <1>5, <1>6, <1>7, <1>8, <1>9 DEF RelationNext

LEMMA RelatedInvMeans == RelatedInv => RelationTypes /\ LoadedRowsAreRelated
<1> SUFFICES ASSUME RelatedInv PROVE RelationTypes /\ LoadedRowsAreRelated
  OBVIOUS
<1>1. RelationTypes
  BY KindOf, KindTypes DEF RelatedInv, CacheOk, RelationTypes
<1>2. OwnRelatedRows /\ EveryRowHasItsSlot
  <2> SUFFICES ASSUME load.pc = "loaded", NEW n \in Names
               PROVE  /\ SlotPairs(n) \subseteq Pairs(Kind(n), everMid, everEnd, {<<p, load.fk[p]>> : p \in load.here})
                      /\ load.keyed => \A p \in load.here : StayedAreThere(n, p)
                      /\ \/ \A p \in load.here : slots[n][p] # Unset
                         \/ ~load.keyed
                         \/ Kind(n) = "belongsTo" /\ \A p \in load.here : load.fk[p] = None
    BY DEF OwnRelatedRows, EveryRowHasItsSlot, StayedAreThere
  <2>1. load.rel[n].pc = "done" /\ RelationOk(n)
    BY DEF RelatedInv
  <2> QED BY <2>1 DEF RelationOk, HandedOver
<1>3. CountIsWhatGetReturns
  BY DEF RelatedInv, PivotOk, CountIsWhatGetReturns
<1> QED BY <1>1, <1>2, <1>3 DEF LoadedRowsAreRelated

HIDE ModelRelationsAssumption

----------------------------------------------------------------------------
(* What makes the builder's types inductive: the next page of a walk starts from  *)
(* the limit and the page the last one left behind.                              *)
NextPageKnown == told.op = "paginate" => query.limit \in 1 .. 2 /\ told.n \in Nat \ {0}
RunShape ==
  /\ run.op \in {"none", "paginate", "chunk"}
  /\ run.op = "paginate" => run.page \in Nat \ {0} /\ run.per \in 1 .. 2
  /\ run.op = "chunk" => run \in [op : {"chunk"}, page : Nat, size : 1 .. 2]
QueryShape ==
  /\ query = [wheres |-> query.wheres, order |-> query.order, limit |-> query.limit,
              offset |-> query.offset, trashed |-> query.trashed]
  /\ query.limit \in Nat \cup {NoClause} /\ query.offset \in Nat \cup {NoClause}
  /\ query.trashed \in {"exclude", "include", "only"}
QueryInv == QueryShape /\ RunShape /\ NextPageKnown /\ soft \in BOOLEAN /\ calls \in 0 .. MaxCalls

USE ModelQueryAssumption

LEMMA QueryInvInit == QueryInit => QueryInv
BY DEF QueryInit, QueryInv, QueryShape, RunShape, NextPageKnown, Fresh, NoRun, NotTold, NoClause

\* A chained call before the first terminal.
LEMMA ChainKeeps ==
  ASSUME QueryInv, Chainable, UNCHANGED <<soft, run, told>>, QueryShape'
  PROVE  QueryInv'
<1>1. /\ run'.op = "none" /\ told'.op = "none"
      /\ calls < MaxCalls - 1 /\ calls' = calls + 1
  BY DEF Chainable, NoRun, NotTold
<1>2. calls' \in 0 .. MaxCalls
  BY <1>1 DEF QueryInv
<1>3. RunShape'
  BY <1>1 DEF RunShape
<1> QED BY <1>1, <1>2, <1>3 DEF QueryInv, NextPageKnown

\* A terminal that is over at once and answers something else than a page.
LEMMA TerminalKeeps ==
  ASSUME QueryInv, Terminal, UNCHANGED <<soft, run>>, told'.op # "paginate", QueryShape'
  PROVE  QueryInv'
<1>1. calls' \in 0 .. MaxCalls
  BY DEF QueryInv, Terminal
<1>2. RunShape'
  BY DEF QueryInv, RunShape
<1> QED BY <1>1, <1>2 DEF QueryInv, NextPageKnown

LEMMA QueryInvNext == QueryInv /\ [QueryNext]_queryVars => QueryInv'
<1> SUFFICES ASSUME QueryInv, [QueryNext]_queryVars PROVE QueryInv'
  OBVIOUS
<1>1. UNCHANGED query => QueryShape'
  BY DEF QueryInv, QueryShape
<1>2. ASSUME NEW ts, NEW t, Push(ts, t) PROVE QueryInv'
  <2>1. Chainable /\ query' = [query EXCEPT !.wheres = @ \o ts] /\ UNCHANGED <<soft, run, told>>
    BY <1>2 DEF Push, Chained
  <2>2. QueryShape'
    BY <2>1 DEF QueryInv, QueryShape
  <2> QED BY <2>1, <2>2, ChainKeeps
<1>3. CASE Where \/ WhereBetween \/ WhereGroup
  BY <1>2, <1>3 DEF Where, WhereBetween, WhereGroup
<1>4. CASE OrderBy
  <2>1. PICK o : Chainable /\ query' = [query EXCEPT !.order = o] /\ UNCHANGED <<soft, run, told>>
    BY <1>4 DEF OrderBy, Chained
  <2>2. QueryShape'
    BY <2>1 DEF QueryInv, QueryShape
  <2> QED BY <2>1, <2>2, ChainKeeps
<1>5. CASE Limit \/ Offset \/ TrashScope
  <2>1. Chainable /\ UNCHANGED <<soft, run, told>>
    BY <1>5 DEF Limit, Offset, TrashScope, Chained
  <2>2. QueryShape'
    BY <1>5 DEF Limit, Offset, TrashScope, QueryInv, QueryShape
  <2> QED BY <2>1, <2>2, ChainKeeps
<1>6. CASE Get
  <2>1. PICK op \in {"get", "first", "last", "sole"} :
          query' = Limited(op) /\ told'.op = op /\ Terminal /\ UNCHANGED <<soft, run>>
    BY <1>6 DEF Get, Answer
  <2>2. QueryShape'
    BY <2>1 DEF Limited, QueryInv, QueryShape
  <2> QED BY <2>1, <2>2, TerminalKeeps
<1>7. CASE Pluck \/ Count \/ Aggregate \/ Write \/ Find \/ Destroy
  <2>1. Terminal /\ UNCHANGED <<soft, query, run>>
    BY <1>7 DEF Pluck, Count, Aggregate, Write, Find, Destroy
  <2>2. told'.op # "paginate"
    <3>1. CASE Pluck
      BY <3>1 DEF Pluck, Answer
    <3>2. CASE Count \/ Aggregate
      BY <3>2 DEF Count, Aggregate, Answer
    <3>3. CASE Write
      <4>1. told'.op \in {"refused", "write"}
        BY <3>3 DEF Write, Answer
      <4> QED BY <4>1
    <3>4. CASE Find
      BY <3>4 DEF Find, Answer
    <3>5. CASE Destroy
      BY <3>5 DEF Destroy, Answer
    <3> QED BY <1>7, <3>1, <3>2, <3>3, <3>4, <3>5
  <2> QED BY <1>1, <2>1, <2>2, TerminalKeeps
<1>8. CASE Paginate
  <2>1. UNCHANGED <<soft, query>> /\ told'.op = "none"
    BY <1>8 DEF Paginate, NotTold
  <2>2. /\ run'.op = "paginate" /\ run'.page \in Nat \ {0} /\ run'.per \in 1 .. 2
        /\ calls' \in 0 .. MaxCalls
    BY <1>8 DEF Paginate, QueryInv, NextPageKnown
  <2>3. RunShape'
    BY <2>2 DEF RunShape
  <2> QED BY <1>1, <2>1, <2>2, <2>3 DEF QueryInv, NextPageKnown
<1>9. CASE PageArrives
  <2>1. /\ query' = [query EXCEPT !.limit = run.per, !.offset = (run.page - 1) * run.per]
        /\ run.page \in Nat \ {0} /\ run.per \in 1 .. 2
        /\ told'.op = "paginate" /\ told'.n = run.page
        /\ run'.op = "none" /\ UNCHANGED <<soft, calls>>
    BY <1>9 DEF PageArrives, Answer, NoRun, QueryInv, RunShape
  <2>2. (run.page - 1) * run.per \in Nat
    BY <2>1
  <2>3. query'.limit = run.per
    BY <2>1 DEF QueryInv, QueryShape
  <2>4. QueryShape'
    <3> DEFINE off == (run.page - 1) * run.per
    <3>1. query' = [query EXCEPT !.limit = run.per, !.offset = off] /\ off \in Nat /\ run.per \in 1 .. 2
      BY <2>1, <2>2
    <3> HIDE DEF off
    <3>2. query' = [wheres |-> query.wheres, order |-> query.order, limit |-> run.per,
                    offset |-> off, trashed |-> query.trashed]
      BY <3>1 DEF QueryInv, QueryShape
    <3>3. query.trashed \in {"exclude", "include", "only"}
      BY DEF QueryInv, QueryShape
    <3>4. /\ query'.wheres = query.wheres /\ query'.order = query.order /\ query'.limit = run.per
          /\ query'.offset = off /\ query'.trashed = query.trashed
      BY <3>2
    <3>5. query' = [wheres |-> query'.wheres, order |-> query'.order, limit |-> query'.limit,
                    offset |-> query'.offset, trashed |-> query'.trashed]
      BY <3>2, <3>4
    <3>6. query'.limit \in Nat /\ query'.offset \in Nat
      BY <3>1, <3>4
    <3> QED BY <3>3, <3>4, <3>5, <3>6 DEF QueryShape
  <2>5. RunShape' /\ NextPageKnown'
    BY <2>1, <2>3 DEF RunShape, NextPageKnown
  <2> QED BY <2>1, <2>4, <2>5 DEF QueryInv
<1>10. CASE Chunk
  <2>1. PICK size \in 1 .. 2 : /\ run' = [op |-> "chunk", page |-> 0, size |-> size]
                               /\ told'.op = "none" /\ UNCHANGED <<soft, query>> /\ calls' \in 0 .. MaxCalls
    BY <1>10 DEF Chunk, Terminal, NotTold, QueryInv
  <2>2. RunShape'
    BY <2>1 DEF RunShape
  <2> QED BY <1>1, <2>1, <2>2 DEF QueryInv, NextPageKnown
<1>11. CASE ChunkArrives
  <2>1. /\ UNCHANGED <<soft, query, calls>> /\ run \in [op : {"chunk"}, page : Nat, size : 1 .. 2]
        /\ \/ run' = NoRun /\ told'.op \in {"stopped", "chunk"}
           \/ run' = [run EXCEPT !.page = @ + 1] /\ UNCHANGED told
    BY <1>11 DEF ChunkArrives, Answer, QueryInv, RunShape
  <2>2. RunShape'
    BY <2>1 DEF RunShape, NoRun
  <2>3. NextPageKnown'
    BY <2>1 DEF QueryInv, NextPageKnown
  <2> QED BY <1>1, <2>1, <2>2, <2>3 DEF QueryInv
<1>12. CASE Others \/ UNCHANGED queryVars
  <2>1. UNCHANGED <<soft, query, run, told, calls>>
    BY <1>12 DEF Others, queryVars
  <2> QED BY <1>1, <2>1 DEF QueryInv, RunShape, NextPageKnown
<1> QED BY <1>3, <1>4, <1>5, <1>6, <1>7, <1>8, <1>9, <1>10, <1>11, <1>12 DEF QueryNext

LEMMA QueryInvMeans == QueryInv => QueryTypes
BY DEF QueryInv, QueryShape, RunShape, QueryTypes

HIDE ModelQueryAssumption

----------------------------------------------------------------------------
(* A chain's runs say of every row what was asked, unless an OR follows a between. *)
IsBetween(t) == t.mode = "all" /\ Cardinality(t.atoms) = 2
SplitIn(a) == \E i \in DOMAIN a : i > 1 /\ a[i].conn = "OR" /\ IsBetween(a[i - 1])
EndsBetween(a) == a # <<>> /\ IsBetween(a[Len(a)])
SameOf(w, a, true) ==
  /\ RunsHold(OrRuns(w), true) <=> AskedHolds(a, true)
  /\ ~EndsBetween(a) => /\ EarlierHold(OrRuns(w), true) <=> AskedEarlier(a, true)
                        /\ LastHolds(OrRuns(w), true) <=> AskedLast(a, true)
ChainMeans(w, a) == (w = <<>> <=> a = <<>>) /\ (SplitIn(a) \/ \A true : SameOf(w, a, true))

LEMMA LastOf ==
  ASSUME NEW T, NEW a \in Seq(T), NEW t \in T
  PROVE  /\ Append(a, t) \in Seq(T) /\ Append(a, t) # <<>> /\ (EndsBetween(Append(a, t)) <=> IsBetween(t))
         /\ SplitIn(Append(a, t)) <=> (SplitIn(a) \/ (t.conn = "OR" /\ EndsBetween(a)))
<1> DEFINE n == Len(a)
           b == Append(a, t)
<1>1. n \in Nat /\ DOMAIN a = 1 .. n /\ (a = <<>> <=> n = 0)
  BY SeqShape
<1>2. b \in Seq(T) /\ b # <<>> /\ Len(b) = n + 1 /\ b[n + 1] = t /\ \A i \in 1 .. n : b[i] = a[i]
  BY AppendProperties
<1> HIDE DEF b
<1>3. DOMAIN b = 1 .. n + 1
  <2> HIDE DEF n
  <2> QED BY <1>2, SeqShape
<1>4. EndsBetween(b) <=> IsBetween(t)
  BY <1>2 DEF EndsBetween
<1>5. SplitIn(b) <=> (SplitIn(a) \/ (t.conn = "OR" /\ EndsBetween(a)))
  <2>1. SplitIn(b) <=> \E i \in 1 .. n + 1 : i > 1 /\ b[i].conn = "OR" /\ IsBetween(b[i - 1])
    BY <1>3 DEF SplitIn
  <2>2. SplitIn(a) <=> \E i \in 1 .. n : i > 1 /\ a[i].conn = "OR" /\ IsBetween(a[i - 1])
    BY <1>1 DEF SplitIn
  <2>3. EndsBetween(a) <=> n # 0 /\ IsBetween(a[n])
    BY <1>1 DEF EndsBetween
  <2> HIDE DEF n
  <2>4. \A i : (i \in 1 .. n + 1 /\ i > 1) <=> ((i \in 1 .. n /\ i > 1) \/ (i = n + 1 /\ n # 0))
    BY <1>1
  <2>5. \A i \in 1 .. n : i > 1 => i - 1 \in 1 .. n
    BY <1>1
  <2>6. (n + 1) - 1 = n /\ (n # 0 => n \in 1 .. n)
    BY <1>1
  <2> QED BY <1>2, <2>1, <2>2, <2>3, <2>4, <2>5, <2>6
<1> QED BY <1>2, <1>4, <1>5 DEF b

\* One condition more, chained by and or or.
LEMMA ConditionMeans ==
  ASSUME NEW T, Calls(T), NEW w \in Seq(T), NEW a \in Seq(T), ChainMeans(w, a), NEW t \in T
  PROVE  ChainMeans(Append(w, t), Append(a, t))
<1> DEFINE v == Append(w, t)
           b == Append(a, t)
<1>1. v # <<>> /\ b # <<>> /\ (w = <<>> <=> a = <<>>)
  BY AppendProperties DEF ChainMeans
<1> SUFFICES ASSUME ~SplitIn(b), NEW true PROVE SameOf(v, b, true)
  BY <1>1 DEF ChainMeans
<1>2. ~SplitIn(a) /\ ~(t.conn = "OR" /\ EndsBetween(a)) /\ v \in Seq(T) /\ b \in Seq(T)
  BY LastOf
<1>3. SameOf(w, a, true)
  BY <1>2 DEF ChainMeans
<1>4. OrRuns(v) = WithTerm(OrRuns(w), t) /\ OrRuns(w) \in RunLists(T) /\ (OrRuns(w) = <<>> <=> a = <<>>)
  BY <1>1, OrRunsGrow, RunsOfNone
<1>5. OrRuns(v) \in RunLists(T) /\ OrRuns(v) # <<>>
  BY <1>1, <1>2, RunsOfNone
<1>6. RunsHold(OrRuns(v), true) <=> (EarlierHold(OrRuns(v), true) /\ LastHolds(OrRuns(v), true))
  BY <1>5, RunsHoldIs
<1>7. AskedHolds(b, true) <=> (AskedEarlier(b, true) /\ AskedLast(b, true))
  BY <1>1, <1>2, AskedIs
<1> HIDE DEF v, b
<1>8. /\ EarlierHold(OrRuns(v), true) <=> AskedEarlier(b, true)
      /\ LastHolds(OrRuns(v), true) <=> AskedLast(b, true)
  <2>1. CASE t.conn = "OR" /\ a # <<>>
    <3>1. /\ EarlierHold(OrRuns(v), true) <=> EarlierHold(OrRuns(w), true)
          /\ LastHolds(OrRuns(v), true) <=> (LastHolds(OrRuns(w), true) \/ TermHolds(t, true))
      BY <1>4, <2>1, WithTermHolds
    <3>2. /\ AskedEarlier(b, true) <=> AskedEarlier(a, true)
          /\ AskedLast(b, true) <=> (AskedLast(a, true) \/ TermHolds(t, true))
      BY <2>1, AskedGrows DEF b
    <3> QED BY <1>2, <1>3, <2>1, <3>1, <3>2 DEF SameOf
  <2>2. CASE ~(t.conn = "OR" /\ a # <<>>)
    <3>1. /\ EarlierHold(OrRuns(v), true) <=> RunsHold(OrRuns(w), true)
          /\ LastHolds(OrRuns(v), true) <=> TermHolds(t, true)
      BY <1>4, <2>2, WithTermHolds
    <3>2. /\ AskedEarlier(b, true) <=> AskedHolds(a, true)
          /\ AskedLast(b, true) <=> TermHolds(t, true)
      BY <2>2, AskedGrows DEF b
    <3> QED BY <1>3, <3>1, <3>2 DEF SameOf
  <2> QED BY <2>1, <2>2
<1> QED BY <1>6, <1>7, <1>8 DEF SameOf

\* The two halves of a between, asked as one condition.
LEMMA BetweenMeans ==
  ASSUME NEW T, Calls(T), NEW w \in Seq(T), NEW a \in Seq(T), ChainMeans(w, a),
         NEW ge \in T, NEW le \in T, NEW t \in T, ge.conn = "AND", le.conn = "AND", t.conn = "AND", IsBetween(t),
         \A true : TermHolds(t, true) <=> (TermHolds(ge, true) /\ TermHolds(le, true))
  PROVE  ChainMeans(Append(Append(w, ge), le), Append(a, t))
<1> DEFINE u == Append(w, ge)
           v == Append(u, le)
           b == Append(a, t)
<1>1. u \in Seq(T) /\ u # <<>>
  BY AppendProperties
<1> HIDE DEF u
<1>2. v \in Seq(T) /\ v # <<>> /\ b \in Seq(T) /\ b # <<>> /\ (w = <<>> <=> a = <<>>)
  BY <1>1, AppendProperties DEF ChainMeans
<1> SUFFICES ASSUME ~SplitIn(b), NEW true PROVE SameOf(v, b, true)
  BY <1>2 DEF ChainMeans, u
<1>3. ~SplitIn(a) /\ EndsBetween(b)
  BY LastOf
<1>4. SameOf(w, a, true)
  BY <1>3 DEF ChainMeans
<1>5. OrRuns(u) = WithTerm(OrRuns(w), ge) /\ OrRuns(w) \in RunLists(T)
  BY OrRunsGrow DEF u
<1>6. OrRuns(v) = WithTerm(OrRuns(u), le) /\ OrRuns(u) \in RunLists(T)
  BY <1>1, OrRunsGrow
<1>7. OrRuns(u) # <<>> /\ OrRuns(v) \in RunLists(T) /\ OrRuns(v) # <<>>
  BY <1>1, <1>2, RunsOfNone
<1>8. RunsHold(OrRuns(u), true) <=> (EarlierHold(OrRuns(u), true) /\ LastHolds(OrRuns(u), true))
  BY <1>6, <1>7, RunsHoldIs
<1>9. RunsHold(OrRuns(v), true) <=> (EarlierHold(OrRuns(v), true) /\ LastHolds(OrRuns(v), true))
  BY <1>7, RunsHoldIs
<1>10. /\ EarlierHold(OrRuns(u), true) <=> RunsHold(OrRuns(w), true)
       /\ LastHolds(OrRuns(u), true) <=> TermHolds(ge, true)
  <2>1. ~(ge.conn = "OR" /\ OrRuns(w) # <<>>)
    OBVIOUS
  <2> QED BY <1>5, <2>1, WithTermHolds
<1>11. /\ EarlierHold(OrRuns(v), true) <=> RunsHold(OrRuns(u), true)
       /\ LastHolds(OrRuns(v), true) <=> TermHolds(le, true)
  <2>1. ~(le.conn = "OR" /\ OrRuns(u) # <<>>)
    OBVIOUS
  <2> QED BY <1>6, <2>1, WithTermHolds
<1>12. AskedHolds(b, true) <=> (AskedEarlier(b, true) /\ AskedLast(b, true))
  BY <1>2, AskedIs
<1>13. /\ AskedEarlier(b, true) <=> AskedHolds(a, true)
       /\ AskedLast(b, true) <=> TermHolds(t, true)
  <2>1. ~(t.conn = "OR" /\ a # <<>>)
    OBVIOUS
  <2> QED BY <2>1, AskedGrows
<1> HIDE DEF v, b
<1> QED BY <1>3, <1>4, <1>8, <1>9, <1>10, <1>11, <1>12, <1>13 DEF SameOf

----------------------------------------------------------------------------
(* A statement's bodies select the rows the calls asked for.                    *)
AnyTerm == {Term(conn, mode, atoms, <<>>) : conn \in Conn, mode \in {"all", "any"}, atoms \in SUBSET AnyCondition}
TableOk ==
  /\ IsFiniteSet(DOMAIN table) /\ DOMAIN table \subseteq Nat
  /\ \A id \in DOMAIN table : IsRow(table[id])
ChainOk == query.wheres \in Seq(AnyTerm) /\ asked \in Seq(AnyTerm) /\ ChainMeans(query.wheres, asked)
InScope(row) == soft => (query.trashed = "include" \/ row.trashed = (query.trashed = "only"))

LEMMA TermCalls == Calls(AnyTerm)
BY DEF Calls, AnyTerm, Term

LEMMA MeantIs == Meant = {id \in DOMAIN table : InScope(table[id]) /\ AskedHolds(asked, Truths(table[id]))}
BY ChainIs DEF Meant, InScope

LEMMA SplitIs == SplitBetween <=> SplitIn(asked)
BY DEF SplitBetween, SplitIn, IsBetween

\* The soft-delete scope, printed in brackets of its own.
LEMMA ScopeMeans ==
  ASSUME NEW q, NEW row, row.trashed \in BOOLEAN, q.trashed \in {"exclude", "include", "only"}, soft \in BOOLEAN
  PROVE  \/ SoftDeleteClause(q) = <<>> /\ (q.trashed = "include" \/ ~soft)
         \/ /\ SoftDeleteClause(q) # <<>> /\ q.trashed # "include" /\ soft
            /\ BodyHolds(SoftDeleteClause(q), Truths(row)) <=> row.trashed = (q.trashed = "only")
<1>1. CASE q.trashed = "include" \/ ~soft
  BY <1>1 DEF SoftDeleteClause
<1>2. CASE ~(q.trashed = "include" \/ ~soft)
  <2> DEFINE c == IF q.trashed = "only" THEN Trashed ELSE Live
             t == Term("AND", "all", {c}, <<>>)
             p == [conn |-> "AND", any |-> <<t>>]
             body == <<p>>
  <2>1. SoftDeleteClause(q) = body
    BY <1>2 DEF SoftDeleteClause
  <2>2. body # <<>> /\ DOMAIN body = 1 .. 1 /\ Len(body) = 1 /\ body[1] = p
    OBVIOUS
  <2>3. TermHolds(t, Truths(row)) <=> CondHolds(c, row)
    <3>1. t.mode = "all" /\ t.atoms = {c}
      BY DEF Term
    <3>2. TermHolds(t, Truths(row)) <=> {c} \subseteq Truths(row)
      BY <3>1 DEF TermHolds
    <3>4. c \in AnyCondition
      BY DEF AnyCondition, Operators, Live, Trashed, Cond
    <3>3. CondHolds(c, row) \in BOOLEAN
      BY DEF CondHolds, Cond, Live, Trashed
    <3> HIDE DEF c, t
    <3> QED BY <3>2, <3>3, <3>4 DEF Truths
  <2>4. CondHolds(c, row) <=> row.trashed = (q.trashed = "only")
    <3>1. CASE q.trashed = "only"
      <4>1. CondHolds(Trashed, row) = row.trashed
        BY DEF CondHolds, Trashed, Cond
      <4> QED BY <3>1, <4>1
    <3>2. CASE q.trashed # "only"
      <4>1. CondHolds(Live, row) = ~row.trashed
        BY DEF CondHolds, Live, Cond
      <4> QED BY <3>2, <4>1
    <3> QED BY <3>1, <3>2
  <2>5. PieceHolds(p, Truths(row)) <=> TermHolds(t, Truths(row))
    <3>1. p.any = <<t>>
      OBVIOUS
    <3> HIDE DEF t, p
    <3>2. DOMAIN <<t>> = {1} /\ <<t>>[1] = t
      OBVIOUS
    <3> QED BY <3>1, <3>2 DEF PieceHolds
  <2>6. p.conn = "AND"
    OBVIOUS
  <2> HIDE DEF body, p, t, c
  <2>7. BodyHolds(body, Truths(row)) <=> PieceHolds(p, Truths(row))
    <3>1. \A i \in 1 .. 1 : i = 1
      OBVIOUS
    <3>2. 1 \in 1 .. 1 /\ 1 \in Nat /\ 1 # 0
      OBVIOUS
    <3>3. \A i \in 1 .. 1 : body[i].conn = "AND"
      BY <2>2, <2>6, <3>1
    <3>4. BodyHolds(body, Truths(row)) <=> \A i \in 1 .. 1 : PieceHolds(body[i], Truths(row))
      BY <2>2, <3>2, <3>3, AllOfThem
    <3> QED BY <2>2, <3>1, <3>2, <3>4
  <2> QED BY <1>2, <2>1, <2>2, <2>3, <2>4, <2>5, <2>7
<1> QED BY <1>1, <1>2

\* One or two bodies, each of which has to hold.
AllHold(bodies, true) == \A i \in DOMAIN bodies : BodyHolds(bodies[i], true)
LEMMA BodiesJoin ==
  ASSUME NEW a, NEW b, NEW true
  PROVE  /\ AllHold(<<>> \o <<>>, true)
         /\ AllHold(<<a>> \o <<>>, true) <=> BodyHolds(a, true)
         /\ AllHold(<<>> \o <<b>>, true) <=> BodyHolds(b, true)
         /\ AllHold(<<a>> \o <<b>>, true) <=> (BodyHolds(a, true) /\ BodyHolds(b, true))
<1> DEFINE S == {a, b}
           both == <<a>> \o <<b>>
<1>1. <<>> \in Seq(S) /\ <<a>> \in Seq(S) /\ <<b>> \in Seq(S)
  OBVIOUS
<1>2. /\ DOMAIN <<>> = {} /\ DOMAIN <<a>> = {1} /\ DOMAIN <<b>> = {1} /\ Len(<<a>>) = 1 /\ Len(<<b>>) = 1
      /\ <<a>>[1] = a /\ <<b>>[1] = b
  OBVIOUS
<1> HIDE DEF S
<1>3. <<>> \o <<>> = <<>> /\ <<a>> \o <<>> = <<a>> /\ <<>> \o <<b>> = <<b>>
  BY <1>1, ConcatEmptySeq
<1>4. both \in Seq(S) /\ Len(both) = 1 + 1 /\ \A i \in 1 .. 1 + 1 : both[i] = IF i <= 1 THEN <<a>>[i] ELSE <<b>>[i - 1]
  BY <1>1, <1>2, ConcatProperties
<1> HIDE DEF both
<1>5. DOMAIN both = 1 .. 2 /\ both[1] = a /\ both[2] = b
  <2>1. DOMAIN both = 1 .. 1 + 1
    BY <1>4, SeqShape
  <2>2. both[1] = <<a>>[1] /\ both[2] = <<b>>[2 - 1]
    BY <1>4
  <2> QED BY <1>2, <2>1, <2>2
<1>6. AllHold(both, true) <=> (BodyHolds(a, true) /\ BodyHolds(b, true))
  <2>1. 1 \in 1 .. 2 /\ 2 \in 1 .. 2 /\ \A i \in 1 .. 2 : i = 1 \/ i = 2
    OBVIOUS
  <2> QED BY <1>5, <2>1 DEF AllHold
<1> QED BY <1>2, <1>3, <1>6 DEF AllHold, both

LEMMA StatementSelects ==
  ASSUME TableOk, ChainOk, soft \in BOOLEAN, query.trashed \in {"exclude", "include", "only"}, ~SplitBetween,
         NEW q, q.wheres = query.wheres, q.trashed = query.trashed
  PROVE  Matching(ComposeWhere(q)) = Meant
<1> SUFFICES ASSUME NEW id \in DOMAIN table
             PROVE  AllHold(ComposeWhere(q), Truths(table[id])) <=> (InScope(table[id]) /\ AskedHolds(asked, Truths(table[id])))
  BY MeantIs DEF Matching, AllHold
<1> DEFINE row == table[id]
           w == query.wheres
<1>1. row.trashed \in BOOLEAN
  BY DEF TableOk, IsRow
<1>2. AskedHolds(asked, Truths(row)) <=> RunsHold(OrRuns(w), Truths(row))
  BY SplitIs DEF ChainOk, ChainMeans, SameOf
<1>3. BuildWhereClauses(q) = IF w = <<>> THEN <<>> ELSE <<RenderWhereTerms(w)>>
  BY DEF BuildWhereClauses
<1>4. w = <<>> => AskedHolds(asked, Truths(row))
  <2> SUFFICES ASSUME w = <<>> PROVE AskedHolds(asked, Truths(row))
    OBVIOUS
  <2>1. asked = <<>> /\ DOMAIN <<>> = {}
    BY DEF ChainOk, ChainMeans
  <2> QED BY <2>1 DEF AskedHolds
<1>5. w # <<>> => (BodyHolds(RenderWhereTerms(w), Truths(row)) <=> AskedHolds(asked, Truths(row)))
  BY <1>2, RenderedMeans DEF ChainOk
<1>6. \/ SoftDeleteClause(q) = <<>> /\ InScope(row)
      \/ SoftDeleteClause(q) # <<>> /\ (BodyHolds(SoftDeleteClause(q), Truths(row)) <=> InScope(row))
  <2> HIDE DEF row
  <2>1. \/ SoftDeleteClause(q) = <<>> /\ (q.trashed = "include" \/ ~soft)
        \/ /\ SoftDeleteClause(q) # <<>> /\ q.trashed # "include" /\ soft
           /\ BodyHolds(SoftDeleteClause(q), Truths(row)) <=> row.trashed = (q.trashed = "only")
    BY <1>1, ScopeMeans
  <2> QED BY <2>1 DEF InScope
<1>7. ComposeWhere(q) = BuildWhereClauses(q) \o (IF SoftDeleteClause(q) = <<>> THEN <<>> ELSE <<SoftDeleteClause(q)>>)
  BY DEF ComposeWhere
<1> HIDE DEF row, w
<1>8. CASE w = <<>> /\ SoftDeleteClause(q) = <<>>
  <2>1. ComposeWhere(q) = <<>> \o <<>>
    BY <1>3, <1>7, <1>8
  <2>2. AllHold(ComposeWhere(q), Truths(row))
    BY <2>1, BodiesJoin
  <2> QED BY <1>4, <1>6, <1>8, <2>2 DEF row
<1>9. CASE w # <<>> /\ SoftDeleteClause(q) = <<>>
  <2>1. ComposeWhere(q) = <<RenderWhereTerms(w)>> \o <<>>
    BY <1>3, <1>7, <1>9
  <2>2. AllHold(ComposeWhere(q), Truths(row)) <=> BodyHolds(RenderWhereTerms(w), Truths(row))
    BY <2>1, BodiesJoin
  <2> QED BY <1>5, <1>6, <1>9, <2>2 DEF row
<1>10. CASE w = <<>> /\ SoftDeleteClause(q) # <<>>
  <2>1. ComposeWhere(q) = <<>> \o <<SoftDeleteClause(q)>>
    BY <1>3, <1>7, <1>10
  <2>2. AllHold(ComposeWhere(q), Truths(row)) <=> BodyHolds(SoftDeleteClause(q), Truths(row))
    BY <2>1, BodiesJoin
  <2> QED BY <1>4, <1>6, <1>10, <2>2 DEF row
<1>11. CASE w # <<>> /\ SoftDeleteClause(q) # <<>>
  <2>1. ComposeWhere(q) = <<RenderWhereTerms(w)>> \o <<SoftDeleteClause(q)>>
    BY <1>3, <1>7, <1>11
  <2>2. AllHold(ComposeWhere(q), Truths(row)) <=> (BodyHolds(RenderWhereTerms(w), Truths(row)) /\ BodyHolds(SoftDeleteClause(q), Truths(row)))
    BY <2>1, BodiesJoin
  <2> QED BY <1>5, <1>6, <1>11, <2>2 DEF row
<1> QED BY <1>8, <1>9, <1>10, <1>11

----------------------------------------------------------------------------
(* An arrangement lists its rows, and a page is a stretch of it.                *)
Lists(s, S) ==
  /\ s \in Seq(S) /\ Len(s) = Cardinality(S)
  /\ \A x \in S : \E i \in 1 .. Len(s) : s[i] = x
  /\ \A i, j \in 1 .. Len(s) : s[i] = s[j] => i = j

LEMMA InjectionLists ==
  ASSUME NEW S, IsFiniteSet(S), NEW f \in [1 .. Cardinality(S) -> S], IsInjective(f)
  PROVE  Lists(f, S)
<1> DEFINE n == Cardinality(S)
<1>1. n \in Nat
  BY FS_CardinalityType
<1>2. \A i, j \in 1 .. n : f[i] = f[j] => i = j
  BY DEF IsInjective
<1>3. f \in Surjection(1 .. n, S)
  <2>1. IsFiniteSet(1 .. n) /\ Cardinality(1 .. n) = n
    <3>1. IsFiniteSet(1 .. n) /\ Cardinality(1 .. n) = IF 1 > n THEN 0 ELSE n - 1 + 1
      BY <1>1, FS_Interval
    <3> HIDE DEF n
    <3>2. (IF 1 > n THEN 0 ELSE n - 1 + 1) = n
      BY <1>1
    <3> QED BY <3>1, <3>2
  <2>2. f \in Injection(1 .. n, S)
    BY <1>2 DEF Injection
  <2> QED BY <2>1, <2>2, FS_Injection
<1>4. \A x \in S : \E i \in 1 .. n : f[i] = x
  BY <1>3 DEF Surjection
<1>5. f \in Seq(S) /\ Len(f) = n
  <2>1. f \in [1 .. n -> S]
    OBVIOUS
  <2> HIDE DEF n
  <2> QED BY <1>1, <2>1, SeqFrom
<1> QED BY <1>2, <1>4, <1>5 DEF Lists

LEMMA SetListed ==
  ASSUME NEW S, IsFiniteSet(S)
  PROVE  Lists(SetToSeq(S), S) /\ ToSet(SetToSeq(S)) = S
<1> DEFINE n == Cardinality(S)
           f == SetToSeq(S)
<1>1. n \in Nat /\ ExistsBijection(1 .. n, S)
  BY FS_CardinalityType
<1>2. PICK g \in [1 .. n -> S] : IsInjective(g)
  BY <1>1 DEF ExistsBijection, Bijection, Injection
<1>4. f \in [1 .. n -> S] /\ IsInjective(f)
  BY <1>2 DEF SetToSeq
<1> HIDE DEF f
<1>5. Lists(f, S)
  BY <1>4, InjectionLists
<1>6. \A x : x \in ToSet(f) <=> x \in S
  BY <1>4, <1>5 DEF Lists, ToSet
<1> QED BY <1>5, <1>6 DEF f

LEMMA ArrangementLists ==
  ASSUME NEW S, IsFiniteSet(S), NEW order, NEW s \in Arrangements(S, order)
  PROVE  Lists(s, S) /\ \A i, j \in 1 .. Len(s) : i < j => NotAfter(s[i], s[j], order)
<1>1. s \in [1 .. Cardinality(S) -> S] /\ IsInjective(s)
  BY DEF Arrangements
<1>2. Lists(s, S)
  BY <1>1, InjectionLists
<1>3. \A i, j \in DOMAIN s : i < j => NotAfter(s[i], s[j], order)
  BY DEF Arrangements
<1>4. DOMAIN s = 1 .. Len(s)
  BY <1>2, SeqShape DEF Lists
<1> QED BY <1>2, <1>3, <1>4

From(offset) == IF offset = NoClause THEN 0 ELSE offset
Upto(s, limit, offset) ==
  IF limit = NoClause \/ From(offset) + limit >= Len(s) THEN Len(s) ELSE From(offset) + limit
Clause == Nat \cup {NoClause}

LEMMA PageIs ==
  ASSUME NEW S, NEW s \in Seq(S), NEW limit \in Clause, NEW offset \in Clause
  PROVE  LET r == Page(s, limit, offset)
             f == From(offset)
             u == Upto(s, limit, offset)
         IN  /\ f \in Nat /\ u \in 0 .. Len(s)
             /\ f >= Len(s) => r = <<>>
             /\ f < Len(s) => /\ r \in Seq(S) /\ f <= u /\ Len(r) = u - f
                              /\ \A i \in 1 .. u - f : r[i] = s[f + i]
<1> DEFINE r == Page(s, limit, offset)
           f == From(offset)
           u == Upto(s, limit, offset)
           n == Len(s)
<1>1. n \in Nat
  BY SeqShape
<1>2. f \in Nat
  BY DEF From, Clause
<1>3. u \in 0 .. n /\ (f < n => f <= u)
  <2>1. u = IF limit = NoClause \/ f + limit >= n THEN n ELSE f + limit
    BY DEF Upto
  <2>2. limit # NoClause => limit \in Nat
    BY DEF Clause
  <2> HIDE DEF u, f, n
  <2> QED BY <1>1, <1>2, <2>1, <2>2
<1>4. f >= n => r = <<>>
  BY DEF Page, From
<1>5. f < n => r = SubSeq(s, f + 1, u)
  <2>1. SUFFICES ASSUME f < n PROVE r = SubSeq(s, f + 1, u)
    OBVIOUS
  <2> DEFINE up == IF limit = NoClause THEN n ELSE f + limit
  <2>2. r = SubSeq(s, f + 1, IF up < n THEN up ELSE n)
    <3>1. ~(f >= n)
      <4> HIDE DEF f, n
      <4> QED BY <1>1, <1>2, <2>1
    <3> QED BY <3>1 DEF Page, From
  <2>3. u = IF limit = NoClause \/ f + limit >= n THEN n ELSE f + limit
    BY DEF Upto
  <2>4. limit # NoClause => limit \in Nat
    BY DEF Clause
  <2> HIDE DEF u, f, n, r
  <2>5. (IF up < n THEN up ELSE n) = u
    BY <1>1, <1>2, <2>3, <2>4
  <2> QED BY <2>2, <2>5
<1> HIDE DEF u, f, r
<1>6. ASSUME f < n PROVE r \in Seq(S) /\ Len(r) = u - f /\ \A i \in 1 .. u - f : r[i] = s[f + i]
  <2>1. f + 1 \in 1 .. n + 1 /\ u \in f .. n
    <3> HIDE DEF n
    <3> QED BY <1>1, <1>2, <1>3, <1>6
  <2>2. \A i \in 1 .. u - f : (f + 1) + i - 1 = f + i
    <3> HIDE DEF n
    <3> QED BY <1>1, <1>2, <1>3
  <2>3. r = SubSeq(s, f + 1, u)
    BY <1>5, <1>6
  <2>4. SubSeq(s, f + 1, u) \in Seq(S) /\ Len(SubSeq(s, f + 1, u)) = u - f
        /\ \A i \in 1 .. u - f : SubSeq(s, f + 1, u)[i] = s[f + i]
    <3> DEFINE g == f + 1
    <3>1. g \in 1 .. n + 1 /\ u \in g - 1 .. n /\ u - g + 1 = u - f
      <4> HIDE DEF n
      <4> QED BY <1>1, <1>2, <1>3, <2>1
    <3>2. \A i \in 1 .. u - f : g + i - 1 = f + i
      BY <2>2
    <3> HIDE DEF g
    <3>3. /\ SubSeq(s, g, u) \in Seq(S)
          /\ Len(SubSeq(s, g, u)) = IF g <= u THEN u - g + 1 ELSE 0
          /\ \A i \in 1 .. u - g + 1 : SubSeq(s, g, u)[i] = s[g + i - 1]
      BY <3>1, SubSeqProperties
    <3>4. (IF g <= u THEN u - g + 1 ELSE 0) = u - f
      <4> HIDE DEF n
      <4> QED BY <1>1, <1>2, <1>3, <3>1
    <3> QED BY <3>1, <3>2, <3>3, <3>4 DEF g
  <2> QED BY <2>3, <2>4
<1> QED BY <1>2, <1>3, <1>4, <1>6 DEF f, r, u

\* A row of a page is one of the listed ones.
LEMMA PageOfThem ==
  ASSUME NEW S, NEW s \in Seq(S), NEW limit \in Clause, NEW offset \in Clause
  PROVE  Page(s, limit, offset) \in Seq(S) /\ ToSet(Page(s, limit, offset)) \subseteq S
<1> DEFINE r == Page(s, limit, offset)
<1>1. r \in Seq(S)
  <2>1. CASE From(offset) >= Len(s)
    <3>1. r = <<>>
      BY <2>1, PageIs
    <3> QED BY <3>1
  <2>2. CASE From(offset) < Len(s)
    BY <2>2, PageIs
  <2>3. From(offset) \in Nat /\ Len(s) \in Nat
    BY PageIs, SeqShape
  <2> QED BY <2>1, <2>2, <2>3
<1> HIDE DEF r
<1>2. \A i \in DOMAIN r : r[i] \in S
  BY <1>1, SeqShape
<1> QED BY <1>1, <1>2 DEF ToSet, r

----------------------------------------------------------------------------
(* What the terminals answer, of the rows the chain asked for.                  *)
AnswersOk == OwnRowsOnly /\ OneRowTerminals
Quiet == run = NoRun \/ told = NotTold
RowsInv == QueryInv /\ TableOk /\ ChainOk /\ Quiet /\ AnswersOk

LEMMA RowsAre ==
  ASSUME NEW q, NEW r \in Rows(q)
  PROVE  \/ \E s \in Arrangements(Matching(ComposeWhere(q)), q.order) :
              r.ids = Page(s, q.limit, q.offset) /\ r.err = FALSE
         \/ q.offset # NoClause /\ q.limit = NoClause /\ r.ids = <<>> /\ r.err = TRUE
<1> DEFINE A == Arrangements(Matching(ComposeWhere(q)), q.order)
           Good(s) == [ids |-> Page(s, q.limit, q.offset), err |-> FALSE]
           Bad == [ids |-> <<>>, err |-> TRUE]
<1>1. r \in {Good(s) : s \in A} \/ (q.offset # NoClause /\ q.limit = NoClause /\ r = Bad)
  BY DEF Rows
<1>2. CASE r \in {Good(s) : s \in A}
  <2>1. PICK s \in A : r = Good(s)
    BY <1>2
  <2>2. r.ids = Page(s, q.limit, q.offset) /\ r.err = FALSE
    BY <2>1
  <2> HIDE DEF A
  <2> QED BY <2>1, <2>2 DEF A
<1>3. CASE q.offset # NoClause /\ q.limit = NoClause /\ r = Bad
  <2>1. r.ids = <<>> /\ r.err = TRUE
    BY <1>3
  <2> QED BY <1>3, <2>1
<1> QED BY <1>1, <1>2, <1>3

LEMMA MatchingFinite == ASSUME TableOk, NEW bodies PROVE IsFiniteSet(Matching(bodies))
<1>1. Matching(bodies) \in SUBSET DOMAIN table
  BY DEF Matching
<1> QED BY <1>1, FS_Subset DEF TableOk

LEMMA MeantFinite == ASSUME TableOk PROVE IsFiniteSet(Meant) /\ Cardinality(Meant) \in Nat /\ Meant \subseteq DOMAIN table
<1>1. Meant \in SUBSET DOMAIN table
  BY DEF Meant
<1> QED BY <1>1, FS_Subset, FS_CardinalityType DEF TableOk

\* The first row, and the first two.
LEMMA FirstRows ==
  ASSUME NEW S, IsFiniteSet(S), NEW s, Lists(s, S)
  PROVE  /\ Page(s, 1, NoClause) = <<>> <=> S = {}
         /\ Len(Page(s, 2, NoClause)) = 1 <=> Cardinality(S) = 1
<1> DEFINE n == Len(s)
<1>1. s \in Seq(S) /\ n = Cardinality(S) /\ n \in Nat /\ (n = 0 <=> S = {})
  BY FS_CardinalityType, FS_EmptySet DEF Lists
<1>2. 1 \in Clause /\ 2 \in Clause /\ NoClause \in Clause /\ From(NoClause) = 0
  BY DEF Clause, From
<1>3. /\ Upto(s, 1, NoClause) = IF 0 + 1 >= n THEN n ELSE 0 + 1
      /\ Upto(s, 2, NoClause) = IF 0 + 2 >= n THEN n ELSE 0 + 2
  BY <1>2 DEF Upto, NoClause
<1>4. ASSUME NEW limit \in {1, 2}
      PROVE  /\ 0 >= n => Page(s, limit, NoClause) = <<>>
             /\ 0 < n => Page(s, limit, NoClause) \in Seq(S) /\ Len(Page(s, limit, NoClause)) = Upto(s, limit, NoClause) - 0
  <2>1. limit \in Clause /\ NoClause \in Clause /\ s \in Seq(S)
    BY <1>1, <1>2
  <2> DEFINE r == Page(s, limit, NoClause)
             f == From(NoClause)
             u == Upto(s, limit, NoClause)
  <2> HIDE DEF r, f, u
  <2>2. (f >= n => r = <<>>) /\ (f < n => r \in Seq(S) /\ Len(r) = u - f)
    BY <2>1, PageIs DEF r, f, u
  <2>3. f = 0
    BY <1>2 DEF f
  <2> QED BY <2>2, <2>3 DEF r, u
<1> HIDE DEF n
<1>5. CASE n = 0
  <2>1. Page(s, 1, NoClause) = <<>> /\ Page(s, 2, NoClause) = <<>> /\ Len(<<>>) = 0
    BY <1>4, <1>5
  <2> QED BY <1>1, <1>5, <2>1
<1>6. CASE n # 0
  <2>1. 0 < n
    BY <1>1, <1>6
  <2> DEFINE p == Page(s, 1, NoClause)
             k == Len(Page(s, 2, NoClause))
  <2>2. Len(p) = (IF 0 + 1 >= n THEN n ELSE 0 + 1) - 0
    BY <1>3, <1>4, <2>1
  <2>3. k = (IF 0 + 2 >= n THEN n ELSE 0 + 2) - 0
    BY <1>3, <1>4, <2>1
  <2> HIDE DEF p, k
  <2>4. Len(p) = 1
    BY <1>1, <2>1, <2>2
  <2>5. p # <<>>
    BY <2>4, Len(<<>>) = 0
  <2>6. k = 1 <=> n = 1
    BY <1>1, <2>1, <2>3
  <2> QED BY <1>1, <1>6, <2>5, <2>6 DEF p, k
<1> QED BY <1>5, <1>6

\* Answers of another kind are not promised anything here, and those that stand
\* keep their promise while the builder and the table stay as they are.
RowOps == {"write", "count", "max", "get", "pluck", "first", "last", "sole"}
LEMMA OtherAnswers == ASSUME told'.op \notin RowOps PROVE AnswersOk'
BY DEF AnswersOk, OwnRowsOnly, OneRowTerminals, RowOps

LEMMA StandingAnswers ==
  ASSUME AnswersOk, UNCHANGED <<told, asked, table>>, query'.offset = query.offset
  PROVE  AnswersOk'
<1>1. OwnRowsOnly'
  BY DEF AnswersOk, OwnRowsOnly, SplitBetween, Largest
<1>2. OneRowTerminals'
  BY DEF AnswersOk, OneRowTerminals, SplitBetween
<1> QED BY <1>1, <1>2 DEF AnswersOk

LEMMA QuietNotTold == ASSUME told = NotTold PROVE told.op = "none" /\ told.op \notin RowOps
BY DEF NotTold, RowOps

\* One chained call.
LEMMA PushKeeps ==
  ASSUME ChainOk, NEW t \in AnyTerm, query' = [query EXCEPT !.wheres = @ \o <<t>>],
         asked' = Append(asked, t), QueryShape
  PROVE  ChainOk'
<1> DEFINE w == query.wheres
<1>1. query'.wheres = w \o <<t>>
  BY DEF QueryShape
<1>2. w \in Seq(AnyTerm) /\ asked \in Seq(AnyTerm) /\ ChainMeans(w, asked)
  BY DEF ChainOk
<1> HIDE DEF w
<1>3. w \o <<t>> = Append(w, t) /\ Append(w, t) \in Seq(AnyTerm) /\ Append(asked, t) \in Seq(AnyTerm)
  BY <1>2, AppendIsConcat, AppendProperties
<1>4. ChainMeans(Append(w, t), Append(asked, t))
  BY <1>2, ConditionMeans, TermCalls
<1> QED BY <1>1, <1>3, <1>4 DEF ChainOk

LEMMA BetweenKeeps ==
  ASSUME ChainOk, WhereBetween, QueryShape
  PROVE  ChainOk'
<1> DEFINE w == query.wheres
           le == Cond("<=", {1})
<1>1. PICK lo \in 0 .. 1 :
        Push(<<Term("AND", "all", {Cond(">=", {lo})}, <<>>), Term("AND", "all", {le}, <<>>)>>,
             Term("AND", "all", {Cond(">=", {lo}), le}, <<>>))
  BY DEF WhereBetween
<1> DEFINE ge == Cond(">=", {lo})
           t1 == Term("AND", "all", {ge}, <<>>)
           t2 == Term("AND", "all", {le}, <<>>)
           t == Term("AND", "all", {ge, le}, <<>>)
<1>2. query'.wheres = w \o <<t1, t2>> /\ asked' = Append(asked, t)
  BY <1>1 DEF Push, QueryShape
<1>3. ge \in AnyCondition /\ le \in AnyCondition
  <2>1. lo = 0 \/ lo = 1
    OBVIOUS
  <2> QED BY <2>1 DEF AnyCondition, Operators, Cond
<1>4. t1 \in AnyTerm /\ t2 \in AnyTerm /\ t \in AnyTerm
  <2>1. {ge} \in SUBSET AnyCondition /\ {le} \in SUBSET AnyCondition /\ {ge, le} \in SUBSET AnyCondition
    BY <1>3
  <2>2. \A atoms \in SUBSET AnyCondition : Term("AND", "all", atoms, <<>>) \in AnyTerm
    BY DEF AnyTerm, Conn
  <2> HIDE DEF ge, le
  <2> QED BY <2>1, <2>2
<1>5. ge # le
  BY DEF Cond
<1>6. /\ t1.conn = "AND" /\ t1.mode = "all" /\ t1.atoms = {ge}
      /\ t2.conn = "AND" /\ t2.mode = "all" /\ t2.atoms = {le}
      /\ t.conn = "AND" /\ t.mode = "all" /\ t.atoms = {ge, le}
  BY DEF Term
<1> HIDE DEF ge, le
<1>7. Cardinality({ge, le}) = 2
  <2>1. IsFiniteSet({ge}) /\ Cardinality({ge}) = 1
    BY FS_Singleton
  <2>2. Cardinality({ge} \cup {le}) = Cardinality({ge}) + 1
    BY <1>5, <2>1, FS_AddElement
  <2>3. {ge} \cup {le} = {ge, le}
    OBVIOUS
  <2> QED BY <2>1, <2>2, <2>3
<1> HIDE DEF t1, t2, t
<1>8. IsBetween(t)
  BY <1>6, <1>7 DEF IsBetween
<1>9. \A row : TermHolds(t, row) <=> (TermHolds(t1, row) /\ TermHolds(t2, row))
  BY <1>6 DEF TermHolds
<1>10. w \in Seq(AnyTerm) /\ asked \in Seq(AnyTerm) /\ ChainMeans(w, asked)
  BY DEF ChainOk
<1> HIDE DEF w
<1>11. ChainMeans(Append(Append(w, t1), t2), Append(asked, t))
  BY <1>4, <1>6, <1>8, <1>9, <1>10, BetweenMeans, TermCalls
<1>12. w \o <<t1, t2>> = Append(Append(w, t1), t2)
  BY <1>4, <1>10
<1>13. Append(Append(w, t1), t2) \in Seq(AnyTerm) /\ Append(asked, t) \in Seq(AnyTerm)
  BY <1>4, <1>10, AppendProperties
<1> QED BY <1>2, <1>11, <1>12, <1>13 DEF ChainOk

USE ModelQueryAssumption

LEMMA RowsInvInit == QueryInit => RowsInv
<1> SUFFICES ASSUME QueryInit PROVE RowsInv
  OBVIOUS
<1> USE DEF QueryInit
<1>1. TableOk
  BY DEF TableOk
<1>2. ChainOk
  <2>1. query.wheres = <<>> /\ asked = <<>>
    BY DEF Fresh
  <2>2. \A row : SameOf(<<>>, <<>>, row)
    <3> TAKE row
    <3>1. DOMAIN <<>> = {}
      OBVIOUS
    <3> QED BY <3>1, OrRunsBegin DEF SameOf, RunsHold, EarlierHold, LastHolds, AskedHolds, AskedEarlier, AskedLast
  <2>3. <<>> \in Seq(AnyTerm)
    OBVIOUS
  <2> QED BY <2>1, <2>2, <2>3 DEF ChainOk, ChainMeans
<1>3. AnswersOk
  BY DEF NotTold, AnswersOk, OwnRowsOnly, OneRowTerminals
<1> QED BY <1>1, <1>2, <1>3, QueryInvInit DEF RowsInv, Quiet

\* get, pluck, first, last and sole, of a builder with these clauses.
LEMMA SelectKeeps ==
  ASSUME RowsInv, NEW q, q.wheres = query.wheres, q.trashed = query.trashed, q.offset = query.offset,
         q.limit \in Clause, query'.offset = query.offset, asked' = asked, table' = table,
         NEW op \in {"get", "pluck", "first", "last", "sole"}, NEW r \in Rows(q), NEW err \in BOOLEAN,
         op \in {"first", "last"} => q.limit = 1,
         op = "sole" => q.limit = 2 /\ (err <=> (r.err \/ Len(r.ids) # 1)),
         told' = Answer(op, r.ids, 0, err, FALSE)
  PROVE  AnswersOk'
<1> DEFINE S == Matching(ComposeWhere(q))
           ids == r.ids
<1>1. told'.op = op /\ told'.ids = ids /\ told'.meant = Meant /\ (told'.err <=> err)
  BY DEF Answer
<1>2. /\ TableOk /\ ChainOk /\ soft \in BOOLEAN /\ query.trashed \in {"exclude", "include", "only"}
      /\ query.offset \in Clause
  BY DEF RowsInv, QueryInv, QueryShape, Clause
<1>3. ~SplitBetween => S = Meant
  BY <1>2, StatementSelects
<1>4. IsFiniteSet(S)
  BY <1>2, MatchingFinite
<1>5. SplitBetween' <=> SplitBetween
  BY DEF SplitBetween
<1> HIDE DEF S
<1>6. \/ \E s \in Arrangements(S, q.order) : ids = Page(s, q.limit, q.offset) /\ r.err = FALSE
      \/ q.offset # NoClause /\ q.limit = NoClause /\ ids = <<>> /\ r.err = TRUE
  BY RowsAre DEF S
<1>7. ToSet(ids) \subseteq S
  <2>1. CASE ids = <<>>
    <3>1. DOMAIN <<>> = {}
      OBVIOUS
    <3> QED BY <2>1, <3>1 DEF ToSet
  <2>2. CASE \E s \in Arrangements(S, q.order) : ids = Page(s, q.limit, q.offset)
    <3>1. PICK s \in Arrangements(S, q.order) : ids = Page(s, q.limit, q.offset)
      BY <2>2
    <3>2. s \in Seq(S)
      BY <1>4, ArrangementLists DEF Lists
    <3> QED BY <1>2, <3>1, <3>2, PageOfThem
  <2> QED BY <1>6, <2>1, <2>2
<1>8. OwnRowsOnly'
  <2> SUFFICES ASSUME ~SplitBetween PROVE ToSet(told'.ids) \subseteq told'.meant
    BY <1>1, <1>5 DEF OwnRowsOnly
  <2> QED BY <1>1, <1>3, <1>7
<1>9. OneRowTerminals'
  <2>0. op \in {"first", "last", "sole"} \/ OneRowTerminals'
    BY <1>1 DEF OneRowTerminals
  <2> SUFFICES ASSUME ~SplitBetween, query.offset = NoClause, op \in {"first", "last", "sole"}
               PROVE  /\ op \in {"first", "last"} => (told'.ids = <<>> <=> told'.meant = {})
                      /\ op = "sole" => (~told'.err <=> Cardinality(told'.meant) = 1)
    BY <1>1, <1>5, <2>0 DEF OneRowTerminals
  <2>1. PICK s \in Arrangements(S, q.order) : ids = Page(s, q.limit, NoClause) /\ r.err = FALSE
    BY <1>6
  <2>2. Lists(s, S)
    BY <1>4, <2>1, ArrangementLists
  <2>3. /\ Page(s, 1, NoClause) = <<>> <=> S = {}
        /\ Len(Page(s, 2, NoClause)) = 1 <=> Cardinality(S) = 1
    BY <1>4, <2>2, FirstRows
  <2>4. S = told'.meant
    BY <1>1, <1>3
  <2>5. CASE op \in {"first", "last"}
    BY <1>1, <2>1, <2>3, <2>4, <2>5
  <2>6. CASE op = "sole"
    <3>1. told'.err <=> (r.err \/ Len(ids) # 1)
      BY <1>1, <2>6
    <3> QED BY <2>1, <2>3, <2>4, <2>6, <3>1
  <2> QED BY <2>5, <2>6
<1> QED BY <1>8, <1>9 DEF AnswersOk

LEMMA GetKeeps == ASSUME RowsInv, Get PROVE AnswersOk'
<1>1. PICK op \in {"get", "first", "last", "sole"} :
        /\ query' = Limited(op)
        /\ \E r \in Rows(Limited(op)) :
             told' = Answer(op, r.ids, 0, r.err \/ (op = "sole" /\ Len(r.ids) # 1), FALSE)
  BY DEF Get
<1> DEFINE q == Limited(op)
<1>2. PICK r \in Rows(q) : told' = Answer(op, r.ids, 0, r.err \/ (op = "sole" /\ Len(r.ids) # 1), FALSE)
  BY <1>1
<1>3. /\ q.wheres = query.wheres /\ q.trashed = query.trashed /\ q.offset = query.offset
      /\ q.limit \in Clause
      /\ op \in {"first", "last"} => q.limit = 1
      /\ op = "sole" => q.limit = 2
  <2>1. QueryShape
    BY DEF RowsInv, QueryInv
  <2>2. query.limit \in Clause
    BY <2>1 DEF QueryShape, Clause
  <2>3. CASE op = "get"
    BY <2>2, <2>3 DEF Limited
  <2>4. CASE op = "first"
    BY <2>1, <2>4 DEF Limited, QueryShape, Clause
  <2>5. CASE op = "last"
    BY <2>1, <2>5 DEF Limited, QueryShape, Clause
  <2>6. CASE op = "sole"
    BY <2>1, <2>6 DEF Limited, QueryShape, Clause
  <2> QED BY <2>3, <2>4, <2>5, <2>6
<1> DEFINE err == r.err \/ (op = "sole" /\ Len(r.ids) # 1)
<1>4. err \in BOOLEAN
  OBVIOUS
<1>5. op = "sole" => (err <=> (r.err \/ Len(r.ids) # 1))
  OBVIOUS
<1>6. query'.offset = query.offset /\ asked' = asked /\ table' = table /\ told' = Answer(op, r.ids, 0, err, FALSE)
  BY <1>1, <1>2, <1>3 DEF Get
<1> HIDE DEF q, err
<1> QED BY <1>2, <1>3, <1>4, <1>5, <1>6, SelectKeeps DEF q

LEMMA PluckKeeps == ASSUME RowsInv, Pluck PROVE AnswersOk'
<1>1. PICK r \in Rows(query) : told' = Answer("pluck", r.ids, 0, r.err, FALSE)
  BY DEF Pluck
<1>2. query.limit \in Clause
  BY DEF RowsInv, QueryInv, QueryShape, Clause
<1>3. query' = query /\ asked' = asked /\ table' = table
  BY DEF Pluck
<1>4. r.err \in BOOLEAN
  BY RowsAre
<1> QED BY <1>1, <1>2, <1>3, <1>4, SelectKeeps

\* count, the aggregates and the writes.
LEMMA CountedKeeps == ASSUME RowsInv, Count \/ Aggregate \/ Write PROVE AnswersOk'
<1> DEFINE S == Matching(ComposeWhere(query))
<1>1. /\ TableOk /\ ChainOk /\ soft \in BOOLEAN /\ query.trashed \in {"exclude", "include", "only"}
  BY DEF RowsInv, QueryInv, QueryShape
<1>2. ~SplitBetween => S = Meant
  BY <1>1, StatementSelects
<1>3. SplitBetween' <=> SplitBetween
  BY DEF SplitBetween, Count, Aggregate, Write
<1>4. IsFiniteSet(S)
  BY <1>1, MatchingFinite
<1>5. ASSUME told'.op \in {"count", "max", "write"} PROVE OneRowTerminals'
  BY <1>5 DEF OneRowTerminals
<1>6. CASE Count
  <2>1. told'.op = "count" /\ told'.n = Cardinality(S) /\ told'.meant = Meant
    BY <1>6 DEF Count, Answer
  <2> HIDE DEF S
  <2>2. OwnRowsOnly'
    BY <1>2, <1>3, <2>1 DEF OwnRowsOnly
  <2> QED BY <1>5, <2>1, <2>2 DEF AnswersOk
<1>7. CASE Aggregate
  <2>1. told'.op = "max" /\ told'.n = Largest(S) /\ told'.meant = Meant /\ table' = table
    BY <1>7 DEF Aggregate, Answer
  <2> HIDE DEF S
  <2>2. ~SplitBetween => told'.n = Max({table'[id].n : id \in told'.meant} \cup {Null})
    BY <1>2, <2>1 DEF Largest
  <2>3. OwnRowsOnly'
    BY <1>3, <2>1, <2>2 DEF OwnRowsOnly, Largest
  <2> QED BY <1>5, <2>1, <2>3 DEF AnswersOk
<1>8. CASE Write
  <2>1. CASE told'.op = "refused"
    <3>1. told'.op \notin RowOps
      BY <2>1 DEF RowOps
    <3> QED BY <3>1, OtherAnswers
  <2>2. CASE told'.op # "refused"
    <3>1. told' = Answer("write", SetToSeq(S), Cardinality(S), FALSE, FALSE)
      BY <1>8, <2>2 DEF Write, Answer
    <3>2. told'.op = "write" /\ told'.n = Cardinality(S) /\ told'.meant = Meant /\ told'.ids = SetToSeq(S)
      BY <3>1 DEF Answer
    <3> HIDE DEF S
    <3>3. ToSet(SetToSeq(S)) = S
      BY <1>4, SetListed
    <3>4. OwnRowsOnly'
      BY <1>2, <1>3, <3>2, <3>3 DEF OwnRowsOnly
    <3> QED BY <1>5, <3>2, <3>4 DEF AnswersOk
  <2> QED BY <2>1, <2>2
<1> QED BY <1>6, <1>7, <1>8

\* A table whose rows change their number or their state, or go.
LEMMA RowChanges ==
  ASSUME TableOk, NEW id \in DOMAIN table
  PROVE  /\ IsRow([table[id] EXCEPT !.n = 0]) /\ IsRow([table[id] EXCEPT !.n = @ + 1])
         /\ IsRow([table[id] EXCEPT !.trashed = ~@])
         /\ IsRow(table[id])
<1> DEFINE row == table[id]
<1>1. row = [n |-> row.n, trashed |-> row.trashed] /\ row.trashed \in BOOLEAN
  BY DEF TableOk, IsRow
<1> DEFINE Like(x) == x = [n |-> x.n, trashed |-> x.trashed]
<1> HIDE DEF row
<1>2. ASSUME NEW n, NEW t \in BOOLEAN PROVE IsRow([n |-> n, trashed |-> t])
  BY DEF IsRow
<1>3. [row EXCEPT !.n = 0] = [n |-> 0, trashed |-> row.trashed]
  BY <1>1
<1>4. [row EXCEPT !.n = @ + 1] = [n |-> row.n + 1, trashed |-> row.trashed]
  BY <1>1
<1>5. [row EXCEPT !.trashed = ~@] = [n |-> row.n, trashed |-> ~row.trashed]
  BY <1>1
<1>6. (~row.trashed) \in BOOLEAN
  BY <1>1
<1>7. IsRow(row)
  BY <1>1 DEF IsRow
<1>8. IsRow([row EXCEPT !.n = 0])
  BY <1>1, <1>2, <1>3
<1>9. IsRow([row EXCEPT !.n = @ + 1])
  BY <1>1, <1>2, <1>4
<1>10. IsRow([row EXCEPT !.trashed = ~@])
  BY <1>2, <1>5, <1>6
<1> QED BY <1>7, <1>8, <1>9, <1>10 DEF row

LEMMA LessOfTable ==
  ASSUME TableOk, NEW gone, table' = [id \in (DOMAIN table) \ gone |-> table[id]]
  PROVE  TableOk'
<1>1. DOMAIN table' = (DOMAIN table) \ gone /\ \A id \in DOMAIN table' : table'[id] = table[id]
  OBVIOUS
<1>2. DOMAIN table' \in SUBSET DOMAIN table
  BY <1>1
<1>3. IsFiniteSet(DOMAIN table')
  BY <1>2, FS_Subset DEF TableOk
<1>4. \A id \in DOMAIN table' : IsRow(table'[id])
  BY <1>1, <1>2 DEF TableOk
<1> QED BY <1>2, <1>3, <1>4 DEF TableOk

LEMMA TableKeeps ==
  ASSUME RowsInv, [QueryNext]_queryVars
  PROVE  TableOk'
<1>1. TableOk
  BY DEF RowsInv
<1>2. CASE table' = table
  BY <1>1, <1>2 DEF TableOk
<1>3. CASE \E gone : table' = [id \in (DOMAIN table) \ gone |-> table[id]]
  BY <1>1, <1>3, LessOfTable
<1>4. ASSUME NEW t, table' = t, DOMAIN t = DOMAIN table, \A id \in DOMAIN table : IsRow(t[id]) PROVE TableOk'
  BY <1>1, <1>4 DEF TableOk
<1>5. CASE Write
  <2> DEFINE hit == Matching(ComposeWhere(query))
             t2 == [id \in DOMAIN table |-> IF id \in hit THEN [table[id] EXCEPT !.n = 0] ELSE table[id]]
             t3 == [id \in DOMAIN table |-> IF id \in hit /\ table[id].n = 0
                                            THEN [table[id] EXCEPT !.n = @ + 1] ELSE table[id]]
  <2>1. table' = table \/ table' = [id \in (DOMAIN table) \ hit |-> table[id]] \/ table' = t2 \/ table' = t3
    BY <1>5 DEF Write
  <2>2. \A id \in DOMAIN table : IsRow(t2[id]) /\ IsRow(t3[id])
    BY <1>1, RowChanges
  <2>3. DOMAIN t2 = DOMAIN table /\ DOMAIN t3 = DOMAIN table
    OBVIOUS
  <2> HIDE DEF t2, t3, hit
  <2> QED BY <1>2, <1>3, <1>4, <2>1, <2>2, <2>3
<1>6. CASE Destroy
  <2>1. \E gone : table' = [id \in (DOMAIN table) \ gone |-> table[id]]
    BY <1>6 DEF Destroy
  <2> QED BY <1>3, <2>1
<1>7. CASE Others
  <2>1. PICK id \in DOMAIN table :
          \/ table' = [i \in (DOMAIN table) \ {id} |-> table[i]]
          \/ table' = [table EXCEPT ![id].trashed = ~@]
    BY <1>7 DEF Others
  <2> DEFINE t == [table EXCEPT ![id] = [table[id] EXCEPT !.trashed = ~@]]
  <2>2. CASE table' = [i \in (DOMAIN table) \ {id} |-> table[i]]
    <3>1. \E gone : table' = [i \in (DOMAIN table) \ gone |-> table[i]]
      BY <2>2
    <3> QED BY <1>3, <3>1
  <2>3. CASE table' = t
    <3>1. DOMAIN t = DOMAIN table /\ \A i \in DOMAIN table : t[i] = IF i = id THEN [table[id] EXCEPT !.trashed = ~@] ELSE table[i]
      OBVIOUS
    <3>2. \A i \in DOMAIN table : IsRow(t[i])
      BY <1>1, <3>1, RowChanges
    <3> HIDE DEF t
    <3> QED BY <1>4, <2>3, <3>1, <3>2
  <2> QED BY <2>1, <2>2, <2>3
<1>8. CASE Where \/ WhereBetween \/ WhereGroup \/ OrderBy \/ Limit \/ Offset \/ TrashScope
  BY <1>2, <1>8 DEF Where, WhereBetween, WhereGroup, Push, OrderBy, Limit, Offset, TrashScope, Chained
<1>9. CASE Get \/ Pluck \/ Count \/ Aggregate \/ Find \/ Paginate \/ PageArrives \/ Chunk \/ ChunkArrives
  BY <1>2, <1>9 DEF Get, Pluck, Count, Aggregate, Find, Paginate, PageArrives, Chunk, ChunkArrives
<1>10. CASE UNCHANGED queryVars
  BY <1>2, <1>10 DEF queryVars
<1> QED BY <1>5, <1>6, <1>7, <1>8, <1>9, <1>10 DEF QueryNext

LEMMA ChainedKeeps ==
  ASSUME RowsInv, [QueryNext]_queryVars
  PROVE  ChainOk'
<1>1. ChainOk /\ QueryShape
  BY DEF RowsInv, QueryInv
<1>2. CASE asked' = asked /\ query'.wheres = query.wheres
  BY <1>1, <1>2 DEF ChainOk
<1>3. ASSUME NEW t \in AnyTerm, Push(<<t>>, t) PROVE ChainOk'
  BY <1>1, <1>3, PushKeeps DEF Push
<1>4. CASE Where
  <2>1. PICK conn \in {"AND", "OR"}, c \in Conditions :
          Push(<<Term(conn, "all", {c}, <<>>)>>, Term(conn, "all", {c}, <<>>))
    BY <1>4 DEF Where
  <2>2. {c} \in SUBSET AnyCondition
    BY <2>1, ModelQueryAssumption
  <2>3. Term(conn, "all", {c}, <<>>) \in AnyTerm
    BY <2>2 DEF AnyTerm, Conn
  <2> QED BY <1>3, <2>1, <2>3
<1>5. CASE WhereBetween
  BY <1>1, <1>5, BetweenKeeps
<1>6. CASE WhereGroup
  <2>1. PICK conn \in {"AND", "OR"}, cs \in SUBSET Conditions :
          Push(<<Term(conn, "any", cs, <<>>)>>, Term(conn, "any", cs, <<>>))
    BY <1>6 DEF WhereGroup
  <2>2. cs \in SUBSET AnyCondition
    BY <2>1, ModelQueryAssumption
  <2>3. Term(conn, "any", cs, <<>>) \in AnyTerm
    BY <2>2 DEF AnyTerm, Conn
  <2> QED BY <1>3, <2>1, <2>3
<1>7. CASE OrderBy \/ Limit \/ Offset \/ TrashScope
  <2>1. asked' = asked
    BY <1>7 DEF OrderBy, Limit, Offset, TrashScope
  <2>2. query'.wheres = query.wheres
    <3>1. CASE OrderBy
      <4>1. PICK o : query' = [query EXCEPT !.order = o]
        BY <3>1 DEF OrderBy
      <4> QED BY <1>1, <4>1 DEF QueryShape
    <3>2. CASE Limit \/ Offset \/ TrashScope
      BY <1>1, <3>2 DEF Limit, Offset, TrashScope, QueryShape
    <3> QED BY <1>7, <3>1, <3>2
  <2> QED BY <1>2, <2>1, <2>2
<1>8. CASE Get
  <2>1. PICK op \in {"get", "first", "last", "sole"} : query' = Limited(op) /\ asked' = asked
    BY <1>8 DEF Get
  <2>2. query'.wheres = query.wheres
    BY <1>1, <2>1 DEF Limited, QueryShape
  <2> QED BY <1>2, <2>1, <2>2
<1>9. CASE PageArrives
  <2>1. asked' = asked /\ query' = [query EXCEPT !.limit = run.per, !.offset = (run.page - 1) * run.per]
    BY <1>9 DEF PageArrives
  <2>2. query'.wheres = query.wheres
    BY <1>1, <2>1 DEF QueryShape
  <2> QED BY <1>2, <2>1, <2>2
<1>10. CASE UNCHANGED <<query, asked>>
  BY <1>2, <1>10
<1>11. CASE Pluck \/ Count \/ Aggregate \/ Write \/ Find \/ Destroy \/ Paginate \/ Chunk \/ ChunkArrives \/ Others
  BY <1>10, <1>11 DEF Pluck, Count, Aggregate, Write, Find, Destroy, Paginate, Chunk, ChunkArrives, Others
<1>12. CASE UNCHANGED queryVars
  BY <1>10, <1>12 DEF queryVars
<1> QED BY <1>4, <1>5, <1>6, <1>7, <1>8, <1>9, <1>11, <1>12 DEF QueryNext

LEMMA RowsInvNext == RowsInv /\ [QueryNext]_queryVars => RowsInv'
<1> SUFFICES ASSUME RowsInv, [QueryNext]_queryVars PROVE RowsInv'
  OBVIOUS
<1>1. QueryInv' /\ TableOk' /\ ChainOk'
  BY QueryInvNext, TableKeeps, ChainedKeeps DEF RowsInv
<1>2. SUFFICES Quiet' /\ AnswersOk'
  BY <1>1 DEF RowsInv
<1>3. RunShape /\ Quiet /\ AnswersOk
  BY DEF RowsInv, QueryInv
<1>4. ASSUME told' = NotTold PROVE Quiet' /\ AnswersOk'
  <2>1. told'.op \notin RowOps
    BY <1>4 DEF NotTold, RowOps
  <2> QED BY <1>4, <2>1, OtherAnswers DEF Quiet
<1>5. CASE Where \/ WhereBetween \/ WhereGroup \/ OrderBy \/ Limit \/ Offset \/ TrashScope
  <2>1. told' = NotTold
    BY <1>5 DEF Where, WhereBetween, WhereGroup, Push, OrderBy, Limit, Offset, TrashScope, Chained, Chainable
  <2> QED BY <1>4, <2>1
<1>6. CASE Get \/ Pluck \/ Count \/ Aggregate \/ Write
  <2>1. Quiet'
    BY <1>6 DEF Get, Pluck, Count, Aggregate, Write, Terminal, Quiet
  <2> QED BY <1>6, <2>1, GetKeeps, PluckKeeps, CountedKeeps
<1>7. CASE Find \/ Destroy
  <2>1. Quiet'
    BY <1>7 DEF Find, Destroy, Terminal, Quiet
  <2>2. told'.op \in {"find", "destroy"}
    <3>1. CASE Find
      BY <3>1 DEF Find, Answer
    <3>2. CASE Destroy
      BY <3>2 DEF Destroy, Answer
    <3> QED BY <1>7, <3>1, <3>2
  <2>3. told'.op \notin RowOps
    BY <2>2 DEF RowOps
  <2> QED BY <2>1, <2>3, OtherAnswers
<1>8. CASE Paginate \/ Chunk
  BY <1>4, <1>8 DEF Paginate, Chunk
<1>9. CASE PageArrives
  <2>1. Quiet' /\ told'.op = "paginate"
    BY <1>9 DEF PageArrives, Answer, Quiet
  <2>2. told'.op \notin RowOps
    BY <2>1 DEF RowOps
  <2> QED BY <2>1, <2>2, OtherAnswers
<1>10. CASE ChunkArrives
  <2>1. \/ run' = NoRun /\ told'.op \in {"stopped", "chunk"}
        \/ UNCHANGED told
    BY <1>10 DEF ChunkArrives, Answer
  <2>2. told = NotTold
    BY <1>3, <1>10 DEF ChunkArrives, NoRun, Quiet
  <2>3. CASE told' = told
    BY <1>4, <2>2, <2>3
  <2>4. CASE run' = NoRun /\ told'.op \in {"stopped", "chunk"}
    <3>1. told'.op \notin RowOps
      BY <2>4 DEF RowOps
    <3> QED BY <2>4, <3>1, OtherAnswers DEF Quiet
  <2> QED BY <2>1, <2>3, <2>4
<1>11. CASE Others
  <2>1. told' = told /\ run' = run /\ (told = NotTold \/ told.op = "paginate")
    BY <1>3, <1>11 DEF Others, Quiet
  <2>2. told'.op \notin RowOps
    BY <2>1 DEF NotTold, RowOps
  <2> QED BY <1>3, <2>1, <2>2, OtherAnswers DEF Quiet
<1>12. CASE UNCHANGED queryVars
  <2>1. Quiet'
    BY <1>3, <1>12 DEF queryVars, Quiet
  <2>2. AnswersOk'
    BY <1>3, <1>12, StandingAnswers DEF queryVars
  <2> QED BY <2>1, <2>2
<1> QED BY <1>5, <1>6, <1>7, <1>8, <1>9, <1>10, <1>11, <1>12 DEF QueryNext

HIDE ModelQueryAssumption

----------------------------------------------------------------------------
(* A walk over pages: the place of a row in a unique order, and what the pages up  *)
(* to a place have given.                                                     *)
Sooner(x, y, d) == IF d = 1 THEN x < y ELSE y < x
Before(x, S, d) == {y \in S : Sooner(y, x, d)}
Rank(x, S, d) == Cardinality(Before(x, S, d))
FirstOf(p, S, d) == {x \in S : Rank(x, S, d) < p}
Ids(S) == IsFiniteSet(S) /\ S \subseteq Nat

LEMMA Sizes ==
  ASSUME NEW S, IsFiniteSet(S)
  PROVE  /\ Cardinality(S) \in Nat
         /\ \A A \in SUBSET S : IsFiniteSet(A) /\ Cardinality(A) \in Nat /\ Cardinality(A) <= Cardinality(S)
<1>1. \A A \in SUBSET S : IsFiniteSet(A) /\ Cardinality(A) <= Cardinality(S)
  BY FS_Subset
<1>2. Cardinality(S) \in Nat /\ \A A \in SUBSET S : Cardinality(A) \in Nat
  BY <1>1, FS_CardinalityType
<1> QED BY <1>1, <1>2

LEMMA BothSizes ==
  ASSUME NEW A, NEW B, IsFiniteSet(A), IsFiniteSet(B)
  PROVE  /\ IsFiniteSet(A \cup B) /\ Cardinality(A \cup B) \in Nat
         /\ Cardinality(A \cup B) <= Cardinality(A) + Cardinality(B)
         /\ (A \cap B = {} => Cardinality(A \cup B) = Cardinality(A) + Cardinality(B))
<1>1. /\ IsFiniteSet(A \cup B)
      /\ Cardinality(A \cup B) = Cardinality(A) + Cardinality(B) - Cardinality(A \cap B)
  BY FS_Union
<1>2. Cardinality(A) \in Nat /\ Cardinality(B) \in Nat /\ Cardinality(A \cap B) \in Nat /\ Cardinality(A \cup B) \in Nat
  BY <1>1, FS_CardinalityType, FS_Intersection
<1>3. A \cap B = {} => Cardinality(A \cap B) = 0
  BY FS_EmptySet
<1> QED BY <1>1, <1>2, <1>3

LEMMA RankType ==
  ASSUME NEW S, Ids(S), NEW x, NEW d
  PROVE  Before(x, S, d) \subseteq S /\ IsFiniteSet(Before(x, S, d)) /\ Rank(x, S, d) \in Nat
<1>1. Before(x, S, d) \in SUBSET S
  BY DEF Before
<1> QED BY <1>1, Sizes DEF Ids, Rank

LEMMA RankGrows ==
  ASSUME NEW S, Ids(S), NEW d, NEW x \in S, NEW y \in S, Sooner(x, y, d)
  PROVE  Rank(x, S, d) < Rank(y, S, d)
<1> DEFINE A == Before(x, S, d)
           B == Before(y, S, d)
<1>1. IsFiniteSet(A) /\ IsFiniteSet(B) /\ Cardinality(A) \in Nat /\ Cardinality(B) \in Nat
  BY RankType, FS_CardinalityType
<1>2. x \notin A /\ A \cup {x} \subseteq B
  <2>1. x \in Nat /\ y \in Nat /\ \A z \in S : z \in Nat
    BY DEF Ids
  <2>2. ~Sooner(x, x, d) /\ \A z \in S : Sooner(z, x, d) => Sooner(z, y, d)
    BY <2>1 DEF Sooner
  <2> QED BY <2>2 DEF Before
<1> HIDE DEF A, B
<1>3. Cardinality(A \cup {x}) = Cardinality(A) + 1
  BY <1>1, <1>2, FS_AddElement
<1>4. Cardinality(A \cup {x}) <= Cardinality(B)
  BY <1>1, <1>2, FS_Subset
<1>5. Cardinality(A) < Cardinality(B)
  BY <1>1, <1>3, <1>4
<1> QED BY <1>5 DEF A, B, Rank

LEMMA RankUnique ==
  ASSUME NEW S, Ids(S), NEW d, NEW x \in S, NEW y \in S, Rank(x, S, d) = Rank(y, S, d)
  PROVE  x = y
<1>1. SUFFICES ASSUME x # y PROVE FALSE
  OBVIOUS
<1>2. Sooner(x, y, d) \/ Sooner(y, x, d)
  BY <1>1 DEF Sooner, Ids
<1>3. Rank(x, S, d) < Rank(y, S, d) \/ Rank(y, S, d) < Rank(x, S, d)
  BY <1>2, RankGrows
<1> QED BY <1>3, RankType

\* In a list in that order a row's rank is its place.
Ordered(s, d) == \A i, j \in 1 .. Len(s) : i < j => ~Sooner(s[j], s[i], d)
LEMMA RankIsPlace ==
  ASSUME NEW S, Ids(S), NEW d, NEW s, Lists(s, S), Ordered(s, d), NEW i \in 1 .. Len(s)
  PROVE  s[i] \in S /\ Rank(s[i], S, d) = i - 1
<1> DEFINE n == Len(s)
           B == Before(s[i], S, d)
           f == [j \in 1 .. i - 1 |-> s[j]]
<1>1. n \in Nat /\ i \in 1 .. n /\ \A j \in 1 .. n : s[j] \in S
  <2>1. s \in Seq(S)
    BY DEF Lists
  <2> QED BY <2>1, SeqShape
<1>2. /\ \A x \in S : \E j \in 1 .. n : s[j] = x
      /\ \A j, k \in 1 .. n : s[j] = s[k] => j = k
      /\ \A j, k \in 1 .. n : j < k => ~Sooner(s[k], s[j], d)
  BY DEF Lists, Ordered
<1> HIDE DEF n
<1>3. \A j \in 1 .. n : Sooner(s[j], s[i], d) <=> j < i
  <2> TAKE j \in 1 .. n
  <2>1. s[j] \in Nat /\ s[i] \in Nat
    BY <1>1 DEF Ids
  <2>2. j < i => s[j] # s[i] /\ ~Sooner(s[i], s[j], d)
    BY <1>1, <1>2
  <2>3. i < j => ~Sooner(s[j], s[i], d)
    BY <1>1, <1>2
  <2>4. j = i => ~Sooner(s[j], s[i], d)
    BY <2>1 DEF Sooner
  <2>5. s[j] # s[i] => Sooner(s[j], s[i], d) \/ Sooner(s[i], s[j], d)
    BY <2>1 DEF Sooner
  <2>6. j < i \/ i < j \/ j = i
    BY <1>1
  <2>7. j \in Int /\ i \in Int
    BY <1>1
  <2> QED BY <2>2, <2>3, <2>4, <2>5, <2>6, <2>7
<1>4. \A j \in 1 .. i - 1 : j \in 1 .. n /\ j < i
  BY <1>1
<1>5. \A j \in 1 .. n : j < i => j \in 1 .. i - 1
  BY <1>1
<1>6. f \in [1 .. i - 1 -> B]
  <2>1. \A j \in 1 .. i - 1 : s[j] \in B
    BY <1>1, <1>3, <1>4 DEF Before
  <2> HIDE DEF B
  <2> QED BY <2>1
<1>7. \A x \in B : \E j \in 1 .. i - 1 : f[j] = x
  <2> SUFFICES ASSUME NEW x \in B PROVE \E j \in 1 .. i - 1 : f[j] = x
    OBVIOUS
  <2>1. PICK j \in 1 .. n : s[j] = x
    BY <1>2 DEF Before
  <2>2. j < i
    BY <1>3, <2>1 DEF Before
  <2> QED BY <1>5, <2>1, <2>2
<1>8. \A j, k \in 1 .. i - 1 : f[j] = f[k] => j = k
  <2>1. \A j \in 1 .. i - 1 : f[j] = s[j]
    OBVIOUS
  <2> HIDE DEF f
  <2> QED BY <1>2, <1>4, <2>1
<1> HIDE DEF f, B
<1>9. f \in Surjection(1 .. i - 1, B)
  BY <1>6, <1>7 DEF Surjection
<1>10. f \in Injection(1 .. i - 1, B)
  BY <1>6, <1>8 DEF Injection, IsInjective
<1>11. IsFiniteSet(1 .. i - 1) /\ Cardinality(1 .. i - 1) = i - 1
  <2>1. i - 1 \in Int /\ 1 \in Int
    BY <1>1
  <2>2. IsFiniteSet(1 .. i - 1) /\ Cardinality(1 .. i - 1) = IF 1 > i - 1 THEN 0 ELSE i - 1 - 1 + 1
    BY <2>1, FS_Interval
  <2>3. (IF 1 > i - 1 THEN 0 ELSE i - 1 - 1 + 1) = i - 1
    BY <1>1
  <2> QED BY <2>2, <2>3
<1>12. Cardinality(B) = i - 1
  BY <1>9, <1>10, <1>11, FS_Surjection
<1> QED BY <1>1, <1>12 DEF B, Rank

\* One row less, or one more: the ranks behind it move by one.
LEMMA RankShifts ==
  ASSUME NEW S, Ids(S), NEW d, NEW x \in S, NEW y \in S \ {x}
  PROVE  /\ Ids(S \ {x})
         /\ Rank(y, S, d) = Rank(y, S \ {x}, d) + (IF Sooner(x, y, d) THEN 1 ELSE 0)
<1> DEFINE A == Before(y, S, d)
           B == Before(y, S \ {x}, d)
<1>1. Ids(S \ {x})
  BY FS_RemoveElement DEF Ids
<1>2. IsFiniteSet(B) /\ Cardinality(B) \in Nat
  BY <1>1, RankType, FS_CardinalityType
<1>3. CASE Sooner(x, y, d)
  <2>1. A = B \cup {x} /\ x \notin B
    BY <1>3 DEF Before
  <2> HIDE DEF A, B
  <2>2. Cardinality(A) = Cardinality(B) + 1
    BY <1>2, <2>1, FS_AddElement
  <2> QED BY <1>1, <1>3, <2>2 DEF A, B, Rank
<1>4. CASE ~Sooner(x, y, d)
  <2>1. A = B
    BY <1>4 DEF Before
  <2> HIDE DEF A, B
  <2>2. Cardinality(A) = Cardinality(B) + 0
    BY <1>2, <2>1
  <2> QED BY <1>1, <1>4, <2>2 DEF A, B, Rank
<1> QED BY <1>3, <1>4

\* The first p rows, of a result that loses a row.
LEMMA FirstShrinks ==
  ASSUME NEW S, Ids(S), NEW d, NEW x \in S, NEW p \in Nat
  PROVE  LET T == S \ {x}
             F == FirstOf(p, S, d)
             G == FirstOf(p, T, d)
         IN  /\ F \cap T \subseteq G
             /\ \A y, z \in G \ F : y = z
             /\ x \in F \/ G \subseteq F
<1> DEFINE T == S \ {x}
           F == FirstOf(p, S, d)
           G == FirstOf(p, T, d)
           sh(y) == IF Sooner(x, y, d) THEN 1 ELSE 0
<1>1. Ids(T) /\ \A y \in T : Rank(y, S, d) \in Nat /\ Rank(y, T, d) \in Nat /\ Rank(y, S, d) = Rank(y, T, d) + sh(y)
  <2>1. Ids(T)
    BY FS_RemoveElement DEF Ids
  <2>2. \A y \in T : Rank(y, S, d) = Rank(y, T, d) + sh(y)
    BY RankShifts
  <2> HIDE DEF T, sh
  <2> QED BY <2>1, <2>2, RankType
<1>2. \A y \in T : sh(y) \in {0, 1} /\ (sh(y) = 1 <=> Sooner(x, y, d))
  OBVIOUS
<1>3. \A y \in T : (y \in F <=> Rank(y, S, d) < p) /\ (y \in G <=> Rank(y, T, d) < p)
  BY DEF FirstOf
<1>4. G \subseteq T
  BY DEF FirstOf
<1>5. x \in F <=> Rank(x, S, d) < p
  BY DEF FirstOf
<1> HIDE DEF F, G, sh
<1>6. F \cap T \subseteq G
  <2> SUFFICES ASSUME NEW y \in T, y \in F PROVE y \in G
    OBVIOUS
  <2>1. Rank(y, S, d) < p /\ Rank(y, S, d) = Rank(y, T, d) + sh(y) /\ Rank(y, T, d) \in Nat /\ sh(y) \in {0, 1}
    BY <1>1, <1>2, <1>3
  <2>2. Rank(y, T, d) < p
    BY <2>1
  <2> QED BY <1>3, <2>2
<1>7. ASSUME NEW y \in G, y \notin F PROVE Rank(y, S, d) = p /\ Sooner(x, y, d)
  <2>1. /\ ~(Rank(y, S, d) < p) /\ Rank(y, T, d) < p /\ Rank(y, S, d) = Rank(y, T, d) + sh(y)
        /\ Rank(y, T, d) \in Nat /\ Rank(y, S, d) \in Nat /\ sh(y) \in {0, 1}
    BY <1>1, <1>2, <1>3, <1>4, <1>7
  <2>2. sh(y) = 1 /\ Rank(y, S, d) = p
    BY <2>1
  <2> QED BY <1>2, <1>4, <2>2
<1>8. \A y, z \in G \ F : y = z
  <2> SUFFICES ASSUME NEW y \in G, y \notin F, NEW z \in G, z \notin F PROVE y = z
    OBVIOUS
  <2>1. Rank(y, S, d) = Rank(z, S, d) /\ y \in S /\ z \in S
    BY <1>4, <1>7
  <2> QED BY <2>1, RankUnique
<1>9. x \in F \/ G \subseteq F
  <2> SUFFICES ASSUME NEW y \in G, y \notin F PROVE x \in F
    OBVIOUS
  <2>1. Sooner(x, y, d) /\ Rank(y, S, d) = p /\ y \in S
    BY <1>4, <1>7
  <2>2. Rank(x, S, d) < p
    BY <2>1, RankGrows
  <2> QED BY <1>5, <2>2
<1> QED BY <1>6, <1>8, <1>9 DEF F, G

\* Two sets that are alike but for one element.
LEMMA OneApart ==
  ASSUME NEW A, NEW B, IsFiniteSet(A), IsFiniteSet(B), \A y, z \in A \ B : y = z
  PROVE  Cardinality(A) \in Nat /\ Cardinality(B) \in Nat /\ Cardinality(A) <= Cardinality(B) + 1
<1>1. Cardinality(A) \in Nat /\ Cardinality(B) \in Nat
  BY FS_CardinalityType
<1>2. CASE A \subseteq B
  <2>1. Cardinality(A) <= Cardinality(B)
    BY <1>2, FS_Subset
  <2> QED BY <1>1, <2>1
<1>3. CASE ~(A \subseteq B)
  <2>1. PICK y \in A : y \notin B
    BY <1>3
  <2>2. A \subseteq B \cup {y}
    BY <2>1
  <2>3. IsFiniteSet(B \cup {y}) /\ Cardinality(B \cup {y}) = Cardinality(B) + 1
    BY <2>1, FS_AddElement
  <2>4. Cardinality(A) <= Cardinality(B \cup {y})
    BY <2>2, <2>3, FS_Subset
  <2> QED BY <1>1, <2>3, <2>4
<1> QED BY <1>2, <1>3

LEMMA NoneApart ==
  ASSUME NEW A, NEW B, IsFiniteSet(B), A \subseteq B
  PROVE  IsFiniteSet(A) /\ Cardinality(A) \in Nat /\ Cardinality(B) \in Nat /\ Cardinality(A) <= Cardinality(B)
BY FS_Subset, FS_CardinalityType

(* What was missed and what was given early, of those up to the place of the walk. *)
Missed(given, held, S, p, d) == (held \cap FirstOf(p, S, d)) \ ToSet(given)
Early(given, S, p, d) == (ToSet(given) \cap S) \ FirstOf(p, S, d)
Repeats(given) == Len(given) - Cardinality(ToSet(given))
Tallied(given, held, S, p, d, less, more) ==
  /\ Cardinality(Missed(given, held, S, p, d)) <= less
  /\ Repeats(given) + Cardinality(Early(given, S, p, d)) <= more

LEMMA TallyTypes ==
  ASSUME NEW S, Ids(S), NEW held, NEW given, NEW p, NEW d
  PROVE  /\ Missed(given, held, S, p, d) \subseteq S /\ Early(given, S, p, d) \subseteq S
         /\ IsFiniteSet(Missed(given, held, S, p, d)) /\ Cardinality(Missed(given, held, S, p, d)) \in Nat
         /\ IsFiniteSet(Early(given, S, p, d)) /\ Cardinality(Early(given, S, p, d)) \in Nat
<1>1. Missed(given, held, S, p, d) \in SUBSET S /\ Early(given, S, p, d) \in SUBSET S
  BY DEF Missed, Early, FirstOf
<1> QED BY <1>1, Sizes DEF Ids

LEMMA RowGone ==
  ASSUME NEW S, Ids(S), NEW d, NEW x \in S, NEW p \in Nat, NEW held, NEW given, Repeats(given) \in Int,
         NEW less \in Nat, NEW more \in Nat, Tallied(given, held, S, p, d, less, more)
  PROVE  Tallied(given, held \cap (S \ {x}), S \ {x}, p, d, less + 1, more)
<1> DEFINE T == S \ {x}
           M == Missed(given, held, S, p, d)
           N == Missed(given, held \cap T, T, p, d)
           E == Early(given, S, p, d)
           D == Early(given, T, p, d)
           F == FirstOf(p, S, d)
           G == FirstOf(p, T, d)
<1>1. Ids(T)
  BY FS_RemoveElement DEF Ids
<1>2. (F \cap T \subseteq G) /\ \A y, z \in G \ F : y = z
  BY FirstShrinks
<1>3. IsFiniteSet(M) /\ IsFiniteSet(N) /\ IsFiniteSet(E) /\ IsFiniteSet(D)
  BY <1>1, TallyTypes
<1>4. \A y, z \in N \ M : y = z
  <2>1. N \ M \subseteq G \ F
    BY DEF Missed
  <2> QED BY <1>2, <2>1
<1>5. D \subseteq E
  BY <1>2 DEF Early
<1>6. Cardinality(M) <= less /\ Repeats(given) + Cardinality(E) <= more
  BY DEF Tallied
<1> HIDE DEF T, M, N, E, D, F, G
<1>7. Cardinality(N) \in Nat /\ Cardinality(M) \in Nat /\ Cardinality(N) <= Cardinality(M) + 1
  BY <1>3, <1>4, OneApart
<1>8. Cardinality(D) \in Nat /\ Cardinality(E) \in Nat /\ Cardinality(D) <= Cardinality(E)
  BY <1>3, <1>5, NoneApart
<1>9. Cardinality(N) <= less + 1
  BY <1>6, <1>7
<1>10. Repeats(given) + Cardinality(D) <= more
  BY <1>6, <1>8
<1> QED BY <1>9, <1>10 DEF Tallied, T, N, D

LEMMA RowComes ==
  ASSUME NEW S, Ids(S), NEW d, NEW x \in Nat, x \notin S, NEW p \in Nat, NEW held, held \subseteq S, NEW given,
         Repeats(given) \in Int, NEW less \in Nat, NEW more \in Nat, Tallied(given, held, S, p, d, less, more)
  PROVE  Tallied(given, held \cap (S \cup {x}), S \cup {x}, p, d, less, more + 1)
<1> DEFINE T == S \cup {x}
           M == Missed(given, held, S, p, d)
           N == Missed(given, held \cap T, T, p, d)
           E == Early(given, S, p, d)
           D == Early(given, T, p, d)
           F == FirstOf(p, S, d)
           G == FirstOf(p, T, d)
<1>1. Ids(T) /\ S = T \ {x} /\ x \in T
  BY FS_AddElement DEF Ids
<1>2. (G \cap S \subseteq F) /\ (\A y, z \in F \ G : y = z) /\ (x \in G \/ F \subseteq G)
  BY <1>1, FirstShrinks
<1>3. IsFiniteSet(M) /\ IsFiniteSet(N) /\ IsFiniteSet(E) /\ IsFiniteSet(D)
  BY <1>1, TallyTypes
<1>4. N \subseteq M
  BY <1>2 DEF Missed
<1>5. \A y, z \in D \ E : y = z
  <2>1. \A y \in D \ E : y \notin G /\ (y = x \/ y \in F \ G)
    BY DEF Early
  <2> QED BY <1>2, <2>1
<1>6. Cardinality(M) <= less /\ Repeats(given) + Cardinality(E) <= more
  BY DEF Tallied
<1> HIDE DEF T, M, N, E, D, F, G
<1>7. Cardinality(N) \in Nat /\ Cardinality(M) \in Nat /\ Cardinality(N) <= Cardinality(M)
  BY <1>3, <1>4, NoneApart
<1>8. Cardinality(D) \in Nat /\ Cardinality(E) \in Nat /\ Cardinality(D) <= Cardinality(E) + 1
  BY <1>3, <1>5, OneApart
<1>9. Cardinality(N) <= less
  BY <1>6, <1>7
<1>10. Repeats(given) + Cardinality(D) <= more + 1
  BY <1>6, <1>8
<1> QED BY <1>9, <1>10 DEF Tallied, T, N, D

LEMMA ToSetSize ==
  ASSUME NEW T, NEW s \in Seq(T)
  PROVE  /\ ToSet(s) \subseteq T /\ IsFiniteSet(ToSet(s)) /\ Cardinality(ToSet(s)) \in Nat
         /\ Cardinality(ToSet(s)) <= Len(s)
         /\ (\A i, j \in 1 .. Len(s) : s[i] = s[j] => i = j) => Cardinality(ToSet(s)) = Len(s)
<1> DEFINE n == Len(s)
           R == ToSet(s)
<1>1. n \in Nat /\ DOMAIN s = 1 .. n /\ s \in [1 .. n -> T] /\ \A i \in 1 .. n : s[i] \in T
  BY SeqShape
<1>2. R = {s[i] : i \in 1 .. n}
  BY <1>1 DEF ToSet
<1>3. R \subseteq T /\ (\A i \in 1 .. n : s[i] \in R) /\ \A x \in R : \E i \in 1 .. n : s[i] = x
  BY <1>1, <1>2
<1>4. IsFiniteSet(1 .. n) /\ Cardinality(1 .. n) = n
  <2> HIDE DEF n
  <2>1. IsFiniteSet(1 .. n) /\ Cardinality(1 .. n) = IF 1 > n THEN 0 ELSE n - 1 + 1
    BY <1>1, FS_Interval
  <2>2. (IF 1 > n THEN 0 ELSE n - 1 + 1) = n
    BY <1>1
  <2> QED BY <2>1, <2>2
<1> HIDE DEF R
<1>5. s \in Surjection(1 .. n, R)
  <2>1. s \in [1 .. n -> R]
    <3> HIDE DEF n
    <3> QED BY <1>1, <1>3
  <2> QED BY <1>3, <2>1 DEF Surjection
<1>6. /\ IsFiniteSet(R) /\ Cardinality(R) <= n
      /\ Cardinality(R) = n <=> s \in Injection(1 .. n, R)
  BY <1>4, <1>5, FS_Surjection
<1>7. (\A i, j \in 1 .. n : s[i] = s[j] => i = j) => s \in Injection(1 .. n, R)
  BY <1>1, <1>5 DEF Injection, Surjection, IsInjective
<1> QED BY <1>3, <1>6, <1>7, FS_CardinalityType DEF R

LEMMA JoinedSet ==
  ASSUME NEW T, NEW s \in Seq(T), NEW r \in Seq(T)
  PROVE  s \o r \in Seq(T) /\ ToSet(s \o r) = ToSet(s) \cup ToSet(r) /\ Len(s \o r) = Len(s) + Len(r)
<1> DEFINE u == s \o r
           m == Len(s)
           n == Len(r)
<1>1. u \in Seq(T) /\ Len(u) = m + n /\ \A i \in 1 .. m + n : u[i] = IF i <= m THEN s[i] ELSE r[i - m]
  BY ConcatProperties
<1>2. m \in Nat /\ n \in Nat /\ DOMAIN s = 1 .. m /\ DOMAIN r = 1 .. n
  BY SeqShape
<1> HIDE DEF u
<1>3. DOMAIN u = 1 .. m + n
  <2> DEFINE k == m + n
  <2>1. Len(u) = k
    BY <1>1
  <2> HIDE DEF k
  <2> QED BY <1>1, <2>1, SeqShape
<1> HIDE DEF m, n
<1>4. \A i \in 1 .. m : i \in 1 .. m + n /\ u[i] = s[i]
  BY <1>1, <1>2
<1>5. \A i \in 1 .. n : m + i \in 1 .. m + n /\ u[m + i] = r[i]
  <2> TAKE i \in 1 .. n
  <2> DEFINE k == m + i
  <2>1. k \in 1 .. m + n /\ ~(k <= m) /\ k - m = i
    BY <1>2
  <2> HIDE DEF k
  <2>2. u[k] = r[k - m]
    BY <1>1, <2>1
  <2>3. u[k] = r[i]
    BY <2>1, <2>2
  <2> QED BY <2>1, <2>3 DEF k
<1>6. \A i \in 1 .. m + n : i \in 1 .. m \/ (i - m \in 1 .. n /\ u[i] = r[i - m])
  <2> TAKE i \in 1 .. m + n
  <2>1. i \in 1 .. m \/ (i - m \in 1 .. n /\ ~(i <= m))
    BY <1>2
  <2>2. u[i] = IF i <= m THEN s[i] ELSE r[i - m]
    BY <1>1 DEF m, n
  <2> QED BY <2>1, <2>2
<1>7. ToSet(u) \subseteq ToSet(s) \cup ToSet(r)
  <2> SUFFICES ASSUME NEW i \in 1 .. m + n PROVE u[i] \in ToSet(s) \cup ToSet(r)
    BY <1>3 DEF ToSet
  <2> QED BY <1>2, <1>4, <1>6 DEF ToSet
<1>8. ToSet(s) \subseteq ToSet(u)
  BY <1>2, <1>3, <1>4 DEF ToSet
<1>9. ToSet(r) \subseteq ToSet(u)
  BY <1>2, <1>3, <1>5 DEF ToSet
<1> QED BY <1>1, <1>7, <1>8, <1>9 DEF u, m, n

\* A page of k rows from place p on gives exactly the rows of these places.
LEMMA PageGives ==
  ASSUME NEW S, Ids(S), NEW d, NEW s, Lists(s, S), Ordered(s, d), NEW p \in Nat, NEW k \in Nat \ {0}
  PROVE  LET r == Page(s, k, p)
         IN  /\ r \in Seq(S) /\ Len(r) = Cardinality(ToSet(r))
             /\ ToSet(r) = FirstOf(p + k, S, d) \ FirstOf(p, S, d)
             /\ (r = <<>> \/ Len(r) < k) => FirstOf(p + k, S, d) = S
<1> DEFINE r == Page(s, k, p)
           n == Len(s)
           F == FirstOf(p, S, d)
           G == FirstOf(p + k, S, d)
           u == IF p + k >= n THEN n ELSE p + k
<1>1. s \in Seq(S) /\ n \in Nat
  BY SeqShape DEF Lists
<1>2. k \in Clause /\ p \in Clause /\ From(p) = p /\ Upto(s, k, p) = u
  BY DEF Clause, From, Upto, NoClause
<1>3. /\ p >= n => r = <<>>
      /\ p < n => /\ r \in Seq(S) /\ p <= u /\ Len(r) = u - p
                  /\ \A i \in 1 .. u - p : r[i] = s[p + i]
  <2> DEFINE f == From(p)
             v == Upto(s, k, p)
  <2>1. f = p /\ v = u
    BY <1>2
  <2> HIDE DEF f, v, r, u
  <2>2. /\ f >= Len(s) => r = <<>>
        /\ f < Len(s) => /\ r \in Seq(S) /\ f <= v /\ Len(r) = v - f
                         /\ \A i \in 1 .. v - f : r[i] = s[f + i]
    <3>1. s \in Seq(S) /\ k \in Clause /\ p \in Clause
      BY <1>1, <1>2
    <3> QED BY ONLY <3>1, PageIs DEF f, v, r
  <2> QED BY <2>1, <2>2
<1>4. \A i \in 1 .. n : s[i] \in S /\ Rank(s[i], S, d) = i - 1
  BY RankIsPlace
<1>5. (\A x \in S : \E i \in 1 .. n : s[i] = x) /\ \A i, j \in 1 .. n : s[i] = s[j] => i = j
  BY DEF Lists
<1>6. \A x \in S : (x \in F <=> Rank(x, S, d) < p) /\ (x \in G <=> Rank(x, S, d) < p + k)
  BY DEF FirstOf
<1>7. F \subseteq S /\ G \subseteq S
  BY DEF FirstOf
<1> HIDE DEF r, n, F, G, u
<1>8. \A i \in 1 .. n : (s[i] \in F <=> i - 1 < p) /\ (s[i] \in G <=> i - 1 < p + k)
  BY <1>4, <1>6
<1>9. CASE p >= n
  <2>1. r = <<>> /\ ToSet(<<>>) = {} /\ Len(<<>>) = 0
    BY <1>3, <1>9 DEF ToSet
  <2>2. \A i \in 1 .. n : i - 1 < p /\ i - 1 < p + k
    BY <1>1, <1>9
  <2>3. F = S /\ G = S
    BY <1>5, <1>7, <1>8, <2>2
  <2>4. r \in Seq(S) /\ Len(r) = Cardinality(ToSet(r))
    BY <2>1, FS_EmptySet
  <2> QED BY <2>1, <2>3, <2>4 DEF r, F, G
<1>10. CASE ~(p >= n)
  <2>1. p < n
    BY <1>1, <1>10
  <2>2. r \in Seq(S) /\ p <= u /\ Len(r) = u - p /\ \A i \in 1 .. u - p : r[i] = s[p + i]
    BY <1>3, <2>1
  <2>3. u \in Nat /\ u <= n /\ u <= p + k /\ (u = n \/ u = p + k) /\ u - p \in Nat
    BY <1>1, <2>1, <2>2 DEF u
  <2>4. DOMAIN r = 1 .. u - p
    BY <2>2, SeqShape
  <2>5. \A i \in 1 .. u - p : p + i \in 1 .. n /\ ~(p + i - 1 < p) /\ p + i - 1 < p + k
    BY <1>1, <2>3
  <2>6. ToSet(r) \subseteq G \ F
    BY <1>8, <2>2, <2>4, <2>5 DEF ToSet
  <2>7. ASSUME NEW x \in G, x \notin F PROVE x \in ToSet(r)
    <3>1. PICK i \in 1 .. n : s[i] = x
      BY <1>5, <1>7
    <3>2. ~(i - 1 < p) /\ i - 1 < p + k
      BY <1>8, <2>7, <3>1
    <3>3. i - p \in 1 .. u - p /\ p + (i - p) = i
      BY <1>1, <2>3, <3>2
    <3>4. r[i - p] = x
      BY <2>2, <3>1, <3>3
    <3> QED BY <2>4, <3>3, <3>4 DEF ToSet
  <2>8. \A i, j \in 1 .. Len(r) : r[i] = r[j] => i = j
    <3> SUFFICES ASSUME NEW i \in 1 .. u - p, NEW j \in 1 .. u - p, s[p + i] = s[p + j] PROVE i = j
      BY <2>2
    <3>1. p + i = p + j
      BY <1>5, <2>5
    <3> QED BY <2>3, <3>1
  <2>9. Len(r) = Cardinality(ToSet(r))
    BY <2>2, <2>8, ToSetSize
  <2>10. (r = <<>> \/ Len(r) < k) => G = S
    <3> SUFFICES ASSUME r = <<>> \/ Len(r) < k PROVE G = S
      OBVIOUS
    <3>1. Len(r) < k
      <4>1. Len(<<>>) = 0 /\ 0 < k
        OBVIOUS
      <4> QED BY <4>1
    <3>2. u - p < k
      BY <2>2, <3>1
    <3>3. \A i \in 1 .. n : i - 1 < p + k
      BY <1>1, <2>3, <3>2
    <3>4. ASSUME NEW x \in S PROVE x \in G
      <4>1. PICK i \in 1 .. n : s[i] = x
        BY <1>5
      <4>2. s[i] \in G
        BY <1>8, <3>3
      <4> QED BY <4>1, <4>2
    <3> QED BY <1>7, <3>4
  <2> QED BY <2>2, <2>6, <2>7, <2>9, <2>10 DEF r, F, G
<1> QED BY <1>9, <1>10

LEMMA PageTallied ==
  ASSUME NEW S, Ids(S), NEW d, NEW p \in Nat, NEW k \in Nat, NEW held, NEW given \in Seq(Nat),
         NEW less \in Nat, NEW more \in Nat, Tallied(given, held, S, p, d, less, more),
         NEW r \in Seq(S), Len(r) = Cardinality(ToSet(r)), ToSet(r) = FirstOf(p + k, S, d) \ FirstOf(p, S, d)
  PROVE  given \o r \in Seq(Nat) /\ Tallied(given \o r, held, S, p + k, d, less, more)
<1> DEFINE u == given \o r
           R == ToSet(r)
           V == ToSet(given)
           F == FirstOf(p, S, d)
           G == FirstOf(p + k, S, d)
           M == Missed(given, held, S, p, d)
           N == Missed(u, held, S, p + k, d)
           E == Early(given, S, p, d)
           D == Early(u, S, p + k, d)
<1>1. u \in Seq(Nat) /\ ToSet(u) = V \cup R /\ Len(u) = Len(given) + Len(r)
  <2>1. r \in Seq(Nat)
    <3>1. r \in [1 .. Len(r) -> S] /\ Len(r) \in Nat /\ S \subseteq Nat
      BY SeqShape DEF Ids
    <3>2. r \in [1 .. Len(r) -> Nat]
      BY <3>1
    <3> QED BY <3>1, <3>2, SeqFrom
  <2> QED BY <2>1, JoinedSet
<1>2. IsFiniteSet(V) /\ IsFiniteSet(R) /\ Len(given) \in Nat /\ Len(r) \in Nat
  BY ToSetSize, SeqShape
<1>3. IsFiniteSet(M) /\ IsFiniteSet(N) /\ IsFiniteSet(E) /\ IsFiniteSet(D)
  BY TallyTypes
<1>4. F \subseteq G /\ G \subseteq S
  <2>1. \A x \in S : Rank(x, S, d) < p => Rank(x, S, d) < p + k
    <3> TAKE x \in S
    <3>1. Rank(x, S, d) \in Nat
      BY RankType
    <3> QED BY <3>1
  <2> QED BY <2>1 DEF FirstOf
<1>5. R = G \ F
  OBVIOUS
<1>6. Cardinality(M) <= less /\ Repeats(given) + Cardinality(E) <= more
  BY DEF Tallied
<1>7. M = (held \cap F) \ V /\ N = (held \cap G) \ (V \cup R)
  BY <1>1 DEF Missed
<1>8. E = (V \cap S) \ F /\ D = ((V \cup R) \cap S) \ G
  BY <1>1 DEF Early
<1>9. Repeats(u) = (Len(given) + Cardinality(R)) - Cardinality(V \cup R) /\ Repeats(given) = Len(given) - Cardinality(V)
  <2>1. Len(u) = Len(given) + Cardinality(R) /\ ToSet(u) = V \cup R
    BY <1>1
  <2>2. Repeats(given) = Len(given) - Cardinality(V)
    BY DEF Repeats
  <2>3. Repeats(u) = Len(u) - Cardinality(ToSet(u))
    BY DEF Repeats
  <2> HIDE DEF u, R, V
  <2> QED BY ONLY <2>1, <2>2, <2>3
<1> HIDE DEF u, R, V, F, G, M, N, E, D
<1>10. N \subseteq M
  BY <1>4, <1>5, <1>7
<1>11. Cardinality(N) <= less
  <2>1. Cardinality(N) \in Nat /\ Cardinality(M) \in Nat /\ Cardinality(N) <= Cardinality(M)
    BY <1>3, <1>10, NoneApart
  <2> QED BY <1>6, <2>1
<1>12. E = D \cup (V \cap R) /\ D \cap (V \cap R) = {}
  BY <1>4, <1>5, <1>8
<1>13. IsFiniteSet(V \cap R) /\ Cardinality(V \cap R) \in Nat
  BY <1>2, FS_Intersection, FS_CardinalityType
<1>14. Cardinality(E) = Cardinality(D) + Cardinality(V \cap R)
  BY <1>3, <1>12, <1>13, BothSizes
<1>15. Cardinality(V \cup R) = Cardinality(V) + Cardinality(R) - Cardinality(V \cap R)
  BY <1>2, FS_Union
<1>16. Cardinality(V) \in Nat /\ Cardinality(R) \in Nat /\ Cardinality(D) \in Nat /\ Cardinality(E) \in Nat
  BY <1>2, <1>3, FS_CardinalityType
<1>17. Repeats(u) + Cardinality(D) <= more
  BY <1>2, <1>6, <1>9, <1>13, <1>14, <1>15, <1>16
<1> QED BY <1>1, <1>11, <1>17 DEF Tallied, u, N, D

\* Few rows lie beyond place q when there are few more than q.
LEMMA BeyondFew ==
  ASSUME NEW S, Ids(S), NEW d, NEW s, Lists(s, S), Ordered(s, d), NEW q \in Nat, NEW m \in Nat,
         Cardinality(S) <= q + m
  PROVE  Cardinality(S \ FirstOf(q, S, d)) <= m
<1> DEFINE n == Len(s)
           B == S \ FirstOf(q, S, d)
           f == [i \in q + 1 .. n |-> s[i]]
<1>1. n \in Nat /\ n <= q + m
  BY SeqShape DEF Lists
<1>2. \A i \in 1 .. n : s[i] \in S /\ Rank(s[i], S, d) = i - 1
  BY RankIsPlace
<1>3. \A x \in S : \E i \in 1 .. n : s[i] = x
  BY DEF Lists
<1>4. \A x \in S : x \in B <=> ~(Rank(x, S, d) < q)
  BY DEF FirstOf
<1> HIDE DEF n, B
<1>5. \A i \in 1 .. n : s[i] \in B <=> i \in q + 1 .. n
  <2> TAKE i \in 1 .. n
  <2>1. ~(i - 1 < q) <=> i \in q + 1 .. n
    BY <1>1
  <2> QED BY <1>2, <1>4, <2>1
<1>6. f \in [q + 1 .. n -> B] /\ \A x \in B : \E i \in q + 1 .. n : f[i] = x
  <2>1. \A i \in q + 1 .. n : i \in 1 .. n
    BY <1>1
  <2>2. \A i \in q + 1 .. n : s[i] \in B
    BY <1>5, <2>1
  <2>3. \A x \in B : x \in S
    BY DEF B
  <2> QED BY <1>3, <1>5, <2>2, <2>3
<1> HIDE DEF f
<1>7. f \in Surjection(q + 1 .. n, B)
  BY <1>6 DEF Surjection
<1>8. IsFiniteSet(q + 1 .. n) /\ Cardinality(q + 1 .. n) = IF q + 1 > n THEN 0 ELSE n - (q + 1) + 1
  BY <1>1, FS_Interval
<1>9. IsFiniteSet(B) /\ Cardinality(B) <= Cardinality(q + 1 .. n)
  BY <1>7, <1>8, FS_Surjection
<1>10. Cardinality(B) \in Nat
  BY <1>9, FS_CardinalityType
<1>11. (IF q + 1 > n THEN 0 ELSE n - (q + 1) + 1) <= m
  BY <1>1
<1>12. (IF q + 1 > n THEN 0 ELSE n - (q + 1) + 1) \in Nat
  BY <1>1
<1> QED BY <1>8, <1>9, <1>10, <1>11, <1>12 DEF B

----------------------------------------------------------------------------
(* The walk itself: up to its place it missed no more than what left, and gave    *)
(* twice or too early no more than what came.                                  *)
OrderKeys == [key : {"id", "n"}, dir : {1, -1}]
OrderOk == query.order \in Seq(OrderKeys)
Walking == run # NoRun \/ (told.op = "paginate" /\ told.more)
Place ==
  CASE run.op = "paginate" -> (run.page - 1) * run.per
    [] run.op = "chunk"    -> run.page * run.size
    [] OTHER               -> told.n * query.limit
Dir == query.order[1].dir
WalkAt(p) ==
  /\ seen \in Seq(Nat) /\ kept \subseteq Meant /\ removed \in Nat /\ added \in Nat
  /\ Tallied(seen, kept, Meant, p, Dir, removed, added)
TotalKnown == run.op = "paginate" => run.total \in Nat /\ Cardinality(Meant) <= run.total + added
UniqueWalk == UniqueOrder /\ ~SplitBetween
WalkOk == (UniqueWalk /\ Walking) => (WalkAt(Place) /\ TotalKnown)
WalkInv == RowsInv /\ OrderOk /\ WalkOk /\ WalksAreComplete

LEMMA MeantStays ==
  ASSUME UNCHANGED <<table, soft, asked>>, query'.trashed = query.trashed
  PROVE  Meant' = Meant
BY DEF Meant

LEMMA MeantIds == ASSUME TableOk PROVE Ids(Meant)
BY MeantFinite DEF TableOk, Ids

LEMMA UniqueStays ==
  ASSUME asked' = asked, query'.order = query.order
  PROVE  (UniqueWalk' <=> UniqueWalk) /\ (Dir' = Dir)
BY DEF UniqueWalk, UniqueOrder, SplitBetween, Dir

LEMMA OrderKeysKept == OrderOk /\ QueryShape /\ [QueryNext]_queryVars => OrderOk'
<1> SUFFICES ASSUME OrderOk, QueryShape, [QueryNext]_queryVars PROVE OrderOk'
  OBVIOUS
<1>1. CASE query'.order = query.order
  BY <1>1 DEF OrderOk
<1>2. CASE OrderBy
  <2>1. PICK by \in {<<"id", 1>>, <<"id", -1>>, <<"n", 1>>} :
          query' = [query EXCEPT !.order = Append(@, [key |-> by[1], dir |-> by[2]])]
    BY <1>2 DEF OrderBy
  <2> DEFINE k == [key |-> by[1], dir |-> by[2]]
  <2>2. k \in OrderKeys
    BY DEF OrderKeys
  <2>3. query'.order = Append(query.order, k)
    BY <2>1 DEF QueryShape
  <2> HIDE DEF k
  <2>4. Append(query.order, k) \in Seq(OrderKeys)
    BY <2>2, AppendProperties DEF OrderOk
  <2> QED BY <2>3, <2>4 DEF OrderOk
<1>3. CASE Get
  <2>1. PICK op \in {"get", "first", "last", "sole"} : query' = Limited(op)
    BY <1>3 DEF Get
  <2>2. CASE op = "last"
    <3> DEFINE k == [key |-> "id", dir |-> -1]
    <3>1. query'.order = <<k>>
      BY <2>1, <2>2 DEF Limited, QueryShape
    <3>2. k \in OrderKeys
      BY DEF OrderKeys
    <3> HIDE DEF k
    <3>3. <<k>> \in Seq(OrderKeys)
      BY <3>2
    <3> QED BY <3>1, <3>3 DEF OrderOk
  <2>3. CASE op # "last"
    <3>1. query'.order = query.order
      BY <2>1, <2>3 DEF Limited, QueryShape
    <3> QED BY <1>1, <3>1
  <2> QED BY <2>2, <2>3
<1>4. CASE PageArrives
  <2>1. query' = [query EXCEPT !.limit = run.per, !.offset = (run.page - 1) * run.per]
    BY <1>4 DEF PageArrives
  <2>2. query'.order = query.order
    BY <2>1 DEF QueryShape
  <2> QED BY <1>1, <2>2
<1>5. CASE Where \/ WhereBetween \/ WhereGroup
  <2>1. PICK ts : query' = [query EXCEPT !.wheres = @ \o ts]
    BY <1>5 DEF Where, WhereBetween, WhereGroup, Push
  <2>2. query'.order = query.order
    BY <2>1 DEF QueryShape
  <2> QED BY <1>1, <2>2
<1>6. CASE Limit \/ Offset \/ TrashScope
  <2>1. query'.order = query.order
    BY <1>6 DEF Limit, Offset, TrashScope, QueryShape
  <2> QED BY <1>1, <2>1
<1>7. CASE Pluck \/ Count \/ Aggregate \/ Write \/ Find \/ Destroy \/ Paginate \/ Chunk \/ ChunkArrives \/ Others
  BY <1>1, <1>7 DEF Pluck, Count, Aggregate, Write, Find, Destroy, Paginate, Chunk, ChunkArrives, Others
<1>8. CASE UNCHANGED queryVars
  BY <1>1, <1>8 DEF queryVars
<1> QED BY <1>2, <1>3, <1>4, <1>5, <1>6, <1>7, <1>8 DEF QueryNext

\* A result ordered by its ids first.
LEMMA IdOrder ==
  ASSUME OrderOk, UniqueOrder, NEW S, Ids(S), NEW s \in Arrangements(S, query.order)
  PROVE  Lists(s, S) /\ Ordered(s, Dir)
<1>1. Lists(s, S) /\ \A i, j \in 1 .. Len(s) : i < j => NotAfter(s[i], s[j], query.order)
  BY ArrangementLists DEF Ids
<1>2. query.order[1].key = "id" /\ 1 \in DOMAIN query.order /\ Dir \in {1, -1}
  <2>1. query.order \in Seq(OrderKeys) /\ query.order # <<>>
    BY DEF OrderOk, UniqueOrder
  <2>2. 1 \in DOMAIN query.order
    BY <2>1, SeqShape
  <2>3. query.order[1] \in OrderKeys
    BY <2>1, <2>2, SeqShape
  <2> QED BY <2>2, <2>3 DEF UniqueOrder, Dir, OrderKeys
<1>3. ASSUME NEW a \in Nat, NEW b \in Nat, NotAfter(a, b, query.order) PROVE ~Sooner(b, a, Dir)
  <2>1. \A j : j \notin 1 .. 1 - 1
    OBVIOUS
  <2>2. Key(a, query.order[1]) <= Key(b, query.order[1])
    BY <1>2, <1>3, <2>1 DEF NotAfter
  <2>3. Key(a, query.order[1]) = a * Dir /\ Key(b, query.order[1]) = b * Dir
    BY <1>2 DEF Key, Dir
  <2>4. a * Dir <= b * Dir
    BY <2>2, <2>3
  <2>5. CASE Dir = 1
    <3>1. a <= b
      BY <2>4, <2>5
    <3> QED BY <2>5, <3>1 DEF Sooner
  <2>6. CASE Dir = -1
    <3>1. b <= a
      BY <2>4, <2>6
    <3> QED BY <2>6, <3>1 DEF Sooner
  <2> QED BY <1>2, <2>5, <2>6
<1>4. \A i \in 1 .. Len(s) : s[i] \in Nat
  <2>1. s \in Seq(S)
    BY <1>1 DEF Lists
  <2> QED BY <2>1, SeqShape DEF Ids
<1> QED BY <1>1, <1>3, <1>4 DEF Ordered

\* A walk that begins.
LEMMA WalkBegins ==
  ASSUME TableOk, WalkFrom(Meant), Meant' = Meant
  PROVE  WalkAt(0)'
<1>1. seen' = <<>> /\ kept' = Meant /\ removed' = 0 /\ added' = 0
  BY DEF WalkFrom
<1>2. Ids(Meant)
  BY MeantIds
<1> DEFINE d == Dir'
<1>3. FirstOf(0, Meant, d) = {}
  <2>1. \A x \in Meant : ~(Rank(x, Meant, d) < 0)
    <3> TAKE x \in Meant
    <3>1. Rank(x, Meant, d) \in Nat
      BY <1>2, RankType
    <3> QED BY <3>1
  <2> QED BY <2>1 DEF FirstOf
<1>4. ToSet(<<>>) = {} /\ Len(<<>>) = 0 /\ <<>> \in Seq(Nat) /\ Cardinality({}) = 0
  BY FS_EmptySet DEF ToSet
<1>5. Missed(<<>>, Meant, Meant, 0, d) = {} /\ Early(<<>>, Meant, 0, d) = {} /\ Repeats(<<>>) = 0
  BY <1>3, <1>4 DEF Missed, Early, Repeats
<1>6. Tallied(<<>>, Meant, Meant, 0, d, 0, 0)
  <2> HIDE DEF d
  <2>1. Cardinality(Missed(<<>>, Meant, Meant, 0, d)) = 0
    BY <1>4, <1>5
  <2>2. Cardinality(Early(<<>>, Meant, 0, d)) = 0 /\ Repeats(<<>>) = 0
    BY <1>4, <1>5
  <2>3. Tallied(<<>>, Meant, Meant, 0, d, 0, 0) <=> (0 <= 0 /\ 0 + 0 <= 0)
    BY ONLY <2>1, <2>2 DEF Tallied
  <2> QED BY <2>3
<1> HIDE DEF d
<1>7. Tallied(seen', kept', Meant', 0, d, removed', added')
  BY <1>1, <1>6
<1>8. seen' \in Seq(Nat) /\ kept' \subseteq Meant' /\ removed' \in Nat /\ added' \in Nat
  BY <1>1, <1>4
<1> QED BY <1>7, <1>8 DEF WalkAt, d

\* One page of a walk, and what a walk that ends has given.
LEMMA WalkPage ==
  ASSUME RowsInv, OrderOk, UniqueWalk, NEW p \in Nat, WalkAt(p), NEW k \in 1 .. 2,
         NEW q, q.wheres = query.wheres, q.trashed = query.trashed, q.order = query.order,
         q.limit = k, q.offset = p, NEW r \in Rows(q)
  PROVE  /\ r.err = FALSE /\ seen \o r.ids \in Seq(Nat)
         /\ Tallied(seen \o r.ids, kept, Meant, p + k, Dir, removed, added)
         /\ (r.ids = <<>> \/ Len(r.ids) < k) => FirstOf(p + k, Meant, Dir) = Meant
         /\ \E s : Lists(s, Meant) /\ Ordered(s, Dir)
<1>1. /\ TableOk /\ ChainOk /\ soft \in BOOLEAN /\ query.trashed \in {"exclude", "include", "only"}
  BY DEF RowsInv, QueryInv, QueryShape
<1>2. Matching(ComposeWhere(q)) = Meant
  BY <1>1, StatementSelects DEF UniqueWalk
<1>3. PICK s \in Arrangements(Meant, query.order) : r.ids = Page(s, k, p) /\ r.err = FALSE
  <2>1. k # NoClause
    BY DEF NoClause
  <2> QED BY <1>2, <2>1, RowsAre
<1>4. Ids(Meant)
  BY <1>1, MeantIds
<1>5. Lists(s, Meant) /\ Ordered(s, Dir)
  BY <1>4, IdOrder DEF UniqueWalk
<1> DEFINE S == Meant
           d == Dir
           ids == r.ids
<1>6. k \in Nat \ {0} /\ k \in Nat
  OBVIOUS
<1>7. ids = Page(s, k, p)
  BY <1>3
<1>8. /\ seen \in Seq(Nat) /\ removed \in Nat /\ added \in Nat
      /\ Tallied(seen, kept, S, p, d, removed, added)
  BY DEF WalkAt
<1>9. Ids(S) /\ Lists(s, S) /\ Ordered(s, d)
  BY <1>4, <1>5
<1> HIDE DEF S, d, ids
<1>10. /\ ids \in Seq(S) /\ Len(ids) = Cardinality(ToSet(ids))
       /\ ToSet(ids) = FirstOf(p + k, S, d) \ FirstOf(p, S, d)
       /\ (ids = <<>> \/ Len(ids) < k) => FirstOf(p + k, S, d) = S
  BY <1>6, <1>7, <1>9, PageGives
<1>11. seen \o ids \in Seq(Nat) /\ Tallied(seen \o ids, kept, S, p + k, d, removed, added)
  BY <1>6, <1>8, <1>9, <1>10, PageTallied
<1> QED BY <1>3, <1>5, <1>10, <1>11 DEF S, d, ids

LEMMA WalkEnds ==
  ASSUME NEW S, Ids(S), NEW d, NEW q \in Nat, NEW held, held \subseteq S, NEW given \in Seq(Nat),
         NEW less \in Nat, NEW more \in Nat, Tallied(given, held, S, q, d, less, more),
         NEW beyond \in Nat, Cardinality(S \ FirstOf(q, S, d)) <= beyond
  PROVE  /\ Cardinality(held \ ToSet(given)) <= less + beyond
         /\ Len(given) - Cardinality(ToSet(given)) <= more
<1> DEFINE M == Missed(given, held, S, q, d)
           B == S \ FirstOf(q, S, d)
           A == held \ ToSet(given)
           E == Early(given, S, q, d)
<1>1. IsFiniteSet(M) /\ IsFiniteSet(E) /\ Cardinality(E) \in Nat /\ Cardinality(M) \in Nat
  BY TallyTypes
<1>2. IsFiniteSet(B) /\ Cardinality(B) \in Nat
  BY FS_Difference, FS_CardinalityType DEF Ids
<1>3. A \subseteq M \cup B
  BY DEF Missed
<1>4. Cardinality(M) <= less /\ Repeats(given) + Cardinality(E) <= more
  BY DEF Tallied
<1>5. Repeats(given) = Len(given) - Cardinality(ToSet(given)) /\ Repeats(given) \in Int
  BY ToSetSize, SeqShape DEF Repeats
<1>6. Cardinality(B) <= beyond
  OBVIOUS
<1> HIDE DEF M, B, A, E
<1>7. IsFiniteSet(M \cup B) /\ Cardinality(M \cup B) \in Nat /\ Cardinality(M \cup B) <= Cardinality(M) + Cardinality(B)
  BY <1>1, <1>2, BothSizes
<1>8. Cardinality(A) \in Nat /\ Cardinality(A) <= Cardinality(M \cup B)
  BY <1>3, <1>7, NoneApart
<1>9. Cardinality(A) <= less + beyond
  BY <1>1, <1>2, <1>4, <1>6, <1>7, <1>8
<1>10. Repeats(given) <= more
  BY <1>1, <1>4, <1>5
<1> QED BY <1>5, <1>9, <1>10 DEF A

LEMMA NotWalking ==
  ASSUME run' = NoRun, told'.op \notin {"paginate", "chunk"}
  PROVE  WalkOk' /\ WalksAreComplete'
BY DEF WalkOk, Walking, WalksAreComplete, WalkOver

LEMMA StillWalking == ASSUME run' # NoRun PROVE WalksAreComplete'
BY DEF WalksAreComplete

LEMMA PaginateWalks == ASSUME WalkInv, Paginate PROVE WalkOk' /\ WalksAreComplete'
<1>1. /\ RowsInv /\ TableOk /\ ChainOk /\ soft \in BOOLEAN /\ query.trashed \in {"exclude", "include", "only"}
      /\ query' = query /\ asked' = asked /\ table' = table /\ soft' = soft /\ NextPageKnown
  BY DEF Paginate, WalkInv, RowsInv, QueryInv, QueryShape
<1>2. Meant' = Meant /\ (UniqueWalk' <=> UniqueWalk) /\ Dir' = Dir
  BY <1>1, MeantStays, UniqueStays
<1> DEFINE total == Cardinality(Matching(ComposeWhere(query)))
<1>3. UniqueWalk => total = Cardinality(Meant)
  BY <1>1, StatementSelects DEF UniqueWalk
<1>4. Cardinality(Meant) \in Nat
  BY <1>1, MeantFinite
<1> HIDE DEF total
<1>5. ASSUME WalkFrom(Meant), NEW per \in 1 .. 2, run' = [op |-> "paginate", page |-> 1, per |-> per, total |-> total]
      PROVE  WalkOk' /\ WalksAreComplete'
  <2>1. run'.op = "paginate" /\ run'.page = 1 /\ run'.per = per /\ run'.total = total /\ run' # NoRun
    BY <1>5 DEF NoRun
  <2>2. Place' = 0
    <3>1. Place' = (1 - 1) * per
      BY <2>1 DEF Place
    <3> QED BY <3>1
  <2>3. WalkAt(0)' /\ added' = 0
    BY <1>1, <1>2, <1>5, WalkBegins DEF WalkFrom
  <2>4. WalkAt(Place)'
    BY <2>2, <2>3 DEF WalkAt
  <2>5. UniqueWalk' => TotalKnown'
    <3>1. UniqueWalk => total \in Nat /\ Cardinality(Meant) <= total + 0
      BY <1>3, <1>4
    <3> QED BY <1>2, <2>1, <2>3, <3>1 DEF TotalKnown
  <2> QED BY <2>1, <2>4, <2>5, StillWalking DEF WalkOk
<1>6. ASSUME told.op = "paginate", told.more, run = NoRun, UNCHANGED walkVars,
             run' = [op |-> "paginate", page |-> told.n + 1, per |-> query.limit, total |-> total]
      PROVE  WalkOk' /\ WalksAreComplete'
  <2>1. run'.op = "paginate" /\ run'.page = told.n + 1 /\ run'.per = query.limit /\ run'.total = total /\ run' # NoRun
    BY <1>6 DEF NoRun
  <2>2. told.n \in Nat /\ query.limit \in Nat
    BY <1>1, <1>6 DEF NextPageKnown
  <2>3. Place' = Place
    <3>1. Place' = ((told.n + 1) - 1) * query.limit
      BY <2>1 DEF Place
    <3>2. (told.n + 1) - 1 = told.n
      BY <2>2
    <3>3. Place = told.n * query.limit
      BY <1>6 DEF Place, NoRun
    <3> QED BY <3>1, <3>2, <3>3
  <2>4. UniqueWalk' => WalkAt(Place)' /\ TotalKnown'
    <3> SUFFICES ASSUME UniqueWalk PROVE WalkAt(Place)' /\ TotalKnown'
      BY <1>2
    <3>1. WalkAt(Place) /\ TotalKnown
      BY <1>6 DEF WalkInv, WalkOk, Walking
    <3>2. seen' = seen /\ kept' = kept /\ removed' = removed /\ added' = added
      BY <1>6 DEF walkVars
    <3>3. WalkAt(Place)'
      BY <1>2, <2>3, <3>1, <3>2 DEF WalkAt
    <3>4. added \in Nat
      BY <3>1 DEF WalkAt
    <3>5. total \in Nat /\ Cardinality(Meant) <= total + added
      BY <1>3, <1>4, <3>4
    <3>6. TotalKnown'
      BY <1>2, <2>1, <3>2, <3>5 DEF TotalKnown
    <3> QED BY <3>3, <3>6
  <2> QED BY <2>1, <2>4, StillWalking DEF WalkOk
<1> QED BY <1>5, <1>6 DEF Paginate, total

LEMMA LastPageIs ==
  ASSUME NEW total \in Nat, NEW per \in 1 .. 2, NEW page \in Nat, ~(page < LastPage(total, per))
  PROVE  total <= page * per
<1>1. CASE per = 1
  <2>1. (total + 1 - 1) \div 1 = total
    OBVIOUS
  <2>2. LastPage(total, per) = total
    BY <1>1, <2>1 DEF LastPage
  <2>3. page * per = page
    BY <1>1
  <2> QED BY <2>2, <2>3
<1>2. CASE per = 2
  <2> DEFINE h == (total + 2 - 1) \div 2
  <2>1. h \in Int /\ total + 1 <= 2 * h + 1
    OBVIOUS
  <2>2. LastPage(total, per) = h
    BY <1>2 DEF LastPage
  <2> HIDE DEF h
  <2>3. h <= page
    BY <2>1, <2>2
  <2>4. page * per = 2 * page
    BY <1>2
  <2> QED BY <2>1, <2>3, <2>4
<1> QED BY <1>1, <1>2

LEMMA PageWalks == ASSUME WalkInv, PageArrives PROVE WalkOk' /\ WalksAreComplete'
<1>1. RowsInv /\ OrderOk /\ TableOk /\ QueryShape /\ run.page \in Nat \ {0} /\ run.per \in 1 .. 2 /\ run.op = "paginate"
  BY DEF PageArrives, WalkInv, RowsInv, QueryInv, RunShape
<1> DEFINE p == (run.page - 1) * run.per
           k == run.per
           q == [query EXCEPT !.limit = k, !.offset = p]
<1>2. /\ query' = q /\ run' = NoRun
      /\ UNCHANGED <<table, soft, asked, kept, removed, added>>
      /\ \E r \in Rows(query') :
           /\ told' = Answer("paginate", r.ids, run.page, r.err, run.page < LastPage(run.total, run.per))
           /\ seen' = seen \o r.ids
  BY DEF PageArrives
<1>3. PICK r \in Rows(q) :
        /\ told' = Answer("paginate", r.ids, run.page, r.err, run.page < LastPage(run.total, run.per))
        /\ seen' = seen \o r.ids
  <2> HIDE DEF q
  <2> QED BY <1>2
<1>4. /\ q.wheres = query.wheres /\ q.trashed = query.trashed /\ q.order = query.order
      /\ q.limit = k /\ q.offset = p
  BY <1>1 DEF QueryShape
<1>5. p \in Nat /\ k \in 1 .. 2 /\ p + k = run.page * run.per /\ run.page * run.per \in Nat
  <2>1. CASE run.per = 1
    BY <1>1, <2>1
  <2>2. CASE run.per = 2
    BY <1>1, <2>2
  <2> QED BY <1>1, <2>1, <2>2
<1> HIDE DEF q
<1>6. Meant' = Meant /\ (UniqueWalk' <=> UniqueWalk) /\ Dir' = Dir
  BY <1>2, <1>4, MeantStays, UniqueStays
<1> DEFINE more == run.page < LastPage(run.total, run.per)
<1>7. told'.op = "paginate" /\ told'.n = run.page /\ (told'.more <=> more) /\ query'.limit = k
  BY <1>2, <1>3, <1>4 DEF Answer
<1>8. run' = NoRun /\ run'.op = "none" /\ run # NoRun
  BY <1>1, <1>2 DEF NoRun
<1> SUFFICES ASSUME UniqueWalk
             PROVE  /\ more => WalkAt(Place)' /\ TotalKnown'
                    /\ ~more => /\ Cardinality(kept' \ ToSet(seen')) <= removed' + added'
                                /\ Len(seen') - Cardinality(ToSet(seen')) <= added'
  <2> DEFINE complete == /\ Cardinality(kept' \ ToSet(seen')) <= removed' + added'
                         /\ Len(seen') - Cardinality(ToSet(seen')) <= added'
             ok == WalkAt(Place)' /\ TotalKnown'
  <2>1. UniqueWalk => (more => ok) /\ (~more => complete)
    BY DEF UniqueWalk
  <2>2. told'.op # "chunk"
    BY <1>7
  <2> HIDE DEF more, complete, ok
  <2>3. WalkOk'
    <3>1. Walking' => more
      BY <1>7, <1>8 DEF Walking
    <3> QED BY <1>6, <2>1, <3>1 DEF WalkOk, ok
  <2>4. WalksAreComplete'
    <3>1. WalkOver' => ~more
      BY <1>7, <2>2 DEF WalkOver
    <3>2. UniqueOrder' /\ ~SplitBetween' => UniqueWalk
      BY <1>6 DEF UniqueWalk
    <3>3. WalkOver' /\ UniqueOrder' /\ ~SplitBetween' => complete
      BY <2>1, <3>1, <3>2
    <3> QED BY <2>2, <3>3 DEF WalksAreComplete, complete
  <2> QED BY <2>3, <2>4
<1>9. WalkAt(p) /\ TotalKnown
  <2>1. WalkAt(Place) /\ TotalKnown
    BY <1>8 DEF WalkInv, WalkOk, Walking
  <2>2. Place = p
    BY <1>1 DEF Place
  <2> QED BY <2>1, <2>2 DEF WalkAt
<1>10. kept \subseteq Meant /\ removed \in Nat /\ added \in Nat
  BY <1>9 DEF WalkAt
<1> HIDE DEF p, k
<1>11. /\ seen \o r.ids \in Seq(Nat)
       /\ Tallied(seen \o r.ids, kept, Meant, p + k, Dir, removed, added)
       /\ \E s : Lists(s, Meant) /\ Ordered(s, Dir)
  <2>1. /\ RowsInv /\ OrderOk /\ UniqueWalk /\ p \in Nat /\ WalkAt(p) /\ k \in 1 .. 2
        /\ q.wheres = query.wheres /\ q.trashed = query.trashed /\ q.order = query.order
        /\ q.limit = k /\ q.offset = p /\ r \in Rows(q)
    BY <1>1, <1>4, <1>5, <1>9
  <2> QED BY ONLY <2>1, WalkPage
<1>12. seen' \in Seq(Nat) /\ Tallied(seen', kept, Meant, p + k, Dir, removed, added)
  BY <1>3, <1>11
<1>13. ASSUME more PROVE WalkAt(Place)' /\ TotalKnown'
  <2>1. Place' = p + k
    BY <1>5, <1>7, <1>8 DEF Place, k
  <2>2. WalkAt(Place)'
    BY <1>2, <1>6, <1>10, <1>12, <2>1 DEF WalkAt
  <2>3. TotalKnown'
    BY <1>8 DEF TotalKnown
  <2> QED BY <2>2, <2>3
<1>14. ASSUME ~more
       PROVE  /\ Cardinality(kept' \ ToSet(seen')) <= removed' + added'
              /\ Len(seen') - Cardinality(ToSet(seen')) <= added'
  <2> DEFINE S == Meant
             d == Dir
             given == seen \o r.ids
  <2>1. run.total \in Nat /\ Cardinality(S) <= run.total + added
    BY <1>1, <1>9 DEF TotalKnown
  <2>2. run.total <= p + k
    BY <1>1, <1>5, <1>14, <2>1, LastPageIs
  <2>3. Ids(S) /\ Cardinality(S) \in Nat
    BY <1>1, MeantIds, MeantFinite
  <2>4. PICK s : Lists(s, S) /\ Ordered(s, d)
    BY <1>11
  <2>5. /\ given \in Seq(Nat) /\ Tallied(given, kept, S, p + k, d, removed, added) /\ kept \subseteq S
        /\ p + k \in Nat
    BY <1>5, <1>10, <1>11
  <2>6. seen' = given /\ kept' = kept /\ removed' = removed /\ added' = added
    BY <1>2, <1>3
  <2> HIDE DEF S, d, given
  <2>7. Cardinality(S) <= (p + k) + added
    BY <1>5, <1>10, <2>1, <2>2, <2>3
  <2>8. Cardinality(S \ FirstOf(p + k, S, d)) <= added
    BY <1>10, <2>3, <2>4, <2>5, <2>7, BeyondFew
  <2>9. /\ Cardinality(kept \ ToSet(given)) <= removed + added
        /\ Len(given) - Cardinality(ToSet(given)) <= added
    BY <1>10, <2>3, <2>5, <2>8, WalkEnds
  <2> QED BY <2>6, <2>9
<1> QED BY <1>13, <1>14

LEMMA ChunkBegins == ASSUME WalkInv, Chunk PROVE WalkOk' /\ WalksAreComplete'
<1>1. /\ TableOk /\ WalkFrom(Meant) /\ table' = table /\ soft' = soft /\ query' = query /\ asked' = asked
  BY DEF Chunk, WalkInv, RowsInv
<1>2. PICK size \in 1 .. 2 : run' = [op |-> "chunk", page |-> 0, size |-> size]
  BY DEF Chunk
<1>3. run'.op = "chunk" /\ run'.page = 0 /\ run'.size = size /\ run' # NoRun
  BY <1>2 DEF NoRun
<1>4. Meant' = Meant
  BY <1>1, MeantStays
<1>5. WalkAt(0)'
  BY <1>1, <1>4, WalkBegins
<1>6. Place' = 0
  <2>1. Place' = 0 * size
    BY <1>3 DEF Place
  <2> QED BY <2>1
<1>7. WalkAt(Place)' /\ TotalKnown'
  BY <1>3, <1>5, <1>6 DEF WalkAt, TotalKnown
<1> QED BY <1>3, <1>7, StillWalking DEF WalkOk

LEMMA ChunkWalks == ASSUME WalkInv, ChunkArrives PROVE WalkOk' /\ WalksAreComplete'
<1>1. /\ RowsInv /\ OrderOk /\ TableOk /\ QueryShape
      /\ run \in [op : {"chunk"}, page : Nat, size : 1 .. 2]
  BY DEF ChunkArrives, WalkInv, RowsInv, QueryInv, RunShape
<1>2. run.op = "chunk" /\ run.page \in Nat /\ run.size \in 1 .. 2 /\ run # NoRun
  BY <1>1 DEF NoRun
<1> DEFINE p == run.page * run.size
           k == run.size
           q == [query EXCEPT !.limit = k, !.offset = p]
<1>3. UNCHANGED <<table, soft, query, asked, kept, removed, added>>
  BY DEF ChunkArrives
<1>4. PICK r \in Rows(q), stop \in BOOLEAN :
        /\ seen' = seen \o r.ids
        /\ IF r.ids = <<>> \/ stop \/ Len(r.ids) < run.size
           THEN /\ run' = NoRun
                /\ told' = Answer(IF stop /\ r.ids # <<>> THEN "stopped" ELSE "chunk", <<>>, 0, FALSE, FALSE)
           ELSE run' = [run EXCEPT !.page = @ + 1] /\ UNCHANGED told
  BY DEF ChunkArrives
<1>5. /\ q.wheres = query.wheres /\ q.trashed = query.trashed /\ q.order = query.order
      /\ q.limit = k /\ q.offset = p
  BY <1>1 DEF QueryShape
<1>6. p \in Nat /\ k \in 1 .. 2 /\ p + k = (run.page + 1) * run.size /\ p + k \in Nat
  <2>1. CASE run.size = 1
    BY <1>2, <2>1
  <2>2. CASE run.size = 2
    BY <1>2, <2>2
  <2> QED BY <1>2, <2>1, <2>2
<1> HIDE DEF q
<1>7. Meant' = Meant /\ (UniqueWalk' <=> UniqueWalk) /\ Dir' = Dir
  BY <1>3, MeantStays, UniqueStays
<1>8. ASSUME UniqueWalk
      PROVE  /\ kept \subseteq Meant /\ removed \in Nat /\ added \in Nat /\ Ids(Meant)
             /\ seen' \in Seq(Nat) /\ Tallied(seen', kept, Meant, p + k, Dir, removed, added)
             /\ (r.ids = <<>> \/ Len(r.ids) < k) => FirstOf(p + k, Meant, Dir) = Meant
  <2>1. WalkAt(Place) /\ Place = p
    BY <1>2, <1>8 DEF WalkInv, WalkOk, Walking, Place
  <2>2. WalkAt(p)
    BY <2>1 DEF WalkAt
  <2>3. kept \subseteq Meant /\ removed \in Nat /\ added \in Nat /\ Ids(Meant)
    BY <1>1, <2>2, MeantIds DEF WalkAt
  <2> HIDE DEF p, k
  <2>4. /\ seen \o r.ids \in Seq(Nat)
        /\ Tallied(seen \o r.ids, kept, Meant, p + k, Dir, removed, added)
        /\ (r.ids = <<>> \/ Len(r.ids) < k) => FirstOf(p + k, Meant, Dir) = Meant
    <3>1. /\ RowsInv /\ OrderOk /\ UniqueWalk /\ p \in Nat /\ WalkAt(p) /\ k \in 1 .. 2
          /\ q.wheres = query.wheres /\ q.trashed = query.trashed /\ q.order = query.order
          /\ q.limit = k /\ q.offset = p /\ r \in Rows(q)
      BY <1>1, <1>5, <1>6, <1>8, <2>2
    <3> QED BY ONLY <3>1, WalkPage
  <2> QED BY <1>4, <2>3, <2>4
<1>9. CASE r.ids = <<>> \/ stop \/ Len(r.ids) < run.size
  <2>1. run' = NoRun /\ told' = Answer(IF stop /\ r.ids # <<>> THEN "stopped" ELSE "chunk", <<>>, 0, FALSE, FALSE)
    BY <1>4, <1>9
  <2>2. told'.op = IF stop /\ r.ids # <<>> THEN "stopped" ELSE "chunk"
    BY <2>1 DEF Answer
  <2>3. WalkOk'
    BY <2>1, <2>2 DEF WalkOk, Walking
  <2>4. CASE stop /\ r.ids # <<>>
    <3>1. told'.op = "stopped"
      BY <2>2, <2>4
    <3> QED BY <2>1, <3>1, NotWalking
  <2>5. CASE ~(stop /\ r.ids # <<>>)
    <3>1. told'.op = "chunk"
      BY <2>2, <2>5
    <3>2. ASSUME UniqueWalk
          PROVE  /\ Cardinality(kept' \ ToSet(seen')) <= removed'
                 /\ Len(seen') - Cardinality(ToSet(seen')) <= added'
      <4> DEFINE S == Meant
                 d == Dir
                 given == seen'
                 e == p + k
      <4>1. FirstOf(e, S, d) = S
        BY <1>8, <1>9, <2>5, <3>2
      <4>2. /\ Ids(S) /\ kept \subseteq S /\ given \in Seq(Nat) /\ removed \in Nat /\ added \in Nat
            /\ Tallied(given, kept, S, e, d, removed, added) /\ e \in Nat
        BY <1>6, <1>8, <3>2
      <4>3. kept' = kept /\ removed' = removed /\ added' = added
        BY <1>3
      <4> HIDE DEF S, d, given, e
      <4>4. Cardinality(S \ FirstOf(e, S, d)) = 0
        BY <4>1, FS_EmptySet
      <4>5. 0 \in Nat /\ Cardinality(S \ FirstOf(e, S, d)) <= 0
        BY <4>4
      <4>6. /\ Cardinality(kept \ ToSet(given)) <= removed + 0
            /\ Len(given) - Cardinality(ToSet(given)) <= added
        BY <4>2, <4>5, WalkEnds
      <4>7. removed + 0 = removed
        BY <4>2
      <4> QED BY <4>3, <4>6, <4>7 DEF given
    <3>3. ASSUME UniqueOrder', ~SplitBetween'
          PROVE  /\ Cardinality(kept' \ ToSet(seen')) <= removed' + 0
                 /\ Len(seen') - Cardinality(ToSet(seen')) <= added'
      <4>1. UniqueWalk
        BY <1>7, <3>3 DEF UniqueWalk
      <4>2. removed' + 0 = removed'
        BY <1>3, <1>8, <4>1
      <4> QED BY <3>2, <4>1, <4>2
    <3>4. WalksAreComplete'
      BY <3>1, <3>3 DEF WalksAreComplete
    <3> QED BY <2>3, <3>4
  <2> QED BY <2>3, <2>4, <2>5
<1>10. CASE ~(r.ids = <<>> \/ stop \/ Len(r.ids) < run.size)
  <2>1. run' = [run EXCEPT !.page = @ + 1]
    BY <1>4, <1>10
  <2>2. run'.op = "chunk" /\ run'.page = run.page + 1 /\ run'.size = run.size
    BY <1>1, <2>1
  <2>3. run' # NoRun
    BY <2>2 DEF NoRun
  <2>4. Place' = p + k
    BY <1>6, <2>2 DEF Place
  <2>5. ASSUME UniqueWalk' PROVE WalkAt(Place)' /\ TotalKnown'
    <3>1. UniqueWalk
      BY <1>7, <2>5
    <3> HIDE DEF p, k
    <3>2. WalkAt(Place)'
      BY <1>3, <1>7, <1>8, <2>4, <3>1 DEF WalkAt
    <3> QED BY <2>2, <3>2 DEF TotalKnown
  <2> QED BY <2>3, <2>5, StillWalking DEF WalkOk
<1> QED BY <1>9, <1>10

\* What another's write does to the rows that are meant.
LEMMA MeantKeeps ==
  ASSUME NEW i, i \in DOMAIN table' <=> i \in DOMAIN table, table'[i] = table[i], UNCHANGED <<soft, query, asked>>
  PROVE  i \in Meant' <=> i \in Meant
BY DEF Meant

LEMMA MeantChanges ==
  ASSUME Others, TableOk
  PROVE  \/ Meant' = Meant
         \/ \E x \in Meant : Meant' = Meant \ {x}
         \/ \E x \in Nat : x \notin Meant /\ Meant' = Meant \cup {x}
<1>1. PICK id \in DOMAIN table :
        \/ table' = [i \in (DOMAIN table) \ {id} |-> table[i]]
        \/ table' = [table EXCEPT ![id].trashed = ~@]
  BY DEF Others
<1>2. ASSUME NEW i, i # id PROVE i \in Meant' <=> i \in Meant
  <2>1. CASE table' = [j \in (DOMAIN table) \ {id} |-> table[j]]
    <3>1. i \in DOMAIN table' <=> i \in DOMAIN table
      BY <1>2, <2>1
    <3>2. CASE i \in DOMAIN table
      <4>1. table'[i] = table[i]
        BY <1>2, <2>1, <3>2
      <4> QED BY <3>1, <4>1, MeantKeeps DEF Others
    <3>3. CASE i \notin DOMAIN table
      BY <3>1, <3>3 DEF Meant
    <3> QED BY <3>2, <3>3
  <2>2. CASE table' = [table EXCEPT ![id].trashed = ~@]
    <3>1. i \in DOMAIN table' <=> i \in DOMAIN table
      BY <1>2, <2>2
    <3>2. CASE i \in DOMAIN table
      <4>1. table'[i] = table[i]
        BY <1>2, <2>2, <3>2
      <4> QED BY <3>1, <4>1, MeantKeeps DEF Others
    <3>3. CASE i \notin DOMAIN table
      BY <3>1, <3>3 DEF Meant
    <3> QED BY <3>2, <3>3
  <2> QED BY <1>1, <2>1, <2>2
<1>3. id \in Nat
  BY DEF TableOk
<1> DEFINE S == Meant
           T == Meant'
<1>4. \A i : i # id => (i \in T <=> i \in S)
  BY <1>2
<1> HIDE DEF S, T
<1>5. \/ T = S
      \/ id \in S /\ T = S \ {id}
      \/ id \notin S /\ T = S \cup {id}
  <2>1. CASE id \in S /\ id \notin T
    <3>1. T = S \ {id}
      BY <1>4, <2>1
    <3> QED BY <2>1, <3>1
  <2>2. CASE id \notin S /\ id \in T
    <3>1. T = S \cup {id}
      BY <1>4, <2>2
    <3> QED BY <2>2, <3>1
  <2>3. CASE id \in S <=> id \in T
    <3>1. T = S
      BY <1>4, <2>3
    <3> QED BY <3>1
  <2> QED BY <2>1, <2>2, <2>3
<1> QED BY <1>3, <1>5 DEF S, T

LEMMA OthersWalk == ASSUME WalkInv, Others PROVE WalkOk' /\ WalksAreComplete'
<1>1. /\ UNCHANGED <<soft, query, asked, run, told, seen>>
      /\ kept' = kept \cap Meant'
      /\ removed' = removed + Cardinality(Meant \ Meant') /\ added' = added + Cardinality(Meant' \ Meant)
      /\ Walking
  BY DEF Others, Walking
<1>2. TableOk /\ RunShape /\ NextPageKnown
  BY DEF WalkInv, RowsInv, QueryInv
<1>3. WalksAreComplete'
  BY <1>1, <1>2 DEF WalksAreComplete, WalkOver, Walking, RunShape, NoRun, WalkInv, RowsInv, Quiet, NotTold
<1>4. (UniqueWalk' <=> UniqueWalk) /\ Dir' = Dir /\ Place' = Place
  BY <1>1, UniqueStays DEF Place
<1> SUFFICES ASSUME UniqueWalk PROVE WalkAt(Place)' /\ TotalKnown'
  BY <1>3, <1>4 DEF WalkOk
<1>5. WalkAt(Place) /\ TotalKnown
  BY <1>1 DEF WalkInv, WalkOk
<1> DEFINE p == Place
           S == Meant
           T == Meant'
           d == Dir
<1>6. Ids(S)
  BY <1>2, MeantIds
<1>7. p \in Nat
  <2>1. CASE run.op = "paginate"
    <3>1. run.page \in Nat \ {0} /\ run.per \in 1 .. 2
      BY <1>2, <2>1 DEF RunShape
    <3>2. CASE run.per = 1
      BY <2>1, <3>1, <3>2 DEF Place
    <3>3. CASE run.per = 2
      BY <2>1, <3>1, <3>3 DEF Place
    <3> QED BY <3>1, <3>2, <3>3
  <2>2. CASE run.op = "chunk"
    <3>1. run.page \in Nat /\ run.size \in 1 .. 2
      BY <1>2, <2>2 DEF RunShape
    <3>2. CASE run.size = 1
      BY <2>2, <3>1, <3>2 DEF Place
    <3>3. CASE run.size = 2
      BY <2>2, <3>1, <3>3 DEF Place
    <3> QED BY <3>1, <3>2, <3>3
  <2>3. CASE run.op = "none"
    <3>1. Place = told.n * query.limit
      BY <2>3 DEF Place
    <3>2. told.op = "paginate" \/ told = NotTold
      BY <1>1 DEF Walking, WalkInv, RowsInv, Quiet
    <3>3. CASE told = NotTold
      <4>1. told.n = 0 /\ query.limit \in Int
        BY <3>3 DEF NotTold, WalkInv, RowsInv, QueryInv, QueryShape, NoClause
      <4>2. 0 * query.limit = 0
        BY <4>1
      <4> QED BY <3>1, <4>1, <4>2
    <3>4. CASE told.op = "paginate"
      <4>1. query.limit \in 1 .. 2 /\ told.n \in Nat
        BY <1>2, <3>4 DEF NextPageKnown
      <4>2. CASE query.limit = 1
        BY <3>1, <4>1, <4>2
      <4>3. CASE query.limit = 2
        BY <3>1, <4>1, <4>3
      <4> QED BY <4>1, <4>2, <4>3
    <3> QED BY <3>2, <3>3, <3>4
  <2> QED BY <1>2, <2>1, <2>2, <2>3 DEF RunShape
<1>8. /\ seen \in Seq(Nat) /\ kept \subseteq S /\ removed \in Nat /\ added \in Nat
      /\ Tallied(seen, kept, S, p, d, removed, added)
  BY <1>5 DEF WalkAt
<1>9. \/ T = S
      \/ \E x \in S : T = S \ {x}
      \/ \E x \in Nat : x \notin S /\ T = S \cup {x}
  BY <1>2, MeantChanges
<1>10. /\ kept' = kept \cap T
       /\ removed' = removed + Cardinality(S \ T) /\ added' = added + Cardinality(T \ S)
  BY <1>1
<1>11. Repeats(seen) \in Int
  BY <1>8, ToSetSize, SeqShape DEF Repeats
<1>12. run.op = "paginate" => run.total \in Nat /\ Cardinality(S) <= run.total + added
  BY <1>5 DEF TotalKnown
<1>13. Cardinality(S) \in Nat
  BY <1>2, MeantFinite
<1> HIDE DEF p, S, T, d
<1>14. /\ removed' \in Nat /\ added' \in Nat /\ Tallied(seen, kept', T, p, d, removed', added')
       /\ run.op = "paginate" => Cardinality(T) <= run.total + added'
  <2>1. Cardinality({}) = 0 /\ \A x : Cardinality({x}) = 1
    BY FS_EmptySet, FS_Singleton
  <2>2. CASE T = S
    <3>1. S \ T = {} /\ T \ S = {} /\ kept \cap T = kept
      BY <1>8, <2>2
    <3>2. removed' = removed /\ added' = added /\ kept' = kept
      <4>1. removed' = removed + 0 /\ added' = added + 0
        <5>1. Cardinality(S \ T) = 0 /\ Cardinality(T \ S) = 0
          BY <2>1, <3>1
        <5> QED BY <1>10, <5>1
      <4> QED BY <1>8, <1>10, <3>1, <4>1
    <3> QED BY <1>8, <1>12, <2>2, <3>2
  <2>3. ASSUME NEW x \in S, T = S \ {x}
        PROVE  /\ removed' \in Nat /\ added' \in Nat /\ Tallied(seen, kept', T, p, d, removed', added')
               /\ run.op = "paginate" => Cardinality(T) <= run.total + added'
    <3>1. S \ T = {x} /\ T \ S = {}
      BY <2>3
    <3>2. removed' = removed + 1 /\ added' = added
      <4>1. removed' = removed + 1 /\ added' = added + 0
        <5>1. Cardinality(S \ T) = 1 /\ Cardinality(T \ S) = 0
          BY <2>1, <3>1
        <5> QED BY <1>10, <5>1
      <4> QED BY <1>8, <1>10, <3>1, <4>1
    <3>3. Tallied(seen, kept \cap (S \ {x}), S \ {x}, p, d, removed + 1, added)
      BY <1>6, <1>7, <1>8, <1>11, RowGone
    <3>4. Tallied(seen, kept', T, p, d, removed', added')
      BY <1>10, <2>3, <3>2, <3>3
    <3>5. Cardinality(T) \in Nat /\ Cardinality(T) <= Cardinality(S)
      BY <1>6, <2>3, NoneApart DEF Ids
    <3> QED BY <1>8, <1>12, <1>13, <3>2, <3>4, <3>5
  <2>4. ASSUME NEW x \in Nat, x \notin S, T = S \cup {x}
        PROVE  /\ removed' \in Nat /\ added' \in Nat /\ Tallied(seen, kept', T, p, d, removed', added')
               /\ run.op = "paginate" => Cardinality(T) <= run.total + added'
    <3>1. S \ T = {} /\ T \ S = {x}
      BY <2>4
    <3>2. removed' = removed /\ added' = added + 1
      <4>1. removed' = removed + 0 /\ added' = added + 1
        <5>1. Cardinality(S \ T) = 0 /\ Cardinality(T \ S) = 1
          BY <2>1, <3>1
        <5> QED BY <1>10, <5>1
      <4> QED BY <1>8, <1>10, <3>1, <4>1
    <3>3. Tallied(seen, kept \cap (S \cup {x}), S \cup {x}, p, d, removed, added + 1)
      BY <1>6, <1>7, <1>8, <1>11, <2>4, RowComes
    <3>4. Tallied(seen, kept', T, p, d, removed', added')
      BY <1>10, <2>4, <3>2, <3>3
    <3>5. Cardinality(T) = Cardinality(S) + 1
      BY <1>6, <2>4, FS_AddElement DEF Ids
    <3>6. run.op = "paginate" => Cardinality(T) <= run.total + added'
      BY <1>8, <1>12, <1>13, <3>2, <3>5
    <3> QED BY <1>8, <3>2, <3>4, <3>6
  <2> QED BY <1>9, <2>2, <2>3, <2>4
<1>15. seen' = seen /\ kept' \subseteq T /\ run' = run /\ p = Place /\ Place' = Place
  BY <1>1, <1>4, <1>10 DEF p
<1>16. WalkAt(Place)'
  BY <1>4, <1>8, <1>14, <1>15 DEF WalkAt, T, d
<1>17. TotalKnown'
  BY <1>12, <1>14, <1>15 DEF TotalKnown, T
<1> QED BY <1>16, <1>17

USE ModelQueryAssumption

LEMMA WalkInvInit == QueryInit => WalkInv
<1> SUFFICES ASSUME QueryInit PROVE WalkInv
  OBVIOUS
<1>1. run = NoRun /\ told = NotTold /\ query = Fresh
  BY DEF QueryInit
<1>2. ~Walking /\ ~WalkOver
  BY <1>1 DEF Walking, WalkOver, NotTold
<1>3. OrderOk
  BY <1>1 DEF OrderOk, Fresh
<1> QED BY <1>2, <1>3, RowsInvInit DEF WalkInv, WalkOk, WalksAreComplete

LEMMA WalkInvNext == WalkInv /\ [QueryNext]_queryVars => WalkInv'
<1> SUFFICES ASSUME WalkInv, [QueryNext]_queryVars PROVE WalkInv'
  OBVIOUS
<1>1. RowsInv' /\ OrderOk'
  BY RowsInvNext, OrderKeysKept DEF WalkInv, RowsInv, QueryInv
<1> SUFFICES WalkOk' /\ WalksAreComplete'
  BY <1>1 DEF WalkInv
<1>2. CASE Where \/ WhereBetween \/ WhereGroup \/ OrderBy \/ Limit \/ Offset \/ TrashScope
  <2>1. run' = NoRun /\ told' = NotTold
    BY <1>2 DEF Where, WhereBetween, WhereGroup, Push, OrderBy, Limit, Offset, TrashScope, Chained, Chainable
  <2>2. told'.op \notin {"paginate", "chunk"}
    BY <2>1 DEF NotTold
  <2> QED BY <2>1, <2>2, NotWalking
<1>3. CASE Get \/ Pluck \/ Count \/ Aggregate \/ Write \/ Find \/ Destroy
  <2>1. run' = NoRun
    BY <1>3 DEF Get, Pluck, Count, Aggregate, Write, Find, Destroy, Terminal
  <2>2. told'.op \notin {"paginate", "chunk"}
    <3>1. CASE Get
      <4>1. \E op \in {"get", "first", "last", "sole"} : told'.op = op
        BY <3>1 DEF Get, Answer
      <4> QED BY <4>1
    <3>2. CASE Pluck
      BY <3>2 DEF Pluck, Answer
    <3>3. CASE Count \/ Aggregate
      BY <3>3 DEF Count, Aggregate, Answer
    <3>4. CASE Write
      <4>1. told'.op \in {"refused", "write"}
        BY <3>4 DEF Write, Answer
      <4> QED BY <4>1
    <3>5. CASE Find
      <4>1. told'.op = "find"
        BY <3>5 DEF Find, Answer
      <4> QED BY <4>1
    <3>6. CASE Destroy
      BY <3>6 DEF Destroy, Answer
    <3> QED BY <1>3, <3>1, <3>2, <3>3, <3>4, <3>5, <3>6
  <2> QED BY <2>1, <2>2, NotWalking
<1>4. CASE Paginate
  BY <1>4, PaginateWalks
<1>5. CASE PageArrives
  BY <1>5, PageWalks
<1>6. CASE Chunk
  BY <1>6, ChunkBegins
<1>7. CASE ChunkArrives
  BY <1>7, ChunkWalks
<1>8. CASE Others
  BY <1>8, OthersWalk
<1>9. CASE UNCHANGED queryVars
  <2>1. WalkOk /\ WalksAreComplete
    BY DEF WalkInv
  <2>2. UNCHANGED <<table, soft, query, asked, run, told, seen, kept, removed, added>>
    BY <1>9 DEF queryVars
  <2>3. Meant' = Meant /\ (UniqueWalk' <=> UniqueWalk) /\ Dir' = Dir
    BY <2>2, MeantStays, UniqueStays
  <2>4. WalkOk'
    <3>1. Place' = Place /\ (Walking' <=> Walking)
      BY <2>2 DEF Place, Walking
    <3>2. TotalKnown => TotalKnown'
      BY <2>2, <2>3 DEF TotalKnown
    <3>3. WalkAt(Place) => WalkAt(Place)'
      BY <2>2, <2>3, <3>1 DEF WalkAt
    <3> QED BY <2>1, <2>3, <3>1, <3>2, <3>3 DEF WalkOk
  <2>5. WalksAreComplete'
    BY <2>1, <2>2 DEF WalksAreComplete, WalkOver, UniqueOrder, SplitBetween
  <2> QED BY <2>4, <2>5
<1> QED BY <1>2, <1>3, <1>4, <1>5, <1>6, <1>7, <1>8, <1>9 DEF QueryNext

HIDE ModelQueryAssumption

----------------------------------------------------------------------------
(* The whole: a behaviour of it is, for each part, a behaviour of that part.      *)
PartsInv == WalkInv /\ RelatedInv /\ ExecutorInv

LEMMA StepsOfParts ==
  ASSUME [Next]_vars
  PROVE  /\ [QueryNext]_queryVars /\ [RelationNext]_relationVars
         /\ [ExecutorNext]_executorVars /\ [InstanceNext]_instanceVars
<1>1. CASE UNCHANGED vars
  BY <1>1 DEF vars
<1>2. CASE part = "query" /\ QueryNext /\ UNCHANGED <<part, relationVars, executorVars, instanceVars>>
  BY <1>2
<1>3. CASE part = "relations" /\ RelationNext /\ UNCHANGED <<part, queryVars, executorVars, instanceVars>>
  BY <1>3
<1>4. CASE part = "executor" /\ ExecutorNext /\ UNCHANGED <<part, queryVars, relationVars, instanceVars>>
  BY <1>4
<1>5. CASE part = "instances" /\ InstanceNext /\ UNCHANGED <<part, queryVars, relationVars, executorVars>>
  BY <1>5
<1> QED BY <1>1, <1>2, <1>3, <1>4, <1>5 DEF Next

LEMMA PartsKeepTheirSpecs == Spec => InstanceSpec /\ ExecutorSpec
<1>1. Init => InstanceInit /\ ExecutorInit
  BY DEF Init
<1> QED BY <1>1, StepsOfParts, PTL DEF Spec, InstanceSpec, ExecutorSpec

LEMMA PartsInvariance == Spec => []PartsInv
<1>1. Init => PartsInv
  BY WalkInvInit, RelatedInvInit, ExecutorInvInit DEF Init, PartsInv
<1>2. PartsInv /\ [Next]_vars => PartsInv'
  BY StepsOfParts, WalkInvNext, RelatedInvNext, ExecutorInvNext DEF PartsInv
<1> QED BY <1>1, <1>2, PTL DEF Spec

\* Every variable of the composition keeps its type.  Among them: the page a walk
\* goes on with and its size (paginate), the kind a guess may have in the cache
\* (resolveRelation), and that a statement's handle is one that was opened.
THEOREM ModelsTypes == Spec => []TypeOK
<1>1. PartsInv => QueryTypes /\ RelationTypes /\ ExecutorTypes
  BY QueryInvMeans, RelatedInvMeans DEF PartsInv, WalkInv, RowsInv, ExecutorInv
<1>2. QueryTypes /\ RelationTypes /\ ExecutorTypes /\ InstanceTypes => TypeOK
  BY DEF TypeOK
<1> QED BY <1>1, <1>2, PartsInvariance, PartsKeepTheirSpecs, TypesAreKept, PTL

\* A row is given only related rows that were its own at some moment of the load,
\* and all that stayed its own during it, whatever others write between the two
\* statements and whatever the schemas declare; and PivotQuery's pages count the
\* rows they page through.
THEOREM LoadsAreRelated == Spec => []LoadedRowsAreRelated
<1>1. PartsInv => LoadedRowsAreRelated
  BY RelatedInvMeans DEF PartsInv
<1> QED BY <1>1, PartsInvariance, PTL

(* A statement of a model's builder reads or writes exactly the rows the chain asked  *)
(* for, first, last and sole tell none, one and more rows apart, and a walk over      *)
(* pages or chunks in a unique order misses no more rows than left or entered the     *)
(* result meanwhile and repeats no more than entered it: for every table, any         *)
(* conditions and chains of any length (composeWhere, renderWhereTerms, paginate and  *)
(* chunk of orm.ts).                                                            *)
THEOREM ModelStatements == Spec => []StatementsMeanTheChain
<1>1. PartsInv => StatementsMeanTheChain
  BY DEF PartsInv, WalkInv, RowsInv, AnswersOk, StatementsMeanTheChain
<1> QED BY <1>1, PartsInvariance, PTL

\* The composition keeps the promises of its parts: statements go to the configured
\* database, an unsaved change stays dirty, and a save leaves the columns alone that
\* others wrote.
THEOREM ModelsKeepTheirWord ==
  Spec => /\ [](StatementsGoWhereConfigured /\ UnsavedIsDirty)
          /\ SavesKeepOthersColumns
BY PartsKeepTheirSpecs, ConfiguredExecutor, NothingForgotten, NoClobbering, PTL

=============================================================================
