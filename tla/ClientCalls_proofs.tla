-------------------------- MODULE ClientCalls_proofs --------------------------
(***************************************************************************)
(* Proofs about the calls of the client and the connection under them:       *)
(* begin()/savepoint() on the one SQLite connection, for any number of        *)
(* callers (serialised), statements and any depth of nesting; transaction(),  *)
(* for every nesting of depth one and every retry budget; runWithHooks(), for *)
(* any queries; the look-then-write helpers and the pivot writes, for any     *)
(* number of callers and rows; and what all of them, with the walks, keep     *)
(* true of the composition.                                                  *)
(***************************************************************************)
EXTENDS ClientCalls, FiniteSetTheorems, SequenceTheorems, TLAPS

----------------------------------------------------------------------------
(* The walks of RowWalk, for any finite set of keys, any sizes of page and any *)
(* number of writes by others.                                               *)

\* Distinct numbers of a finite set have distinct numbers of others before them,
\* each fewer than there are.
LEMMA Ranks ==
  ASSUME NEW S, S \subseteq Int, IsFiniteSet(S)
  PROVE  /\ Cardinality(S) \in Nat
         /\ \A k \in S : Cardinality({j \in S : j < k}) \in 0 .. Cardinality(S) - 1
         /\ \A k, l \in S : k < l => Cardinality({j \in S : j < k}) < Cardinality({j \in S : j < l})
<1> DEFINE B(k) == {j \in S : j < k}
<1>1. ASSUME NEW k \in S PROVE IsFiniteSet(B(k)) /\ Cardinality(B(k)) \in Nat
  <2>1. B(k) \subseteq S
    OBVIOUS
  <2> QED BY <2>1, FS_Subset, FS_CardinalityType
<1>2. Cardinality(S) \in Nat
  BY FS_CardinalityType
<1>3. ASSUME NEW T, T \subseteq S, NEW k \in S, B(k) \subseteq T, k \in T PROVE Cardinality(B(k)) < Cardinality(T)
  <2>1. IsFiniteSet(T) /\ Cardinality(T) \in Nat
    BY <1>3, FS_Subset, FS_CardinalityType
  <2>2. k \notin B(k)
    OBVIOUS
  <2>3. Cardinality(B(k)) <= Cardinality(T) /\ (Cardinality(T) = Cardinality(B(k)) => T = B(k))
    BY <1>3, <2>1, FS_Subset
  <2> QED BY <1>1, <1>3, <2>1, <2>2, <2>3
<1>4. ASSUME NEW k \in S PROVE Cardinality(B(k)) \in 0 .. Cardinality(S) - 1
  <2>1. Cardinality(B(k)) < Cardinality(S)
    BY <1>3
  <2> HIDE DEF B
  <2> QED BY <1>1, <1>2, <2>1
<1>5. ASSUME NEW k \in S, NEW l \in S, k < l PROVE Cardinality(B(k)) < Cardinality(B(l))
  <2>1. B(l) \subseteq S /\ B(k) \subseteq B(l) /\ k \in B(l)
    <3>1. \A j \in S : j < k => j < l
      BY <1>5
    <3> QED BY <1>5, <3>1
  <2> QED BY <1>3, <2>1
<1> QED BY <1>2, <1>4, <1>5

\* Ordered() lists every row once, in key order.
LEMMA OrderedIs ==
  ASSUME NEW S, S \subseteq Int, IsFiniteSet(S)
  PROVE  /\ Cardinality(S) \in Nat
         /\ Ordered(S) \in Seq(S) /\ Len(Ordered(S)) = Cardinality(S)
         /\ \A k \in S : \E i \in 1 .. Cardinality(S) : Ordered(S)[i] = k
         /\ \A i, j \in 1 .. Cardinality(S) : i < j => Ordered(S)[i] < Ordered(S)[j]
         /\ \A i \in 1 .. Cardinality(S) : Cardinality({j \in S : j < Ordered(S)[i]}) = i - 1
<1> DEFINE n == Cardinality(S)
           f == [k \in S |-> Cardinality({j \in S : j < k})]
<1>1. n \in Nat /\ f \in [S -> 0 .. n - 1] /\ \A k, l \in S : k < l => f[k] < f[l]
  BY Ranks
<1> HIDE DEF f
<1>2. f \in Injection(S, 0 .. n - 1)
  <2>1. \A k, l \in S : f[k] = f[l] => k = l
    <3>1. \A k, l \in S : k = l \/ k < l \/ l < k
      OBVIOUS
    <3>2. \A k \in S : f[k] \in Int
      BY <1>1
    <3> HIDE DEF n
    <3> QED BY <1>1, <3>1, <3>2
  <2> QED BY <1>1, <2>1 DEF Injection, IsInjective
<1>3. f \in Surjection(S, 0 .. n - 1)
  <2>1. IsFiniteSet(0 .. n - 1) /\ Cardinality(0 .. n - 1) = n
    <3>1. 0 \in Int /\ n - 1 \in Int
      BY <1>1
    <3>2. Cardinality(0 .. n - 1) = IF 0 > n - 1 THEN 0 ELSE n - 1 - 0 + 1
      BY <3>1, FS_Interval
    <3> HIDE DEF n
    <3> QED BY <1>1, <3>1, <3>2, FS_Interval
  <2> QED BY <1>2, <2>1, FS_Injection
<1>4. \A i \in 1 .. n : \E k \in S : f[k] = i - 1
  <2>1. \A m \in 0 .. n - 1 : \E k \in S : f[k] = m
    BY <1>3 DEF Surjection
  <2>2. \A i \in 1 .. n : i - 1 \in 0 .. n - 1
    BY <1>1
  <2> QED BY <2>1, <2>2
<1>5. \A i \in 1 .. n : Ordered(S)[i] \in S /\ f[Ordered(S)[i]] = i - 1
  <2>1. Ordered(S) = [i \in 1 .. n |-> CHOOSE k \in S : Cardinality({j \in S : j < k}) = i - 1]
    BY DEF Ordered
  <2>2. \A k \in S : f[k] = Cardinality({j \in S : j < k})
    BY DEF f
  <2>3. \A i \in 1 .. n : \E k \in S : Cardinality({j \in S : j < k}) = i - 1
    BY <1>4, <2>2
  <2>4. ASSUME NEW i \in 1 .. n
        PROVE  /\ (CHOOSE k \in S : Cardinality({j \in S : j < k}) = i - 1) \in S
               /\ Cardinality({j \in S : j < (CHOOSE k \in S : Cardinality({j_1 \in S : j_1 < k}) = i - 1)}) = i - 1
    BY <2>3
  <2>5. ASSUME NEW i \in 1 .. n PROVE Ordered(S)[i] = CHOOSE k \in S : Cardinality({j \in S : j < k}) = i - 1
    BY <2>1
  <2> QED BY <2>2, <2>4, <2>5
<1>6. Ordered(S) \in [1 .. n -> S]
  BY <1>5 DEF Ordered
<1>7. Ordered(S) \in Seq(S) /\ Len(Ordered(S)) = n
  <2> HIDE DEF n
  <2> QED BY <1>1, <1>6
<1>8. ASSUME NEW k \in S PROVE \E i \in 1 .. n : Ordered(S)[i] = k
  <2>1. f[k] + 1 \in 1 .. n
    BY <1>1
  <2>2. \A k1, l \in S : f[k1] = f[l] => k1 = l
    BY <1>2 DEF Injection, IsInjective
  <2>3. Ordered(S)[f[k] + 1] \in S /\ f[Ordered(S)[f[k] + 1]] = (f[k] + 1) - 1
    BY <1>5, <2>1
  <2>4. (f[k] + 1) - 1 = f[k]
    BY <1>1
  <2> QED BY <2>1, <2>2, <2>3, <2>4
<1>9. ASSUME NEW i \in 1 .. n, NEW j \in 1 .. n, i < j PROVE Ordered(S)[i] < Ordered(S)[j]
  <2> DEFINE k == Ordered(S)[i]
             l == Ordered(S)[j]
  <2>1. k \in S /\ l \in S /\ f[k] = i - 1 /\ f[l] = j - 1
    BY <1>5
  <2> HIDE DEF k, l, n
  <2>2. k \in Int /\ l \in Int /\ f[k] < f[l]
    BY <1>1, <1>9, <2>1
  <2>3. ~(l < k) /\ l # k
    BY <1>1, <2>1, <2>2
  <2> QED BY <2>2, <2>3 DEF k, l
<1>10. \A i \in 1 .. n : Cardinality({j \in S : j < Ordered(S)[i]}) = i - 1
  <2>1. \A k \in S : f[k] = Cardinality({j \in S : j < k})
    BY DEF f
  <2> QED BY <1>5, <2>1
<1> QED BY <1>1, <1>7, <1>8, <1>9, <1>10

LEMMA Limits ==
  ASSUME NEW m \in Int, NEW n \in Int
  PROVE  /\ MinOf(m, n) \in Int /\ MaxOf(m, n) \in Int
         /\ MinOf(m, n) <= m /\ MinOf(m, n) <= n /\ MinOf(m, n) \in {m, n}
         /\ MaxOf(m, n) >= m /\ MaxOf(m, n) >= n /\ MaxOf(m, n) \in {m, n}
BY DEF MinOf, MaxOf

LEMMA TakeIs ==
  ASSUME NEW S, NEW s \in Seq(S), NEW n \in Nat
  PROVE  /\ Take(s, n) \in Seq(S) /\ Len(Take(s, n)) = MinOf(n, Len(s))
         /\ \A i \in 1 .. Len(Take(s, n)) : Take(s, n)[i] = s[i]
<1> DEFINE m == MinOf(n, Len(s))
<1>1. m \in Nat /\ m <= Len(s)
  BY DEF MinOf
<1>2. \A i \in 1 .. m : s[i] \in S
  BY <1>1
<1> HIDE DEF m
<1>3. \A i \in 1 .. m : i \in 1 .. Len(s)
  BY <1>1
<1>4. /\ SubSeq(s, 1, m) \in Seq(S)
      /\ Len(SubSeq(s, 1, m)) = IF 1 <= m THEN m - 1 + 1 ELSE 0
      /\ \A i \in 1 .. m - 1 + 1 : SubSeq(s, 1, m)[i] = s[1 + i - 1]
  BY <1>1, <1>2, SubSeqProperties
<1>5. Len(SubSeq(s, 1, m)) = m
  BY <1>1, <1>4
<1>6. \A i \in 1 .. m : SubSeq(s, 1, m)[i] = s[i]
  <2> TAKE i \in 1 .. m
  <2>1. i \in 1 .. m - 1 + 1 /\ 1 + i - 1 = i
    BY <1>1
  <2> QED BY <1>4, <2>1
<1> QED BY <1>4, <1>5, <1>6 DEF Take, m

\* LIMIT n OFFSET o: the rows at the places after o, n of them or as many as there are.
LEMMA SliceIs ==
  ASSUME NEW S, S \subseteq Int, IsFiniteSet(S), NEW offset \in Nat, NEW n \in Nat
  PROVE  /\ Slice(S, offset, n) \in Seq(S)
         /\ Len(Slice(S, offset, n)) = MinOf(n, MaxOf(0, Cardinality(S) - offset))
         /\ \A i \in 1 .. Len(Slice(S, offset, n)) :
               offset + i \in 1 .. Cardinality(S) /\ Slice(S, offset, n)[i] = Ordered(S)[offset + i]
<1> DEFINE c == Cardinality(S)
           o == Ordered(S)
           r == SubSeq(o, offset + 1, c)
<1>1. c \in Nat /\ o \in Seq(S) /\ Len(o) = c
  BY OrderedIs
<1> HIDE DEF c, o
<1>2. \A i \in offset + 1 .. c : o[i] \in S
  BY <1>1
<1>3. /\ r \in Seq(S) /\ Len(r) = IF offset + 1 <= c THEN c - (offset + 1) + 1 ELSE 0
      /\ \A i \in 1 .. c - (offset + 1) + 1 : r[i] = o[(offset + 1) + i - 1]
  BY <1>1, <1>2, SubSeqProperties
<1>4. Len(r) = MaxOf(0, c - offset)
  BY <1>1, <1>3 DEF MaxOf
<1>5. \A i \in 1 .. Len(r) : offset + i \in 1 .. c /\ r[i] = o[offset + i]
  <2> HIDE DEF r
  <2> TAKE i \in 1 .. Len(r)
  <2>1. i \in 1 .. c - (offset + 1) + 1 /\ (offset + 1) + i - 1 = offset + i /\ offset + i \in 1 .. c
    BY <1>1, <1>3
  <2> QED BY <1>3, <2>1
<1>6. Slice(S, offset, n) = Take(r, n)
  BY DEF Slice, c, o
<1> HIDE DEF r
<1>7. /\ Take(r, n) \in Seq(S) /\ Len(Take(r, n)) = MinOf(n, Len(r))
      /\ \A i \in 1 .. Len(Take(r, n)) : Take(r, n)[i] = r[i]
  BY <1>3, TakeIs
<1>8. \A i \in 1 .. Len(Take(r, n)) : i \in 1 .. Len(r)
  <2>1. Len(r) \in Nat
    BY <1>3
  <2> QED BY <1>7, <2>1 DEF MinOf
<1> QED BY <1>4, <1>5, <1>6, <1>7, <1>8 DEF c, o

Holds(s, k) == \E i \in 1 .. Len(s) : s[i] = k
Increasing(s) == \A i, j \in 1 .. Len(s) : i < j => s[i] < s[j]
AllBefore(s, k) == \A i \in 1 .. Len(s) : s[i] < k

\* The first page after a cursor: in order, and what it leaves out comes later.
LEMMA FirstSliceIs ==
  ASSUME NEW S, S \subseteq Int, IsFiniteSet(S), NEW n \in Nat, NEW d, d = Slice(S, 0, n)
  PROVE  /\ d \in Seq(S) /\ Len(d) <= n
         /\ Increasing(d)
         /\ \A k \in S : Holds(d, k) \/ (Len(d) = n /\ AllBefore(d, k))
<1> DEFINE c == Cardinality(S)
           o == Ordered(S)
<1>1. /\ c \in Nat /\ o \in Seq(S) /\ Len(o) = c
      /\ \A k \in S : \E i \in 1 .. c : o[i] = k
      /\ \A i, j \in 1 .. c : i < j => o[i] < o[j]
  BY OrderedIs
<1>2. /\ d \in Seq(S) /\ Len(d) = MinOf(n, MaxOf(0, c - 0))
      /\ \A i \in 1 .. Len(d) : 0 + i \in 1 .. c /\ d[i] = o[0 + i]
  <2>1. 0 \in Nat
    OBVIOUS
  <2>2. /\ Slice(S, 0, n) \in Seq(S)
        /\ Len(Slice(S, 0, n)) = MinOf(n, MaxOf(0, Cardinality(S) - 0))
        /\ \A i \in 1 .. Len(Slice(S, 0, n)) :
             0 + i \in 1 .. Cardinality(S) /\ Slice(S, 0, n)[i] = Ordered(S)[0 + i]
    BY <2>1, SliceIs
  <2> QED BY <2>2
<1> HIDE DEF c, o
<1>3. Len(d) \in Nat /\ Len(d) = MinOf(n, c)
  BY <1>1, <1>2 DEF MinOf, MaxOf
<1>4. \A i \in 1 .. Len(d) : i \in 1 .. c /\ d[i] = o[i]
  <2> TAKE i \in 1 .. Len(d)
  <2>1. 0 + i = i
    OBVIOUS
  <2> QED BY <1>2, <2>1
<1>5. Len(d) <= n
  BY <1>1, <1>3 DEF MinOf
<1>6. ASSUME NEW i \in 1 .. Len(d), NEW j \in 1 .. Len(d), i < j PROVE d[i] < d[j]
  BY <1>1, <1>4, <1>6
<1>7. ASSUME NEW k \in S
      PROVE  Holds(d, k) \/ (Len(d) = n /\ AllBefore(d, k))
  <2>1. PICK i \in 1 .. c : o[i] = k
    BY <1>1
  <2>2. CASE i <= Len(d)
    <3>1. i \in 1 .. Len(d)
      BY <1>1, <1>3, <2>2
    <3> QED BY <1>4, <2>1, <3>1 DEF Holds
  <2>3. CASE Len(d) < i
    <3>1. Len(d) = n
      BY <1>1, <1>3, <2>3 DEF MinOf
    <3>2. ASSUME NEW j \in 1 .. n PROVE d[j] < k
      <4>1. j \in 1 .. c /\ j < i /\ d[j] = o[j]
        BY <1>4, <2>3, <3>1
      <4> QED BY <1>1, <2>1, <4>1
    <3> QED BY <3>1, <3>2 DEF AllBefore
  <2> QED BY <1>1, <1>3, <2>2, <2>3
<1> QED BY <1>2, <1>5, <1>6, <1>7 DEF Increasing

----------------------------------------------------------------------------
WalkRecords ==
  [how : Walks, size : Sizes, pc : {"start", "counted", "fetched", "keyed", "done"}, page : Nat \ {0},
   cursor : Keys \cup {None}, lastPage : Nat, total : Nat, data : Seq(Keys)]

WalkTyped ==
  /\ rows \subseteq Keys /\ touched \subseteq Keys /\ given \in Seq(Keys)
  /\ walk \in WalkRecords
  /\ walk.how = "paginateTx" => walk.pc \in {"start", "done"}
  /\ walk.pc \in {"counted", "fetched"} => walk.how = "chunk"
  /\ walk.pc = "keyed" => walk.how = "chunkById"

Old == rows \ touched

\* The walks by key: what was handed over lies behind the cursor, and of the rows
\* that were there all along nothing else does.
KeysInOrder ==
  walk.how \in {"chunkById", "lazy"} =>
    /\ Increasing(given)
    /\ walk.pc = "start" =>
         /\ \A i \in 1 .. Len(given) : given[i] <= walk.cursor
         /\ \A k \in Old : k <= walk.cursor => Holds(given, k)
    /\ walk.pc = "keyed" =>
         /\ walk.data # <<>> /\ Increasing(walk.data)
         /\ \A i \in 1 .. Len(given), j \in 1 .. Len(walk.data) : given[i] < walk.data[j]
         /\ walk.cursor # None => walk.cursor = walk.data[Len(walk.data)]
         /\ \A k \in Old : \/ Holds(given, k) \/ Holds(walk.data, k)
                           \/ walk.cursor # None /\ k > walk.cursor
    /\ walk.pc = "done" /\ ~(walk.how = "chunkById" /\ walk.cursor = 0) => \A k \in Old : Holds(given, k)

\* How many rows come before a key; how many were inserted and deleted since
\* the walk began (a key is written once at most).
Before(R, k) == Cardinality({j \in R : j < k})
Inserted == Cardinality(touched \cap rows)
Deleted == Cardinality(touched \ rows)

\* How often a key has been handed over, counting the page in hand.
Fetched == IF walk.pc = "fetched" THEN walk.data ELSE <<>>
Handed(k) == Holds(given, k) \/ Holds(Fetched, k)
TimesNow(k) == Times(k) + IF Holds(Fetched, k) THEN 1 ELSE 0

\* No more rows before an offset are missing than were deleted, none has been
\* handed over more often than once and once for each row inserted, and the
\* rows have not run out but for those deleted.
ReadUpTo(offset) ==
  /\ Cardinality({k \in Old : Before(rows, k) < offset /\ ~Handed(k)}) <= Deleted
  /\ \A k \in Keys : TimesNow(k) <= 1 + Inserted
  /\ \A k \in rows : Before(rows, k) >= offset => TimesNow(k) <= Inserted
  /\ offset > 0 => Cardinality(rows) + Deleted > offset

ReadAll ==
  /\ Cardinality({k \in Old : ~Handed(k)}) <= Cardinality(touched)
  /\ \A k \in Keys : TimesNow(k) <= 1 + Cardinality(touched)

LastOfAll == walk.data = <<>> \/ walk.page >= walk.lastPage

OffsetsAddUp ==
  walk.how = "chunk" =>
    /\ walk.pc \in {"start", "counted"} => ReadUpTo((walk.page - 1) * Size)
    /\ walk.pc = "counted" =>
         /\ walk.lastPage >= 1 /\ Cardinality(rows) <= walk.lastPage * Size + Inserted
         /\ walk.page < walk.lastPage => Cardinality(rows) + Deleted > walk.page * Size
         /\ walk.page > walk.lastPage => Deleted > 0
    /\ walk.pc = "fetched" => /\ Increasing(walk.data)
                              /\ IF LastOfAll THEN ReadAll ELSE ReadUpTo(walk.page * Size)
    /\ walk.pc = "done" => ReadAll

\* While nobody writes, what is handed over is the table up to the page.
IsTable(s, n) == Len(s) = MinOf(n, Cardinality(rows)) /\ \A i \in 1 .. Len(s) : s[i] = Ordered(rows)[i]
QuietSoFar ==
  walk.how = "chunk" /\ touched = {} =>
    /\ walk.pc \in {"start", "counted"} => IsTable(given, (walk.page - 1) * Size)
    /\ walk.pc = "counted" => walk.lastPage = LastPage(Cardinality(rows))
    /\ walk.pc = "fetched" => /\ IsTable(given \o walk.data, walk.page * Size)
                              /\ LastOfAll => Cardinality(rows) <= walk.page * Size
    /\ walk.pc = "done" => given = Ordered(rows)

WalkInv == WalkTyped /\ KeysInOrder /\ OffsetsAddUp /\ QuietSoFar /\ SnapshotPageAgrees

USE WalkAssumption
USE DEF None

\* The last page covers the rows, and the one before it does not.
LEMMA PagesCover ==
  ASSUME NEW n \in Nat, NEW s \in Nat \ {0}, NEW q, q = MaxOf(1, (n + s - 1) \div s)
  PROVE  /\ q \in Nat \ {0} /\ n <= q * s
         /\ q > 1 => (q - 1) * s < n
<1> DEFINE d == (n + s - 1) \div s
<1>1. n + s - 1 \in Nat
  OBVIOUS
<1>2. d \in Nat /\ s * d <= n + s - 1 /\ n + s - 1 < s * d + s
  BY <1>1
<1> HIDE DEF d
<1>3. n <= d * s /\ (d - 1) * s < n
  <2>1. d * s = s * d /\ (d - 1) * s = s * d - s
    BY <1>2
  <2>2. s * d \in Nat
    BY <1>2
  <2> QED BY <1>2, <2>1, <2>2
<1>4. CASE d > 1
  <2>1. q = d
    BY <1>2, <1>4 DEF MaxOf, d
  <2> QED BY <1>2, <1>3, <1>4, <2>1
<1>5. CASE d <= 1
  <2>1. q = 1
    BY <1>2, <1>5 DEF MaxOf, d
  <2>2. d = 0 \/ d = 1
    BY <1>2, <1>5
  <2>3. n <= 1 * s
    BY <1>3, <2>2
  <2> QED BY <2>1, <2>3
<1> QED BY <1>2, <1>4, <1>5

LEMMA KeysAreNumbers == \A k \in Keys : k \in Nat /\ k \in Int /\ k > None /\ k # None
<1> TAKE k \in Keys
<1>1. k \in Nat
  OBVIOUS
<1> QED BY <1>1

LEMMA SubsetsOfKeys ==
  ASSUME NEW S, S \subseteq Keys
  PROVE  S \subseteq Int /\ IsFiniteSet(S) /\ Cardinality(S) \in Nat /\ Seq(S) \subseteq Seq(Keys)
<1>1. IsFiniteSet(S)
  BY FS_Subset
<1>2. Cardinality(S) \in Nat
  BY <1>1, FS_CardinalityType
<1>3. Seq(S) \subseteq Seq(Keys)
  <2>1. ASSUME NEW s \in Seq(S) PROVE s \in Seq(Keys)
    <3>1. \A i \in 1 .. Len(s) : s[i] \in S
      OBVIOUS
    <3>2. \A i \in 1 .. Len(s) : s[i] \in Keys
      BY <3>1
    <3>3. Len(s) \in Nat /\ s = [i \in 1 .. Len(s) |-> s[i]]
      OBVIOUS
    <3> QED BY <3>2, <3>3
  <2> QED BY <2>1
<1>4. S \subseteq Int
  OBVIOUS
<1> QED BY <1>1, <1>2, <1>3, <1>4

\* The page that is fetched, and which one that is.
LEMMA PageIs ==
  ASSUME WalkTyped, NEW page \in Nat \ {0}, NEW lastPage \in Nat
  PROVE  \E p \in Nat \ {0} :
           /\ p = MaxOf(1, MinOf(page, lastPage)) /\ (p - 1) * Size \in Nat
           /\ Page(rows, page, lastPage) = Slice(rows, (p - 1) * Size, Size)
           /\ Page(rows, page, lastPage) \in Seq(Keys)
<1> DEFINE p == MaxOf(1, MinOf(page, lastPage))
<1>1. p \in Nat \ {0}
  BY DEF MaxOf, MinOf
<1>2. Size \in Nat \ {0} /\ rows \subseteq Keys
  BY DEF WalkTyped, WalkRecords, Size
<1>3. Page(rows, page, lastPage) = Slice(rows, (p - 1) * Size, Size)
  BY DEF Page
<1> HIDE DEF p
<1>4. (p - 1) * Size \in Nat
  BY <1>1, <1>2
<1>5. Slice(rows, (p - 1) * Size, Size) \in Seq(rows)
  BY <1>2, <1>4, SliceIs, SubsetsOfKeys
<1> QED BY <1>1, <1>2, <1>3, <1>4, <1>5, SubsetsOfKeys DEF p

LEMMA WalkTypedInit == WalkInit => WalkTyped
<1> SUFFICES ASSUME WalkInit PROVE WalkTyped
  OBVIOUS
<1>1. PICK how \in Walks, size \in Sizes, page \in 1 .. 2 :
        walk = [how |-> how, size |-> size, pc |-> "start", page |-> page, cursor |-> None,
                lastPage |-> 0, total |-> 0, data |-> <<>>]
  BY DEF WalkInit
<1>2. walk \in WalkRecords /\ walk.pc = "start"
  BY <1>1 DEF WalkRecords
<1> QED BY <1>2 DEF WalkInit, WalkTyped

LEMMA CursorPageIs ==
  ASSUME NEW S, S \subseteq Keys, WalkTyped, NEW r, r = CursorPage(Slice(S, 0, Size + 1))
  PROVE  /\ r.data \in Seq(Keys) /\ Increasing(r.data) /\ \A i \in 1 .. Len(r.data) : r.data[i] \in S
         /\ r.data = <<>> => S = {} /\ r.next = None
         /\ r.next # None => r.data # <<>> /\ r.next = r.data[Len(r.data)] /\ r.next \in Keys
         /\ \A k \in S : Holds(r.data, k) \/ (r.next # None /\ k > r.next)
<1> DEFINE found == Slice(S, 0, Size + 1)
           data == Take(found, Size)
<1>1. Size \in Nat \ {0}
  BY DEF WalkTyped, WalkRecords, Size
<1>2. /\ found \in Seq(S) /\ Len(found) <= Size + 1 /\ Increasing(found)
      /\ \A k \in S : Holds(found, k) \/ (Len(found) = Size + 1 /\ AllBefore(found, k))
  <2>1. Size + 1 \in Nat
    BY <1>1
  <2>2. S \subseteq Int /\ IsFiniteSet(S)
    BY SubsetsOfKeys
  <2> DEFINE n == Size + 1
  <2>3. n \in Nat /\ found = Slice(S, 0, n)
    BY <2>1
  <2> HIDE DEF n, found
  <2>4. /\ found \in Seq(S) /\ Len(found) <= n /\ Increasing(found)
        /\ \A k \in S : Holds(found, k) \/ (Len(found) = n /\ AllBefore(found, k))
    BY <2>2, <2>3, FirstSliceIs
  <2> QED BY <2>4 DEF n
<1>3. r = [data |-> data, next |-> IF Len(found) > Size THEN Last(data) ELSE None]
  BY DEF CursorPage
<1> HIDE DEF found
<1>4. /\ data \in Seq(S) /\ Len(data) = MinOf(Size, Len(found))
      /\ \A i \in 1 .. Len(data) : data[i] = found[i]
  BY <1>1, <1>2, TakeIs
<1>5. r.data = data /\ r.next = IF Len(found) > Size THEN Last(data) ELSE None
  BY <1>3
<1> HIDE DEF data
<1>6. Len(data) \in Nat /\ Len(found) \in Nat /\ Len(data) <= Len(found) /\ Seq(S) \subseteq Seq(Keys)
  <2>1. Len(data) \in Nat /\ Len(found) \in Nat
    BY <1>2, <1>4
  <2>2. Len(data) <= Len(found)
    BY <1>1, <1>4, <2>1 DEF MinOf
  <2> QED BY <2>1, <2>2, SubsetsOfKeys
<1>7. Increasing(data)
  BY <1>2, <1>4, <1>6 DEF Increasing
<1>8. CASE Len(found) > Size
  <2>1. Len(data) = Size /\ data # <<>> /\ Last(data) = data[Size] /\ Len(found) = Size + 1
    BY <1>1, <1>2, <1>4, <1>6, <1>8 DEF MinOf, Last
  <2>2. Last(data) \in S /\ Last(data) = found[Size] /\ Last(data) # None
    BY <1>1, <1>4, <2>1
  <2>3. ASSUME NEW k \in S PROVE Holds(data, k) \/ k > Last(data)
    <3>1. CASE AllBefore(found, k)
      BY <1>1, <2>1, <2>2, <3>1 DEF AllBefore
    <3>2. ASSUME NEW i \in 1 .. Len(found), found[i] = k PROVE Holds(data, k) \/ k > Last(data)
      <4>1. CASE i <= Size
        <5>1. i \in 1 .. Len(data)
          BY <1>1, <2>1, <4>1
        <5> QED BY <1>4, <3>2, <5>1 DEF Holds
      <4>2. CASE i = Size + 1
        <5>1. found[Size] < found[i]
          BY <1>1, <1>2, <2>1, <4>2 DEF Increasing
        <5> QED BY <2>2, <3>2, <5>1
      <4> QED BY <1>1, <2>1, <4>1, <4>2
    <3> QED BY <1>2, <3>1, <3>2 DEF Holds
  <2>4. r.next = Last(data)
    BY <1>5, <1>8
  <2>5. \A i \in 1 .. Len(data) : data[i] \in S
    BY <1>4
  <2> QED BY <1>4, <1>5, <1>6, <1>7, <2>1, <2>2, <2>3, <2>4, <2>5
<1>9. CASE Len(found) <= Size
  <2>1. r.next = None /\ Len(data) = Len(found)
    BY <1>1, <1>4, <1>5, <1>6, <1>9 DEF MinOf
  <2>2. ASSUME NEW k \in S PROVE Holds(data, k)
    <3>1. PICK i \in 1 .. Len(found) : found[i] = k
      BY <1>1, <1>2, <1>6, <1>9 DEF Holds
    <3> QED BY <1>4, <2>1, <3>1 DEF Holds
  <2>3. data = <<>> => S = {}
    BY <2>2 DEF Holds
  <2>4. \A i \in 1 .. Len(data) : data[i] \in S
    BY <1>4
  <2> QED BY <1>4, <1>5, <1>6, <1>7, <2>1, <2>2, <2>3, <2>4
<1> QED BY <1>1, <1>6, <1>8, <1>9

LEMMA LazyPageIs ==
  ASSUME NEW S, S \subseteq Keys, WalkTyped, NEW d, d = Slice(S, 0, Size)
  PROVE  /\ d \in Seq(Keys) /\ Increasing(d) /\ \A i \in 1 .. Len(d) : d[i] \in S
         /\ d = <<>> => S = {}
         /\ d # <<>> => Last(d) = d[Len(d)] /\ Last(d) \in Keys
         /\ \A k \in S : Holds(d, k) \/ k > Last(d)
<1>1. Size \in Nat \ {0}
  BY DEF WalkTyped, WalkRecords, Size
<1>2. /\ d \in Seq(S) /\ Len(d) <= Size /\ Increasing(d)
      /\ \A k \in S : Holds(d, k) \/ (Len(d) = Size /\ AllBefore(d, k))
  <2>1. S \subseteq Int /\ IsFiniteSet(S)
    BY SubsetsOfKeys
  <2> QED BY <1>1, <2>1, FirstSliceIs
<1>3. d \in Seq(Keys) /\ Len(d) \in Nat /\ \A i \in 1 .. Len(d) : d[i] \in S
  <2>1. Seq(S) \subseteq Seq(Keys)
    BY SubsetsOfKeys
  <2> QED BY <1>2, <2>1
<1>4. d = <<>> => S = {}
  BY <1>1, <1>2 DEF Holds
<1>5. d # <<>> => Last(d) = d[Len(d)] /\ Len(d) \in 1 .. Len(d) /\ Last(d) \in Keys
  BY <1>3 DEF Last
<1>6. ASSUME NEW k \in S PROVE Holds(d, k) \/ k > Last(d)
  <2>1. CASE Holds(d, k)
    BY <2>1
  <2>2. CASE AllBefore(d, k) /\ Len(d) = Size
    <3>1. d # <<>>
      BY <1>1, <2>2
    <3>2. d[Len(d)] < k
      BY <1>5, <2>2, <3>1 DEF AllBefore
    <3>3. k \in Int /\ Last(d) \in Int
      BY <1>5, <3>1, KeysAreNumbers
    <3> QED BY <1>5, <3>1, <3>2, <3>3
  <2> QED BY <1>2, <2>1, <2>2
<1> QED BY <1>2, <1>3, <1>4, <1>5, <1>6

LEMMA PastIs ==
  ASSUME WalkTyped, NEW S, S = Past(rows, walk.cursor)
  PROVE  /\ S \subseteq Keys /\ \A k \in S : k \in rows /\ k > walk.cursor
         /\ \A k \in rows : k <= walk.cursor \/ k \in S
<1>1. walk.cursor \in Keys \cup {None} /\ rows \subseteq Keys
  BY DEF WalkTyped, WalkRecords
<1>2. \A k \in Keys : k \in Int /\ k > None
  BY KeysAreNumbers
<1>3. CASE walk.cursor = None
  BY <1>1, <1>2, <1>3 DEF Past
<1>4. CASE walk.cursor # None
  <2>1. S = {k \in rows : k > walk.cursor} /\ walk.cursor \in Int
    BY <1>1, <1>2, <1>4 DEF Past
  <2>2. \A k \in rows : k \in Int /\ (k <= walk.cursor \/ k > walk.cursor)
    BY <1>1, <1>2, <2>1
  <2> QED BY <1>1, <2>1, <2>2
<1> QED BY <1>3, <1>4

LEMMA FetchAfterCursorTyped ==
  ASSUME WalkTyped, FetchAfterCursor
  PROVE  /\ WalkTyped' /\ UNCHANGED <<rows, given, touched>>
         /\ walk.pc = "start" /\ walk.how = "chunkById" /\ walk'.how = "chunkById"
         /\ \E r : /\ r = CursorPage(Slice(Past(rows, walk.cursor), 0, Size + 1))
                   /\ walk'.data = r.data /\ walk'.cursor = r.next
                   /\ walk'.pc = IF r.data = <<>> THEN "done" ELSE "keyed"
<1> DEFINE r == CursorPage(Slice(Past(rows, walk.cursor), 0, Size + 1))
<1>1. r.data \in Seq(Keys) /\ (r.next # None => r.next \in Keys)
  <2>1. Past(rows, walk.cursor) \subseteq Keys
    BY PastIs
  <2> QED BY <2>1, CursorPageIs
<1>2. walk' = [walk EXCEPT !.data = r.data, !.cursor = r.next, !.pc = IF r.data = <<>> THEN "done" ELSE "keyed"]
  BY DEF FetchAfterCursor
<1> HIDE DEF r
<1>3. walk.pc = "start" /\ walk.how = "chunkById" /\ UNCHANGED <<rows, given, touched>>
  BY DEF FetchAfterCursor
<1>4. walk \in WalkRecords
  BY DEF WalkTyped
<1>5. /\ walk' \in WalkRecords /\ walk'.how = walk.how /\ walk'.data = r.data /\ walk'.cursor = r.next
      /\ walk'.pc = IF r.data = <<>> THEN "done" ELSE "keyed"
  BY <1>1, <1>2, <1>4 DEF WalkRecords
<1>6. WalkTyped'
  BY <1>3, <1>5 DEF WalkTyped
<1> QED BY <1>3, <1>5, <1>6 DEF r

LEMMA HandleKeyedTyped ==
  ASSUME WalkTyped, HandleKeyed
  PROVE  /\ WalkTyped' /\ UNCHANGED <<rows, touched>> /\ walk.pc = "keyed"
         /\ walk.how = "chunkById" /\ walk'.how = "chunkById"
         /\ given' = given \o walk.data /\ walk'.cursor = walk.cursor
         /\ walk'.pc = IF walk.cursor \in {None, 0} THEN "done" ELSE "start"
<1>1. /\ walk' = [walk EXCEPT !.pc = IF walk.cursor \in {None, 0} THEN "done" ELSE "start"]
      /\ walk.pc = "keyed" /\ UNCHANGED <<rows, touched>> /\ given' = given \o walk.data
  BY DEF HandleKeyed
<1>2. walk \in WalkRecords /\ walk.how = "chunkById" /\ given \in Seq(Keys)
  BY <1>1 DEF WalkTyped
<1>3. /\ walk' \in WalkRecords /\ walk'.how = walk.how /\ walk'.cursor = walk.cursor /\ walk.data \in Seq(Keys)
      /\ walk'.pc = IF walk.cursor \in {None, 0} THEN "done" ELSE "start"
  BY <1>1, <1>2 DEF WalkRecords
<1>4. given' \in Seq(Keys)
  BY <1>1, <1>2, <1>3
<1>5. WalkTyped'
  BY <1>1, <1>2, <1>3, <1>4 DEF WalkTyped
<1> QED BY <1>1, <1>2, <1>3, <1>5

LEMMA FetchLazyTyped ==
  ASSUME WalkTyped, FetchLazy
  PROVE  /\ WalkTyped' /\ UNCHANGED <<rows, touched>> /\ walk.pc = "start" /\ walk.how = "lazy" /\ walk'.how = "lazy"
         /\ \E e : /\ e = Slice(Past(rows, walk.cursor), 0, Size) /\ given' = given \o e
                   /\ walk'.cursor = IF e = <<>> THEN walk.cursor ELSE Last(e)
                   /\ walk'.pc = IF e = <<>> THEN "done" ELSE "start"
<1> DEFINE d == Slice(Past(rows, walk.cursor), 0, Size)
<1>1. d \in Seq(Keys) /\ (d # <<>> => Last(d) \in Keys)
  <2>1. Past(rows, walk.cursor) \subseteq Keys
    BY PastIs
  <2> QED BY <2>1, LazyPageIs
<1>2. walk' = [walk EXCEPT !.data = d, !.cursor = IF d = <<>> THEN walk.cursor ELSE Last(d),
                           !.pc = IF d = <<>> THEN "done" ELSE walk.pc]
  BY DEF FetchLazy
<1>3. walk.pc = "start" /\ walk.how = "lazy" /\ UNCHANGED <<rows, touched>> /\ given' = given \o d
  BY DEF FetchLazy
<1> HIDE DEF d
<1>4. walk \in WalkRecords /\ given \in Seq(Keys)
  BY DEF WalkTyped
<1>5. walk.cursor \in Keys \cup {None}
  BY <1>4 DEF WalkRecords
<1>6. /\ walk' \in WalkRecords /\ walk'.how = walk.how
      /\ walk'.cursor = IF d = <<>> THEN walk.cursor ELSE Last(d)
      /\ walk'.pc = IF d = <<>> THEN "done" ELSE "start"
  BY <1>1, <1>2, <1>3, <1>4, <1>5 DEF WalkRecords
<1>7. WalkTyped'
  BY <1>1, <1>3, <1>4, <1>6 DEF WalkTyped
<1>8. d = Slice(Past(rows, walk.cursor), 0, Size) /\ walk'.how = "lazy"
  BY <1>3, <1>6 DEF d
<1>9. \E e : /\ e = Slice(Past(rows, walk.cursor), 0, Size) /\ given' = given \o e
             /\ walk'.cursor = IF e = <<>> THEN walk.cursor ELSE Last(e)
             /\ walk'.pc = IF e = <<>> THEN "done" ELSE "start"
  <2> WITNESS d
  <2> QED BY <1>3, <1>6, <1>8
<1>10. UNCHANGED <<rows, touched>> /\ walk.pc = "start" /\ walk.how = "lazy"
  BY <1>3
<1> QED BY <1>7, <1>8, <1>9, <1>10

LEMMA ConcatIs ==
  ASSUME NEW s \in Seq(Keys), NEW t \in Seq(Keys)
  PROVE  /\ s \o t \in Seq(Keys) /\ Len(s \o t) = Len(s) + Len(t)
         /\ \A i \in 1 .. Len(s) : (s \o t)[i] = s[i]
         /\ \A i \in 1 .. Len(t) : (s \o t)[Len(s) + i] = t[i]
         /\ \A i \in 1 .. Len(s \o t) : i \in 1 .. Len(s) \/ \E j \in 1 .. Len(t) : i = Len(s) + j
         /\ \A k : Holds(s \o t, k) <=> Holds(s, k) \/ Holds(t, k)
<1> DEFINE m == Len(s) n == Len(t) u == s \o t
<1>1. m \in Nat /\ n \in Nat /\ u \in Seq(Keys) /\ Len(u) = m + n
  OBVIOUS
<1>2. \A i \in 1 .. m : u[i] = s[i]
  OBVIOUS
<1>3. \A i \in 1 .. n : u[m + i] = t[i]
  OBVIOUS
<1> HIDE DEF m, n, u
<1>4. ASSUME NEW i \in 1 .. Len(u) PROVE i \in 1 .. m \/ \E j \in 1 .. n : i = m + j
  <2>1. CASE i > m
    <3>1. i - m \in 1 .. n /\ i = m + (i - m)
      BY <1>1, <2>1
    <3> QED BY <3>1
  <2>2. CASE i <= m
    BY <1>1, <2>2
  <2> QED BY <1>1, <2>1, <2>2
<1>5. ASSUME NEW k PROVE Holds(u, k) <=> Holds(s, k) \/ Holds(t, k)
  <2>1. ASSUME NEW i \in 1 .. Len(u), u[i] = k PROVE Holds(s, k) \/ Holds(t, k)
    BY <1>2, <1>3, <1>4, <2>1 DEF Holds, m, n
  <2>2. ASSUME NEW i \in 1 .. m, s[i] = k PROVE Holds(u, k)
    <3>1. i \in 1 .. Len(u)
      BY <1>1
    <3> QED BY <1>2, <2>2, <3>1 DEF Holds
  <2>3. ASSUME NEW i \in 1 .. n, t[i] = k PROVE Holds(u, k)
    <3>1. m + i \in 1 .. Len(u)
      BY <1>1
    <3> QED BY <1>3, <2>3, <3>1 DEF Holds
  <2> QED BY <2>1, <2>2, <2>3 DEF Holds, m, n
<1> QED BY <1>1, <1>2, <1>3, <1>4, <1>5 DEF m, n, u

LEMMA ConcatIncreases ==
  ASSUME NEW s \in Seq(Keys), NEW t \in Seq(Keys), Increasing(s), Increasing(t),
         \A i \in 1 .. Len(s), j \in 1 .. Len(t) : s[i] < t[j]
  PROVE  Increasing(s \o t)
<1>1. /\ Len(s \o t) = Len(s) + Len(t)
      /\ \A i \in 1 .. Len(s) : (s \o t)[i] = s[i]
      /\ \A i \in 1 .. Len(t) : (s \o t)[Len(s) + i] = t[i]
      /\ \A i \in 1 .. Len(s \o t) : i \in 1 .. Len(s) \/ \E j \in 1 .. Len(t) : i = Len(s) + j
  BY ConcatIs
<1> SUFFICES ASSUME NEW i \in 1 .. Len(s \o t), NEW j \in 1 .. Len(s \o t), i < j
             PROVE  (s \o t)[i] < (s \o t)[j]
  BY DEF Increasing
<1>2. Len(s) \in Nat /\ Len(t) \in Nat
  OBVIOUS
<1>3. CASE i \in 1 .. Len(s) /\ j \in 1 .. Len(s)
  BY <1>1, <1>3 DEF Increasing
<1>4. ASSUME i \in 1 .. Len(s), NEW l \in 1 .. Len(t), j = Len(s) + l PROVE (s \o t)[i] < (s \o t)[j]
  BY <1>1, <1>4
<1>5. ASSUME NEW h \in 1 .. Len(t), i = Len(s) + h, NEW l \in 1 .. Len(t), j = Len(s) + l
      PROVE  (s \o t)[i] < (s \o t)[j]
  <2>1. h < l
    BY <1>2, <1>5
  <2> QED BY <1>1, <1>5, <2>1 DEF Increasing
<1>6. ~(\E h \in 1 .. Len(t) : i = Len(s) + h /\ j \in 1 .. Len(s))
  BY <1>2
<1> QED BY <1>1, <1>3, <1>4, <1>5, <1>6

LEMMA KeysAfterCursor ==
  ASSUME WalkTyped, KeysInOrder, FetchAfterCursor PROVE KeysInOrder'
<1>1. /\ UNCHANGED <<rows, given, touched>>
      /\ walk.pc = "start" /\ walk.how = "chunkById" /\ walk'.how = "chunkById"
  BY FetchAfterCursorTyped
<1>2. PICK r : /\ r = CursorPage(Slice(Past(rows, walk.cursor), 0, Size + 1))
               /\ walk'.data = r.data /\ walk'.cursor = r.next
               /\ walk'.pc = IF r.data = <<>> THEN "done" ELSE "keyed"
  BY FetchAfterCursorTyped
<1> DEFINE S == Past(rows, walk.cursor)
<1>3. S \subseteq Keys /\ (\A k \in S : k \in rows /\ k > walk.cursor) /\ \A k \in rows : k <= walk.cursor \/ k \in S
  BY PastIs
<1>4. /\ r.data \in Seq(Keys) /\ Increasing(r.data) /\ \A i \in 1 .. Len(r.data) : r.data[i] \in S
      /\ r.data = <<>> => S = {} /\ r.next = None
      /\ r.next # None => r.data # <<>> /\ r.next = r.data[Len(r.data)] /\ r.next \in Keys
      /\ \A k \in S : Holds(r.data, k) \/ (r.next # None /\ k > r.next)
  BY <1>2, <1>3, CursorPageIs
<1> HIDE DEF S
<1>5. /\ Increasing(given) /\ \A i \in 1 .. Len(given) : given[i] <= walk.cursor
      /\ \A k \in Old : k <= walk.cursor => Holds(given, k)
  BY <1>1 DEF KeysInOrder
<1>6. Old' = Old /\ Old \subseteq rows
  BY <1>1 DEF Old
<1>7. CASE r.data = <<>>
  <2>1. walk'.pc = "done" /\ \A k \in Old : Holds(given, k)
    BY <1>2, <1>3, <1>4, <1>5, <1>6, <1>7
  <2> QED BY <1>1, <1>5, <1>6, <2>1 DEF KeysInOrder
<1>8. CASE r.data # <<>>
  <2>1. walk'.pc = "keyed"
    BY <1>2, <1>8
  <2>2. ASSUME NEW i \in 1 .. Len(given), NEW j \in 1 .. Len(r.data) PROVE given[i] < r.data[j]
    <3>1. given[i] \in Keys /\ r.data[j] \in Keys /\ walk.cursor \in Keys \cup {None}
      BY <1>4 DEF WalkTyped, WalkRecords
    <3>2. given[i] \in Int /\ r.data[j] \in Int /\ walk.cursor \in Int
      <4>1. walk.cursor \in Keys \/ walk.cursor = -1
        BY <3>1
      <4>2. walk.cursor \in Int
        <5>1. CASE walk.cursor \in Keys
          BY <5>1, KeysAreNumbers
        <5>2. CASE walk.cursor = -1
          BY <5>2
        <5> QED BY <4>1, <5>1, <5>2
      <4>3. given[i] \in Int /\ r.data[j] \in Int
        BY <3>1, KeysAreNumbers
      <4> QED BY <4>2, <4>3
    <3> QED BY <1>3, <1>4, <1>5, <3>2
  <2>3. \A k \in Old : Holds(given, k) \/ Holds(r.data, k) \/ (r.next # None /\ k > r.next)
    BY <1>3, <1>4, <1>5, <1>6
  <2> QED BY <1>1, <1>2, <1>4, <1>5, <1>6, <1>8, <2>1, <2>2, <2>3 DEF KeysInOrder
<1> QED BY <1>7, <1>8

LEMMA KeysHandled ==
  ASSUME WalkTyped, KeysInOrder, HandleKeyed PROVE KeysInOrder'
<1>1. /\ UNCHANGED <<rows, touched>> /\ walk.pc = "keyed" /\ walk.how = "chunkById" /\ walk'.how = "chunkById"
      /\ given' = given \o walk.data /\ walk'.cursor = walk.cursor
      /\ walk'.pc = IF walk.cursor \in {None, 0} THEN "done" ELSE "start"
  BY HandleKeyedTyped
<1>2. /\ Increasing(given) /\ walk.data # <<>> /\ Increasing(walk.data)
      /\ \A i \in 1 .. Len(given), j \in 1 .. Len(walk.data) : given[i] < walk.data[j]
      /\ walk.cursor # None => walk.cursor = walk.data[Len(walk.data)]
      /\ \A k \in Old : Holds(given, k) \/ Holds(walk.data, k) \/ (walk.cursor # None /\ k > walk.cursor)
  BY <1>1 DEF KeysInOrder
<1>3. given \in Seq(Keys) /\ walk.data \in Seq(Keys) /\ rows \subseteq Keys
  BY DEF WalkTyped, WalkRecords
<1>4. Increasing(given')
  BY <1>1, <1>2, <1>3, ConcatIncreases
<1>5. \A k : Holds(given', k) <=> Holds(given, k) \/ Holds(walk.data, k)
  BY <1>1, <1>3, ConcatIs
<1>6. Old' = Old
  BY <1>1 DEF Old
<1>7. CASE walk.cursor = None
  <2>1. walk'.pc = "done" /\ \A k \in Old : Holds(given', k)
    BY <1>1, <1>2, <1>5, <1>7
  <2> QED BY <1>1, <1>4, <1>6, <2>1 DEF KeysInOrder
<1>8. CASE walk.cursor = 0
  <2>1. walk'.pc = "done" /\ walk'.cursor = 0
    BY <1>1, <1>8
  <2> QED BY <1>1, <1>4, <2>1 DEF KeysInOrder
<1>9. CASE walk.cursor \notin {None, 0}
  <2>1. walk'.pc = "start"
    BY <1>1, <1>9
  <2> DEFINE n == Len(walk.data)
  <2>2. n \in Nat \ {0} /\ walk.cursor = walk.data[n]
    BY <1>2, <1>3, <1>9
  <2>3. ASSUME NEW i \in 1 .. Len(given') PROVE given'[i] <= walk.cursor
    <3> DEFINE d == walk.data
    <3>4. /\ \A h \in 1 .. Len(given) : (given \o d)[h] = given[h]
          /\ \A h \in 1 .. Len(d) : (given \o d)[Len(given) + h] = d[h]
          /\ \A h \in 1 .. Len(given \o d) : h \in 1 .. Len(given) \/ \E j \in 1 .. Len(d) : h = Len(given) + j
      <4> HIDE DEF d
      <4>1. d \in Seq(Keys) /\ given \in Seq(Keys)
        BY <1>3 DEF d
      <4> QED BY <4>1, ConcatIs
    <3>1. CASE i \in 1 .. Len(given)
      <4>1. given'[i] = given[i]
        BY <1>1, <3>1, <3>4
      <4>2. given[i] \in Keys /\ walk.data[n] \in Keys
        BY <1>3, <2>2, <3>1
      <4>3. given[i] < walk.data[n]
        BY <1>2, <2>2, <3>1
      <4>4. given[i] \in Int /\ walk.data[n] \in Int
        BY <4>2, KeysAreNumbers
      <4> QED BY <2>2, <4>1, <4>3, <4>4
    <3>2. ASSUME NEW j \in 1 .. n, i = Len(given) + j PROVE given'[i] <= walk.cursor
      <4>1. given'[i] = walk.data[j] /\ walk.data[j] \in Keys /\ walk.data[n] \in Keys
        <5>1. given'[i] = walk.data[j]
          BY <1>1, <3>2, <3>4
        <5> QED BY <1>3, <2>2, <5>1
      <4>2. j = n \/ walk.data[j] < walk.data[n]
        BY <1>2, <2>2 DEF Increasing
      <4>3. walk.data[j] \in Int /\ walk.data[n] \in Int
        BY <4>1, KeysAreNumbers
      <4> QED BY <2>2, <4>1, <4>2, <4>3
    <3>3. i \in 1 .. Len(given) \/ \E j \in 1 .. n : i = Len(given) + j
      BY <1>1, <3>4
    <3> QED BY <3>1, <3>2, <3>3
  <2>4. ASSUME NEW k \in Old, k <= walk.cursor PROVE Holds(given', k)
    <3>1. k \in Int /\ walk.cursor \in Int
      <4>1. k \in Keys /\ walk.cursor \in Keys
        BY <1>3, <2>2 DEF Old
      <4> QED BY <4>1, KeysAreNumbers
    <3>2. ~(k > walk.cursor)
      BY <2>4, <3>1
    <3> QED BY <1>2, <1>5, <3>2
  <2> QED BY <1>1, <1>4, <1>6, <2>1, <2>3, <2>4 DEF KeysInOrder
<1> QED BY <1>7, <1>8, <1>9

LEMMA KeysLazy ==
  ASSUME WalkTyped, KeysInOrder, FetchLazy PROVE KeysInOrder'
<1>1. UNCHANGED <<rows, touched>> /\ walk.pc = "start" /\ walk.how = "lazy" /\ walk'.how = "lazy"
  BY FetchLazyTyped
<1>2. PICK d : /\ d = Slice(Past(rows, walk.cursor), 0, Size) /\ given' = given \o d
               /\ walk'.cursor = IF d = <<>> THEN walk.cursor ELSE Last(d)
               /\ walk'.pc = IF d = <<>> THEN "done" ELSE "start"
  BY FetchLazyTyped
<1> DEFINE S == Past(rows, walk.cursor)
<1>3. S \subseteq Keys /\ (\A k \in S : k \in rows /\ k > walk.cursor) /\ \A k \in rows : k <= walk.cursor \/ k \in S
  BY PastIs
<1>4. /\ d \in Seq(Keys) /\ Increasing(d) /\ \A i \in 1 .. Len(d) : d[i] \in S
      /\ d = <<>> => S = {}
      /\ d # <<>> => Last(d) = d[Len(d)] /\ Last(d) \in Keys
      /\ \A k \in S : Holds(d, k) \/ k > Last(d)
  BY <1>2, <1>3, LazyPageIs
<1> HIDE DEF S
<1>5. /\ Increasing(given) /\ \A i \in 1 .. Len(given) : given[i] <= walk.cursor
      /\ \A k \in Old : k <= walk.cursor => Holds(given, k)
  BY <1>1 DEF KeysInOrder
<1>6. Old' = Old /\ Old \subseteq rows
  BY <1>1 DEF Old
<1>7. given \in Seq(Keys) /\ rows \subseteq Keys /\ walk.cursor \in Keys \cup {None}
  BY DEF WalkTyped, WalkRecords
<1>8. CASE d = <<>>
  <2>1. walk'.pc = "done" /\ given' = given
    BY <1>2, <1>7, <1>8
  <2>2. \A k \in Old : Holds(given, k)
    BY <1>3, <1>4, <1>5, <1>6, <1>8
  <2> QED BY <1>1, <1>5, <1>6, <2>1, <2>2 DEF KeysInOrder
<1>9. CASE d # <<>>
  <2>1. walk'.pc = "start" /\ walk'.cursor = Last(d)
    BY <1>2, <1>9
  <2>2. ASSUME NEW i \in 1 .. Len(given), NEW j \in 1 .. Len(d) PROVE given[i] < d[j] /\ given[i] < Last(d)
    <3>1. given[i] \in Int /\ d[j] \in Int /\ Last(d) \in Int
      <4>1. given[i] \in Keys /\ d[j] \in Keys /\ Last(d) \in Keys
        BY <1>4, <1>7, <1>9
      <4> QED BY <4>1, KeysAreNumbers
    <3>2. walk.cursor \in Int
      <4>1. CASE walk.cursor \in Keys
        BY <4>1, KeysAreNumbers
      <4>2. CASE walk.cursor = -1
        BY <4>2
      <4> QED BY <1>7, <4>1, <4>2
    <3>3. given[i] <= walk.cursor /\ d[j] > walk.cursor /\ Last(d) > walk.cursor
      <4>1. Len(d) \in 1 .. Len(d)
        BY <1>4, <1>9
      <4> QED BY <1>3, <1>4, <1>5, <1>9, <4>1
    <3> QED BY <3>1, <3>2, <3>3
  <2>3. Increasing(given')
    BY <1>2, <1>4, <1>5, <1>7, <2>2, ConcatIncreases
  <2>4. \A k : Holds(given', k) <=> Holds(given, k) \/ Holds(d, k)
    BY <1>2, <1>4, <1>7, ConcatIs
  <2>5. ASSUME NEW i \in 1 .. Len(given') PROVE given'[i] <= Last(d)
    <3>1. Holds(given', given'[i])
      BY DEF Holds
    <3>2. ASSUME NEW h \in 1 .. Len(given), given[h] = given'[i] PROVE given'[i] <= Last(d)
      <4>1. Len(d) \in 1 .. Len(d)
        BY <1>4, <1>9
      <4>2. given[h] < Last(d) /\ given[h] \in Int /\ Last(d) \in Int
        <5>1. given[h] \in Keys /\ Last(d) \in Keys
          BY <1>4, <1>7, <1>9
        <5> QED BY <2>2, <4>1, <5>1, KeysAreNumbers
      <4> QED BY <3>2, <4>2
    <3>3. ASSUME NEW h \in 1 .. Len(d), d[h] = given'[i] PROVE given'[i] <= Last(d)
      <4>1. h = Len(d) \/ d[h] < d[Len(d)]
        BY <1>4 DEF Increasing
      <4>2. d[h] \in Int /\ Last(d) \in Int /\ Last(d) = d[Len(d)]
        <5>1. d[h] \in Keys /\ Last(d) \in Keys /\ Last(d) = d[Len(d)]
          BY <1>4, <1>9
        <5> QED BY <5>1, KeysAreNumbers
      <4> QED BY <3>3, <4>1, <4>2
    <3> QED BY <2>4, <3>1, <3>2, <3>3 DEF Holds
  <2>6. ASSUME NEW k \in Old, k <= Last(d) PROVE Holds(given', k)
    <3>1. k \in Int /\ Last(d) \in Int
      <4>1. k \in Keys /\ Last(d) \in Keys
        BY <1>4, <1>6, <1>7, <1>9
      <4> QED BY <4>1, KeysAreNumbers
    <3>2. ~(k > Last(d))
      BY <2>6, <3>1
    <3> QED BY <1>3, <1>4, <1>5, <1>6, <2>4, <3>2
  <2> QED BY <1>1, <1>6, <2>1, <2>3, <2>5, <2>6 DEF KeysInOrder
<1> QED BY <1>8, <1>9

LEMMA WriteTyped ==
  ASSUME WalkTyped, NEW k \in Keys \ touched, Write(k)
  PROVE  /\ WalkTyped' /\ UNCHANGED <<walk, given>> /\ walk.pc # "done"
         /\ touched' = touched \cup {k} /\ k \notin touched
         /\ rows' = (IF k \in rows THEN rows \ {k} ELSE rows \cup {k})
         /\ Old' = Old \ {k}
<1>1. /\ UNCHANGED <<walk, given>> /\ walk.pc # "done" /\ touched' = touched \cup {k}
      /\ rows' = IF k \in rows THEN rows \ {k} ELSE rows \cup {k}
  BY DEF Write
<1>2. Old' = Old \ {k}
  BY <1>1 DEF Old
<1>3. rows' \subseteq Keys /\ touched' \subseteq Keys
  BY <1>1 DEF WalkTyped
<1>4. WalkTyped'
  BY <1>1, <1>3 DEF WalkTyped
<1> QED BY <1>1, <1>2, <1>4

LEMMA KeysWritten ==
  ASSUME WalkTyped, KeysInOrder, NEW k \in Keys \ touched, Write(k) PROVE KeysInOrder'
<1>1. UNCHANGED <<walk, given>> /\ Old' \subseteq Old
  BY WriteTyped
<1> QED BY <1>1 DEF KeysInOrder

LEMMA CountRowsTyped ==
  ASSUME WalkTyped, CountRows
  PROVE  /\ WalkTyped' /\ UNCHANGED <<rows, given, touched>> /\ walk.pc = "start" /\ walk.how = "chunk"
         /\ walk'.how = "chunk" /\ walk'.pc = "counted" /\ walk'.page = walk.page /\ walk'.size = walk.size
         /\ walk'.lastPage = LastPage(Cardinality(rows))
<1>1. /\ UNCHANGED <<rows, given, touched>> /\ walk.pc = "start" /\ walk.how = "chunk"
      /\ walk' = [walk EXCEPT !.pc = "counted", !.total = Cardinality(rows), !.lastPage = LastPage(Cardinality(rows))]
  BY DEF CountRows
<1>2. walk \in WalkRecords /\ rows \subseteq Keys
  BY DEF WalkTyped
<1>3. Cardinality(rows) \in Nat
  BY <1>2, SubsetsOfKeys
<1>4. LastPage(Cardinality(rows)) \in Nat
  <2>1. Size \in Nat \ {0}
    BY <1>2 DEF WalkRecords, Size
  <2> QED BY <1>3, <2>1, PagesCover DEF LastPage
<1>5. /\ walk' \in WalkRecords /\ walk'.how = "chunk" /\ walk'.pc = "counted" /\ walk'.page = walk.page
      /\ walk'.size = walk.size /\ walk'.lastPage = LastPage(Cardinality(rows))
  BY <1>1, <1>2, <1>3, <1>4 DEF WalkRecords
<1>6. WalkTyped'
  BY <1>1, <1>5 DEF WalkTyped
<1> QED BY <1>1, <1>5, <1>6

LEMMA FetchPageTyped ==
  ASSUME WalkTyped, FetchPage
  PROVE  /\ WalkTyped' /\ UNCHANGED <<rows, given, touched>> /\ walk.pc = "counted" /\ walk.how = "chunk"
         /\ walk'.how = "chunk" /\ walk'.pc = "fetched" /\ walk'.page = walk.page /\ walk'.size = walk.size
         /\ walk'.lastPage = walk.lastPage /\ walk'.data = Page(rows, walk.page, walk.lastPage)
<1>1. /\ UNCHANGED <<rows, given, touched>> /\ walk.pc = "counted"
      /\ walk' = [walk EXCEPT !.pc = "fetched", !.data = Page(rows, walk.page, walk.lastPage)]
  BY DEF FetchPage
<1>2. walk \in WalkRecords /\ walk.how = "chunk"
  BY <1>1 DEF WalkTyped
<1>3. walk.page \in Nat \ {0} /\ walk.lastPage \in Nat
  BY <1>2 DEF WalkRecords
<1>4. Page(rows, walk.page, walk.lastPage) \in Seq(Keys)
  BY <1>3, PageIs
<1>5. /\ walk' \in WalkRecords /\ walk'.how = "chunk" /\ walk'.pc = "fetched" /\ walk'.page = walk.page
      /\ walk'.size = walk.size /\ walk'.lastPage = walk.lastPage /\ walk'.data = Page(rows, walk.page, walk.lastPage)
  BY <1>1, <1>2, <1>4 DEF WalkRecords
<1>6. WalkTyped'
  BY <1>1, <1>5 DEF WalkTyped
<1> QED BY <1>1, <1>2, <1>5, <1>6

LEMMA PaginateTyped ==
  ASSUME WalkTyped, PaginateInTransaction
  PROVE  /\ WalkTyped' /\ UNCHANGED <<rows, given, touched>> /\ walk.how = "paginateTx" /\ walk'.how = "paginateTx"
         /\ walk'.pc = "done" /\ walk'.page = walk.page /\ walk'.size = walk.size
         /\ walk'.total = Cardinality(rows) /\ walk'.lastPage = LastPage(Cardinality(rows))
         /\ walk'.data = Page(rows, walk.page, LastPage(Cardinality(rows)))
<1> DEFINE n == Cardinality(rows)
<1>1. /\ UNCHANGED <<rows, given, touched>> /\ walk.how = "paginateTx"
      /\ walk' = [walk EXCEPT !.pc = "done", !.total = n, !.lastPage = LastPage(n),
                              !.data = Page(rows, walk.page, LastPage(n))]
  BY DEF PaginateInTransaction
<1>2. walk \in WalkRecords /\ rows \subseteq Keys
  BY DEF WalkTyped
<1>3. n \in Nat
  BY <1>2, SubsetsOfKeys
<1>4. LastPage(n) \in Nat
  <2>1. Size \in Nat \ {0}
    BY <1>2 DEF WalkRecords, Size
  <2> QED BY <1>3, <2>1, PagesCover DEF LastPage
<1>5. walk.page \in Nat \ {0}
  BY <1>2 DEF WalkRecords
<1>6. Page(rows, walk.page, LastPage(n)) \in Seq(Keys)
  BY <1>4, <1>5, PageIs
<1>7. /\ walk' \in WalkRecords /\ walk'.how = "paginateTx" /\ walk'.pc = "done" /\ walk'.page = walk.page
      /\ walk'.size = walk.size /\ walk'.total = n /\ walk'.lastPage = LastPage(n)
      /\ walk'.data = Page(rows, walk.page, LastPage(n))
  BY <1>1, <1>2, <1>3, <1>4, <1>6 DEF WalkRecords
<1>8. WalkTyped'
  BY <1>1, <1>7 DEF WalkTyped
<1> QED BY <1>1, <1>7, <1>8

LEMMA HandleChunkTyped ==
  ASSUME WalkTyped, HandleChunk
  PROVE  /\ WalkTyped' /\ UNCHANGED <<rows, touched>> /\ walk.pc = "fetched" /\ walk.how = "chunk"
         /\ walk'.how = "chunk" /\ walk'.size = walk.size /\ given' = given \o walk.data
         /\ LastOfAll => walk'.pc = "done"
         /\ ~LastOfAll => walk'.pc = "start" /\ walk'.page = walk.page + 1
<1>1. UNCHANGED <<rows, touched>> /\ walk.pc = "fetched" /\ given' = given \o walk.data /\ walk' = NextChunk(walk)
  BY DEF HandleChunk
<1>2. walk \in WalkRecords /\ walk.how = "chunk" /\ given \in Seq(Keys)
  BY <1>1 DEF WalkTyped
<1>3. given' \in Seq(Keys)
  <2>1. walk.data \in Seq(Keys)
    BY <1>2 DEF WalkRecords
  <2> QED BY <1>1, <1>2, <2>1
<1>4. CASE LastOfAll
  <2>1. walk' = [walk EXCEPT !.pc = "done"]
    BY <1>1, <1>4 DEF NextChunk, LastOfAll
  <2>2. walk' \in WalkRecords /\ walk'.how = "chunk" /\ walk'.size = walk.size /\ walk'.pc = "done"
    BY <1>2, <2>1 DEF WalkRecords
  <2>3. WalkTyped'
    BY <1>1, <1>3, <2>2 DEF WalkTyped
  <2> QED BY <1>1, <1>2, <1>4, <2>2, <2>3
<1>5. CASE ~LastOfAll
  <2>1. walk' = [walk EXCEPT !.pc = "start", !.page = walk.page + 1]
    BY <1>1, <1>5 DEF NextChunk, LastOfAll
  <2>2. walk.page + 1 \in Nat \ {0}
    BY <1>2 DEF WalkRecords
  <2>3. /\ walk' \in WalkRecords /\ walk'.how = "chunk" /\ walk'.size = walk.size /\ walk'.pc = "start"
        /\ walk'.page = walk.page + 1
    BY <1>2, <2>1, <2>2 DEF WalkRecords
  <2>4. WalkTyped'
    BY <1>1, <1>3, <2>3 DEF WalkTyped
  <2> QED BY <1>1, <1>2, <1>5, <2>3, <2>4
<1> QED BY <1>4, <1>5

----------------------------------------------------------------------------
\* A row's place is told by the number of rows before it.
LEMMA BeforeIs ==
  ASSUME NEW R, R \subseteq Keys
  PROVE  /\ Cardinality(R) \in Nat
         /\ \A k \in R : Before(R, k) \in 0 .. Cardinality(R) - 1
         /\ \A k, l \in R : Before(R, k) = Before(R, l) => k = l
<1>1. R \subseteq Int /\ IsFiniteSet(R)
  BY SubsetsOfKeys
<1>2. /\ Cardinality(R) \in Nat
      /\ \A k \in R : Before(R, k) \in 0 .. Cardinality(R) - 1
      /\ \A k, l \in R : k < l => Before(R, k) < Before(R, l)
  BY <1>1, Ranks DEF Before
<1>3. ASSUME NEW k \in R, NEW l \in R, Before(R, k) = Before(R, l) PROVE k = l
  <2>1. k = l \/ k < l \/ l < k
    BY <1>1
  <2>2. Before(R, k) \in Int /\ Before(R, l) \in Int
    BY <1>2
  <2> QED BY <1>2, <1>3, <2>1, <2>2
<1> QED BY <1>2, <1>3

\* LIMIT and OFFSET select rows by their place.
LEMMA SliceHolds ==
  ASSUME NEW R, R \subseteq Keys, NEW offset \in Nat, NEW n \in Nat, NEW d, d = Slice(R, offset, n)
  PROVE  /\ d \in Seq(R) /\ Increasing(d)
         /\ \A k : Holds(d, k) <=> k \in R /\ offset <= Before(R, k) /\ Before(R, k) < offset + n
<1> DEFINE c == Cardinality(R)
           o == Ordered(R)
<1>1. R \subseteq Int /\ IsFiniteSet(R)
  BY SubsetsOfKeys
<1>2. /\ c \in Nat /\ o \in Seq(R) /\ Len(o) = c
      /\ \A k \in R : \E i \in 1 .. c : o[i] = k
      /\ \A i, j \in 1 .. c : i < j => o[i] < o[j]
      /\ \A i \in 1 .. c : Before(R, o[i]) = i - 1
  BY <1>1, OrderedIs DEF Before
<1>3. /\ d \in Seq(R) /\ Len(d) = MinOf(n, MaxOf(0, c - offset))
      /\ \A i \in 1 .. Len(d) : offset + i \in 1 .. c /\ d[i] = o[offset + i]
  <2>1. /\ Slice(R, offset, n) \in Seq(R)
        /\ Len(Slice(R, offset, n)) = MinOf(n, MaxOf(0, Cardinality(R) - offset))
        /\ \A i \in 1 .. Len(Slice(R, offset, n)) :
             offset + i \in 1 .. Cardinality(R) /\ Slice(R, offset, n)[i] = Ordered(R)[offset + i]
    BY <1>1, SliceIs
  <2> QED BY <2>1
<1> HIDE DEF c, o
<1>4. Len(d) \in Nat /\ Len(d) <= n /\ (Len(d) < n => offset + Len(d) >= c)
  BY <1>2, <1>3 DEF MinOf, MaxOf
<1>5. Increasing(d)
  <2> SUFFICES ASSUME NEW i \in 1 .. Len(d), NEW j \in 1 .. Len(d), i < j PROVE d[i] < d[j]
    BY DEF Increasing
  <2>1. offset + i < offset + j
    BY <1>4
  <2> QED BY <1>2, <1>3, <2>1
<1>6. ASSUME NEW k, Holds(d, k) PROVE k \in R /\ offset <= Before(R, k) /\ Before(R, k) < offset + n
  <2>1. PICK i \in 1 .. Len(d) : d[i] = k
    BY <1>6 DEF Holds
  <2>2. offset + i \in 1 .. c /\ k = o[offset + i] /\ k \in R
    BY <1>3, <2>1
  <2>3. Before(R, k) = (offset + i) - 1
    BY <1>2, <2>2
  <2> QED BY <1>4, <2>2, <2>3
<1>7. ASSUME NEW k \in R, offset <= Before(R, k), Before(R, k) < offset + n PROVE Holds(d, k)
  <2>1. PICK i \in 1 .. c : o[i] = k
    BY <1>2
  <2>2. Before(R, k) = i - 1
    BY <1>2, <2>1
  <2>3. i - offset \in 1 .. Len(d)
    BY <1>2, <1>4, <1>7, <2>2
  <2>4. d[i - offset] = o[offset + (i - offset)] /\ offset + (i - offset) = i
    BY <1>2, <1>3, <2>3
  <2> QED BY <2>1, <2>3, <2>4 DEF Holds
<1> QED BY <1>3, <1>5, <1>6, <1>7

\* No more rows lie past a place than there are beyond it.
LEMMA RowsPast ==
  ASSUME NEW R, R \subseteq Keys, NEW m \in Nat, NEW T, T \subseteq {k \in R : Before(R, k) >= m}
  PROVE  /\ IsFiniteSet(T) /\ Cardinality(T) \in Nat
         /\ Cardinality(T) = 0 \/ Cardinality(T) + m <= Cardinality(R)
<1> DEFINE c == Cardinality(R)
           f == [k \in T |-> Before(R, k)]
<1>1. /\ c \in Nat
      /\ \A k \in R : Before(R, k) \in 0 .. c - 1
      /\ \A k, l \in R : Before(R, k) = Before(R, l) => k = l
  BY BeforeIs
<1>2. IsFiniteSet(T) /\ Cardinality(T) \in Nat
  <2>1. T \subseteq Keys
    OBVIOUS
  <2> QED BY <2>1, SubsetsOfKeys
<1>3. CASE T = {}
  BY <1>2, <1>3, FS_EmptySet
<1>4. CASE T # {}
  <2>1. \A k \in T : k \in R /\ Before(R, k) \in m .. c - 1
    <3> TAKE k \in T
    <3>1. k \in R /\ Before(R, k) >= m
      OBVIOUS
    <3> QED BY <1>1, <3>1
  <2>2. f \in Injection(T, m .. c - 1)
    <3>1. f \in [T -> m .. c - 1]
      BY <2>1
    <3>2. \A k, l \in T : f[k] = f[l] => k = l
      BY <1>1, <2>1
    <3> QED BY <3>1, <3>2 DEF Injection, IsInjective
  <2>3. m <= c - 1
    <3>1. PICK k \in T : TRUE
      BY <1>4
    <3> QED BY <1>1, <2>1, <3>1
  <2>4. IsFiniteSet(m .. c - 1) /\ Cardinality(m .. c - 1) = c - m
    <3>1. m \in Int /\ c - 1 \in Int
      BY <1>1
    <3>2. Cardinality(m .. c - 1) = IF m > c - 1 THEN 0 ELSE c - 1 - m + 1
      BY <3>1, FS_Interval
    <3> HIDE DEF c
    <3> QED BY <1>1, <2>3, <3>1, <3>2, FS_Interval
  <2>5. Cardinality(T) <= c - m
    BY <2>2, <2>4, FS_Injection
  <2> HIDE DEF c
  <2> QED BY <1>1, <1>2, <2>5 DEF c
<1> QED BY <1>2, <1>3, <1>4

\* What a row written does to the places of the others.
LEMMA BeforeWritten ==
  ASSUME NEW R, R \subseteq Keys, NEW k \in Keys, NEW j
  PROVE  /\ Before(R, j) \in Nat
         /\ k \in R => Before(R \ {k}, j) \in Nat /\ Before(R \ {k}, j) <= Before(R, j)
                      /\ Before(R, j) <= Before(R \ {k}, j) + 1
         /\ Before(R \cup {k}, j) \in Nat /\ Before(R, j) <= Before(R \cup {k}, j)
<1> DEFINE B(S) == {i \in S : i < j}
<1>1. IsFiniteSet(B(R)) /\ Cardinality(B(R)) \in Nat
  <2>1. B(R) \subseteq Keys
    OBVIOUS
  <2> QED BY <2>1, SubsetsOfKeys
<1>2. IsFiniteSet(B(R \cup {k})) /\ Cardinality(B(R \cup {k})) \in Nat
  <2>1. B(R \cup {k}) \subseteq Keys
    OBVIOUS
  <2> QED BY <2>1, SubsetsOfKeys
<1>3. IsFiniteSet(B(R \ {k})) /\ Cardinality(B(R \ {k})) \in Nat
  <2>1. B(R \ {k}) \subseteq Keys
    OBVIOUS
  <2> QED BY <2>1, SubsetsOfKeys
<1>4. Cardinality(B(R)) <= Cardinality(B(R \cup {k}))
  <2>1. B(R) \subseteq B(R \cup {k})
    OBVIOUS
  <2> QED BY <1>2, <2>1, FS_Subset
<1>5. Cardinality(B(R \ {k})) <= Cardinality(B(R))
  <2>1. B(R \ {k}) \subseteq B(R)
    OBVIOUS
  <2> QED BY <1>1, <2>1, FS_Subset
<1>6. Cardinality(B(R)) <= Cardinality(B(R \ {k})) + 1
  <2>1. B(R) \subseteq B(R \ {k}) \cup {k}
    OBVIOUS
  <2> HIDE DEF B
  <2>2. /\ IsFiniteSet(B(R \ {k}) \cup {k})
        /\ Cardinality(B(R \ {k}) \cup {k}) <= Cardinality(B(R \ {k})) + 1
    <3>1. /\ IsFiniteSet(B(R \ {k}) \cup {k})
          /\ Cardinality(B(R \ {k}) \cup {k})
               = IF k \in B(R \ {k}) THEN Cardinality(B(R \ {k})) ELSE Cardinality(B(R \ {k})) + 1
      BY <1>3, FS_AddElement
    <3> QED BY <1>3, <3>1
  <2>3. Cardinality(B(R)) <= Cardinality(B(R \ {k}) \cup {k}) /\ Cardinality(B(R \ {k}) \cup {k}) \in Nat
    BY <2>1, <2>2, FS_Subset, FS_CardinalityType
  <2> QED BY <1>1, <1>3, <2>2, <2>3
<1>7. Before(R, j) = Cardinality(B(R)) /\ Before(R \ {k}, j) = Cardinality(B(R \ {k}))
      /\ Before(R \cup {k}, j) = Cardinality(B(R \cup {k}))
  BY DEF Before
<1> QED BY <1>1, <1>2, <1>3, <1>4, <1>5, <1>6, <1>7

TimesIn(s, k) == Cardinality({i \in DOMAIN s : s[i] = k})

LEMMA TimesInIs ==
  ASSUME NEW s \in Seq(Keys), NEW k
  PROVE  /\ IsFiniteSet({i \in DOMAIN s : s[i] = k}) /\ TimesIn(s, k) \in Nat
         /\ TimesIn(s, k) = 0 <=> ~Holds(s, k)
         /\ Increasing(s) /\ Holds(s, k) => TimesIn(s, k) = 1
<1> DEFINE P == {i \in DOMAIN s : s[i] = k}
<1>1. DOMAIN s = 1 .. Len(s) /\ Len(s) \in Nat
  OBVIOUS
<1>2. IsFiniteSet(P)
  <2>1. IsFiniteSet(1 .. Len(s))
    BY <1>1, FS_Interval
  <2> QED BY <1>1, <2>1, FS_Subset
<1>3. TimesIn(s, k) \in Nat
  BY <1>2, FS_CardinalityType DEF TimesIn
<1>4. TimesIn(s, k) = 0 <=> P = {}
  BY <1>2, FS_EmptySet DEF TimesIn
<1>5. P = {} <=> ~Holds(s, k)
  BY <1>1 DEF Holds
<1>6. ASSUME Increasing(s), Holds(s, k) PROVE TimesIn(s, k) = 1
  <2>1. PICK i \in 1 .. Len(s) : s[i] = k
    BY <1>6 DEF Holds
  <2>2. ASSUME NEW j \in P PROVE j = i
    <3>1. j \in 1 .. Len(s) /\ s[j] = k
      BY <1>1
    <3>2. k \in Int
      <4>1. k \in Keys
        BY <2>1
      <4> QED BY <4>1, KeysAreNumbers
    <3>3. ~(s[i] < s[j]) /\ ~(s[j] < s[i])
      BY <2>1, <3>1, <3>2
    <3>4. ~(i < j) /\ ~(j < i)
      BY <1>6, <3>1, <3>3 DEF Increasing
    <3> QED BY <1>1, <3>1, <3>4
  <2>3. P = {i}
    BY <1>1, <2>1, <2>2
  <2> QED BY <2>3, FS_Singleton DEF TimesIn
<1> QED BY <1>2, <1>3, <1>4, <1>5, <1>6

LEMMA TimesAppended ==
  ASSUME NEW s \in Seq(Keys), NEW t \in Seq(Keys), Increasing(t), NEW k
  PROVE  TimesIn(s \o t, k) = TimesIn(s, k) + IF Holds(t, k) THEN 1 ELSE 0
<1> DEFINE P == {i \in DOMAIN s : s[i] = k}
           Q == {i \in DOMAIN (s \o t) : (s \o t)[i] = k}
<1>1. DOMAIN s = 1 .. Len(s) /\ DOMAIN (s \o t) = 1 .. Len(s \o t) /\ Len(s) \in Nat /\ Len(t) \in Nat
  OBVIOUS
<1>2. /\ Len(s \o t) = Len(s) + Len(t)
      /\ \A i \in 1 .. Len(s) : (s \o t)[i] = s[i]
      /\ \A i \in 1 .. Len(t) : (s \o t)[Len(s) + i] = t[i]
      /\ \A i \in 1 .. Len(s \o t) : i \in 1 .. Len(s) \/ \E j \in 1 .. Len(t) : i = Len(s) + j
  BY ConcatIs
<1>3. IsFiniteSet(P) /\ TimesIn(s, k) \in Nat
  BY TimesInIs
<1>4. P \subseteq Q
  <2>1. ASSUME NEW i \in P PROVE i \in Q
    <3>1. i \in 1 .. Len(s) /\ s[i] = k
      BY <1>1
    <3>2. i \in 1 .. Len(s \o t)
      BY <1>1, <1>2, <3>1
    <3> QED BY <1>1, <1>2, <3>1, <3>2
  <2> QED BY <2>1
<1>5. CASE ~Holds(t, k)
  <2>1. ASSUME NEW i \in Q PROVE i \in P
    <3>1. i \in 1 .. Len(s \o t) /\ (s \o t)[i] = k
      BY <1>1
    <3>2. ~(\E j \in 1 .. Len(t) : i = Len(s) + j)
      BY <1>2, <1>5, <3>1 DEF Holds
    <3> QED BY <1>1, <1>2, <3>1, <3>2
  <2>2. Q = P
    BY <1>4, <2>1
  <2>3. TimesIn(s \o t, k) = TimesIn(s, k)
    BY <2>2 DEF TimesIn
  <2> QED BY <1>3, <1>5, <2>3
<1>6. CASE Holds(t, k)
  <2>1. PICK j \in 1 .. Len(t) : t[j] = k
    BY <1>6 DEF Holds
  <2>2. Len(s) + j \in Q
    <3>1. Len(s) + j \in 1 .. Len(s \o t)
      BY <1>1, <1>2
    <3> QED BY <1>1, <1>2, <2>1, <3>1
  <2>3. Len(s) + j \notin P
    BY <1>1
  <2>4. ASSUME NEW i \in Q, i \notin P PROVE i = Len(s) + j
    <3>1. i \in 1 .. Len(s \o t) /\ (s \o t)[i] = k
      BY <1>1
    <3>2. i \notin 1 .. Len(s)
      BY <1>1, <1>2, <2>4, <3>1
    <3>3. PICK h \in 1 .. Len(t) : i = Len(s) + h
      BY <1>2, <3>1, <3>2
    <3>4. t[h] = k /\ k \in Int
      <4>1. t[h] = k /\ t[h] \in Keys
        BY <1>2, <3>1, <3>3
      <4> QED BY <4>1, KeysAreNumbers
    <3>5. ~(t[h] < t[j]) /\ ~(t[j] < t[h])
      BY <2>1, <3>4
    <3>6. ~(h < j) /\ ~(j < h)
      BY <3>5 DEF Increasing
    <3>7. h = j
      BY <1>1, <3>6
    <3> QED BY <3>3, <3>7
  <2>5. Q = P \cup {Len(s) + j}
    BY <1>4, <2>2, <2>4
  <2> HIDE DEF P, Q
  <2>6. Cardinality(Q) = Cardinality(P) + 1
    BY <1>3, <2>3, <2>5, FS_AddElement
  <2>7. TimesIn(s \o t, k) = TimesIn(s, k) + 1
    BY <2>6 DEF TimesIn, P, Q
  <2> QED BY <1>6, <2>7
<1> QED BY <1>5, <1>6

\* What a write does to the counts.
LEMMA WriteCounts ==
  ASSUME WalkTyped, NEW k \in Keys \ touched, Write(k)
  PROVE  /\ Inserted \in Nat /\ Deleted \in Nat /\ Cardinality(rows) \in Nat /\ Cardinality(touched) \in Nat
         /\ Cardinality(touched') = Cardinality(touched) + 1
         /\ k \in rows => /\ Inserted' = Inserted /\ Deleted' = Deleted + 1
                          /\ Cardinality(rows') = Cardinality(rows) - 1
         /\ k \notin rows => /\ Inserted' = Inserted + 1 /\ Deleted' = Deleted
                             /\ Cardinality(rows') = Cardinality(rows) + 1
<1>1. /\ touched' = touched \cup {k} /\ k \notin touched /\ touched \subseteq Keys /\ rows \subseteq Keys
      /\ rows' = IF k \in rows THEN rows \ {k} ELSE rows \cup {k}
  BY WriteTyped DEF WalkTyped
<1>2. IsFiniteSet(rows) /\ IsFiniteSet(touched) /\ Cardinality(rows) \in Nat /\ Cardinality(touched) \in Nat
  BY <1>1, SubsetsOfKeys
<1>3. IsFiniteSet(touched \cap rows) /\ Cardinality(touched \cap rows) \in Nat
  <2>1. touched \cap rows \subseteq Keys
    BY <1>1
  <2> QED BY <2>1, SubsetsOfKeys
<1>4. IsFiniteSet(touched \ rows) /\ Cardinality(touched \ rows) \in Nat
  <2>1. touched \ rows \subseteq Keys
    BY <1>1
  <2> QED BY <2>1, SubsetsOfKeys
<1>5. Cardinality(touched') = Cardinality(touched) + 1
  BY <1>1, <1>2, FS_AddElement
<1>6. CASE k \in rows
  <2>1. touched' \cap rows' = touched \cap rows /\ touched' \ rows' = (touched \ rows) \cup {k} /\ rows' = rows \ {k}
    BY <1>1, <1>6
  <2>2. Cardinality((touched \ rows) \cup {k}) = Cardinality(touched \ rows) + 1
    BY <1>1, <1>4, FS_AddElement
  <2>3. Cardinality(rows \ {k}) = Cardinality(rows) - 1
    BY <1>2, <1>6, FS_RemoveElement
  <2> QED BY <1>2, <1>3, <1>4, <1>5, <1>6, <2>1, <2>2, <2>3 DEF Inserted, Deleted
<1>7. CASE k \notin rows
  <2>1. touched' \cap rows' = (touched \cap rows) \cup {k} /\ touched' \ rows' = touched \ rows /\ rows' = rows \cup {k}
    BY <1>1, <1>7
  <2>2. Cardinality((touched \cap rows) \cup {k}) = Cardinality(touched \cap rows) + 1
    BY <1>1, <1>3, FS_AddElement
  <2>3. Cardinality(rows \cup {k}) = Cardinality(rows) + 1
    BY <1>2, <1>7, FS_AddElement
  <2> QED BY <1>2, <1>3, <1>4, <1>5, <1>7, <2>1, <2>2, <2>3 DEF Inserted, Deleted
<1> QED BY <1>6, <1>7

LEMMA CountsAddUp ==
  ASSUME WalkTyped
  PROVE  /\ Inserted \in Nat /\ Deleted \in Nat /\ Cardinality(touched) = Inserted + Deleted
<1> DEFINE I == touched \cap rows
           D == touched \ rows
<1>1. IsFiniteSet(I) /\ IsFiniteSet(D) /\ Cardinality(I) \in Nat /\ Cardinality(D) \in Nat
  <2>1. I \subseteq Keys /\ D \subseteq Keys
    BY DEF WalkTyped
  <2> HIDE DEF I, D
  <2> QED BY <2>1, SubsetsOfKeys
<1>2. I \cap D = {} /\ touched = I \cup D
  OBVIOUS
<1> HIDE DEF I, D
<1>3. /\ IsFiniteSet(I \cup D)
      /\ Cardinality(I \cup D) = Cardinality(I) + Cardinality(D) - Cardinality(I \cap D)
  BY <1>1, FS_Union
<1>4. Cardinality(I \cap D) = 0
  BY <1>2, FS_EmptySet
<1>5. Cardinality(touched) = Cardinality(I) + Cardinality(D)
  BY <1>1, <1>2, <1>3, <1>4
<1> QED BY <1>1, <1>5 DEF Inserted, Deleted, I, D

\* A subset that grows by one element at most.
LEMMA OneMore ==
  ASSUME NEW S, IsFiniteSet(S), NEW e, NEW T, T \subseteq S \cup {e}
  PROVE  /\ IsFiniteSet(T) /\ Cardinality(T) \in Nat /\ Cardinality(S) \in Nat
         /\ Cardinality(T) <= Cardinality(S) + 1
         /\ T \subseteq S => Cardinality(T) <= Cardinality(S)
<1>1. /\ IsFiniteSet(S \cup {e}) /\ Cardinality(S) \in Nat
      /\ Cardinality(S \cup {e}) = IF e \in S THEN Cardinality(S) ELSE Cardinality(S) + 1
  BY FS_AddElement, FS_CardinalityType
<1>2. IsFiniteSet(T) /\ Cardinality(T) \in Nat /\ Cardinality(T) <= Cardinality(S \cup {e})
  BY <1>1, FS_Subset, FS_CardinalityType
<1>3. T \subseteq S => Cardinality(T) <= Cardinality(S)
  BY FS_Subset
<1> QED BY <1>1, <1>2, <1>3

LEMMA TimesNowIsNumber == ASSUME WalkTyped, NEW k PROVE TimesNow(k) \in Nat /\ Times(k) \in Nat /\ Times(k) <= TimesNow(k)
<1>1. Times(k) \in Nat
  BY TimesInIs DEF WalkTyped, Times, TimesIn
<1> QED BY <1>1 DEF TimesNow

LEMMA WriteHands ==
  ASSUME WalkTyped, NEW k \in Keys \ touched, Write(k)
  PROVE  \A j : (Handed(j)' <=> Handed(j)) /\ TimesNow(j)' = TimesNow(j)
<1>1. UNCHANGED <<walk, given>>
  BY WriteTyped
<1> QED BY <1>1 DEF Handed, TimesNow, Times, Holds, Fetched

LEMMA ReadUpToWritten ==
  ASSUME WalkTyped, NEW k \in Keys \ touched, Write(k), NEW offset \in Nat, ReadUpTo(offset)
  PROVE  /\ Cardinality({j \in Old' : Before(rows', j) < offset /\ ~Handed(j)'}) <= Deleted'
         /\ \A j \in Keys : TimesNow(j)' <= 1 + Inserted'
         /\ \A j \in rows' : Before(rows', j) >= offset => TimesNow(j)' <= Inserted'
         /\ offset > 0 => Cardinality(rows') + Deleted' > offset
<1> DEFINE M == {j \in Old : Before(rows, j) < offset /\ ~Handed(j)}
           N == {j \in Old' : Before(rows', j) < offset /\ ~Handed(j)'}
<1>1. /\ Inserted \in Nat /\ Deleted \in Nat /\ Cardinality(rows) \in Nat
      /\ k \in rows => /\ Inserted' = Inserted /\ Deleted' = Deleted + 1
                       /\ Cardinality(rows') = Cardinality(rows) - 1
      /\ k \notin rows => /\ Inserted' = Inserted + 1 /\ Deleted' = Deleted
                          /\ Cardinality(rows') = Cardinality(rows) + 1
  BY WriteCounts
<1>2. /\ Old' = Old \ {k} /\ rows \subseteq Keys /\ rows' \subseteq Keys
      /\ rows' = IF k \in rows THEN rows \ {k} ELSE rows \cup {k}
  BY WriteTyped DEF WalkTyped
<1>3. \A j : (Handed(j)' <=> Handed(j)) /\ TimesNow(j)' = TimesNow(j) /\ TimesNow(j) \in Nat
  BY WriteHands, TimesNowIsNumber
<1>4. /\ Cardinality(M) <= Deleted
      /\ \A j \in Keys : TimesNow(j) <= 1 + Inserted
      /\ \A j \in rows : Before(rows, j) >= offset => TimesNow(j) <= Inserted
      /\ offset > 0 => Cardinality(rows) + Deleted > offset
  BY DEF ReadUpTo
<1>5. IsFiniteSet(M) /\ Cardinality(M) \in Nat
  <2>1. M \subseteq Keys
    BY <1>2 DEF Old
  <2> HIDE DEF M
  <2> QED BY <2>1, SubsetsOfKeys
<1>6. \A j : /\ Before(rows, j) \in Nat
             /\ k \in rows => Before(rows \ {k}, j) \in Nat /\ Before(rows \ {k}, j) <= Before(rows, j)
                             /\ Before(rows, j) <= Before(rows \ {k}, j) + 1
             /\ Before(rows \cup {k}, j) \in Nat /\ Before(rows, j) <= Before(rows \cup {k}, j)
  BY <1>2, BeforeWritten
<1>7. Old \subseteq rows
  BY DEF Old
<1>8. CASE k \in rows
  <2>1. rows' = rows \ {k} /\ Inserted' = Inserted /\ Deleted' = Deleted + 1 /\ Cardinality(rows') = Cardinality(rows) - 1
    BY <1>1, <1>2, <1>8
  <2>2. \A j \in N : /\ j \in Old /\ ~Handed(j) /\ Before(rows, j) \in Nat
                     /\ Before(rows, j) < offset \/ Before(rows, j) = offset
    <3> TAKE j \in N
    <3>1. j \in Old /\ ~Handed(j) /\ Before(rows \ {k}, j) < offset
      BY <1>2, <1>3, <2>1
    <3>2. Before(rows, j) \in Nat /\ Before(rows \ {k}, j) \in Nat /\ Before(rows, j) <= Before(rows \ {k}, j) + 1
      BY <1>6, <1>8
    <3> QED BY <3>1, <3>2
  <2>3. \E e : N \subseteq M \cup {e}
    <3>1. CASE \A j \in N : Before(rows, j) < offset
      BY <2>2, <3>1
    <3>2. ASSUME NEW e \in N, Before(rows, e) = offset PROVE N \subseteq M \cup {e}
      <4>1. \A i, j \in rows : Before(rows, i) = Before(rows, j) => i = j
        BY <1>2, BeforeIs
      <4> SUFFICES ASSUME NEW j \in N, j # e PROVE j \in M
        OBVIOUS
      <4>2. j \in rows /\ e \in rows /\ j \in Old /\ ~Handed(j)
        BY <1>7, <2>2
      <4>3. Before(rows, j) < offset
        BY <2>2, <3>2, <4>1, <4>2
      <4> QED BY <4>2, <4>3
    <3> QED BY <2>2, <3>1, <3>2
  <2> HIDE DEF M, N
  <2>4. Cardinality(N) \in Nat /\ Cardinality(N) <= Cardinality(M) + 1
    BY <1>5, <2>3, OneMore
  <2>5. Cardinality(N) <= Deleted'
    BY <1>1, <1>4, <1>5, <2>1, <2>4
  <2>6. \A j \in Keys : TimesNow(j)' <= 1 + Inserted'
    BY <1>3, <1>4, <2>1
  <2>7. ASSUME NEW j \in rows', Before(rows', j) >= offset PROVE TimesNow(j)' <= Inserted'
    <3>1. Before(rows, j) >= offset /\ j \in rows
      BY <1>6, <1>8, <2>1, <2>7
    <3> QED BY <1>3, <1>4, <2>1, <3>1
  <2>8. offset > 0 => Cardinality(rows') + Deleted' > offset
    BY <1>1, <1>4, <2>1
  <2> QED BY <2>5, <2>6, <2>7, <2>8 DEF N
<1>9. CASE k \notin rows
  <2>1. rows' = rows \cup {k} /\ Inserted' = Inserted + 1 /\ Deleted' = Deleted /\ Cardinality(rows') = Cardinality(rows) + 1
    BY <1>1, <1>2, <1>9
  <2>2. N \subseteq M
    <3> SUFFICES ASSUME NEW j \in N PROVE j \in M
      OBVIOUS
    <3>1. j \in Old /\ ~Handed(j) /\ Before(rows \cup {k}, j) < offset
      BY <1>2, <1>3, <2>1
    <3>2. Before(rows, j) < offset
      BY <1>6, <3>1
    <3> QED BY <3>1, <3>2
  <2> HIDE DEF M, N
  <2>3. Cardinality(N) \in Nat /\ Cardinality(N) <= Cardinality(M)
    BY <1>5, <2>2, OneMore
  <2>4. Cardinality(N) <= Deleted'
    BY <1>1, <1>4, <1>5, <2>1, <2>3
  <2>5. \A j \in Keys : TimesNow(j)' <= Inserted'
    BY <1>1, <1>3, <1>4, <2>1
  <2>6. offset > 0 => Cardinality(rows') + Deleted' > offset
    BY <1>1, <1>4, <2>1
  <2>7. Inserted' \in Nat
    BY <1>1, <2>1
  <2> QED BY <1>2, <1>3, <2>4, <2>5, <2>6, <2>7 DEF N
<1> QED BY <1>8, <1>9

LEMMA ReadAllWritten ==
  ASSUME WalkTyped, NEW k \in Keys \ touched, Write(k), ReadAll
  PROVE  /\ Cardinality({j \in Old' : ~Handed(j)'}) <= Cardinality(touched')
         /\ \A j \in Keys : TimesNow(j)' <= 1 + Cardinality(touched')
<1> DEFINE M == {j \in Old : ~Handed(j)}
           N == {j \in Old' : ~Handed(j)'}
<1>1. Cardinality(touched) \in Nat /\ Cardinality(touched') = Cardinality(touched) + 1
  BY WriteCounts
<1>2. \A j : (Handed(j)' <=> Handed(j)) /\ TimesNow(j)' = TimesNow(j) /\ TimesNow(j) \in Nat
  BY WriteHands, TimesNowIsNumber
<1>3. N \subseteq M /\ M \subseteq Keys
  <2>1. Old' \subseteq Old /\ Old \subseteq Keys
    BY WriteTyped DEF WalkTyped, Old
  <2> QED BY <1>2, <2>1
<1>4. Cardinality(M) <= Cardinality(touched) /\ \A j \in Keys : TimesNow(j) <= 1 + Cardinality(touched)
  BY DEF ReadAll
<1> HIDE DEF M, N
<1>5. IsFiniteSet(M) /\ Cardinality(M) \in Nat
  BY <1>3, SubsetsOfKeys
<1>6. Cardinality(N) <= Cardinality(M) /\ Cardinality(N) \in Nat
  BY <1>3, <1>5, OneMore
<1>7. Cardinality(N) <= Cardinality(touched')
  BY <1>1, <1>4, <1>5, <1>6
<1>8. \A j \in Keys : TimesNow(j)' <= 1 + Cardinality(touched')
  BY <1>1, <1>2, <1>4
<1> QED BY <1>7, <1>8 DEF N

LEMMA RowsWritten ==
  ASSUME WalkTyped, OffsetsAddUp, NEW k \in Keys \ touched, Write(k) PROVE OffsetsAddUp'
<1> SUFFICES ASSUME walk.how = "chunk" PROVE OffsetsAddUp'
  BY WriteTyped DEF OffsetsAddUp
<1>1. UNCHANGED <<walk, given>> /\ walk.pc # "done" /\ Size' = Size
  BY WriteTyped DEF Size
<1>2. walk \in WalkRecords /\ Size \in Nat \ {0} /\ walk.page \in Nat \ {0} /\ walk.lastPage \in Nat
  BY DEF WalkTyped, WalkRecords, Size
<1>3. (walk.page - 1) * Size \in Nat /\ walk.page * Size \in Nat /\ walk.lastPage * Size \in Nat
  BY <1>2
<1>4. (LastOfAll)' <=> LastOfAll
  BY <1>1 DEF LastOfAll
<1>5. CASE walk.pc \in {"start", "counted"}
  <2>1. ReadUpTo((walk.page - 1) * Size)
    BY <1>5 DEF OffsetsAddUp
  <2>2. ReadUpTo((walk.page - 1) * Size)'
    BY <1>1, <1>3, <2>1, ReadUpToWritten DEF ReadUpTo
  <2>3. CASE walk.pc = "start"
    BY <1>1, <2>2, <2>3 DEF OffsetsAddUp
  <2>4. CASE walk.pc = "counted"
    <3>1. /\ walk.lastPage >= 1 /\ Cardinality(rows) <= walk.lastPage * Size + Inserted
          /\ walk.page < walk.lastPage => Cardinality(rows) + Deleted > walk.page * Size
          /\ walk.page > walk.lastPage => Deleted > 0
      BY <2>4 DEF OffsetsAddUp
    <3>2. /\ Inserted \in Nat /\ Deleted \in Nat /\ Cardinality(rows) \in Nat
          /\ \/ Inserted' = Inserted /\ Deleted' = Deleted + 1 /\ Cardinality(rows') = Cardinality(rows) - 1
             \/ Inserted' = Inserted + 1 /\ Deleted' = Deleted /\ Cardinality(rows') = Cardinality(rows) + 1
      BY WriteCounts
    <3>3. Cardinality(rows') <= walk.lastPage * Size + Inserted'
      BY <1>3, <3>1, <3>2
    <3>4. walk.page < walk.lastPage => Cardinality(rows') + Deleted' > walk.page * Size
      BY <1>3, <3>1, <3>2
    <3>5. walk.page > walk.lastPage => Deleted' > 0
      BY <3>1, <3>2
    <3> QED BY <1>1, <2>2, <2>4, <3>1, <3>3, <3>4, <3>5 DEF OffsetsAddUp
  <2> QED BY <1>5, <2>3, <2>4
<1>6. CASE walk.pc = "fetched"
  <2>1. Increasing(walk.data)'
    BY <1>1, <1>6 DEF OffsetsAddUp, Increasing
  <2>2. CASE LastOfAll
    <3>1. ReadAll
      BY <1>6, <2>2 DEF OffsetsAddUp
    <3>2. ReadAll'
      BY <3>1, ReadAllWritten DEF ReadAll
    <3> QED BY <1>1, <1>4, <1>6, <2>1, <2>2, <3>2 DEF OffsetsAddUp
  <2>3. CASE ~LastOfAll
    <3>1. ReadUpTo(walk.page * Size)
      BY <1>6, <2>3 DEF OffsetsAddUp
    <3>2. ReadUpTo(walk.page * Size)'
      BY <1>1, <1>3, <3>1, ReadUpToWritten DEF ReadUpTo
    <3> QED BY <1>1, <1>4, <1>6, <2>1, <2>3, <3>2 DEF OffsetsAddUp
  <2> QED BY <2>2, <2>3
<1>7. walk.pc \in {"start", "counted", "fetched"}
  BY <1>1, <1>2 DEF WalkTyped, WalkRecords
<1> QED BY <1>5, <1>6, <1>7

LEMMA RowsCounted ==
  ASSUME WalkTyped, OffsetsAddUp, CountRows PROVE OffsetsAddUp'
<1>1. /\ UNCHANGED <<rows, given, touched>> /\ walk.pc = "start" /\ walk.how = "chunk"
      /\ walk'.how = "chunk" /\ walk'.pc = "counted" /\ walk'.page = walk.page /\ walk'.size = walk.size
      /\ walk'.lastPage = LastPage(Cardinality(rows))
  BY CountRowsTyped
<1> DEFINE n == Cardinality(rows)
           q == LastPage(n)
           P == (walk.page - 1) * Size
<1>2. Size \in Nat \ {0} /\ walk.page \in Nat \ {0} /\ Size' = Size /\ n \in Nat
  BY <1>1, SubsetsOfKeys DEF WalkTyped, WalkRecords, Size
<1>3. q \in Nat \ {0} /\ n <= q * Size /\ (q > 1 => (q - 1) * Size < n)
  <2>1. q = MaxOf(1, (n + Size - 1) \div Size)
    BY DEF LastPage
  <2> HIDE DEF n, q
  <2> QED BY <1>2, <2>1, PagesCover
<1>4. ReadUpTo(P)
  BY <1>1 DEF OffsetsAddUp
<1>5. Inserted \in Nat /\ Deleted \in Nat
  BY CountsAddUp
<1>6. \A j : (Handed(j)' <=> Handed(j)) /\ TimesNow(j)' = TimesNow(j)
  BY <1>1 DEF Handed, TimesNow, Times, Holds, Fetched
<1>7. Old' = Old /\ Deleted' = Deleted /\ Inserted' = Inserted /\ P' = P
  BY <1>1, <1>2 DEF Old, Deleted, Inserted
<1>8. ReadUpTo((walk.page - 1) * Size)'
  <2>1. {k \in Old' : Before(rows', k) < P /\ ~Handed(k)'} = {k \in Old : Before(rows, k) < P /\ ~Handed(k)}
    BY <1>1, <1>6, <1>7
  <2> HIDE DEF P
  <2> QED BY <1>1, <1>4, <1>6, <1>7, <2>1 DEF ReadUpTo, P
<1> HIDE DEF n, q, P
<1>9. n <= q * Size + Inserted
  <2>1. q * Size \in Nat
    BY <1>2, <1>3
  <2> QED BY <1>2, <1>3, <1>5, <2>1
<1>10. walk.page < q => n + Deleted > walk.page * Size
  <2>1. SUFFICES ASSUME walk.page < q PROVE n + Deleted > walk.page * Size
    OBVIOUS
  <2>2. walk.page * Size <= (q - 1) * Size
    <3>1. walk.page <= q - 1 /\ q - 1 \in Nat
      BY <1>2, <1>3, <2>1
    <3> QED BY <1>2, <3>1
  <2>3. walk.page * Size \in Nat /\ (q - 1) * Size \in Nat /\ q > 1
    BY <1>2, <1>3, <2>1
  <2> QED BY <1>2, <1>3, <1>5, <2>2, <2>3
<1>11. walk.page > q => Deleted > 0
  <2>1. SUFFICES ASSUME walk.page > q PROVE Deleted > 0
    OBVIOUS
  <2>2. q * Size <= P
    <3>1. walk.page - 1 \in Nat /\ q <= walk.page - 1
      BY <1>2, <1>3, <2>1
    <3> QED BY <1>2, <1>3, <3>1 DEF P
  <2>3. P \in Nat /\ q * Size \in Nat /\ q * Size > 0
    BY <1>2, <1>3 DEF P
  <2>4. n + Deleted > P
    BY <1>4, <2>2, <2>3 DEF ReadUpTo, n
  <2> QED BY <1>2, <1>3, <1>5, <2>2, <2>3, <2>4
<1> QED BY <1>1, <1>2, <1>3, <1>7, <1>8, <1>9, <1>10, <1>11 DEF OffsetsAddUp, n, q

LEMMA RowsFetched ==
  ASSUME WalkTyped, OffsetsAddUp, FetchPage PROVE OffsetsAddUp'
<1>1. /\ UNCHANGED <<rows, given, touched>> /\ walk.pc = "counted" /\ walk.how = "chunk"
      /\ walk'.how = "chunk" /\ walk'.pc = "fetched" /\ walk'.page = walk.page /\ walk'.size = walk.size
      /\ walk'.lastPage = walk.lastPage /\ walk'.data = Page(rows, walk.page, walk.lastPage)
  BY FetchPageTyped
<1> DEFINE n == Cardinality(rows)
           q == walk.lastPage
           page == walk.page
           P == (page - 1) * Size
           d == walk'.data
<1>2. Size \in Nat \ {0} /\ page \in Nat \ {0} /\ q \in Nat /\ rows \subseteq Keys /\ Size' = Size
  BY <1>1 DEF WalkTyped, WalkRecords, Size
<1>3. /\ ReadUpTo(P) /\ q >= 1 /\ n <= q * Size + Inserted
      /\ page < q => n + Deleted > page * Size
      /\ page > q => Deleted > 0
  BY <1>1 DEF OffsetsAddUp
<1>4. n \in Nat /\ Inserted \in Nat /\ Deleted \in Nat /\ Cardinality(touched) = Inserted + Deleted
  BY <1>2, CountsAddUp, SubsetsOfKeys
<1> DEFINE p == IF page < q THEN page ELSE q
           O == (p - 1) * Size
<1>5. p \in Nat \ {0} /\ p <= q /\ p <= page /\ O \in Nat /\ P \in Nat /\ O + Size = p * Size /\ O <= P
  <2>1. p \in Nat \ {0} /\ p <= q /\ p <= page
    BY <1>2, <1>3
  <2> HIDE DEF p
  <2>2. (p - 1) * Size <= (page - 1) * Size
    <3>1. p - 1 \in Nat /\ page - 1 \in Nat /\ p - 1 <= page - 1
      BY <1>2, <2>1
    <3> QED BY <1>2, <3>1
  <2>3. (p - 1) * Size \in Nat /\ (page - 1) * Size \in Nat /\ (p - 1) * Size + Size = p * Size
    BY <1>2, <2>1
  <2> QED BY <2>1, <2>2, <2>3
<1>6. /\ d = Slice(rows, O, Size)
      /\ d \in Seq(rows) /\ Increasing(d)
      /\ \A k : Holds(d, k) <=> k \in rows /\ O <= Before(rows, k) /\ Before(rows, k) < O + Size
  <2>1. MaxOf(1, MinOf(page, q)) = p
    BY <1>2, <1>3 DEF MaxOf, MinOf
  <2>2. Page(rows, page, q) = Slice(rows, (MaxOf(1, MinOf(page, q)) - 1) * Size, Size)
    BY DEF Page
  <2>3. d = Slice(rows, O, Size)
    BY <1>1, <2>1, <2>2
  <2> HIDE DEF d, O
  <2> QED BY <1>2, <1>5, <2>3, SliceHolds
<1>7. \A k : /\ Handed(k)' <=> Handed(k) \/ Holds(d, k)
             /\ TimesNow(k)' = TimesNow(k) + IF Holds(d, k) THEN 1 ELSE 0
  <2> TAKE k
  <2>1. Fetched' = d /\ Fetched = <<>> /\ ~Holds(<<>>, k)
    BY <1>1 DEF Fetched, Holds
  <2>2. Times(k)' = Times(k) /\ Holds(given', k) = Holds(given, k)
    BY <1>1 DEF Times
  <2>3. Times(k) \in Nat
    BY TimesNowIsNumber
  <2>4. (Handed(k)' <=> Holds(given', k) \/ Holds(Fetched', k)) /\ (Handed(k) <=> Holds(given, k) \/ Holds(Fetched, k))
    BY DEF Handed, Holds
  <2>5. /\ TimesNow(k)' = Times(k)' + IF Holds(Fetched', k) THEN 1 ELSE 0
        /\ TimesNow(k) = Times(k) + IF Holds(Fetched, k) THEN 1 ELSE 0
    BY DEF TimesNow, Holds
  <2> HIDE DEF d
  <2>6. TimesNow(k) = Times(k)
    BY <2>1, <2>3, <2>5
  <2> QED BY <2>1, <2>2, <2>4, <2>5, <2>6
<1>8. \A k : TimesNow(k) \in Nat
  BY TimesNowIsNumber
<1>9. Old' = Old /\ Deleted' = Deleted /\ Inserted' = Inserted /\ Old \subseteq rows
  BY <1>1 DEF Old, Deleted, Inserted
<1>10. \A k \in rows : Before(rows, k) \in Nat /\ Before(rows, k) < n
  <2>1. \A k \in rows : Before(rows, k) \in 0 .. n - 1
    BY <1>2, BeforeIs
  <2> QED BY <1>4, <2>1
<1>11. (LastOfAll)' <=> d = <<>> \/ page >= q
  BY <1>1 DEF LastOfAll
<1>12. d = <<>> => n <= O
  <2>1. Len(Slice(rows, O, Size)) = MinOf(Size, MaxOf(0, n - O))
    <3>1. rows \subseteq Int /\ IsFiniteSet(rows)
      BY <1>2, SubsetsOfKeys
    <3> HIDE DEF O
    <3> QED BY <1>2, <1>5, <3>1, SliceIs
  <2> HIDE DEF d, O, n
  <2> QED BY <1>2, <1>4, <1>5, <1>6, <2>1 DEF MinOf, MaxOf
<1> DEFINE M == {k \in Old : Before(rows, k) < P /\ ~Handed(k)}
<1>13. /\ Cardinality(M) <= Deleted /\ IsFiniteSet(M) /\ Cardinality(M) \in Nat
       /\ \A k \in Keys : TimesNow(k) <= 1 + Inserted
       /\ \A k \in rows : Before(rows, k) >= P => TimesNow(k) <= Inserted
  <2>1. M \subseteq Keys
    BY <1>2, <1>9
  <2>2. IsFiniteSet(M) /\ Cardinality(M) \in Nat
    BY <2>1, SubsetsOfKeys
  <2> QED BY <1>3, <2>2 DEF ReadUpTo
<1> HIDE DEF n, d, P, O, p, q, page
<1>14. CASE page < q /\ d # <<>>
  <2>1. p = page /\ O = P
    BY <1>14 DEF p, O, P
  <2> DEFINE N == {k \in Old : Before(rows, k) < page * Size /\ ~Handed(k)'}
  <2>2. N \subseteq M
    <3> SUFFICES ASSUME NEW k \in N PROVE k \in M
      OBVIOUS
    <3>1. k \in Old /\ k \in rows /\ Before(rows, k) < O + Size /\ ~Handed(k) /\ ~Holds(d, k)
      BY <1>5, <1>7, <1>9, <2>1
    <3>2. Before(rows, k) < P
      BY <1>5, <1>6, <1>10, <2>1, <3>1
    <3> QED BY <3>1, <3>2
  <2>3. Cardinality(N) <= Deleted'
    <3> HIDE DEF M, N
    <3>1. Cardinality(N) <= Cardinality(M) /\ Cardinality(N) \in Nat
      BY <1>13, <2>2, OneMore
    <3> QED BY <1>4, <1>9, <1>13, <3>1
  <2>4. ASSUME NEW k \in Keys PROVE TimesNow(k)' <= 1 + Inserted'
    <3>1. CASE Holds(d, k)
      <4>1. TimesNow(k) <= Inserted /\ TimesNow(k)' = TimesNow(k) + 1
        BY <1>5, <1>6, <1>7, <1>13, <2>1, <3>1
      <4> QED BY <1>4, <1>8, <1>9, <4>1
    <3>2. CASE ~Holds(d, k)
      <4>1. TimesNow(k)' = TimesNow(k)
        BY <1>7, <1>8, <3>2
      <4> QED BY <1>9, <1>13, <4>1
    <3> QED BY <3>1, <3>2
  <2>5. ASSUME NEW k \in rows, Before(rows, k) >= page * Size PROVE TimesNow(k)' <= Inserted'
    <3>1. Before(rows, k) >= O + Size /\ Before(rows, k) \in Nat
      BY <1>5, <1>10, <2>1, <2>5
    <3>2. Before(rows, k) >= P /\ ~(Before(rows, k) < O + Size)
      BY <1>2, <1>5, <2>1, <3>1
    <3>3. ~Holds(d, k)
      BY <1>6, <3>2
    <3>4. TimesNow(k)' = TimesNow(k)
      BY <1>7, <1>8, <3>3
    <3> QED BY <1>9, <1>13, <3>2, <3>4
  <2>6. n + Deleted > page * Size
    BY <1>3, <1>14
  <2>7. ReadUpTo(walk.page * Size)'
    <3>1. walk'.page * Size' = page * Size /\ rows' = rows
      BY <1>1, <1>2 DEF page
    <3> QED BY <1>9, <2>3, <2>4, <2>5, <2>6, <3>1 DEF ReadUpTo, n
  <2>8. ~(LastOfAll)'
    BY <1>2, <1>11, <1>14
  <2> QED BY <1>1, <1>6, <2>7, <2>8 DEF OffsetsAddUp, d, Increasing
<1>15. CASE page < q /\ d = <<>>
  <2>1. p = page /\ O = P /\ n <= P
    BY <1>12, <1>15 DEF p, O, P
  <2> DEFINE N == {k \in Old : ~Handed(k)'}
  <2>2. N \subseteq M
    <3> SUFFICES ASSUME NEW k \in N PROVE k \in M
      OBVIOUS
    <3>1. k \in Old /\ k \in rows /\ ~Handed(k)
      BY <1>7, <1>9
    <3>2. Before(rows, k) < P
      BY <1>4, <1>5, <1>10, <2>1, <3>1
    <3> QED BY <3>1, <3>2
  <2>3. Cardinality(N) <= Cardinality(touched)
    <3> HIDE DEF M, N
    <3>1. Cardinality(N) <= Cardinality(M) /\ Cardinality(N) \in Nat
      BY <1>13, <2>2, OneMore
    <3> QED BY <1>4, <1>13, <3>1
  <2>4. ASSUME NEW k \in Keys PROVE TimesNow(k)' <= 1 + Cardinality(touched)
    <3>1. ~Holds(d, k)
      BY <1>15 DEF Holds
    <3>2. TimesNow(k)' = TimesNow(k)
      BY <1>7, <1>8, <3>1
    <3>3. TimesNow(k) <= 1 + Inserted
      BY <1>13
    <3> QED BY <1>4, <1>8, <3>2, <3>3
  <2>5. ReadAll'
    BY <1>1, <1>9, <2>3, <2>4 DEF ReadAll
  <2>6. (LastOfAll)'
    BY <1>11, <1>15
  <2> QED BY <1>1, <1>6, <2>5, <2>6 DEF OffsetsAddUp, d, Increasing
<1>16. CASE page >= q
  <2>1. p = q
    BY <1>2, <1>16 DEF p
  <2> DEFINE N == {k \in Old : ~Handed(k)'}
             T == {k \in rows : Before(rows, k) >= q * Size}
  <2>2. N \subseteq M \cup T
    <3> SUFFICES ASSUME NEW k \in N, ~(Before(rows, k) >= q * Size) PROVE k \in M
      BY <1>9
    <3>1. k \in Old /\ k \in rows /\ ~Handed(k) /\ ~Holds(d, k)
      BY <1>7, <1>9
    <3>2. Before(rows, k) < O
      BY <1>2, <1>5, <1>6, <1>10, <2>1, <3>1
    <3> QED BY <1>5, <1>10, <3>1, <3>2
  <2>3. q * Size \in Nat
    BY <1>2
  <2>4. IsFiniteSet(T) /\ Cardinality(T) \in Nat /\ Cardinality(T) <= Inserted
    <3>1. IsFiniteSet(T) /\ Cardinality(T) \in Nat /\ (Cardinality(T) = 0 \/ Cardinality(T) + q * Size <= n)
      BY <1>2, <2>3, RowsPast DEF n
    <3> QED BY <1>3, <1>4, <2>3, <3>1
  <2>5. Cardinality(N) <= Cardinality(touched)
    <3> HIDE DEF M, N, T
    <3>1. /\ IsFiniteSet(M \cup T)
          /\ Cardinality(M \cup T) = Cardinality(M) + Cardinality(T) - Cardinality(M \cap T)
      BY <1>13, <2>4, FS_Union
    <3>2. Cardinality(M \cap T) \in Nat
      <4>1. M \cap T \subseteq M
        OBVIOUS
      <4> QED BY <1>13, <4>1, FS_Subset, FS_CardinalityType
    <3>3. Cardinality(N) <= Cardinality(M \cup T) /\ Cardinality(N) \in Nat
      BY <2>2, <3>1, FS_Subset, FS_CardinalityType
    <3> QED BY <1>4, <1>13, <2>4, <3>1, <3>2, <3>3
  <2>6. ASSUME NEW k \in Keys PROVE TimesNow(k)' <= 1 + Cardinality(touched)
    <3>1. TimesNow(k) <= 1 + Inserted /\ TimesNow(k) \in Nat
      BY <1>8, <1>13
    <3>2. CASE ~Holds(d, k)
      <4>1. TimesNow(k)' = TimesNow(k)
        BY <1>7, <1>8, <3>2
      <4> QED BY <1>4, <3>1, <4>1
    <3>3. CASE Holds(d, k) /\ page = q
      <4>1. O = P
        BY <2>1, <3>3 DEF O, P
      <4>2. TimesNow(k) <= Inserted /\ TimesNow(k)' = TimesNow(k) + 1
        BY <1>5, <1>6, <1>7, <1>13, <3>3, <4>1
      <4> QED BY <1>4, <3>1, <4>2
    <3>4. CASE Holds(d, k) /\ page > q
      <4>1. TimesNow(k)' = TimesNow(k) + 1 /\ Deleted > 0
        BY <1>3, <1>7, <3>4
      <4> QED BY <1>4, <3>1, <4>1
    <3> QED BY <1>2, <1>16, <3>2, <3>3, <3>4
  <2>7. ReadAll'
    BY <1>1, <1>9, <2>5, <2>6 DEF ReadAll
  <2>8. (LastOfAll)'
    BY <1>11, <1>16
  <2> QED BY <1>1, <1>6, <2>7, <2>8 DEF OffsetsAddUp, d, Increasing
<1> QED BY <1>2, <1>14, <1>15, <1>16

LEMMA RowsHandled ==
  ASSUME WalkTyped, OffsetsAddUp, HandleChunk PROVE OffsetsAddUp'
<1>1. /\ UNCHANGED <<rows, touched>> /\ walk.pc = "fetched" /\ walk.how = "chunk"
      /\ walk'.how = "chunk" /\ walk'.size = walk.size /\ given' = given \o walk.data
      /\ LastOfAll => walk'.pc = "done"
      /\ ~LastOfAll => walk'.pc = "start" /\ walk'.page = walk.page + 1
  BY HandleChunkTyped
<1>2. /\ Increasing(walk.data)
      /\ LastOfAll => ReadAll
      /\ ~LastOfAll => ReadUpTo(walk.page * Size)
  BY <1>1 DEF OffsetsAddUp
<1>3. given \in Seq(Keys) /\ walk.data \in Seq(Keys) /\ Size' = Size /\ walk.page \in Nat \ {0} /\ Size \in Nat \ {0}
  BY <1>1 DEF WalkTyped, WalkRecords, Size
<1>4. Fetched = walk.data /\ Fetched' = <<>>
  BY <1>1 DEF Fetched
<1>5. ASSUME NEW k PROVE (Handed(k)' <=> Handed(k)) /\ TimesNow(k)' = TimesNow(k)
  <2>1. Holds(given', k) <=> Holds(given, k) \/ Holds(walk.data, k)
    BY <1>1, <1>3, ConcatIs
  <2>2. ~Holds(<<>>, k)
    BY DEF Holds
  <2>3. (Handed(k)' <=> Holds(given', k) \/ Holds(Fetched', k)) /\ (Handed(k) <=> Holds(given, k) \/ Holds(Fetched, k))
    BY DEF Handed, Holds
  <2>4. Handed(k)' <=> Handed(k)
    BY <1>4, <2>1, <2>2, <2>3
  <2>5. TimesIn(given', k) = TimesIn(given, k) + IF Holds(walk.data, k) THEN 1 ELSE 0
    BY <1>1, <1>2, <1>3, TimesAppended
  <2>6. Times(k)' = TimesIn(given', k) /\ Times(k) = TimesIn(given, k)
    BY DEF Times, TimesIn
  <2>7. /\ TimesNow(k)' = Times(k)' + IF Holds(Fetched', k) THEN 1 ELSE 0
        /\ TimesNow(k) = Times(k) + IF Holds(Fetched, k) THEN 1 ELSE 0
    BY DEF TimesNow, Holds
  <2>8. Times(k) \in Nat
    BY TimesNowIsNumber
  <2>9. TimesNow(k)' = TimesNow(k)
    BY <1>4, <2>2, <2>5, <2>6, <2>7, <2>8
  <2> QED BY <2>4, <2>9
<1>6. Old' = Old /\ Deleted' = Deleted /\ Inserted' = Inserted
  BY <1>1 DEF Old, Deleted, Inserted
<1>7. CASE LastOfAll
  <2>1. {k \in Old' : ~Handed(k)'} = {k \in Old : ~Handed(k)}
    BY <1>5, <1>6
  <2>2. ReadAll'
    BY <1>1, <1>2, <1>5, <1>7, <2>1 DEF ReadAll
  <2> QED BY <1>1, <1>7, <2>2 DEF OffsetsAddUp
<1>8. CASE ~LastOfAll
  <2> DEFINE P == walk.page * Size
  <2>1. (walk'.page - 1) * Size' = P
    BY <1>1, <1>3, <1>8
  <2>2. {k \in Old' : Before(rows', k) < P /\ ~Handed(k)'} = {k \in Old : Before(rows, k) < P /\ ~Handed(k)}
    BY <1>1, <1>5, <1>6
  <2>3. ReadUpTo(P)
    BY <1>2, <1>8
  <2> HIDE DEF P
  <2>4. ReadUpTo((walk.page - 1) * Size)'
    BY <1>1, <1>5, <1>6, <2>1, <2>2, <2>3 DEF ReadUpTo
  <2> QED BY <1>1, <1>8, <2>4 DEF OffsetsAddUp
<1> QED BY <1>7, <1>8

----------------------------------------------------------------------------
\* Nothing written: the table as it is, page by page.
LEMMA QuietFetched ==
  ASSUME WalkTyped, OffsetsAddUp, QuietSoFar, FetchPage PROVE QuietSoFar'
<1>1. /\ UNCHANGED <<rows, given, touched>> /\ walk.pc = "counted" /\ walk.how = "chunk"
      /\ walk'.how = "chunk" /\ walk'.pc = "fetched" /\ walk'.page = walk.page /\ walk'.size = walk.size
      /\ walk'.lastPage = walk.lastPage /\ walk'.data = Page(rows, walk.page, walk.lastPage)
  BY FetchPageTyped
<1> SUFFICES ASSUME touched = {} PROVE QuietSoFar'
  BY <1>1 DEF QuietSoFar
<1> DEFINE n == Cardinality(rows)
           q == walk.lastPage
           page == walk.page
           P == (page - 1) * Size
           d == walk'.data
           o == Ordered(rows)
<1>2. /\ Size \in Nat \ {0} /\ page \in Nat \ {0} /\ q \in Nat /\ rows \subseteq Keys /\ Size' = Size
      /\ given \in Seq(Keys) /\ d \in Seq(Keys)
  <2>1. WalkTyped'
    BY FetchPageTyped
  <2> QED BY <1>1, <2>1 DEF WalkTyped, WalkRecords, Size
<1>3. n \in Nat /\ Inserted = 0 /\ Deleted = 0
  <2>1. touched \cap rows = {} /\ touched \ rows = {}
    OBVIOUS
  <2> QED BY <1>2, <2>1, SubsetsOfKeys, FS_EmptySet DEF Inserted, Deleted
<1>4. /\ Len(given) = MinOf(P, n) /\ \A i \in 1 .. Len(given) : given[i] = o[i]
      /\ q = LastPage(n)
  BY <1>1 DEF QuietSoFar, IsTable
<1>5. page <= q /\ q >= 1
  <2>1. walk.page > walk.lastPage => Deleted > 0
    BY <1>1 DEF OffsetsAddUp
  <2>2. walk.lastPage >= 1
    BY <1>1 DEF OffsetsAddUp
  <2> QED BY <1>2, <1>3, <2>1, <2>2
<1>6. P \in Nat /\ page * Size = P + Size
  BY <1>2
<1>7. d = Slice(rows, P, Size)
  <2>1. MaxOf(1, MinOf(page, q)) = page
    BY <1>2, <1>5 DEF MaxOf, MinOf
  <2> QED BY <1>1, <2>1 DEF Page
<1>8. /\ Len(d) = MinOf(Size, MaxOf(0, n - P))
      /\ \A i \in 1 .. Len(d) : P + i \in 1 .. n /\ d[i] = o[P + i]
  <2>1. rows \subseteq Int /\ IsFiniteSet(rows)
    BY <1>2, SubsetsOfKeys
  <2>2. P \in Nat /\ Size \in Nat
    BY <1>2, <1>6
  <2> HIDE DEF P, d, o, n
  <2>3. /\ Len(Slice(rows, P, Size)) = MinOf(Size, MaxOf(0, Cardinality(rows) - P))
        /\ \A i \in 1 .. Len(Slice(rows, P, Size)) :
             P + i \in 1 .. Cardinality(rows) /\ Slice(rows, P, Size)[i] = Ordered(rows)[P + i]
    BY <2>1, <2>2, SliceIs
  <2> QED BY <1>7, <2>3 DEF n, o
<1>9. /\ Len(given \o d) = Len(given) + Len(d)
      /\ \A i \in 1 .. Len(given) : (given \o d)[i] = given[i]
      /\ \A i \in 1 .. Len(d) : (given \o d)[Len(given) + i] = d[i]
      /\ \A i \in 1 .. Len(given \o d) : i \in 1 .. Len(given) \/ \E j \in 1 .. Len(d) : i = Len(given) + j
  BY <1>2, ConcatIs
<1>10. q * Size >= n /\ q * Size \in Nat
  <2>1. n <= MaxOf(1, (n + Size - 1) \div Size) * Size
    <3> HIDE DEF n
    <3> QED BY <1>2, <1>3, PagesCover
  <2> QED BY <1>2, <1>3, <1>4, <2>1 DEF LastPage
<1> HIDE DEF n, q, page, P, d, o
<1>11. Len(given \o d) = MinOf(page * Size, n)
  BY <1>2, <1>3, <1>4, <1>6, <1>8, <1>9 DEF MinOf, MaxOf
<1>12. ASSUME NEW i \in 1 .. Len(given \o d) PROVE (given \o d)[i] = o[i]
  <2>1. CASE i \in 1 .. Len(given)
    BY <1>4, <1>9, <2>1
  <2>2. ASSUME NEW j \in 1 .. Len(d), i = Len(given) + j PROVE (given \o d)[i] = o[i]
    <3>1. P + j \in 1 .. n /\ d[j] = o[P + j]
      BY <1>8
    <3>2. Len(given) = P
      <4>1. j >= 1 /\ j \in Nat
        OBVIOUS
      <4> QED BY <1>3, <1>4, <1>6, <3>1, <4>1 DEF MinOf
    <3> QED BY <1>9, <2>2, <3>1, <3>2
  <2> QED BY <1>9, <2>1, <2>2
<1>13. d = <<>> \/ page >= q => n <= page * Size
  <2>1. CASE d = <<>>
    <3>1. MinOf(Size, MaxOf(0, n - P)) = 0
      BY <1>8, <2>1
    <3> QED BY <1>2, <1>3, <1>6, <3>1 DEF MinOf, MaxOf
  <2>2. CASE page >= q
    <3>1. page = q
      BY <1>2, <1>5, <2>2
    <3> QED BY <1>3, <1>10, <3>1
  <2> QED BY <2>1, <2>2
<1>14. IsTable(given \o walk.data, walk.page * Size)'
  BY <1>1, <1>2, <1>11, <1>12 DEF IsTable, n, d, o, page
<1>15. LastOfAll' => Cardinality(rows') <= walk'.page * Size'
  BY <1>1, <1>2, <1>13 DEF LastOfAll, n, d, q, page
<1> QED BY <1>1, <1>14, <1>15 DEF QuietSoFar

LEMMA QuietHandled ==
  ASSUME WalkTyped, QuietSoFar, HandleChunk PROVE QuietSoFar'
<1>1. /\ UNCHANGED <<rows, touched>> /\ walk.pc = "fetched" /\ walk.how = "chunk"
      /\ walk'.how = "chunk" /\ walk'.size = walk.size /\ given' = given \o walk.data
      /\ LastOfAll => walk'.pc = "done"
      /\ ~LastOfAll => walk'.pc = "start" /\ walk'.page = walk.page + 1
  BY HandleChunkTyped
<1> SUFFICES ASSUME touched = {} PROVE QuietSoFar'
  BY <1>1 DEF QuietSoFar
<1>2. Size \in Nat \ {0} /\ walk.page \in Nat \ {0} /\ rows \subseteq Keys /\ Size' = Size
  BY <1>1 DEF WalkTyped, WalkRecords, Size
<1>3. /\ Len(given') = MinOf(walk.page * Size, Cardinality(rows))
      /\ \A i \in 1 .. Len(given') : given'[i] = Ordered(rows)[i]
      /\ LastOfAll => Cardinality(rows) <= walk.page * Size
  BY <1>1 DEF QuietSoFar, IsTable
<1>4. CASE ~LastOfAll
  <2>1. (walk'.page - 1) * Size' = walk.page * Size
    <3>1. walk'.page - 1 = walk.page
      BY <1>1, <1>2, <1>4
    <3> QED BY <1>2, <3>1
  <2>2. IsTable(given, (walk.page - 1) * Size)'
    BY <1>1, <1>3, <2>1 DEF IsTable
  <2> QED BY <1>1, <1>4, <2>2 DEF QuietSoFar
<1>5. CASE LastOfAll
  <2> DEFINE n == Cardinality(rows)
             P == walk.page * Size
             o == Ordered(rows)
  <2>1. n \in Nat /\ o \in Seq(rows) /\ Len(o) = n
    <3>1. rows \subseteq Int /\ IsFiniteSet(rows)
      BY <1>2, SubsetsOfKeys
    <3> QED BY <3>1, OrderedIs
  <2>2. P \in Nat
    BY <1>2
  <2>3. n <= P
    BY <1>3, <1>5
  <2>4. given' \in Seq(Keys)
    BY HandleChunkTyped DEF WalkTyped
  <2> HIDE DEF n, P, o
  <2>5. Len(given') = n
    BY <1>3, <2>1, <2>2, <2>3 DEF MinOf, n, P
  <2>6. given' = o
    <3>1. \A i \in 1 .. n : given'[i] = o[i]
      BY <1>3, <2>5 DEF o
    <3>2. given' = [i \in 1 .. n |-> given'[i]] /\ o = [i \in 1 .. n |-> o[i]]
      BY <2>1, <2>4, <2>5
    <3> QED BY <3>1, <3>2
  <2> QED BY <1>1, <1>5, <2>6 DEF QuietSoFar, o
<1> QED BY <1>4, <1>5

LEMMA QuietCounted ==
  ASSUME WalkTyped, QuietSoFar, CountRows PROVE QuietSoFar'
<1>1. /\ UNCHANGED <<rows, given, touched>> /\ walk.pc = "start" /\ walk.how = "chunk"
      /\ walk'.how = "chunk" /\ walk'.pc = "counted" /\ walk'.page = walk.page /\ walk'.size = walk.size
      /\ walk'.lastPage = LastPage(Cardinality(rows))
  BY CountRowsTyped
<1> SUFFICES ASSUME touched = {} PROVE QuietSoFar'
  BY <1>1 DEF QuietSoFar
<1>2. IsTable(given, (walk.page - 1) * Size)
  BY <1>1 DEF QuietSoFar
<1>3. Size' = Size
  BY <1>1 DEF Size
<1>4. IsTable(given, (walk.page - 1) * Size)'
  BY <1>1, <1>2, <1>3 DEF IsTable
<1>5. LastPage(Cardinality(rows))' = LastPage(Cardinality(rows))
  BY <1>1, <1>3 DEF LastPage
<1> QED BY <1>1, <1>4, <1>5 DEF QuietSoFar

----------------------------------------------------------------------------
LEMMA SnapshotAgrees ==
  ASSUME WalkTyped, PaginateInTransaction PROVE SnapshotPageAgrees'
<1>1. /\ UNCHANGED <<rows, given, touched>> /\ walk.how = "paginateTx" /\ walk'.how = "paginateTx"
      /\ walk'.pc = "done" /\ walk'.page = walk.page /\ walk'.size = walk.size
      /\ walk'.total = Cardinality(rows) /\ walk'.lastPage = LastPage(Cardinality(rows))
      /\ walk'.data = Page(rows, walk.page, LastPage(Cardinality(rows)))
  BY PaginateTyped
<1> DEFINE n == Cardinality(rows)
           q == LastPage(n)
           p == MinOf(walk.page, q)
           d == walk'.data
<1>2. n \in Nat /\ Size \in Nat \ {0} /\ walk.page \in Nat \ {0} /\ Size' = Size /\ rows \subseteq Keys
  BY <1>1, SubsetsOfKeys DEF WalkTyped, WalkRecords, Size
<1>3. q \in Nat \ {0} /\ n <= q * Size /\ (q > 1 => (q - 1) * Size < n)
  <2>1. q = MaxOf(1, (n + Size - 1) \div Size)
    BY DEF LastPage
  <2> HIDE DEF n, q
  <2> QED BY <1>2, <2>1, PagesCover
<1> HIDE DEF n, q
<1>4. p \in Nat \ {0} /\ p <= q /\ MaxOf(1, MinOf(walk.page, q)) = p
  BY <1>2, <1>3 DEF MinOf, MaxOf
<1> HIDE DEF p
<1>5. (p - 1) * Size \in Nat /\ (p > 1 => (p - 1) * Size < n)
  <2>1. (p - 1) * Size \in Nat
    BY <1>2, <1>4
  <2>2. ASSUME p > 1 PROVE (p - 1) * Size < n
    <3>1. p - 1 \in Nat /\ q - 1 \in Nat /\ p - 1 <= q - 1 /\ q > 1
      BY <1>3, <1>4, <2>2
    <3>2. (p - 1) * Size <= (q - 1) * Size /\ (q - 1) * Size \in Nat
      BY <1>2, <3>1
    <3> QED BY <1>2, <1>3, <2>1, <3>1, <3>2
  <2> QED BY <2>1, <2>2
<1>6. d = Slice(rows, (p - 1) * Size, Size)
  BY <1>1, <1>4 DEF Page, n, q
<1>7. Len(d) = MinOf(Size, MaxOf(0, n - (p - 1) * Size))
  <2>1. rows \subseteq Int /\ IsFiniteSet(rows)
    BY <1>2, SubsetsOfKeys
  <2> HIDE DEF d
  <2> QED BY <1>2, <1>5, <1>6, <2>1, SliceIs DEF n
<1> DEFINE O == (p - 1) * Size
<1>8. O <= n /\ (n > 0 => O < n)
  <2>1. CASE p = 1
    <3>1. O = 0
      BY <1>2, <2>1
    <3> QED BY <1>2, <3>1
  <2>2. CASE p > 1
    BY <1>2, <1>5, <2>2
  <2> QED BY <1>4, <2>1, <2>2
<1>9. O \in Nat
  BY <1>5
<1> HIDE DEF O, d
<1>10. Len(d) = MinOf(Size, n - O) /\ (n > 0 => d # <<>>)
  <2>1. Len(d) = MinOf(Size, MaxOf(0, n - O))
    BY <1>7 DEF O
  <2>2. MaxOf(0, n - O) = n - O
    BY <1>2, <1>8, <1>9 DEF MaxOf
  <2>3. n > 0 => MinOf(Size, n - O) > 0
    BY <1>2, <1>8, <1>9 DEF MinOf
  <2>4. d = <<>> => Len(d) = 0
    OBVIOUS
  <2> QED BY <2>1, <2>2, <2>3, <2>4
<1>11. walk'.total = n /\ MinOf(walk'.page, walk'.lastPage) = p
  BY <1>1 DEF n, q, p
<1> QED BY <1>1, <1>2, <1>10, <1>11 DEF SnapshotPageAgrees, O, d

----------------------------------------------------------------------------
LEMMA WalkInvInit == WalkInit => WalkInv
<1> SUFFICES ASSUME WalkInit PROVE WalkInv
  OBVIOUS
<1>1. WalkTyped
  BY WalkTypedInit
<1>2. PICK how \in Walks, size \in Sizes, page \in 1 .. 2 :
        /\ how = "paginateTx" \/ page = 1
        /\ walk = [how |-> how, size |-> size, pc |-> "start", page |-> page, cursor |-> None,
                   lastPage |-> 0, total |-> 0, data |-> <<>>]
  BY DEF WalkInit
<1>3. /\ given = <<>> /\ touched = {} /\ walk.pc = "start" /\ walk.cursor = -1
      /\ walk.how = "chunk" => walk.page = 1
  BY <1>2 DEF WalkInit
<1>4. \A k : ~Holds(<<>>, k)
  BY DEF Holds
<1>5. KeysInOrder
  <2>1. \A k \in Old : ~(k <= walk.cursor)
    <3>1. Old \subseteq Keys
      BY <1>1 DEF WalkTyped, Old
    <3>2. \A k \in Keys : ~(k <= -1)
      BY KeysAreNumbers
    <3> QED BY <1>3, <3>1, <3>2
  <2> QED BY <1>3, <2>1 DEF KeysInOrder, Increasing
<1>6. ASSUME walk.how = "chunk" PROVE ReadUpTo((walk.page - 1) * Size)
  <2>1. (walk.page - 1) * Size = 0
    <3>1. walk.page = 1
      BY <1>3, <1>6
    <3>2. Size \in Nat \ {0}
      BY <1>1 DEF WalkTyped, WalkRecords, Size
    <3> QED BY <3>1, <3>2
  <2>2. \A k : TimesNow(k) = 0
    <3> TAKE k
    <3>1. Times(k) = 0
      <4>1. TimesIn(<<>>, k) = 0
        <5>1. <<>> \in Seq(Keys)
          OBVIOUS
        <5> QED BY <1>4, <5>1, TimesInIs
      <4> QED BY <1>3, <4>1 DEF Times, TimesIn
    <3>2. Fetched = <<>>
      BY <1>3 DEF Fetched
    <3> QED BY <1>4, <3>1, <3>2 DEF TimesNow
  <2>3. Inserted \in Nat /\ Deleted \in Nat
    BY <1>1, CountsAddUp
  <2>4. {k \in Old : Before(rows, k) < 0 /\ ~Handed(k)} = {}
    <3>1. \A k \in rows : ~(Before(rows, k) < 0)
      <4>1. rows \subseteq Keys
        BY <1>1 DEF WalkTyped
      <4>2. \A k \in rows : Before(rows, k) \in 0 .. Cardinality(rows) - 1
        BY <4>1, BeforeIs
      <4>3. Cardinality(rows) \in Nat
        BY <4>1, BeforeIs
      <4> QED BY <4>2, <4>3
    <3> QED BY <3>1 DEF Old
  <2>5. Cardinality({}) = 0
    BY FS_EmptySet
  <2>6. ReadUpTo(0)
    BY <2>2, <2>3, <2>4, <2>5 DEF ReadUpTo
  <2> QED BY <2>1, <2>6
<1>7. OffsetsAddUp
  BY <1>3, <1>6 DEF OffsetsAddUp
<1>8. ASSUME walk.how = "chunk" PROVE IsTable(given, (walk.page - 1) * Size)
  <2>1. (walk.page - 1) * Size = 0
    <3>1. walk.page = 1
      BY <1>3, <1>8
    <3>2. Size \in Nat \ {0}
      BY <1>1 DEF WalkTyped, WalkRecords, Size
    <3> QED BY <3>1, <3>2
  <2>2. MinOf(0, Cardinality(rows)) = 0
    <3>1. Cardinality(rows) \in Nat
      BY <1>1, SubsetsOfKeys DEF WalkTyped
    <3> QED BY <3>1 DEF MinOf
  <2> QED BY <1>3, <2>1, <2>2 DEF IsTable
<1>9. QuietSoFar
  BY <1>3, <1>8 DEF QuietSoFar
<1>10. SnapshotPageAgrees
  BY <1>3 DEF SnapshotPageAgrees
<1> QED BY <1>1, <1>5, <1>7, <1>9, <1>10 DEF WalkInv

LEMMA WalkInvNext == WalkInv /\ [WalkNext]_walkVars => WalkInv'
<1> SUFFICES ASSUME WalkInv, [WalkNext]_walkVars PROVE WalkInv'
  OBVIOUS
<1>0. WalkTyped /\ KeysInOrder /\ OffsetsAddUp /\ QuietSoFar /\ SnapshotPageAgrees
  BY DEF WalkInv
<1>1. CASE UNCHANGED walkVars
  <2>1. UNCHANGED <<rows, walk, given, touched>>
    BY <1>1 DEF walkVars
  <2>2. WalkTyped' /\ Size' = Size /\ Old' = Old /\ Inserted' = Inserted /\ Deleted' = Deleted
    BY <1>0, <2>1 DEF WalkTyped, Size, Old, Inserted, Deleted
  <2>3. KeysInOrder' /\ SnapshotPageAgrees'
    BY <1>0, <2>1, <2>2 DEF KeysInOrder, SnapshotPageAgrees, Holds
  <2>4. \A k : (Handed(k)' <=> Handed(k)) /\ TimesNow(k)' = TimesNow(k)
    BY <2>1 DEF Handed, TimesNow, Times, Holds, Fetched
  <2>5. \A m : ReadUpTo(m)' <=> ReadUpTo(m)
    <3> TAKE m
    <3>1. {k \in Old' : Before(rows', k) < m /\ ~Handed(k)'} = {k \in Old : Before(rows, k) < m /\ ~Handed(k)}
      BY <2>1, <2>2, <2>4
    <3> QED BY <2>1, <2>2, <2>4, <3>1 DEF ReadUpTo
  <2>6. ReadAll' <=> ReadAll
    <3>1. {k \in Old' : ~Handed(k)'} = {k \in Old : ~Handed(k)}
      BY <2>2, <2>4
    <3> QED BY <2>1, <2>4, <3>1 DEF ReadAll
  <2>7. (ReadUpTo((walk.page - 1) * Size)' <=> ReadUpTo((walk.page - 1) * Size))
        /\ (ReadUpTo(walk.page * Size)' <=> ReadUpTo(walk.page * Size))
    BY <2>1, <2>2, <2>5
  <2>8. LastOfAll' <=> LastOfAll
    BY <2>1 DEF LastOfAll
  <2>9. OffsetsAddUp'
    BY <1>0, <2>1, <2>2, <2>6, <2>7, <2>8 DEF OffsetsAddUp, Increasing
  <2>10. QuietSoFar'
    BY <1>0, <2>1, <2>2, <2>8 DEF QuietSoFar, IsTable, LastPage
  <2> QED BY <2>2, <2>3, <2>9, <2>10 DEF WalkInv
<1>2. CASE CountRows
  <2>1. WalkTyped' /\ walk'.how = "chunk"
    BY <1>0, <1>2, CountRowsTyped
  <2>2. OffsetsAddUp' /\ QuietSoFar'
    BY <1>0, <1>2, RowsCounted, QuietCounted
  <2> QED BY <2>1, <2>2 DEF WalkInv, KeysInOrder, SnapshotPageAgrees
<1>3. CASE FetchPage
  <2>1. WalkTyped' /\ walk'.how = "chunk"
    BY <1>0, <1>3, FetchPageTyped
  <2>2. OffsetsAddUp' /\ QuietSoFar'
    BY <1>0, <1>3, RowsFetched, QuietFetched
  <2> QED BY <2>1, <2>2 DEF WalkInv, KeysInOrder, SnapshotPageAgrees
<1>4. CASE PaginateInTransaction
  <2>1. WalkTyped' /\ walk'.how = "paginateTx"
    BY <1>0, <1>4, PaginateTyped
  <2>2. SnapshotPageAgrees'
    BY <1>0, <1>4, SnapshotAgrees
  <2> QED BY <2>1, <2>2 DEF WalkInv, KeysInOrder, OffsetsAddUp, QuietSoFar
<1>5. CASE HandleChunk
  <2>1. WalkTyped' /\ walk'.how = "chunk"
    BY <1>0, <1>5, HandleChunkTyped
  <2>2. OffsetsAddUp' /\ QuietSoFar'
    BY <1>0, <1>5, RowsHandled, QuietHandled
  <2> QED BY <2>1, <2>2 DEF WalkInv, KeysInOrder, SnapshotPageAgrees
<1>6. CASE FetchAfterCursor
  <2>1. WalkTyped' /\ walk'.how = "chunkById"
    BY <1>0, <1>6, FetchAfterCursorTyped
  <2>2. KeysInOrder'
    BY <1>0, <1>6, KeysAfterCursor
  <2> QED BY <2>1, <2>2 DEF WalkInv, OffsetsAddUp, QuietSoFar, SnapshotPageAgrees
<1>7. CASE HandleKeyed
  <2>1. WalkTyped' /\ walk'.how = "chunkById"
    BY <1>0, <1>7, HandleKeyedTyped
  <2>2. KeysInOrder'
    BY <1>0, <1>7, KeysHandled
  <2> QED BY <2>1, <2>2 DEF WalkInv, OffsetsAddUp, QuietSoFar, SnapshotPageAgrees
<1>8. CASE FetchLazy
  <2>1. WalkTyped' /\ walk'.how = "lazy"
    BY <1>0, <1>8, FetchLazyTyped
  <2>2. KeysInOrder'
    BY <1>0, <1>8, KeysLazy
  <2> QED BY <2>1, <2>2 DEF WalkInv, OffsetsAddUp, QuietSoFar, SnapshotPageAgrees
<1>9. ASSUME NEW k \in Keys \ touched, Write(k) PROVE WalkInv'
  <2>1. /\ WalkTyped' /\ UNCHANGED <<walk, given>> /\ walk.pc # "done"
        /\ touched' = touched \cup {k}
    BY <1>0, <1>9, WriteTyped
  <2>2. KeysInOrder' /\ OffsetsAddUp'
    BY <1>0, <1>9, KeysWritten, RowsWritten
  <2>3. QuietSoFar' /\ SnapshotPageAgrees'
    BY <2>1 DEF QuietSoFar, SnapshotPageAgrees
  <2> QED BY <2>1, <2>2, <2>3 DEF WalkInv
<1> QED
  BY <1>1, <1>2, <1>3, <1>4, <1>5, <1>6, <1>7, <1>8, <1>9 DEF WalkNext, WalkStep

\* The invariant says what a walk owes.
LEMMA WalkInvMeans == WalkInv => WalkTypes /\ WalksAccountForRows
<1> SUFFICES ASSUME WalkInv PROVE WalkTypes /\ WalksAccountForRows
  OBVIOUS
<1>0. WalkTyped /\ KeysInOrder /\ OffsetsAddUp /\ QuietSoFar /\ SnapshotPageAgrees
  BY DEF WalkInv
<1>1. /\ walk \in WalkRecords /\ given \in Seq(Keys) /\ rows \subseteq Keys /\ touched \subseteq Keys
  BY <1>0 DEF WalkTyped
<1>2. DOMAIN given = 1 .. Len(given)
  BY <1>1
<1>3. WalkTypes
  BY <1>1 DEF WalkTypes, WalkRecords, Size
<1>4. \A k : Times(k) = TimesIn(given, k)
  BY DEF Times, TimesIn
<1>5. KeyWalkIsComplete
  <2>1. SUFFICES ASSUME walk.how \in {"chunkById", "lazy"} PROVE KeyWalkIsComplete
    BY DEF KeyWalkIsComplete
  <2>2. Increasing(given)
    BY <1>0, <2>1 DEF KeysInOrder
  <2>3. ASSUME walk.pc = "done", ~(walk.how = "chunkById" /\ walk.cursor = 0), NEW k \in rows \ touched
        PROVE  Times(k) = 1
    <3>1. Holds(given, k)
      BY <1>0, <2>1, <2>3 DEF KeysInOrder, Old
    <3> QED BY <1>1, <1>4, <2>2, <3>1, TimesInIs
  <2>4. \A i, j \in DOMAIN given : i < j => given[i] < given[j]
    BY <1>2, <2>2 DEF Increasing
  <2> QED BY <2>3, <2>4 DEF KeyWalkIsComplete
<1>6. QuietChunkIsComplete
  BY <1>0 DEF QuietSoFar, QuietChunkIsComplete
<1>7. ChunkErrorIsBounded
  <2>1. SUFFICES ASSUME walk.how = "chunk" PROVE ChunkErrorIsBounded
    BY DEF ChunkErrorIsBounded
  <2>2. Inserted \in Nat /\ Deleted \in Nat /\ Cardinality(touched) = Inserted + Deleted
    BY <1>0, CountsAddUp
  <2>3. \A k : TimesNow(k) \in Nat /\ Times(k) \in Nat /\ Times(k) <= TimesNow(k)
    BY <1>0, TimesNowIsNumber
  <2>4. \A k \in Keys : TimesNow(k) <= 1 + Cardinality(touched)
    <3>1. CASE ReadAll
      BY <3>1 DEF ReadAll
    <3>2. ASSUME NEW m, ReadUpTo(m) PROVE \A k \in Keys : TimesNow(k) <= 1 + Cardinality(touched)
      <4>1. \A k \in Keys : TimesNow(k) <= 1 + Inserted
        BY <3>2 DEF ReadUpTo
      <4> QED BY <2>2, <2>3, <4>1
    <3>3. walk.pc \in {"start", "counted", "fetched", "done"}
      BY <1>0, <1>1, <2>1 DEF WalkTyped, WalkRecords
    <3> QED BY <1>0, <2>1, <3>1, <3>2, <3>3 DEF OffsetsAddUp
  <2>5. \A k \in Keys : Times(k) <= 1 + Cardinality(touched)
    BY <2>2, <2>3, <2>4
  <2>6. ASSUME walk.pc = "done"
        PROVE  Cardinality({k \in rows \ touched : Times(k) = 0}) <= Cardinality(touched)
    <3>1. ReadAll
      BY <1>0, <2>1, <2>6 DEF OffsetsAddUp
    <3>2. \A k : Handed(k) <=> Times(k) # 0
      <4> TAKE k
      <4>1. ~Holds(Fetched, k)
        BY <2>6 DEF Fetched, Holds
      <4>2. Handed(k) <=> Holds(given, k)
        BY <4>1 DEF Handed
      <4> QED BY <1>1, <1>4, <4>2, TimesInIs
    <3>3. {k \in rows \ touched : Times(k) = 0} = {k \in Old : ~Handed(k)}
      BY <3>2 DEF Old
    <3> QED BY <3>1, <3>3 DEF ReadAll
  <2> QED BY <2>5, <2>6 DEF ChunkErrorIsBounded
<1> QED BY <1>0, <1>3, <1>5, <1>6, <1>7 DEF WalksAccountForRows

HIDE WalkAssumption DEF None

----------------------------------------------------------------------------
(* begin() and savepoint() on the one connection.                            *)

Entry == [name : Int, saved : SUBSET Statements]

----------------------------------------------------------------------------
(* The engine, when its stack mirrors the open calls.                        *)

LEMMA EngineFields ==
  ASSUME NEW e \in Engine
  PROVE  /\ e.durable \in SUBSET Statements /\ e.visible \in SUBSET Statements
         /\ e.stack \in Seq(Entry) /\ Len(e.stack) \in Nat
         /\ DOMAIN e.stack = 1 .. Len(e.stack)
         /\ \A i \in 1 .. Len(e.stack) : e.stack[i] \in Entry
         /\ e.stack = <<>> <=> Len(e.stack) = 0
<1>1. e.stack \in Seq(Entry)
  BY DEF Engine, Entry
<1> QED BY <1>1, LenProperties, ElementOfSeq, EmptySeq DEF Engine

\* The newest savepoint of the last entry's name is the last entry.
LEMMA NewestIsLast ==
  ASSUME NEW e \in Engine, e.stack # <<>>
  PROVE  /\ Newest(e, e.stack[Len(e.stack)].name) = Len(e.stack)
         /\ Named(e, e.stack[Len(e.stack)].name) # {}
<1> DEFINE n == Len(e.stack) name == e.stack[n].name
<1>1. n \in Nat /\ n >= 1 /\ DOMAIN e.stack = 1 .. n
  BY EngineFields
<1>2. n \in Named(e, name) /\ \A j \in Named(e, name) : j \in 1 .. n
  BY <1>1 DEF Named
<1> HIDE DEF n, name
<1>3. \A i \in Named(e, name) : (\A j \in Named(e, name) : j <= i) => i = n
  BY <1>1, <1>2
<1>4. \A j \in Named(e, name) : j <= n
  BY <1>1, <1>2
<1> QED BY <1>2, <1>3, <1>4 DEF Newest, n, name

\* What RELEASE of the last savepoint leaves.
LEMMA ReleaseLast ==
  ASSUME NEW e \in Engine, Len(e.stack) > 1, NEW name, name = e.stack[Len(e.stack)].name
  PROVE  /\ Release(e, name) \in Engine
         /\ Release(e, name).durable = e.durable /\ Release(e, name).visible = e.visible
         /\ Len(Release(e, name).stack) = Len(e.stack) - 1
         /\ \A i \in 1 .. Len(e.stack) - 1 : Release(e, name).stack[i] = e.stack[i]
<1> DEFINE n == Len(e.stack) rest == SubSeq(e.stack, 1, n - 1)
<1>1. n \in Nat /\ n > 1 /\ \A i \in 1 .. n : e.stack[i] \in Entry
  BY EngineFields
<1>2. Newest(e, name) = n
  BY NewestIsLast, EngineFields
<1>3. rest \in Seq(Entry) /\ Len(rest) = n - 1 /\ \A i \in 1 .. n - 1 : rest[i] = e.stack[i]
  <2>1. \A i \in 1 .. n - 1 : e.stack[i] \in Entry
    BY <1>1
  <2>2. rest \in Seq(Entry) /\ Len(rest) = (IF 1 <= n - 1 THEN n - 1 - 1 + 1 ELSE 0)
        /\ \A i \in 1 .. n - 1 - 1 + 1 : rest[i] = e.stack[1 + i - 1]
    BY <1>1, <2>1, SubSeqProperties
  <2> QED BY <1>1, <2>2
<1>4. Release(e, name) = [e EXCEPT !.stack = rest]
  BY <1>1, <1>2 DEF Release
<1> HIDE DEF rest
<1>5. [e EXCEPT !.stack = rest] \in Engine
  BY <1>3 DEF Engine, Entry
<1> QED BY <1>3, <1>4, <1>5 DEF Engine

\* What ROLLBACK TO the last savepoint and its RELEASE leave.
LEMMA RollbackToLast ==
  ASSUME NEW e \in Engine, Len(e.stack) > 1, NEW name, name = e.stack[Len(e.stack)].name,
         NEW r, r = Release(RollbackTo(e, name), name)
  PROVE  /\ r \in Engine
         /\ r.durable = e.durable /\ r.visible = e.stack[Len(e.stack)].saved
         /\ Len(r.stack) = Len(e.stack) - 1
         /\ \A i \in 1 .. Len(e.stack) - 1 : r.stack[i] = e.stack[i]
<1> DEFINE n == Len(e.stack) b == [e EXCEPT !.visible = e.stack[n].saved]
<1>1. n \in Nat /\ n > 1 /\ e.stack[n] \in Entry /\ e.stack \in Seq(Entry)
  BY EngineFields
<1>2. Newest(e, name) = n
  BY NewestIsLast, EngineFields
<1>3. SubSeq(e.stack, 1, n) = e.stack
  BY <1>1, SubSeqFull
<1>4. RollbackTo(e, name) = [e EXCEPT !.visible = e.stack[n].saved, !.stack = e.stack]
  BY <1>2, <1>3 DEF RollbackTo
<1>5. [e EXCEPT !.visible = e.stack[n].saved, !.stack = e.stack] = b
  BY DEF Engine
<1>6. b \in Engine /\ b.stack = e.stack /\ b.durable = e.durable /\ b.visible = e.stack[n].saved
  BY <1>1 DEF Engine, Entry
<1> HIDE DEF b
<1>7. r = Release(b, name) /\ Len(b.stack) > 1 /\ name = b.stack[Len(b.stack)].name
  BY <1>1, <1>4, <1>5, <1>6
<1> QED BY <1>6, <1>7, ReleaseLast

\* What RELEASE of the only entry, and ROLLBACK TO it, leave.
LEMMA OnlyEntry ==
  ASSUME NEW e \in Engine, Len(e.stack) = 1, NEW name, name = e.stack[1].name
  PROVE  /\ Named(e, name) # {} /\ Newest(e, name) = 1
         /\ Release(e, name) = Commit(e)
         /\ Release(RollbackTo(e, name), name) =
              [durable |-> e.stack[1].saved, visible |-> e.stack[1].saved, stack |-> <<>>]
<1>1. e.stack # <<>> /\ e.stack \in Seq(Entry) /\ e.stack[1] \in Entry
  BY EngineFields
<1>2. Newest(e, name) = 1 /\ Named(e, name) # {}
  BY <1>1, NewestIsLast
<1> DEFINE b == [e EXCEPT !.visible = e.stack[1].saved]
<1>3. SubSeq(e.stack, 1, 1) = e.stack
  BY <1>1, SubSeqFull
<1>4. RollbackTo(e, name) = [e EXCEPT !.visible = e.stack[1].saved, !.stack = e.stack]
  BY <1>2, <1>3 DEF RollbackTo
<1>5. [e EXCEPT !.visible = e.stack[1].saved, !.stack = e.stack] = b
  BY DEF Engine
<1>6. b \in Engine /\ b.stack = e.stack /\ b.visible = e.stack[1].saved
  BY <1>1 DEF Engine, Entry
<1> HIDE DEF b
<1>7. Newest(b, name) = 1
  BY <1>1, <1>6, NewestIsLast
<1>8. Release(b, name) = Commit(b) /\ Release(e, name) = Commit(e)
  BY <1>2, <1>7 DEF Release
<1> QED BY <1>2, <1>4, <1>5, <1>6, <1>8 DEF Commit

----------------------------------------------------------------------------
(* The open calls of a caller.                                              *)

Records == Seq(BeginRecord)

LEMMA OneOrMore == ASSUME NEW k \in Nat, k # 0 PROVE k = 1 \/ k > 1
  OBVIOUS

LEMMA RecordsFields ==
  ASSUME NEW s \in Records
  PROVE  /\ Len(s) \in Nat /\ DOMAIN s = 1 .. Len(s)
         /\ \A i \in 1 .. Len(s) : s[i] \in BeginRecord
         /\ s = <<>> <=> Len(s) = 0
BY LenProperties, ElementOfSeq, EmptySeq DEF Records

LEMMA RecordWork ==
  ASSUME NEW c \in BeginRecord, NEW w \in SUBSET Statements
  PROVE  /\ [c EXCEPT !.work = @ \cup w] \in BeginRecord
         /\ [c EXCEPT !.work = @ \cup w].savepoint = c.savepoint
         /\ [c EXCEPT !.work = @ \cup w].name = c.name
         /\ [c EXCEPT !.work = @ \cup w].work = c.work \cup w
BY DEF BeginRecord

\* The innermost call is replaced.
LEMMA TopReplaced ==
  ASSUME NEW s \in Records, s # <<>>, NEW top \in BeginRecord
  PROVE  /\ [s EXCEPT ![Len(s)] = top] \in Records
         /\ Len([s EXCEPT ![Len(s)] = top]) = Len(s)
<1>1. Len(s) \in 1 .. Len(s)
  BY RecordsFields
<1> QED BY <1>1, ExceptSeq DEF Records

\* The calls around the innermost one.
LEMMA Around ==
  ASSUME NEW s \in Records, s # <<>>, NEW r, r = SubSeq(s, 1, Len(s) - 1)
  PROVE  r \in Records /\ Len(r) = Len(s) - 1 /\ \A i \in 1 .. Len(s) - 1 : r[i] = s[i]
<1> DEFINE n == Len(s)
<1>1. n \in Nat /\ n >= 1 /\ \A i \in 1 .. n : s[i] \in BeginRecord
  BY RecordsFields
<1>2. \A i \in 1 .. n - 1 : s[i] \in BeginRecord
  BY <1>1
<1>3. /\ r \in Seq(BeginRecord) /\ Len(r) = (IF 1 <= n - 1 THEN n - 1 - 1 + 1 ELSE 0)
      /\ \A i \in 1 .. n - 1 - 1 + 1 : r[i] = s[1 + i - 1]
  BY <1>1, <1>2, SubSeqProperties
<1> HIDE DEF n
<1>4. Len(r) = n - 1
  BY <1>1, <1>3
<1>5. \A i \in 1 .. n - 1 : r[i] = s[i]
  <2>1. \A i \in 1 .. n - 1 : i \in 1 .. n - 1 - 1 + 1 /\ 1 + i - 1 = i
    BY <1>1
  <2> QED BY <1>3, <2>1
<1> QED BY <1>3, <1>4, <1>5 DEF Records, n

\* The calls from the k-th on.
LEMMA CallsAfter ==
  ASSUME NEW c \in Records, NEW k \in Nat, k <= Len(c), NEW r, r = SubSeq(c, k + 1, Len(c))
  PROVE  r \in Records /\ Len(r) = Len(c) - k /\ \A i \in 1 .. Len(c) - k : r[i] = c[k + i]
<1> DEFINE n == Len(c)
<1>1. n \in Nat /\ k <= n /\ \A i \in 1 .. n : c[i] \in BeginRecord
  BY RecordsFields
<1>2. \A i \in k + 1 .. n : c[i] \in BeginRecord
  BY <1>1
<1>3. /\ r \in Seq(BeginRecord) /\ Len(r) = (IF k + 1 <= n THEN n - (k + 1) + 1 ELSE 0)
      /\ \A i \in 1 .. n - (k + 1) + 1 : r[i] = c[k + 1 + i - 1]
  BY <1>1, <1>2, SubSeqProperties
<1> HIDE DEF n
<1>4. Len(r) = n - k
  BY <1>1, <1>3
<1>5. \A i \in 1 .. n - k : i \in 1 .. n - (k + 1) + 1 /\ k + 1 + i - 1 = k + i
  BY <1>1
<1> QED BY <1>3, <1>4, <1>5 DEF Records, n

----------------------------------------------------------------------------
(* The engine mirrors a sequence of calls: each entry of its stack has the     *)
(* name its call uses and what was visible when it opened.                    *)

\* What is durable, or the work of the i outermost of the calls.
Under(d, s, i) == {x \in Statements : x \in d \/ \E j \in 1 .. i : x \in s[j].work}

Mark(c) == IF c.savepoint THEN c.name ELSE BeginMark

\* Only the outermost may have opened with BEGIN.
Mirrors(e, s) ==
  /\ Len(e.stack) = Len(s)
  /\ \A i \in 1 .. Len(s) :
       /\ e.stack[i].name = Mark(s[i])
       /\ e.stack[i].saved = Under(e.durable, s, i - 1)
       /\ i > 1 => s[i].savepoint
  /\ e.visible = Under(e.durable, s, Len(s))

LEMMA UnderKept ==
  ASSUME NEW d, NEW s, NEW r, NEW i \in Int, \A j \in 1 .. i : r[j].work = s[j].work
  PROVE  Under(d, r, i) = Under(d, s, i)
BY DEF Under

LEMMA UnderNone == ASSUME NEW e \in Engine, NEW s PROVE Under(e.durable, s, 0) = e.durable
BY DEF Under, Engine

LEMMA MirrorsNone ==
  ASSUME NEW e \in Engine, NEW s \in Records, Len(s) = 0
  PROVE  Mirrors(e, s) <=> e.stack = <<>> /\ e.visible = e.durable
BY EngineFields, UnderNone DEF Mirrors

\* One call less.
LEMMA MirrorsLess ==
  ASSUME NEW e \in Engine, NEW s \in Records, Mirrors(e, s), NEW n \in Nat, n = Len(s), n > 1,
         NEW f \in Engine, NEW r \in Records, f.durable = e.durable,
         Len(f.stack) = n - 1, \A i \in 1 .. n - 1 : f.stack[i] = e.stack[i],
         Len(r) = n - 1, \A i \in 1 .. n - 1 : r[i].name = s[i].name /\ r[i].savepoint = s[i].savepoint,
         \A i \in 1 .. n - 2 : r[i].work = s[i].work,
         f.visible = Under(e.durable, r, n - 1)
  PROVE  Mirrors(f, r)
<1>1. ASSUME NEW i \in 1 .. n - 1
      PROVE  /\ f.stack[i].name = Mark(r[i])
             /\ f.stack[i].saved = Under(f.durable, r, i - 1)
             /\ i > 1 => r[i].savepoint
  <2>1. i \in 1 .. n /\ i - 1 \in Int /\ \A j \in 1 .. i - 1 : j \in 1 .. n - 2
    OBVIOUS
  <2>2. Under(e.durable, r, i - 1) = Under(e.durable, s, i - 1)
    BY <2>1, UnderKept
  <2>3. /\ e.stack[i].name = Mark(s[i]) /\ e.stack[i].saved = Under(e.durable, s, i - 1)
        /\ i > 1 => s[i].savepoint
    BY <2>1 DEF Mirrors
  <2> QED BY <2>2, <2>3 DEF Mark
<1> QED BY <1>1 DEF Mirrors

\* SAVEPOINT or BEGIN opens one more.
LEMMA MirrorsPushed ==
  ASSUME NEW e \in Engine, NEW s \in Records, Mirrors(e, s), NEW n \in Nat, n = Len(s),
         NEW r \in Records, Len(r) = n + 1, \A i \in 1 .. n : r[i] = s[i],
         r[n + 1].work = {}, n > 0 => r[n + 1].savepoint, Mark(r[n + 1]) \in Int
  PROVE  /\ Push(e, Mark(r[n + 1])) \in Engine /\ Mirrors(Push(e, Mark(r[n + 1])), r)
         /\ Push(e, Mark(r[n + 1])).durable = e.durable
<1> DEFINE name == Mark(r[n + 1]) entry == [name |-> name, saved |-> e.visible] f == Push(e, name)
<1>1. entry \in Entry /\ entry.saved = e.visible /\ entry.name = name
  BY DEF Entry, Engine
<1> HIDE DEF entry
<1>2. f = [e EXCEPT !.stack = Append(e.stack, entry)]
  BY DEF Push, entry
<1>3. /\ f \in Engine /\ f.stack \in Seq(Entry) /\ Len(f.stack) = n + 1 /\ f.stack[n + 1] = entry
      /\ \A i \in 1 .. n : f.stack[i] = e.stack[i]
      /\ f.durable = e.durable /\ f.visible = e.visible
  <2>1. /\ Append(e.stack, entry) \in Seq(Entry) /\ Len(Append(e.stack, entry)) = Len(e.stack) + 1
        /\ Append(e.stack, entry)[Len(e.stack) + 1] = entry
        /\ \A i \in 1 .. Len(e.stack) : Append(e.stack, entry)[i] = e.stack[i]
    BY <1>1, EngineFields, AppendProperties
  <2>2. Len(e.stack) = n
    BY DEF Mirrors
  <2> QED BY <1>2, <2>1, <2>2 DEF Engine, Entry
<1> HIDE DEF f, name
<1>4. ASSUME NEW i \in 0 .. n PROVE Under(e.durable, r, i) = Under(e.durable, s, i)
  <2>1. \A j \in 1 .. i : j \in 1 .. n
    OBVIOUS
  <2> QED BY <2>1, UnderKept
<1>5. Under(e.durable, r, n + 1) = Under(e.durable, s, n)
  <2>1. \A x : x \notin r[n + 1].work
    OBVIOUS
  <2>2. \A j \in 1 .. n + 1 : j \in 1 .. n \/ j = n + 1
    OBVIOUS
  <2>3. \A j \in 1 .. n : j \in 1 .. n + 1 /\ r[j].work = s[j].work
    OBVIOUS
  <2>4. ASSUME NEW x PROVE (\E j \in 1 .. n + 1 : x \in r[j].work) <=> (\E j \in 1 .. n : x \in s[j].work)
    BY <2>1, <2>2, <2>3
  <2> QED BY <2>4 DEF Under
<1>6. ASSUME NEW i \in 1 .. n + 1
      PROVE  /\ f.stack[i].name = Mark(r[i])
             /\ f.stack[i].saved = Under(f.durable, r, i - 1)
             /\ i > 1 => r[i].savepoint
  <2>1. CASE i \in 1 .. n
    <3>1. /\ e.stack[i].name = Mark(s[i]) /\ e.stack[i].saved = Under(e.durable, s, i - 1)
          /\ i > 1 => s[i].savepoint
      BY <2>1 DEF Mirrors
    <3>2. Under(e.durable, r, i - 1) = Under(e.durable, s, i - 1)
      BY <1>4, <2>1
    <3> QED BY <1>3, <2>1, <3>1, <3>2
  <2>2. CASE i = n + 1
    <3>1. Under(e.durable, r, n) = Under(e.durable, s, n)
      BY <1>4
    <3>2. e.visible = Under(e.durable, s, n)
      BY DEF Mirrors
    <3> QED BY <1>1, <1>3, <2>2, <3>1, <3>2 DEF name
  <2> QED BY <2>1, <2>2
<1>7. f.visible = Under(f.durable, r, n + 1)
  BY <1>3, <1>5 DEF Mirrors
<1> QED BY <1>3, <1>6, <1>7 DEF Mirrors, f, name

\* A statement: the innermost call's, or durable at once.
LEMMA MirrorsRun ==
  ASSUME NEW e \in Engine, NEW s \in Records, Mirrors(e, s), NEW n \in Nat, n = Len(s),
         NEW x \in Statements, NEW r \in Records, Len(r) = n,
         \A i \in 1 .. n : /\ r[i].name = s[i].name /\ r[i].savepoint = s[i].savepoint
                           /\ \A y : y \in r[i].work <=> y \in s[i].work \/ (i = n /\ y = x)
  PROVE  /\ Run(e, x) \in Engine /\ Mirrors(Run(e, x), r)
         /\ \A y : y \in Run(e, x).durable <=> y \in e.durable \/ (n = 0 /\ y = x)
<1> DEFINE f == Run(e, x)
<1>1. f \in Engine /\ f.stack = e.stack /\ f.visible = e.visible \cup {x}
      /\ f.durable = IF e.stack # <<>> THEN e.durable ELSE e.durable \cup {x}
  BY DEF Run, InTransaction, Engine
<1>2. e.stack # <<>> <=> n # 0
  BY EngineFields DEF Mirrors
<1> HIDE DEF f
<1>3. CASE n = 0
  <2>1. e.visible = e.durable
    BY <1>3, MirrorsNone
  <2> QED BY <1>1, <1>2, <1>3, <2>1, MirrorsNone DEF f
<1>4. CASE n # 0
  <2>1. f.durable = e.durable /\ n \in 1 .. n
    BY <1>1, <1>2, <1>4
  <2>2. ASSUME NEW i \in 1 .. n PROVE Under(e.durable, r, i - 1) = Under(e.durable, s, i - 1)
    <3>1. i - 1 \in Int /\ \A j \in 1 .. i - 1 : j \in 1 .. n /\ j # n
      OBVIOUS
    <3>2. ASSUME NEW j \in 1 .. i - 1 PROVE r[j].work = s[j].work
      <4>1. r[j] \in BeginRecord /\ s[j] \in BeginRecord
        BY <3>1, RecordsFields
      <4>2. \A y : y \in r[j].work <=> y \in s[j].work
        BY <3>1
      <4> QED BY <4>1, <4>2 DEF BeginRecord
    <3> QED BY <3>1, <3>2, UnderKept
  <2>3. Under(e.durable, r, n) = Under(e.durable, s, n) \cup {x}
    <3>1. ASSUME NEW y PROVE (\E j \in 1 .. n : y \in r[j].work) <=> (y = x \/ \E j \in 1 .. n : y \in s[j].work)
      <4>1. \A j \in 1 .. n : y \in r[j].work <=> y \in s[j].work \/ (j = n /\ y = x)
        OBVIOUS
      <4> QED BY <2>1, <4>1
    <3> QED BY <3>1 DEF Under
  <2>4. ASSUME NEW i \in 1 .. n
        PROVE  /\ f.stack[i].name = Mark(r[i])
               /\ f.stack[i].saved = Under(f.durable, r, i - 1)
               /\ i > 1 => r[i].savepoint
    <3>1. /\ e.stack[i].name = Mark(s[i]) /\ e.stack[i].saved = Under(e.durable, s, i - 1)
          /\ i > 1 => s[i].savepoint
      BY DEF Mirrors
    <3> QED BY <1>1, <2>1, <2>2, <3>1 DEF Mark
  <2>5. Len(f.stack) = n /\ f.visible = Under(f.durable, r, n)
    BY <1>1, <2>1, <2>3 DEF Mirrors
  <2> QED BY <1>1, <1>4, <2>1, <2>4, <2>5 DEF Mirrors, f
<1> QED BY <1>3, <1>4

\* What the engine says of the innermost call.
LEMMA MirrorsTop ==
  ASSUME NEW e \in Engine, NEW s \in Records, Mirrors(e, s), NEW n \in Nat, n = Len(s), n # 0,
         NEW c, c = s[n]
  PROVE  /\ c \in BeginRecord /\ e.stack # <<>> /\ Len(e.stack) = n
         /\ e.stack[n].name = Mark(c) /\ e.stack[n].saved = Under(e.durable, s, n - 1)
         /\ n > 1 => c.savepoint
         /\ Named(e, Mark(c)) # {} /\ Newest(e, Mark(c)) = n
<1>1. n \in 1 .. n /\ c \in BeginRecord
  BY RecordsFields
<1>2. /\ Len(e.stack) = n /\ e.stack[n].name = Mark(c) /\ e.stack[n].saved = Under(e.durable, s, n - 1)
      /\ n > 1 => c.savepoint
  BY <1>1 DEF Mirrors
<1>3. e.stack # <<>>
  BY <1>2, EngineFields
<1> QED BY <1>1, <1>2, <1>3, NewestIsLast

\* RELEASE or COMMIT of the innermost call.
LEMMA MirrorsClosed ==
  ASSUME NEW e \in Engine, NEW s \in Records, Mirrors(e, s), NEW n \in Nat, n = Len(s), n # 0,
         NEW c, c = s[n], NEW f, f = IF c.savepoint THEN Release(e, c.name) ELSE Commit(e),
         NEW r \in Records, Len(r) = n - 1,
         \A i \in 1 .. n - 1 :
           /\ r[i].name = s[i].name /\ r[i].savepoint = s[i].savepoint
           /\ \A x : x \in r[i].work <=> x \in s[i].work \/ (i = n - 1 /\ x \in c.work)
  PROVE  /\ f \in Engine /\ Mirrors(f, r)
         /\ n = 1 => \A x : x \in f.durable <=> x \in e.durable \/ x \in c.work
         /\ n > 1 => f.durable = e.durable
<1>1. /\ c \in BeginRecord /\ e.stack # <<>> /\ Len(e.stack) = n
      /\ e.stack[n].name = Mark(c)
      /\ n > 1 => c.savepoint
  BY MirrorsTop
<1>2. CASE n = 1
  <2>1. f = Commit(e)
    <3>1. CASE c.savepoint
      BY <1>1, <1>2, <3>1, OnlyEntry DEF Mark
    <3>2. CASE ~c.savepoint
      BY <3>2
    <3> QED BY <3>1, <3>2
  <2>2. f \in Engine /\ f.stack = <<>> /\ f.visible = f.durable /\ f.durable = e.visible
    <3>1. e.visible \in SUBSET Statements /\ <<>> \in Seq([name : Int, saved : SUBSET Statements])
      BY EmptySeq DEF Engine
    <3> QED BY ONLY <2>1, <3>1 DEF Commit, Engine
  <2>3. Mirrors(f, r)
    BY <1>2, <2>2, MirrorsNone
  <2>4. \A x : x \in f.durable <=> x \in e.durable \/ x \in c.work
    <3>1. f.durable = Under(e.durable, s, 1)
      BY <1>2, <2>2 DEF Mirrors
    <3>2. e.durable \subseteq Statements /\ c.work \subseteq Statements
      BY <1>1 DEF Engine, BeginRecord
    <3> QED BY <1>2, <3>1, <3>2 DEF Under
  <2> QED BY <1>2, <2>2, <2>3, <2>4
<1>3. CASE n > 1
  <2>1. f = Release(e, Mark(c)) /\ Len(e.stack) > 1 /\ Mark(c) = e.stack[Len(e.stack)].name
    BY <1>1, <1>3 DEF Mark
  <2>2. /\ f \in Engine /\ f.durable = e.durable /\ f.visible = e.visible
        /\ Len(f.stack) = n - 1 /\ \A i \in 1 .. n - 1 : f.stack[i] = e.stack[i]
    BY <1>1, <2>1, ReleaseLast
  <2>3. Under(e.durable, r, n - 1) = Under(e.durable, s, n)
    <3>1. ASSUME NEW x PROVE (\E j \in 1 .. n - 1 : x \in r[j].work) <=> (\E j \in 1 .. n : x \in s[j].work)
      <4>1. x \in r[n - 1].work <=> x \in s[n - 1].work \/ x \in s[n].work
        BY <1>3
      <4>2. \A j \in 1 .. n - 1 : j # n - 1 => (x \in r[j].work <=> x \in s[j].work)
        OBVIOUS
      <4>3. \A j \in 1 .. n : j \in 1 .. n - 1 \/ j = n
        OBVIOUS
      <4>4. n - 1 \in 1 .. n - 1 /\ n \in 1 .. n /\ \A j \in 1 .. n - 1 : j \in 1 .. n
        BY <1>3
      <4> QED BY <4>1, <4>2, <4>3, <4>4
    <3> QED BY <3>1 DEF Under
  <2>4. \A i \in 1 .. n - 2 : r[i].work = s[i].work
    <3>1. ASSUME NEW i \in 1 .. n - 2 PROVE r[i].work = s[i].work
      <4>1. i \in 1 .. n - 1 /\ i # n - 1 /\ i \in 1 .. n
        OBVIOUS
      <4>2. r[i] \in BeginRecord /\ s[i] \in BeginRecord
        BY <4>1, RecordsFields
      <4>3. \A x : x \in r[i].work <=> x \in s[i].work
        BY <4>1
      <4> QED BY <4>2, <4>3 DEF BeginRecord
    <3> QED BY <3>1
  <2>5. f.visible = Under(e.durable, r, n - 1)
    BY <2>2, <2>3 DEF Mirrors
  <2>6. \A i \in 1 .. n - 1 : r[i].name = s[i].name /\ r[i].savepoint = s[i].savepoint
    OBVIOUS
  <2>7. Mirrors(e, s) /\ r \in Records /\ Len(r) = n - 1 /\ n = Len(s)
    OBVIOUS
  <2>8. Mirrors(f, r)
    BY ONLY <1>3, <2>2, <2>4, <2>5, <2>6, <2>7, MirrorsLess, n \in Nat, e \in Engine, s \in Records
  <2> QED BY <1>3, <2>2, <2>8
<1> QED BY <1>2, <1>3, OneOrMore

\* What the catch block of begin() leaves of the innermost call: nothing.
LEMMA MirrorsCleaned ==
  ASSUME NEW e \in Engine, NEW s \in Records, Mirrors(e, s), NEW n \in Nat, n = Len(s), n # 0,
         NEW c, c = s[n], NEW f, f = Cleanup(e, c),
         NEW r \in Records, Len(r) = n - 1, \A i \in 1 .. n - 1 : r[i] = s[i]
  PROVE  f \in Engine /\ Mirrors(f, r) /\ f.durable = e.durable
<1>1. /\ c \in BeginRecord /\ e.stack # <<>> /\ Len(e.stack) = n
      /\ e.stack[n].name = Mark(c) /\ e.stack[n].saved = Under(e.durable, s, n - 1)
      /\ n > 1 => c.savepoint
      /\ Named(e, Mark(c)) # {}
  BY MirrorsTop
<1>2. CASE n = 1
  <2>1. f = [durable |-> e.durable, visible |-> e.durable, stack |-> <<>>]
    <3>1. CASE c.savepoint
      <4>1. e.stack[1].saved = e.durable
        BY <1>1, <1>2, UnderNone
      <4>2. f = Release(RollbackTo(e, c.name), c.name) /\ c.name = e.stack[1].name
        BY <1>1, <1>2, <3>1 DEF Cleanup, Mark
      <4> QED BY <1>1, <1>2, <4>1, <4>2, OnlyEntry
    <3>2. CASE ~c.savepoint
      BY <1>1, <3>2 DEF Cleanup, InTransaction, Rollback
    <3> QED BY <3>1, <3>2
  <2>2. f \in Engine /\ f.stack = <<>> /\ f.visible = f.durable /\ f.durable = e.durable
    <3>1. e.durable \in SUBSET Statements /\ <<>> \in Seq([name : Int, saved : SUBSET Statements])
      BY EmptySeq DEF Engine
    <3> QED BY ONLY <2>1, <3>1 DEF Engine
  <2> QED BY <1>2, <2>2, MirrorsNone
<1>3. CASE n > 1
  <2>1. /\ f = Release(RollbackTo(e, Mark(c)), Mark(c))
        /\ Len(e.stack) > 1 /\ Mark(c) = e.stack[Len(e.stack)].name
    BY <1>1, <1>3 DEF Cleanup, Mark
  <2>2. /\ f \in Engine /\ f.durable = e.durable /\ f.visible = Under(e.durable, s, n - 1)
        /\ Len(f.stack) = n - 1 /\ \A i \in 1 .. n - 1 : f.stack[i] = e.stack[i]
    BY <1>1, <2>1, RollbackToLast
  <2>3. Under(e.durable, r, n - 1) = Under(e.durable, s, n - 1)
    BY UnderKept
  <2>4. \A i \in 1 .. n - 2 : i \in 1 .. n - 1
    OBVIOUS
  <2>5. Mirrors(f, r)
    BY <1>3, <2>2, <2>3, <2>4, MirrorsLess
  <2> QED BY <2>2, <2>5
<1> QED BY <1>2, <1>3, OneOrMore

\* The catch block finds nothing to undo when the engine has done it.
LEMMA NothingToClean ==
  ASSUME NEW e \in Engine, e.stack = <<>>, NEW c
  PROVE  Cleanup(e, c) = e /\ ~Closable(e, c)
<1>1. \A m : Named(e, m) = {}
  BY EngineFields DEF Named
<1> QED BY <1>1 DEF Cleanup, Closable, InTransaction

----------------------------------------------------------------------------
(* The invariant.                                                          *)

\* A caller alone inside begin(), or not inside: the counter may be behind its
\* calls, never ahead, and the engine mirrors those it has not rolled back.
EngineHolds(t) ==
  /\ txDepth <= Len(calls[t])
  /\ lost[t] <= Len(calls[t])
  /\ Mirrors(eng, Held(t))

BeginInv ==
  /\ BeginTypes
  /\ \A t, u \in Inside : t = u
  /\ \A t \in Tasks : lost[t] <= Len(calls[t])
  /\ Inside = {} => txDepth <= 0 /\ eng.stack = <<>> /\ eng.visible = eng.durable
  /\ \A t \in Inside : EngineHolds(t)

LEMMA BeginInvInit == BeginInit => BeginInv
<1> SUFFICES ASSUME BeginInit PROVE BeginInv
  OBVIOUS
<1>1. eng \in Engine
  BY EmptySeq DEF BeginInit, Engine
<1>2. calls \in [Tasks -> Seq(BeginRecord)] /\ Inside = {} /\ lost \in [Tasks -> Nat]
  BY EmptySeq DEF BeginInit, Inside
<1>3. 0 \in 0 .. MaxOpens
  BY SqliteBeginAssumption
<1>4. BeginTypes
  BY <1>1, <1>2, <1>3 DEF BeginInit, BeginTypes
<1>5. \A t \in Tasks : lost[t] <= Len(calls[t])
  BY EmptySeq DEF BeginInit
<1> QED BY <1>2, <1>4, <1>5 DEF BeginInv, BeginInit

\* What a caller that may act finds.
LEMMA Alone ==
  ASSUME Serialised, BeginInv, NEW t \in Tasks, MayAct(t)
  PROVE  /\ \A u \in Tasks \ {t} : calls[u] = <<>>
         /\ BeginTypes /\ eng \in Engine /\ calls \in [Tasks -> Seq(BeginRecord)]
         /\ lost \in [Tasks -> Nat] /\ txDepth \in Int
         /\ calls[t] \in Records /\ lost[t] \in Nat /\ EngineHolds(t)
         /\ Held(t) \in Records /\ Len(Held(t)) = Len(calls[t]) - lost[t]
         /\ \A i \in 1 .. Len(calls[t]) - lost[t] : Held(t)[i] = calls[t][lost[t] + i]
<1>1. \A u \in Tasks \ {t} : calls[u] = <<>>
  BY DEF MayAct
<1>2. /\ BeginTypes /\ eng \in Engine /\ calls \in [Tasks -> Seq(BeginRecord)] /\ lost \in [Tasks -> Nat]
      /\ txDepth \in Int
  BY DEF BeginInv, BeginTypes
<1>3. calls[t] \in Records /\ lost[t] \in Nat /\ lost[t] <= Len(calls[t])
  BY <1>2 DEF BeginInv, Records
<1>4. /\ Held(t) \in Records /\ Len(Held(t)) = Len(calls[t]) - lost[t]
      /\ \A i \in 1 .. Len(calls[t]) - lost[t] : Held(t)[i] = calls[t][lost[t] + i]
  BY <1>3, CallsAfter DEF Held
<1>5. EngineHolds(t)
  <2>1. CASE calls[t] = <<>>
    <3>1. Inside = {}
      BY <1>1, <2>1 DEF Inside
    <3>2. Len(calls[t]) = 0 /\ Len(Held(t)) = 0
      BY <1>3, <1>4, <2>1, RecordsFields
    <3> QED BY <1>2, <1>3, <1>4, <3>1, <3>2, MirrorsNone DEF BeginInv, EngineHolds
  <2>2. CASE calls[t] # <<>>
    BY <2>2 DEF BeginInv, Inside
  <2> QED BY <2>1, <2>2
<1> QED BY <1>1, <1>2, <1>3, <1>4, <1>5

LEMMA HeldAfter ==
  ASSUME NEW t, calls'[t] \in Records, lost'[t] \in Nat, lost'[t] <= Len(calls'[t])
  PROVE  /\ Held(t)' \in Records /\ Len(Held(t)') = Len(calls'[t]) - lost'[t]
         /\ \A i \in 1 .. Len(calls'[t]) - lost'[t] : Held(t)'[i] = calls'[t][lost'[t] + i]
<1> DEFINE c == calls'[t] k == lost'[t] r == Held(t)'
<1>1. r = SubSeq(c, k + 1, Len(c)) /\ c \in Records /\ k \in Nat /\ k <= Len(c)
  BY DEF Held
<1> HIDE DEF c, k, r
<1>2. r \in Records /\ Len(r) = Len(c) - k /\ \A i \in 1 .. Len(c) - k : r[i] = c[k + i]
  BY <1>1, CallsAfter
<1> QED BY <1>2 DEF c, k, r

\* The invariant after a step of one caller, the others not inside.
LEMMA OneActs ==
  ASSUME NEW t \in Tasks, BeginTypes', \A u \in Tasks \ {t} : calls'[u] = <<>> /\ lost'[u] <= 0, EngineHolds(t)'
  PROVE  BeginInv'
<1>1. eng' \in Engine /\ calls'[t] \in Records /\ lost'[t] \in Nat /\ txDepth' \in Int
  BY DEF BeginTypes, Records
<1>2. \A u \in Tasks : lost'[u] <= Len(calls'[u])
  <2>1. \A u \in Tasks \ {t} : lost'[u] <= Len(calls'[u])
    BY EmptySeq
  <2> QED BY <2>1 DEF EngineHolds
<1>3. CASE calls'[t] = <<>>
  <2>1. Inside' = {}
    BY <1>3 DEF Inside
  <2>2. Len(calls'[t]) = 0
    BY <1>3, EmptySeq
  <2>3. Held(t)' \in Records /\ Len(Held(t)') = 0
    <3>1. lost'[t] = 0
      BY <1>1, <2>2 DEF EngineHolds
    <3> QED BY <1>1, <2>2, <3>1, HeldAfter
  <2>4. txDepth' <= 0 /\ eng'.stack = <<>> /\ eng'.visible = eng'.durable
    BY <1>1, <2>2, <2>3, MirrorsNone DEF EngineHolds
  <2> QED BY <1>2, <2>1, <2>4 DEF BeginInv
<1>4. CASE calls'[t] # <<>>
  <2>1. Inside' = {t}
    BY <1>4 DEF Inside
  <2> QED BY <1>2, <2>1 DEF BeginInv
<1> QED BY <1>3, <1>4

----------------------------------------------------------------------------
(* The actions: the invariant, and what becomes of the calls the engine holds. *)

LEMMA BeginCallKeeps ==
  ASSUME Serialised, BeginInv, NEW t \in Tasks, BeginCall(t)
  PROVE  /\ BeginInv' /\ eng'.durable = eng.durable /\ lost' = lost
         /\ Len(Held(t)') = Len(Held(t)) + 1 /\ Held(t)'[Len(Held(t)) + 1].work = {}
         /\ \A i \in 1 .. Len(Held(t)) : Held(t)'[i] = Held(t)[i]
<1>1. /\ \A u \in Tasks \ {t} : calls[u] = <<>>
      /\ BeginTypes /\ eng \in Engine /\ calls \in [Tasks -> Seq(BeginRecord)]
      /\ lost \in [Tasks -> Nat] /\ txDepth \in Int
      /\ calls[t] \in Records /\ lost[t] \in Nat /\ EngineHolds(t)
      /\ Held(t) \in Records /\ Len(Held(t)) = Len(calls[t]) - lost[t]
      /\ \A i \in 1 .. Len(calls[t]) - lost[t] : Held(t)[i] = calls[t][lost[t] + i]
  BY Alone DEF BeginCall
<1> DEFINE rec == [savepoint |-> IsSavepoint, name |-> txDepth, work |-> {}]
<1>2. PICK n \in Nat : n = Len(calls[t])
  BY <1>1, RecordsFields
<1>3. PICK k \in Nat : k = lost[t] /\ k <= n
  BY <1>1, <1>2 DEF EngineHolds
<1>4. /\ calls' = [calls EXCEPT ![t] = Append(calls[t], rec)]
      /\ eng' = Push(eng, IF IsSavepoint THEN txDepth ELSE BeginMark)
      /\ txDepth' = txDepth + 1 /\ opens' = opens + 1 /\ opens < MaxOpens
      /\ UNCHANGED <<lost, refused, promised>>
      /\ IsSavepoint \/ ~InTransaction(eng)
  BY DEF BeginCall
<1>5. /\ rec \in BeginRecord /\ rec.work = {} /\ (rec.savepoint <=> txDepth > 0)
      /\ Mark(rec) = IF IsSavepoint THEN txDepth ELSE BeginMark
  <2>1. rec.savepoint = IsSavepoint /\ rec.name = txDepth /\ rec.work = {}
    OBVIOUS
  <2>2. IsSavepoint \in BOOLEAN /\ (IsSavepoint <=> txDepth > 0)
    BY DEF IsSavepoint
  <2>3. rec \in BeginRecord
    BY <1>1, <2>2 DEF BeginRecord
  <2> QED BY <2>1, <2>2, <2>3 DEF Mark
<1> HIDE DEF rec
<1>6. calls'[t] = Append(calls[t], rec) /\ \A u \in Tasks \ {t} : calls'[u] = <<>>
  BY <1>1, <1>4
<1>7. /\ calls'[t] \in Records /\ Len(calls'[t]) = n + 1
      /\ calls'[t][n + 1] = rec /\ \A i \in 1 .. n : calls'[t][i] = calls[t][i]
  BY <1>1, <1>2, <1>5, <1>6, AppendProperties DEF Records
<1>8. /\ Held(t)' \in Records /\ Len(Held(t)') = n + 1 - k
      /\ \A i \in 1 .. n + 1 - k : Held(t)'[i] = calls'[t][k + i]
  <2>1. lost'[t] \in Nat /\ lost'[t] <= Len(calls'[t])
    BY <1>3, <1>4, <1>7
  <2>2. /\ Held(t)' \in Records /\ Len(Held(t)') = Len(calls'[t]) - lost'[t]
        /\ \A i \in 1 .. Len(calls'[t]) - lost'[t] : Held(t)'[i] = calls'[t][lost'[t] + i]
    BY <1>7, <2>1, HeldAfter
  <2>3. lost'[t] = k
    BY <1>3, <1>4
  <2>4. Len(calls'[t]) = n + 1
    BY <1>7
  <2>5. Len(calls'[t]) - lost'[t] = n + 1 - k
    BY ONLY <2>3, <2>4, k \in Nat, n \in Nat
  <2> QED BY ONLY <2>2, <2>3, <2>5
<1> DEFINE s == Held(t) r == Held(t)'
<1> HIDE DEF s, r
<1>m. PICK m \in Nat : m = n - k /\ m + 1 = n + 1 - k /\ k + (m + 1) = n + 1
  <2>1. n - k \in Nat /\ n - k + 1 = n + 1 - k /\ k + (n - k + 1) = n + 1
    BY <1>3
  <2> QED BY <2>1
<1>9. Len(s) = m /\ Len(r) = m + 1 /\ r[m + 1] = rec /\ \A i \in 1 .. m : r[i] = s[i]
  <2>1. m + 1 \in 1 .. m + 1 /\ \A i \in 1 .. m : i \in 1 .. m + 1 /\ k + i \in 1 .. n
    BY <1>3, <1>m
  <2>2. Len(s) = m /\ \A i \in 1 .. m : s[i] = calls[t][k + i]
    BY <1>1, <1>2, <1>3, <1>m DEF s
  <2>3. Len(r) = m + 1 /\ \A i \in 1 .. m + 1 : r[i] = calls'[t][k + i]
    BY <1>8, <1>m DEF r
  <2>4. r[m + 1] = rec
    BY <1>7, <1>m, <2>1, <2>3
  <2>5. \A i \in 1 .. m : r[i] = s[i]
    BY <1>7, <2>1, <2>2, <2>3
  <2> QED BY <2>2, <2>3, <2>4, <2>5
<1>10. eng' \in Engine /\ Mirrors(eng', r) /\ eng'.durable = eng.durable
  <2>1. Mirrors(eng, s) /\ s \in Records /\ r \in Records
    BY <1>1, <1>8 DEF EngineHolds, s, r
  <2>2. m > 0 => rec.savepoint
    <3>1. ASSUME m > 0 PROVE eng.stack # <<>>
      <4>1. Len(eng.stack) = m
        BY <1>9, <2>1 DEF Mirrors
      <4> QED BY <1>1, <3>1, <4>1, EngineFields
    <3> QED BY <1>4, <1>5, <3>1 DEF InTransaction, IsSavepoint
  <2>3. Mark(rec) \in Int /\ eng' = Push(eng, Mark(rec))
    BY <1>1, <1>4, <1>5 DEF BeginMark
  <2>4. r[m + 1].work = {} /\ (m > 0 => r[m + 1].savepoint) /\ Mark(r[m + 1]) \in Int
        /\ eng' = Push(eng, Mark(r[m + 1])) /\ m = Len(s)
    BY <1>5, <1>9, <2>2, <2>3
  <2>5. eng \in Engine
    BY <1>1
  <2> QED BY <1>9, <2>1, <2>4, <2>5, MirrorsPushed
<1>11. BeginTypes'
  <2>1. calls' \in [Tasks -> Seq(BeginRecord)]
    BY <1>1, <1>4, <1>6, <1>7 DEF Records
  <2>2. opens' \in 0 .. MaxOpens
    BY <1>1, <1>4, SqliteBeginAssumption DEF BeginTypes
  <2> QED BY <1>1, <1>4, <1>10, <2>1, <2>2 DEF BeginTypes
<1>12. EngineHolds(t)'
  <2>1. txDepth' <= n + 1
    BY <1>1, <1>2, <1>4 DEF EngineHolds
  <2> QED BY <1>3, <1>4, <1>7, <1>10, <2>1 DEF EngineHolds, r
<1>13. \A u \in Tasks \ {t} : lost'[u] <= 0
  BY <1>1, <1>4, EmptySeq DEF BeginInv
<1>14. BeginInv'
  BY <1>6, <1>11, <1>12, <1>13, OneActs
<1> QED BY <1>4, <1>5, <1>9, <1>10, <1>14 DEF s, r

LEMMA BeginRefusedKeeps ==
  ASSUME Serialised, BeginInv, NEW t \in Tasks, BeginRefused(t) PROVE BeginInv'
<1>1. /\ UNCHANGED <<txDepth, calls, lost, eng, refused, promised>>
      /\ opens' = opens + 1 /\ opens < MaxOpens
  BY DEF BeginRefused
<1>2. opens' \in 0 .. MaxOpens
  BY <1>1, SqliteBeginAssumption DEF BeginInv, BeginTypes
<1> QED BY <1>1, <1>2 DEF BeginInv, BeginTypes, Inside, EngineHolds, Held

LEMMA StatementAbortsKeeps ==
  ASSUME Serialised, BeginInv, NEW t \in Tasks, StatementAborts(t)
  PROVE  /\ BeginInv' /\ eng'.durable = eng.durable
         /\ Len(Held(t)) > 0 /\ Held(t)' = <<>> /\ lost'[t] = lost[t] + Len(Held(t))
<1>1. /\ \A u \in Tasks \ {t} : calls[u] = <<>>
      /\ BeginTypes /\ eng \in Engine /\ calls \in [Tasks -> Seq(BeginRecord)]
      /\ lost \in [Tasks -> Nat] /\ txDepth \in Int
      /\ calls[t] \in Records /\ lost[t] \in Nat /\ EngineHolds(t)
      /\ Held(t) \in Records /\ Len(Held(t)) = Len(calls[t]) - lost[t]
  BY Alone DEF StatementAborts
<1>2. /\ UNCHANGED <<txDepth, calls, refused, promised, opens>>
      /\ eng' = Rollback(eng) /\ lost' = [u \in Tasks |-> Len(calls[u])] /\ eng.stack # <<>>
  BY DEF StatementAborts, InTransaction
<1>3. PICK n \in Nat : n = Len(calls[t])
  BY <1>1, RecordsFields
<1>4. eng' \in Engine /\ eng'.durable = eng.durable /\ eng'.stack = <<>> /\ eng'.visible = eng'.durable
  BY <1>1, <1>2, EmptySeq DEF Rollback, Engine
<1>5. lost' \in [Tasks -> Nat]
  <2>1. \A u \in Tasks : Len(calls[u]) \in Nat
    BY <1>1, LenProperties
  <2> QED BY <1>2, <2>1
<1>6. BeginTypes'
  BY <1>1, <1>2, <1>4, <1>5 DEF BeginTypes
<1>7. Held(t)' \in Records /\ Len(Held(t)') = 0 /\ lost'[t] = n
  <2>1. lost'[t] = n /\ n <= Len(calls'[t]) /\ calls'[t] \in Records /\ n = Len(calls'[t])
    BY <1>1, <1>2, <1>3
  <2>2. Held(t)' \in Records /\ Len(Held(t)') = n - n
    BY <2>1, HeldAfter
  <2> QED BY <2>1, <2>2
<1>8. Mirrors(eng', Held(t)')
  BY <1>4, <1>7, MirrorsNone
<1>9. EngineHolds(t)'
  BY <1>1, <1>2, <1>3, <1>7, <1>8 DEF EngineHolds
<1>10. \A u \in Tasks \ {t} : calls'[u] = <<>> /\ lost'[u] <= 0
  BY <1>1, <1>2, EmptySeq
<1>11. Len(Held(t)) > 0
  <2>1. Len(eng.stack) = Len(Held(t)) /\ Len(eng.stack) \in Nat /\ Len(eng.stack) # 0
    BY <1>1, <1>2, EngineFields DEF EngineHolds, Mirrors
  <2> QED BY <2>1
<1>12. BeginInv'
  BY <1>6, <1>9, <1>10, OneActs
<1>13. Held(t)' = <<>>
  BY <1>7, RecordsFields
<1>14. lost'[t] = lost[t] + Len(Held(t))
  BY <1>1, <1>3, <1>7
<1> QED BY <1>4, <1>11, <1>12, <1>13, <1>14

LEMMA StatementKeeps ==
  ASSUME Serialised, BeginInv, NEW t \in Tasks, NEW s \in Statements, Statement(t, s)
  PROVE  /\ BeginInv' /\ lost' = lost /\ Len(Held(t)') = Len(Held(t))
         /\ Held(t) = <<>> => eng'.durable = eng.durable \cup {s}
         /\ Held(t) # <<>> => eng'.durable = eng.durable
         /\ \A i \in 1 .. Len(Held(t)) : \A y :
              y \in Held(t)'[i].work <=> y \in Held(t)[i].work \/ (i = Len(Held(t)) /\ y = s)
         /\ eng.visible = Under(eng.durable, Held(t), Len(Held(t)))
<1>1. /\ \A u \in Tasks \ {t} : calls[u] = <<>>
      /\ BeginTypes /\ eng \in Engine /\ calls \in [Tasks -> Seq(BeginRecord)]
      /\ lost \in [Tasks -> Nat] /\ txDepth \in Int
      /\ calls[t] \in Records /\ lost[t] \in Nat /\ EngineHolds(t)
      /\ Held(t) \in Records /\ Len(Held(t)) = Len(calls[t]) - lost[t]
      /\ \A i \in 1 .. Len(calls[t]) - lost[t] : Held(t)[i] = calls[t][lost[t] + i]
  BY Alone DEF Statement
<1>2. PICK n \in Nat : n = Len(calls[t])
  BY <1>1, RecordsFields
<1>3. PICK k \in Nat : k = lost[t] /\ k <= n
  BY <1>1, <1>2 DEF EngineHolds
<1>4. UNCHANGED <<txDepth, lost, refused, opens>> /\ eng' = Run(eng, s)
  BY DEF Statement
<1>5. /\ calls'[t] \in Records /\ Len(calls'[t]) = n /\ calls' \in [Tasks -> Seq(BeginRecord)]
      /\ \A u \in Tasks \ {t} : calls'[u] = <<>>
      /\ promised' \subseteq Statements
      /\ \A i \in 1 .. n :
           /\ calls'[t][i].name = calls[t][i].name /\ calls'[t][i].savepoint = calls[t][i].savepoint
           /\ calls'[t][i].work = IF i = n THEN calls[t][i].work \cup {s} ELSE calls[t][i].work
  <2>1. CASE calls[t] = <<>>
    <3>1. calls' = calls /\ promised' = promised \cup {s} /\ n = 0
      BY <1>2, <2>1, EmptySeq DEF Statement
    <3> QED BY <1>1, <1>2, <3>1 DEF BeginTypes
  <2>2. CASE calls[t] # <<>>
    <3> DEFINE w == {s} last == calls[t][n] top == [last EXCEPT !.work = @ \cup w]
    <3>1. calls' = [calls EXCEPT ![t][Len(calls[t])].work = @ \cup {s}] /\ promised' = promised
      BY <2>2 DEF Statement
    <3>2. n \in 1 .. n /\ last \in BeginRecord /\ w \in SUBSET Statements /\ DOMAIN calls[t] = 1 .. n
      <4>1. n # 0
        BY <1>1, <1>2, <2>2, RecordsFields
      <4>2. n \in 1 .. n
        BY <4>1
      <4> QED BY <1>1, <1>2, <4>2, RecordsFields
    <3>3. calls'[t] = [calls[t] EXCEPT ![n] = top] /\ \A u \in Tasks \ {t} : calls'[u] = calls[u]
      BY <1>1, <1>2, <3>1
    <3> HIDE DEF w, last
    <3>4. top \in BeginRecord /\ top.savepoint = last.savepoint /\ top.name = last.name /\ top.work = last.work \cup w
      BY <3>2, RecordWork
    <3> HIDE DEF top
    <3>5. calls'[t] \in Records /\ Len(calls'[t]) = n
      <4>1. calls[t] \in Records /\ calls[t] # <<>> /\ top \in BeginRecord /\ n = Len(calls[t])
        BY <1>1, <1>2, <2>2, <3>4
      <4> QED BY ONLY <3>3, <4>1, TopReplaced
    <3>6. calls'[t][n] = top /\ \A i \in 1 .. n : i # n => calls'[t][i] = calls[t][i]
      BY <3>2, <3>3
    <3>7. calls' \in [Tasks -> Seq(BeginRecord)]
      BY <1>1, <3>1, <3>5 DEF Records
    <3>8. \A i \in 1 .. n :
            /\ calls'[t][i].name = calls[t][i].name /\ calls'[t][i].savepoint = calls[t][i].savepoint
            /\ calls'[t][i].work = IF i = n THEN calls[t][i].work \cup {s} ELSE calls[t][i].work
      BY <3>4, <3>6 DEF w, last
    <3>9. promised' \subseteq Statements
      BY <1>1, <3>1 DEF BeginTypes
    <3> QED BY <1>1, <3>3, <3>5, <3>7, <3>8, <3>9
  <2> QED BY <2>1, <2>2
<1>6. /\ Held(t)' \in Records /\ Len(Held(t)') = n - k
      /\ \A i \in 1 .. n - k : Held(t)'[i] = calls'[t][k + i]
  <2>1. lost'[t] = k /\ k \in Nat /\ k <= n
    BY <1>3, <1>4
  <2> QED BY <1>5, <2>1, HeldAfter
<1> DEFINE a == Held(t) b == Held(t)'
<1> HIDE DEF a, b
<1>m. PICK m \in Nat : m = n - k
  BY <1>3
<1>7. /\ Len(a) = m /\ Len(b) = m /\ a \in Records /\ b \in Records
      /\ \A i \in 1 .. m : /\ b[i].name = a[i].name /\ b[i].savepoint = a[i].savepoint
                           /\ \A y : y \in b[i].work <=> y \in a[i].work \/ (i = m /\ y = s)
  <2>1. \A i \in 1 .. m : k + i \in 1 .. n /\ (i = m <=> k + i = n)
    BY <1>3, <1>m
  <2>2. Len(a) = m /\ \A i \in 1 .. m : a[i] = calls[t][k + i]
    BY <1>1, <1>2, <1>3, <1>m DEF a
  <2>3. Len(b) = m /\ \A i \in 1 .. m : b[i] = calls'[t][k + i]
    BY <1>6, <1>m DEF b
  <2>4. a \in Records /\ b \in Records
    BY <1>1, <1>6 DEF a, b
  <2>5. ASSUME NEW i \in 1 .. m
        PROVE  /\ b[i].name = a[i].name /\ b[i].savepoint = a[i].savepoint
               /\ \A y : y \in b[i].work <=> y \in a[i].work \/ (i = m /\ y = s)
    <3>1. a[i] = calls[t][k + i] /\ b[i] = calls'[t][k + i] /\ k + i \in 1 .. n /\ (i = m <=> k + i = n)
      BY <2>1, <2>2, <2>3
    <3> QED BY <1>5, <3>1
  <2> QED BY ONLY <2>2, <2>3, <2>4, <2>5
<1>8. /\ eng' \in Engine /\ Mirrors(eng', b)
      /\ eng'.durable = IF m = 0 THEN eng.durable \cup {s} ELSE eng.durable
  <2>1. Mirrors(eng, a) /\ eng \in Engine
    BY <1>1 DEF EngineHolds, a
  <2>2. eng' = Run(eng, s)
    BY <1>4
  <2>3. /\ Run(eng, s) \in Engine /\ Mirrors(Run(eng, s), b)
        /\ \A y : y \in Run(eng, s).durable <=> y \in eng.durable \/ (m = 0 /\ y = s)
    <3>1. m = Len(a)
      BY <1>7
    <3> QED BY ONLY <1>7, <2>1, <3>1, MirrorsRun, s \in Statements, m \in Nat
  <2>4. eng.durable \in SUBSET Statements /\ Run(eng, s).durable \in SUBSET Statements
    BY <2>1, <2>3, EngineFields
  <2>5. m = 0 => Run(eng, s).durable = eng.durable \cup {s}
    BY <2>3, <2>4
  <2>6. m # 0 => Run(eng, s).durable = eng.durable
    BY <2>3, <2>4
  <2> QED BY <2>2, <2>3, <2>5, <2>6
<1>9. BeginTypes'
  BY <1>1, <1>4, <1>5, <1>8 DEF BeginTypes
<1>10. EngineHolds(t)'
  BY <1>1, <1>2, <1>3, <1>4, <1>5, <1>8 DEF EngineHolds, b
<1>11. \A u \in Tasks \ {t} : lost'[u] <= 0
  BY <1>1, <1>4, EmptySeq DEF BeginInv
<1>12. BeginInv'
  BY <1>5, <1>9, <1>10, <1>11, OneActs
<1>13. eng.visible = Under(eng.durable, a, Len(a))
  BY <1>1 DEF EngineHolds, Mirrors, a
<1>14. a = <<>> <=> m = 0
  BY <1>7, RecordsFields
<1> QED BY <1>4, <1>7, <1>8, <1>12, <1>13, <1>14 DEF a, b

\* The innermost of n calls ends and leaves d, of which the engine held m: it holds
\* one less, or none as before.
Shorter(t, d, n, m) ==
  /\ n >= 1 /\ \A u \in Tasks \ {t} : lost'[u] <= 0
  /\ lost' \in [Tasks -> Nat] /\ lost'[t] <= n - 1
  /\ Held(t)' \in Records
  /\ m = 0 => lost'[t] = lost[t] - 1 /\ lost[t] = n /\ Held(t) = <<>> /\ Held(t)' = <<>>
  /\ m # 0 => /\ lost'[t] = lost[t] /\ lost[t] = n - m /\ Len(Held(t)') = m - 1
              /\ Top(t) = Held(t)[m] /\ m <= n
              /\ \A i \in 1 .. m : Held(t)[i] = calls[t][n - m + i]
              /\ \A i \in 1 .. m - 1 : Held(t)'[i] = d[n - m + i]

LEMMA OneLess ==
  ASSUME Serialised, BeginInv, NEW t \in Tasks, MayAct(t), calls[t] # <<>>, Leave(t),
         NEW d \in Records, calls'[t] = d, Len(d) = Len(calls[t]) - 1
  PROVE  \A n, m \in Nat : n = Len(calls[t]) /\ m = Len(Held(t)) => Shorter(t, d, n, m)
<1> TAKE n, m \in Nat
<1> HAVE n = Len(calls[t]) /\ m = Len(Held(t))
<1>1. /\ \A u \in Tasks \ {t} : calls[u] = <<>>
      /\ BeginTypes /\ eng \in Engine /\ calls \in [Tasks -> Seq(BeginRecord)]
      /\ lost \in [Tasks -> Nat] /\ txDepth \in Int
      /\ calls[t] \in Records /\ lost[t] \in Nat /\ EngineHolds(t)
      /\ Held(t) \in Records /\ Len(Held(t)) = Len(calls[t]) - lost[t]
      /\ \A i \in 1 .. Len(calls[t]) - lost[t] : Held(t)[i] = calls[t][lost[t] + i]
  BY Alone
<1>2. n >= 1
  <2>1. n # 0
    BY <1>1, RecordsFields
  <2> QED BY <2>1
<1>3. PICK k \in Nat : k = lost[t] /\ k <= n /\ m = n - k
  BY <1>1 DEF EngineHolds
<1>4. lost'[t] = (IF k = n THEN k - 1 ELSE k) /\ \A u \in Tasks \ {t} : lost'[u] = lost[u]
  BY <1>1, <1>3 DEF Leave
<1>5. lost'[t] \in Nat /\ lost'[t] <= n - 1
  BY <1>2, <1>3, <1>4
<1>6. lost' \in [Tasks -> Nat]
  BY <1>1, <1>5 DEF Leave
<1>7. \A u \in Tasks \ {t} : lost'[u] <= 0
  BY <1>1, <1>4, EmptySeq DEF BeginInv
<1>8. /\ Held(t)' \in Records /\ Len(Held(t)') = n - 1 - lost'[t]
      /\ \A i \in 1 .. n - 1 - lost'[t] : Held(t)'[i] = d[lost'[t] + i]
  BY <1>5, HeldAfter
<1>9. ASSUME m = 0 PROVE lost'[t] = lost[t] - 1 /\ lost[t] = n /\ Held(t) = <<>> /\ Held(t)' = <<>>
  <2>1. k = n /\ lost'[t] = k - 1 /\ Len(Held(t)') = 0
    BY <1>2, <1>3, <1>4, <1>8, <1>9
  <2> QED BY <1>1, <1>3, <1>8, <1>9, <2>1, RecordsFields
<1>10. ASSUME m # 0
       PROVE  /\ lost'[t] = lost[t] /\ lost[t] = n - m /\ Len(Held(t)') = m - 1
              /\ Top(t) = Held(t)[m] /\ m <= n
              /\ \A i \in 1 .. m : Held(t)[i] = calls[t][n - m + i]
              /\ \A i \in 1 .. m - 1 : Held(t)'[i] = d[n - m + i]
  <2>1. k # n /\ lost'[t] = k /\ n - m = k /\ n - 1 - k = m - 1 /\ m <= n /\ m \in 1 .. m /\ k + m = n
    BY <1>3, <1>4, <1>10
  <2>2. \A i \in 1 .. m : Held(t)[i] = calls[t][k + i]
    BY <1>1, <1>3
  <2>3. Top(t) = calls[t][k + m]
    BY <2>1 DEF Top
  <2>4. Len(Held(t)') = m - 1 /\ \A i \in 1 .. m - 1 : Held(t)'[i] = d[k + i]
    BY <1>8, <2>1
  <2> QED BY <1>3, <2>1, <2>2, <2>3, <2>4
<1> QED BY <1>2, <1>5, <1>6, <1>7, <1>8, <1>9, <1>10 DEF Shorter

LEMMA CallbackResolvesKeeps ==
  ASSUME Serialised, BeginInv, NEW t \in Tasks, CallbackResolves(t), NEW m \in Nat, m = Len(Held(t))
  PROVE  /\ BeginInv' /\ m >= 1 /\ lost'[t] = lost[t] /\ Len(Held(t)') = m - 1
         /\ m = 1 => \A x : x \in eng'.durable <=> x \in eng.durable \/ x \in Held(t)[1].work
         /\ m > 1 => eng'.durable = eng.durable
         /\ \A i \in 1 .. m - 1 : \A x :
              x \in Held(t)'[i].work <=> x \in Held(t)[i].work \/ (i = m - 1 /\ x \in Held(t)[m].work)
<1>1. /\ \A u \in Tasks \ {t} : calls[u] = <<>>
      /\ BeginTypes /\ eng \in Engine /\ calls \in [Tasks -> Seq(BeginRecord)]
      /\ lost \in [Tasks -> Nat] /\ txDepth \in Int
      /\ calls[t] \in Records /\ lost[t] \in Nat /\ EngineHolds(t)
      /\ Held(t) \in Records /\ Len(Held(t)) = Len(calls[t]) - lost[t]
  BY Alone DEF CallbackResolves
<1>2. PICK n \in Nat : n = Len(calls[t])
  BY <1>1, RecordsFields
<1>3. /\ eng' = (IF Top(t).savepoint THEN Release(eng, Top(t).name) ELSE Commit(eng))
      /\ txDepth' = txDepth - 1 /\ UNCHANGED <<refused, opens>> /\ Leave(t) /\ Hand(t)
      /\ MayAct(t) /\ calls[t] # <<>> /\ Closable(eng, Top(t))
  BY DEF CallbackResolves
<1>4. m >= 1 /\ m <= n
  <2>1. m # 0
    <3>1. SUFFICES ASSUME m = 0 PROVE FALSE
      OBVIOUS
    <3>2. eng.stack = <<>>
      BY <1>1, <3>1, MirrorsNone DEF EngineHolds
    <3> QED BY <1>1, <1>3, <3>2, NothingToClean
  <2> QED BY <1>1, <1>2, <2>1
<1> DEFINE below == Below(t) j == n - 1 last == below[j] top == [last EXCEPT !.work = @ \cup Top(t).work]
           d == IF n = 1 THEN <<>> ELSE [below EXCEPT ![j] = top]
<1>5. /\ below \in Records /\ Len(below) = n - 1 /\ \A i \in 1 .. n - 1 : below[i] = calls[t][i]
      /\ Top(t) = calls[t][n] /\ Top(t) \in BeginRecord /\ Top(t).work \in SUBSET Statements
  <2>1. below = SubSeq(calls[t], 1, Len(calls[t]) - 1)
    BY DEF Below
  <2>2. Top(t) = calls[t][n] /\ n \in 1 .. n
    BY <1>2, <1>4 DEF Top
  <2>3. Top(t) \in BeginRecord
    BY <1>1, <1>2, <2>2, RecordsFields
  <2> HIDE DEF below
  <2>4. below \in Records /\ Len(below) = Len(calls[t]) - 1 /\ \A i \in 1 .. Len(calls[t]) - 1 : below[i] = calls[t][i]
    BY <1>1, <1>3, <2>1, Around
  <2> QED BY <1>2, <2>2, <2>3, <2>4 DEF BeginRecord
<1>6. calls' = [calls EXCEPT ![t] = d] /\ promised' \subseteq Statements
  <2>1. CASE n = 1
    BY <1>1, <1>2, <1>3, <1>5, <2>1 DEF Hand, BeginTypes
  <2>2. CASE n # 1
    BY <1>1, <1>2, <1>3, <1>5, <2>2 DEF Hand, BeginTypes
  <2> QED BY <2>1, <2>2
<1> HIDE DEF below
<1>7. /\ d \in Records /\ Len(d) = n - 1
      /\ \A i \in 1 .. n - 1 :
           /\ d[i].name = calls[t][i].name /\ d[i].savepoint = calls[t][i].savepoint
           /\ \A x : x \in d[i].work <=> x \in calls[t][i].work \/ (i = n - 1 /\ x \in Top(t).work)
  <2>1. CASE n = 1
    <3>1. d = <<>>
      BY <2>1
    <3> QED BY <2>1, <3>1, EmptySeq DEF Records
  <2>2. CASE n # 1
    <3>1. j \in 1 .. n - 1 /\ j \in Nat /\ j # 0 /\ j = Len(below)
      BY <1>4, <1>5, <2>2
    <3>2. last \in BeginRecord /\ below # <<>> /\ last = calls[t][j] /\ DOMAIN below = 1 .. j
      BY <1>5, <3>1, RecordsFields
    <3> HIDE DEF last, j
    <3>3. top \in BeginRecord /\ top.savepoint = last.savepoint /\ top.name = last.name /\ top.work = last.work \cup Top(t).work
      <4>1. last \in BeginRecord /\ Top(t).work \in SUBSET Statements
        BY <1>5, <3>2
      <4> QED BY ONLY <4>1, RecordWork
    <3> HIDE DEF top
    <3>4. d = [below EXCEPT ![j] = top]
      BY <2>2
    <3> HIDE DEF d
    <3>5. d \in Records /\ Len(d) = j
      BY <1>5, <3>1, <3>2, <3>3, <3>4, TopReplaced
    <3>6. d[j] = top /\ \A i \in 1 .. j : i # j => d[i] = calls[t][i]
      BY <1>5, <3>1, <3>2, <3>4
    <3>7. j = n - 1
      BY DEF j
    <3> QED BY <3>2, <3>3, <3>5, <3>6, <3>7
  <2> QED BY <2>1, <2>2
<1> HIDE DEF d
<1>8. /\ n >= 1 /\ calls'[t] = d /\ calls' \in [Tasks -> Seq(BeginRecord)]
      /\ \A u \in Tasks \ {t} : calls'[u] = <<>> /\ lost'[u] <= 0
      /\ lost' \in [Tasks -> Nat] /\ lost'[t] <= n - 1
      /\ Held(t)' \in Records
      /\ lost'[t] = lost[t] /\ lost[t] = n - m /\ Len(Held(t)') = m - 1
      /\ Top(t) = Held(t)[m]
      /\ \A i \in 1 .. m : Held(t)[i] = calls[t][n - m + i]
      /\ \A i \in 1 .. m - 1 : Held(t)'[i] = d[n - m + i]
  <2>1. m # 0 /\ Len(d) = Len(calls[t]) - 1 /\ d \in Records
    BY <1>2, <1>4, <1>7
  <2>2. MayAct(t) /\ calls[t] # <<>> /\ Leave(t)
    BY <1>3
  <2>3. calls'[t] = d /\ calls' \in [Tasks -> Seq(BeginRecord)] /\ \A u \in Tasks \ {t} : calls'[u] = <<>>
    BY <1>1, <1>6, <1>7 DEF Records
  <2>4. Shorter(t, d, n, m)
    BY <1>2, <2>1, <2>2, <2>3, OneLess
  <2> QED BY <1>4, <2>1, <2>3, <2>4 DEF Shorter
<1> DEFINE a == Held(t) b == Held(t)' c == Top(t)
<1>9. \A i \in 1 .. m - 1 :
        /\ b[i].name = a[i].name /\ b[i].savepoint = a[i].savepoint
        /\ \A x : x \in b[i].work <=> x \in a[i].work \/ (i = m - 1 /\ x \in c.work)
  <2>1. ASSUME NEW i \in 1 .. m - 1
        PROVE  /\ b[i].name = a[i].name /\ b[i].savepoint = a[i].savepoint
               /\ \A x : x \in b[i].work <=> x \in a[i].work \/ (i = m - 1 /\ x \in c.work)
    <3>1. i \in 1 .. m /\ n - m + i \in 1 .. n - 1 /\ (i = m - 1 <=> n - m + i = n - 1)
      BY <1>4
    <3>2. a[i] = calls[t][n - m + i] /\ b[i] = d[n - m + i]
      BY <1>8, <3>1
    <3> HIDE DEF a, b, c
    <3> QED BY <1>7, <3>1, <3>2 DEF c
  <2> QED BY <2>1
<1>10. Mirrors(eng, a) /\ a \in Records /\ b \in Records /\ m = Len(a) /\ c = a[m] /\ Len(b) = m - 1 /\ m # 0
  BY <1>1, <1>4, <1>8 DEF EngineHolds
<1>11. eng' = (IF c.savepoint THEN Release(eng, c.name) ELSE Commit(eng)) /\ eng \in Engine
  BY <1>1, <1>3
<1> HIDE DEF a, b, c
<1>12. /\ eng' \in Engine /\ Mirrors(eng', b)
       /\ m = 1 => \A x : x \in eng'.durable <=> x \in eng.durable \/ x \in c.work
       /\ m > 1 => eng'.durable = eng.durable
  <2>1. PICK f : f = eng'
    OBVIOUS
  <2>2. f = IF c.savepoint THEN Release(eng, c.name) ELSE Commit(eng)
    BY <1>11, <2>1
  <2>3. /\ f \in Engine /\ Mirrors(f, b)
        /\ m = 1 => \A x : x \in f.durable <=> x \in eng.durable \/ x \in c.work
        /\ m > 1 => f.durable = eng.durable
    BY ONLY <1>9, <1>10, <1>11, <2>2, MirrorsClosed, m \in Nat
  <2> QED BY <2>1, <2>3
<1>13. BeginTypes'
  <2>1. txDepth' \in Int
    BY <1>1, <1>3
  <2> QED BY <1>1, <1>3, <1>6, <1>8, <1>12, <2>1 DEF BeginTypes
<1>14. EngineHolds(t)'
  <2>1. txDepth' <= n - 1
    BY <1>1, <1>2, <1>3 DEF EngineHolds
  <2> QED BY <1>7, <1>8, <1>12, <2>1 DEF EngineHolds, b
<1>15. BeginInv'
  BY <1>8, <1>13, <1>14, OneActs
<1> QED BY <1>4, <1>8, <1>9, <1>10, <1>12, <1>15 DEF a, b

\* begin() rejects: the innermost call's own work is gone, or was when the engine
\* rolled back.
LEMMA DropKeeps ==
  ASSUME Serialised, BeginInv, NEW t \in Tasks, MayAct(t), calls[t] # <<>>,
         eng' = Cleanup(eng, Top(t)), Drop(t), txDepth' \in Int, txDepth' <= txDepth - 1,
         UNCHANGED <<promised, opens>>, NEW m \in Nat, m = Len(Held(t))
  PROVE  /\ BeginInv' /\ eng'.durable = eng.durable
         /\ m = 0 => Held(t)' = <<>> /\ lost'[t] = lost[t] - 1 /\ lost[t] > 0
         /\ m # 0 => /\ Len(Held(t)') = m - 1 /\ lost'[t] = lost[t]
                     /\ \A i \in 1 .. m - 1 : Held(t)'[i] = Held(t)[i]
<1>1. /\ \A u \in Tasks \ {t} : calls[u] = <<>>
      /\ BeginTypes /\ eng \in Engine /\ calls \in [Tasks -> Seq(BeginRecord)]
      /\ lost \in [Tasks -> Nat] /\ txDepth \in Int
      /\ calls[t] \in Records /\ lost[t] \in Nat /\ EngineHolds(t)
      /\ Held(t) \in Records /\ Len(Held(t)) = Len(calls[t]) - lost[t]
  BY Alone
<1>2. PICK n \in Nat : n = Len(calls[t])
  BY <1>1, RecordsFields
<1> DEFINE d == Below(t)
<1>3. calls' = [calls EXCEPT ![t] = d] /\ refused' = refused \cup Top(t).work /\ Leave(t)
  BY DEF Drop
<1>4. /\ d \in Records /\ Len(d) = n - 1 /\ \A i \in 1 .. n - 1 : d[i] = calls[t][i]
      /\ Top(t).work \in SUBSET Statements
  <2>1. d = SubSeq(calls[t], 1, Len(calls[t]) - 1)
    BY DEF Below
  <2>2. n \in 1 .. n /\ Top(t) = calls[t][n]
    <3>1. n # 0
      BY <1>1, <1>2, RecordsFields
    <3>2. n \in 1 .. n
      BY <3>1
    <3> QED BY <1>2, <3>2 DEF Top
  <2>3. Top(t) \in BeginRecord
    BY <1>1, <1>2, <2>2, RecordsFields
  <2> HIDE DEF d
  <2>4. d \in Records /\ Len(d) = Len(calls[t]) - 1 /\ \A i \in 1 .. Len(calls[t]) - 1 : d[i] = calls[t][i]
    BY <1>1, <2>1, Around
  <2> QED BY <1>2, <2>3, <2>4 DEF BeginRecord
<1> HIDE DEF d
<1>5. /\ n >= 1 /\ calls'[t] = d /\ calls' \in [Tasks -> Seq(BeginRecord)]
      /\ \A u \in Tasks \ {t} : calls'[u] = <<>> /\ lost'[u] <= 0
      /\ lost' \in [Tasks -> Nat] /\ lost'[t] <= n - 1
      /\ Held(t)' \in Records
      /\ m = 0 => lost'[t] = lost[t] - 1 /\ lost[t] = n /\ Held(t) = <<>> /\ Held(t)' = <<>>
      /\ m # 0 => /\ lost'[t] = lost[t] /\ lost[t] = n - m /\ Len(Held(t)') = m - 1
                  /\ Top(t) = Held(t)[m] /\ m <= n
                  /\ \A i \in 1 .. m : Held(t)[i] = calls[t][n - m + i]
                  /\ \A i \in 1 .. m - 1 : Held(t)'[i] = d[n - m + i]
  <2>1. Len(d) = Len(calls[t]) - 1
    BY <1>2, <1>4
  <2>2. calls'[t] = d /\ calls' \in [Tasks -> Seq(BeginRecord)] /\ \A u \in Tasks \ {t} : calls'[u] = <<>>
    BY <1>1, <1>3, <1>4 DEF Records
  <2>3. Shorter(t, d, n, m)
    BY <1>2, <1>3, <1>4, <2>1, <2>2, OneLess
  <2> QED BY <2>2, <2>3 DEF Shorter
<1>6. /\ eng' \in Engine /\ Mirrors(eng', Held(t)') /\ eng'.durable = eng.durable
      /\ m # 0 => \A i \in 1 .. m - 1 : Held(t)'[i] = Held(t)[i]
  <2>1. CASE m = 0
    <3>1. eng.stack = <<>> /\ eng.visible = eng.durable
      BY <1>1, <2>1, MirrorsNone DEF EngineHolds
    <3>2. eng' = eng
      BY <1>1, <3>1, NothingToClean
    <3>3. Held(t)' = Held(t)
      BY <1>5, <2>1
    <3> QED BY <1>1, <2>1, <3>2, <3>3 DEF EngineHolds
  <2>2. CASE m # 0
    <3> DEFINE a == Held(t) b == Held(t)' c == Top(t)
    <3>1. \A i \in 1 .. m - 1 : b[i] = a[i]
      <4>1. ASSUME NEW i \in 1 .. m - 1 PROVE b[i] = a[i]
        <5>1. i \in 1 .. m /\ n - m + i \in 1 .. n - 1
          BY <1>5, <2>2
        <5> QED BY <1>4, <1>5, <2>2, <5>1
      <4> QED BY <4>1
    <3>2. /\ Mirrors(eng, a) /\ a \in Records /\ b \in Records /\ m = Len(a) /\ c = a[m] /\ Len(b) = m - 1
          /\ eng \in Engine
      BY <1>1, <1>5, <2>2 DEF EngineHolds
    <3>3. eng' = Cleanup(eng, c)
      OBVIOUS
    <3> HIDE DEF a, b, c
    <3>4. eng' \in Engine /\ Mirrors(eng', b) /\ eng'.durable = eng.durable
      BY <2>2, <3>1, <3>2, <3>3, MirrorsCleaned
    <3> QED BY <3>1, <3>4 DEF a, b
  <2> QED BY <2>1, <2>2
<1>7. BeginTypes'
  <2>1. refused' \subseteq Statements
    BY <1>1, <1>3, <1>4 DEF BeginTypes
  <2> QED BY <1>1, <1>5, <1>6, <2>1 DEF BeginTypes
<1>8. EngineHolds(t)'
  <2>1. txDepth' <= n - 1
    BY <1>1, <1>2 DEF EngineHolds
  <2> QED BY <1>4, <1>5, <1>6, <2>1 DEF EngineHolds
<1>9. BeginInv'
  BY <1>5, <1>7, <1>8, OneActs
<1>10. m = 0 => lost[t] > 0
  BY <1>5
<1> QED BY <1>5, <1>6, <1>9, <1>10

\* Both ways of rejecting: fn threw, or RELEASE/COMMIT did.
LEMMA RejectsDrop ==
  ASSUME BeginInv, NEW t \in Tasks, CallbackRejects(t) \/ CloseFails(t)
  PROVE  /\ MayAct(t) /\ calls[t] # <<>> /\ eng' = Cleanup(eng, Top(t)) /\ Drop(t)
         /\ txDepth' \in Int /\ txDepth' <= txDepth - 1 /\ UNCHANGED <<promised, opens>>
<1>1. txDepth \in Int
  BY DEF BeginInv, BeginTypes
<1>2. txDepth' = txDepth - 1 \/ txDepth' = txDepth - 1 - 1
  BY DEF CallbackRejects, CloseFails, AfterCatch
<1>3. txDepth' \in Int /\ txDepth' <= txDepth - 1
  BY <1>1, <1>2
<1> QED BY <1>3 DEF CallbackRejects, CloseFails

LEMMA BeginInvNext == Serialised /\ BeginInv /\ [BeginNext]_beginVars => BeginInv'
<1> SUFFICES ASSUME Serialised, BeginInv, [BeginNext]_beginVars PROVE BeginInv'
  OBVIOUS
<1>1. CASE UNCHANGED beginVars
  BY <1>1 DEF beginVars, BeginInv, BeginTypes, Inside, EngineHolds, Held
<1>2. CASE BeginNext
  <2>1. ASSUME NEW t \in Tasks, CallbackResolves(t) PROVE BeginInv'
    <3>1. Len(Held(t)) \in Nat
      <4>1. Held(t) \in Records
        BY <2>1, Alone DEF CallbackResolves
      <4> QED BY <4>1, RecordsFields
    <3> QED BY <2>1, <3>1, CallbackResolvesKeeps
  <2>2. ASSUME NEW t \in Tasks, CallbackRejects(t) \/ CloseFails(t) PROVE BeginInv'
    <3>1. Len(Held(t)) \in Nat
      <4>1. Held(t) \in Records
        BY <2>2, RejectsDrop, Alone
      <4> QED BY <4>1, RecordsFields
    <3> QED BY <2>2, <3>1, RejectsDrop, DropKeeps
  <2> QED BY <1>2, <2>1, <2>2, BeginCallKeeps, BeginRefusedKeeps, StatementKeeps, StatementAbortsKeeps
          DEF BeginNext
<1> QED BY <1>1, <1>2

\* begin()/savepoint() on the one SQLite connection, callers serialised: whatever
\* was nested, refused, thrown, caught, rolled back by the engine or failed at
\* COMMIT, a connection nobody is inside of is in autocommit mode, and the counter
\* never makes an outermost call open with a SAVEPOINT.
THEOREM NothingDangles ==
  ASSUME Serialised PROVE BeginSpec => []NoDanglingTransaction
<1>1. BeginInit => BeginInv
  BY BeginInvInit
<1>2. BeginInv /\ [BeginNext]_beginVars => BeginInv'
  BY BeginInvNext
<1>3. BeginInv => NoDanglingTransaction
  BY DEF BeginInv, EngineHolds, NoDanglingTransaction, InTransaction
<1> QED BY <1>1, <1>2, <1>3, PTL DEF BeginSpec

----------------------------------------------------------------------------
(* The refinement: the work of the open calls is the stack of scopes.        *)

Scopes == Seq(SUBSET Statements)

LEMMA ScopeFields ==
  ASSUME NEW a \in Scopes
  PROVE  /\ Len(a) \in Nat /\ DOMAIN a = 1 .. Len(a) /\ (a = <<>> <=> Len(a) = 0)
         /\ \A i \in 1 .. Len(a) : a[i] \in SUBSET Statements
BY LenProperties, ElementOfSeq, EmptySeq DEF Scopes

LEMMA ScopeOpened ==
  ASSUME NEW a \in Scopes, NEW b \in Scopes, Len(b) = Len(a) + 1, b[Len(a) + 1] = {},
         \A i \in 1 .. Len(a) : b[i] = a[i]
  PROVE  b = Append(a, {})
<1>1. /\ Append(a, {}) \in Scopes /\ Len(Append(a, {})) = Len(a) + 1
      /\ Append(a, {})[Len(a) + 1] = {} /\ \A i \in 1 .. Len(a) : Append(a, {})[i] = a[i]
  BY AppendProperties DEF Scopes
<1>2. \A i \in 1 .. Len(a) + 1 : i \in 1 .. Len(a) \/ i = Len(a) + 1
  BY ScopeFields
<1>3. \A i \in 1 .. Len(b) : b[i] = Append(a, {})[i]
  BY <1>1, <1>2
<1> QED BY <1>1, <1>3, SeqEqual DEF Scopes

LEMMA ScopeWritten ==
  ASSUME NEW a \in Scopes, NEW b \in Scopes, a # <<>>, Len(b) = Len(a), NEW w \in SUBSET Statements,
         b[Len(a)] = a[Len(a)] \cup w, \A i \in 1 .. Len(a) : i # Len(a) => b[i] = a[i]
  PROVE  b = [a EXCEPT ![Len(a)] = @ \cup w]
<1>1. Len(a) \in 1 .. Len(a)
  BY ScopeFields
<1>2. a[Len(a)] \cup w \in SUBSET Statements
  BY <1>1, ScopeFields
<1> DEFINE c == [a EXCEPT ![Len(a)] = a[Len(a)] \cup w]
<1>3. /\ c \in Scopes /\ Len(c) = Len(a)
      /\ \A i \in 1 .. Len(a) : c[i] = IF i = Len(a) THEN a[Len(a)] \cup w ELSE a[i]
  BY <1>1, <1>2, ExceptSeq DEF Scopes
<1> HIDE DEF c
<1>4. \A i \in 1 .. Len(b) : b[i] = c[i]
  BY <1>3
<1>5. b = c
  BY <1>3, <1>4, SeqEqual DEF Scopes
<1> QED BY <1>5 DEF c

LEMMA ScopesAround ==
  ASSUME NEW a \in Scopes, a # <<>>, NEW r, r = SubSeq(a, 1, Len(a) - 1)
  PROVE  r \in Scopes /\ Len(r) = Len(a) - 1 /\ \A i \in 1 .. Len(a) - 1 : r[i] = a[i]
<1> DEFINE n == Len(a)
<1>1. n \in Nat /\ n >= 1 /\ \A i \in 1 .. n : a[i] \in SUBSET Statements
  BY ScopeFields
<1>2. \A i \in 1 .. n - 1 : a[i] \in SUBSET Statements
  BY <1>1
<1>3. /\ r \in Scopes /\ Len(r) = (IF 1 <= n - 1 THEN n - 1 - 1 + 1 ELSE 0)
      /\ \A i \in 1 .. n - 1 - 1 + 1 : r[i] = a[1 + i - 1]
  BY <1>1, <1>2, SubSeqProperties DEF Scopes
<1> HIDE DEF n
<1>4. Len(r) = n - 1
  BY <1>1, <1>3
<1>5. \A i \in 1 .. n - 1 : i \in 1 .. n - 1 - 1 + 1 /\ 1 + i - 1 = i
  BY <1>1
<1> QED BY <1>3, <1>4, <1>5 DEF n

LEMMA ScopeDropped ==
  ASSUME NEW a \in Scopes, NEW b \in Scopes, a # <<>>, Len(b) = Len(a) - 1,
         \A i \in 1 .. Len(a) - 1 : b[i] = a[i]
  PROVE  b = SubSeq(a, 1, Len(a) - 1)
<1> DEFINE r == SubSeq(a, 1, Len(a) - 1)
<1>1. r \in Scopes /\ Len(r) = Len(a) - 1 /\ \A i \in 1 .. Len(a) - 1 : r[i] = a[i]
  BY ScopesAround
<1> HIDE DEF r
<1>2. \A i \in 1 .. Len(b) : b[i] = r[i]
  BY <1>1
<1>3. b = r
  BY <1>1, <1>2, SeqEqual DEF Scopes
<1> QED BY <1>3 DEF r

LEMMA ScopeHanded ==
  ASSUME NEW a \in Scopes, NEW b \in Scopes, NEW n \in Nat, n = Len(a), n > 1, Len(b) = n - 1,
         b[n - 1] = a[n - 1] \cup a[n], \A i \in 1 .. n - 1 : i # n - 1 => b[i] = a[i]
  PROVE  b = [SubSeq(a, 1, Len(a) - 1) EXCEPT ![Len(a) - 1] = @ \cup a[Len(a)]]
<1> DEFINE r == SubSeq(a, 1, Len(a) - 1)
<1>1. a # <<>> /\ n \in 1 .. n /\ n - 1 \in 1 .. n - 1
  BY ScopeFields
<1>2. r \in Scopes /\ Len(r) = n - 1 /\ \A i \in 1 .. n - 1 : r[i] = a[i]
  BY <1>1, ScopesAround
<1>3. a[n] \in SUBSET Statements
  BY <1>1, ScopeFields
<1> HIDE DEF r
<1>4. r # <<>>
  BY <1>1, <1>2, ScopeFields
<1>5. b = [r EXCEPT ![Len(r)] = @ \cup a[n]]
  <2>1. Len(b) = Len(r) /\ b[Len(r)] = r[Len(r)] \cup a[n]
    BY <1>1, <1>2
  <2>2. \A i \in 1 .. Len(r) : i # Len(r) => b[i] = r[i]
    BY <1>2
  <2> QED BY <1>2, <1>3, <1>4, <2>1, <2>2, ScopeWritten
<1>6. Len(r) = Len(a) - 1 /\ a[n] = a[Len(a)]
  BY <1>2
<1> QED BY <1>5, <1>6 DEF r


\* The works of a sequence of open calls, and of the one caller inside.
Works(c) == [i \in DOMAIN c |-> c[i].work]

LEMMA WorksAre ==
  ASSUME NEW c \in Records
  PROVE  /\ Works(c) \in Scopes /\ Len(Works(c)) = Len(c)
         /\ \A i \in 1 .. Len(c) : Works(c)[i] = c[i].work
<1>1. /\ DOMAIN c = 1 .. Len(c) /\ Len(c) \in Nat
      /\ \A i \in 1 .. Len(c) : c[i].work \in SUBSET Statements
  BY RecordsFields DEF BeginRecord
<1>2. Works(c) \in [1 .. Len(c) -> SUBSET Statements]
  BY <1>1 DEF Works
<1>3. Works(c) \in Scopes
  BY <1>1, <1>2 DEF Scopes
<1>4. Len(Works(c)) = Len(c)
  BY <1>1, <1>2
<1> QED BY <1>1, <1>3, <1>4 DEF Works

After(c, l, t) == SubSeq(c[t], l[t] + 1, Len(c[t]))

Within(c) == {t \in Tasks : c[t] # <<>>}

OneWorks(c, l) ==
  IF Within(c) = {} THEN <<>>
  ELSE [i \in DOMAIN After(c, l, CHOOSE t \in Within(c) : TRUE) |->
          After(c, l, CHOOSE t \in Within(c) : TRUE)[i].work]

OneGone(c, l) == IF Within(c) = {} THEN 0 ELSE l[CHOOSE t \in Within(c) : TRUE]

\* Nobody but t is inside begin(): the works of what the engine holds of t's calls
\* are the abstract scopes.
LEMMA OnlyOne ==
  ASSUME NEW c, NEW l, NEW t \in Tasks, c[t] \in Records, l[t] \in Nat, l[t] <= Len(c[t]),
         \A u \in Tasks \ {t} : c[u] = <<>>
  PROVE  OneWorks(c, l) = Works(After(c, l, t)) /\ OneGone(c, l) = l[t] /\ After(c, l, t) \in Records
<1> DEFINE h == After(c, l, t)
<1>1. h \in Records /\ Len(h) = Len(c[t]) - l[t]
  BY CallsAfter DEF After
<1>2. CASE c[t] = <<>>
  <2>1. Within(c) = {}
    BY <1>2 DEF Within
  <2>2. l[t] = 0 /\ Len(h) = 0
    BY <1>1, <1>2, EmptySeq
  <2> HIDE DEF h
  <2>3. Works(h) = <<>>
    BY <1>1, <2>2, WorksAre, ScopeFields
  <2> QED BY <1>1, <2>1, <2>2, <2>3 DEF OneWorks, OneGone, h
<1>3. CASE c[t] # <<>>
  <2>1. Within(c) = {t}
    BY <1>3 DEF Within
  <2>2. (CHOOSE u \in Within(c) : TRUE) = t /\ Within(c) # {}
    BY <2>1
  <2> QED BY <1>1, <2>2 DEF OneWorks, OneGone, Works
<1> QED BY <1>2, <1>3

\* A step of one caller, seen from its own calls.
LEMMA TaskStep ==
  ASSUME Serialised, BeginInv, NEW t \in Tasks, MayAct(t), BeginInv',
         calls' = calls \/ \E c : calls' = [calls EXCEPT ![t] = c]
  PROVE  /\ Held(t) \in Records /\ Held(t)' \in Records
         /\ OpenWork = Works(Held(t)) /\ OpenWork' = Works(Held(t)')
         /\ GoneCalls = lost[t] /\ GoneCalls' = lost'[t]
<1>1. \A u \in Tasks \ {t} : calls[u] = <<>>
  BY Alone
<1>2. calls[t] \in Records /\ lost[t] \in Nat /\ lost[t] <= Len(calls[t])
  BY DEF BeginInv, BeginTypes, Records
<1>3. calls'[t] \in Records /\ lost'[t] \in Nat /\ lost'[t] <= Len(calls'[t])
  BY DEF BeginInv, BeginTypes, Records
<1>4. \A u \in Tasks \ {t} : calls'[u] = <<>>
  BY <1>1 DEF BeginInv, BeginTypes
<1>5. /\ OneWorks(calls, lost) = Works(After(calls, lost, t)) /\ OneGone(calls, lost) = lost[t]
      /\ After(calls, lost, t) \in Records
  BY <1>1, <1>2, OnlyOne
<1>6. /\ OneWorks(calls', lost') = Works(After(calls', lost', t)) /\ OneGone(calls', lost') = lost'[t]
      /\ After(calls', lost', t) \in Records
  BY <1>3, <1>4, OnlyOne
<1>7. /\ OpenWork = OneWorks(calls, lost) /\ GoneCalls = OneGone(calls, lost) /\ Held(t) = After(calls, lost, t)
      /\ OpenWork' = OneWorks(calls', lost') /\ GoneCalls' = OneGone(calls', lost')
      /\ Held(t)' = After(calls', lost', t)
  BY DEF OpenWork, GoneCalls, One, Inside, Held, OneWorks, OneGone, Within, After
<1> QED BY <1>5, <1>6, <1>7

ScopeSteps == Promise!NTNext \/ UNCHANGED <<eng.durable, OpenWork, GoneCalls>>

LEMMA BeginCallOpens ==
  ASSUME Serialised, BeginInv, NEW t \in Tasks, BeginCall(t) PROVE Promise!Open
<1>1. /\ BeginInv' /\ eng'.durable = eng.durable /\ lost' = lost
      /\ Len(Held(t)') = Len(Held(t)) + 1 /\ Held(t)'[Len(Held(t)) + 1].work = {}
      /\ \A i \in 1 .. Len(Held(t)) : Held(t)'[i] = Held(t)[i]
  BY BeginCallKeeps
<1>2. /\ Held(t) \in Records /\ Held(t)' \in Records
      /\ OpenWork = Works(Held(t)) /\ OpenWork' = Works(Held(t)')
      /\ GoneCalls = lost[t] /\ GoneCalls' = lost'[t]
  <2>1. MayAct(t) /\ \E c : calls' = [calls EXCEPT ![t] = c]
    BY DEF BeginCall
  <2> QED BY <1>1, <2>1, TaskStep
<1> DEFINE c == Held(t) d == Held(t)' a == Works(c) b == Works(d)
<1>3. /\ c \in Records /\ d \in Records /\ Len(d) = Len(c) + 1 /\ d[Len(c) + 1].work = {}
      /\ \A i \in 1 .. Len(c) : d[i] = c[i]
  BY <1>1, <1>2
<1> HIDE DEF c, d
<1>4. /\ a \in Scopes /\ Len(a) = Len(c) /\ \A i \in 1 .. Len(c) : a[i] = c[i].work
      /\ b \in Scopes /\ Len(b) = Len(d) /\ \A i \in 1 .. Len(d) : b[i] = d[i].work
  BY <1>3, WorksAre
<1>5. Len(a) \in Nat
  BY <1>4, ScopeFields
<1> HIDE DEF a, b
<1>6. Len(b) = Len(a) + 1 /\ Len(a) + 1 \in 1 .. Len(a) + 1 /\ \A i \in 1 .. Len(a) : i \in 1 .. Len(a) + 1
  BY <1>3, <1>4, <1>5
<1>7. b[Len(a) + 1] = {} /\ \A i \in 1 .. Len(a) : b[i] = a[i]
  BY <1>3, <1>4, <1>6
<1>8. b = Append(a, {})
  BY <1>4, <1>6, <1>7, ScopeOpened
<1> QED BY <1>1, <1>2, <1>8 DEF Promise!Open, a, b, c, d

LEMMA StatementWrites ==
  ASSUME Serialised, BeginInv, NEW t \in Tasks, NEW s \in Statements, Statement(t, s) PROVE Promise!Write(s)
<1>1. /\ BeginInv' /\ lost' = lost /\ Len(Held(t)') = Len(Held(t))
      /\ Held(t) = <<>> => eng'.durable = eng.durable \cup {s}
      /\ Held(t) # <<>> => eng'.durable = eng.durable
      /\ \A i \in 1 .. Len(Held(t)) : \A y :
           y \in Held(t)'[i].work <=> y \in Held(t)[i].work \/ (i = Len(Held(t)) /\ y = s)
      /\ eng.visible = Under(eng.durable, Held(t), Len(Held(t)))
  BY StatementKeeps
<1>2. /\ Held(t) \in Records /\ Held(t)' \in Records
      /\ OpenWork = Works(Held(t)) /\ OpenWork' = Works(Held(t)')
      /\ GoneCalls = lost[t] /\ GoneCalls' = lost'[t]
  <2>1. MayAct(t) /\ (calls' = calls \/ \E c : calls' = [calls EXCEPT ![t] = c])
    BY DEF Statement
  <2> QED BY <1>1, <2>1, TaskStep
<1> DEFINE c == Held(t) d == Held(t)' a == Works(c) b == Works(d)
<1>3. /\ c \in Records /\ d \in Records /\ Len(d) = Len(c)
      /\ \A i \in 1 .. Len(c) : \A y : y \in d[i].work <=> y \in c[i].work \/ (i = Len(c) /\ y = s)
      /\ eng.visible = Under(eng.durable, c, Len(c))
      /\ c = <<>> => eng'.durable = eng.durable \cup {s}
      /\ c # <<>> => eng'.durable = eng.durable
  BY <1>1, <1>2
<1> HIDE DEF c, d
<1>4. /\ a \in Scopes /\ Len(a) = Len(c) /\ \A i \in 1 .. Len(c) : a[i] = c[i].work
      /\ b \in Scopes /\ Len(b) = Len(d) /\ \A i \in 1 .. Len(d) : b[i] = d[i].work
      /\ DOMAIN a = 1 .. Len(a) /\ Len(a) \in Nat /\ (a = <<>> <=> Len(a) = 0)
      /\ (c = <<>> <=> Len(c) = 0)
      /\ \A i \in 1 .. Len(a) : a[i] \in SUBSET Statements
      /\ \A i \in 1 .. Len(b) : b[i] \in SUBSET Statements
  BY <1>3, WorksAre, ScopeFields, RecordsFields
<1> HIDE DEF a, b
<1>5. s \in Promise!Absent
  <2>1. s \notin eng.visible
    BY DEF Statement, Issued
  <2>2. s \notin eng.durable /\ \A i \in 1 .. Len(c) : s \notin c[i].work
    BY <1>3, <2>1 DEF Under
  <2>3. s \notin UNION {a[i] : i \in DOMAIN a}
    BY <1>4, <2>2
  <2>4. s \notin UNION {OpenWork[i] : i \in DOMAIN OpenWork}
    BY <1>2, <2>3 DEF a, c
  <2> QED BY <2>2, <2>4 DEF Promise!Absent
<1>6. CASE c = <<>>
  <2>1. a = <<>> /\ b = <<>>
    BY <1>3, <1>4, <1>6, ScopeFields
  <2> QED BY <1>1, <1>2, <1>3, <1>5, <1>6, <2>1 DEF Promise!Write, a, b, c, d
<1>7. CASE c # <<>>
  <2> DEFINE w == {s}
  <2>1. a # <<>> /\ Len(b) = Len(a) /\ Len(a) \in 1 .. Len(a) /\ w \in SUBSET Statements /\ \A y : y \in w <=> y = s
    BY <1>3, <1>4, <1>7
  <2> HIDE DEF w
  <2>2. b[Len(a)] = a[Len(a)] \cup w
    <3>1. \A y : y \in b[Len(a)] <=> y \in a[Len(a)] \/ y = s
      BY <1>3, <1>4, <2>1
    <3> QED BY <1>4, <2>1, <3>1
  <2>3. ASSUME NEW i \in 1 .. Len(a), i # Len(a) PROVE b[i] = a[i]
    <3>1. \A y : y \in b[i] <=> y \in a[i]
      BY <1>3, <1>4, <2>3
    <3> QED BY <1>3, <1>4, <3>1
  <2>4. b = [a EXCEPT ![Len(a)] = @ \cup w]
    <3>1. a \in Scopes /\ b \in Scopes /\ a # <<>> /\ Len(b) = Len(a)
      BY <1>4, <2>1
    <3>2. w \in SUBSET Statements
      BY <2>1
    <3>3. \A i \in 1 .. Len(a) : i # Len(a) => b[i] = a[i]
      BY <2>3
    <3> QED BY ONLY <3>1, <3>2, <3>3, <2>2, ScopeWritten
  <2>5. OpenWork = a /\ OpenWork' = b /\ GoneCalls' = GoneCalls /\ eng'.durable = eng.durable
    BY <1>1, <1>2, <1>3, <1>7 DEF a, b, c, d
  <2> QED BY <1>5, <2>1, <2>4, <2>5 DEF Promise!Write, w
<1> QED BY <1>6, <1>7

LEMMA CallbackResolvesResolves ==
  ASSUME Serialised, BeginInv, NEW t \in Tasks, CallbackResolves(t) PROVE Promise!Resolve
<1>n. PICK n \in Nat : n = Len(Held(t))
  <2>1. Held(t) \in Records
    BY Alone DEF CallbackResolves
  <2> QED BY <2>1, RecordsFields
<1>1. /\ BeginInv' /\ n >= 1 /\ lost'[t] = lost[t] /\ Len(Held(t)') = n - 1
      /\ n = 1 => \A x : x \in eng'.durable <=> x \in eng.durable \/ x \in Held(t)[1].work
      /\ n > 1 => eng'.durable = eng.durable
      /\ \A i \in 1 .. n - 1 : \A x :
           x \in Held(t)'[i].work <=> x \in Held(t)[i].work \/ (i = n - 1 /\ x \in Held(t)[n].work)
  BY <1>n, CallbackResolvesKeeps
<1>2. /\ Held(t) \in Records /\ Held(t)' \in Records
      /\ OpenWork = Works(Held(t)) /\ OpenWork' = Works(Held(t)')
      /\ GoneCalls = lost[t] /\ GoneCalls' = lost'[t]
  <2>1. MayAct(t) /\ \E c : calls' = [calls EXCEPT ![t] = c]
    BY DEF CallbackResolves, Hand
  <2> QED BY <1>1, <2>1, TaskStep
<1> DEFINE c == Held(t) d == Held(t)' a == Works(c) b == Works(d)
<1>3. /\ c \in Records /\ d \in Records /\ Len(c) = n /\ Len(d) = n - 1
      /\ \A i \in 1 .. n - 1 : \A x : x \in d[i].work <=> x \in c[i].work \/ (i = n - 1 /\ x \in c[n].work)
      /\ n = 1 => \A x : x \in eng'.durable <=> x \in eng.durable \/ x \in c[1].work
  BY <1>1, <1>2, <1>n
<1> HIDE DEF c, d
<1>4. /\ a \in Scopes /\ Len(a) = n /\ \A i \in 1 .. n : a[i] = c[i].work
      /\ b \in Scopes /\ Len(b) = n - 1 /\ \A i \in 1 .. n - 1 : b[i] = d[i].work
      /\ (b = <<>> <=> Len(b) = 0) /\ (a = <<>> <=> Len(a) = 0)
      /\ \A i \in 1 .. n : a[i] \in SUBSET Statements
      /\ \A i \in 1 .. n - 1 : b[i] \in SUBSET Statements
  BY <1>3, WorksAre, ScopeFields
<1> HIDE DEF a, b
<1>5. OpenWork = a /\ OpenWork' = b /\ GoneCalls' = GoneCalls
  BY <1>1, <1>2 DEF a, b, c, d
<1>6. n = 1 \/ n > 1
  <2>1. n # 0
    BY <1>1
  <2> QED BY <2>1, OneOrMore
<1>7. CASE n = 1
  <2>1. Len(a) = 1 /\ a # <<>> /\ b = <<>> /\ a[1] = c[1].work
    <3>1. 1 \in 1 .. 1
      OBVIOUS
    <3> QED BY <1>4, <1>7, <3>1
  <2>2. eng'.durable = eng.durable \cup a[1]
    BY <1>3, <1>7, <2>1
  <2> QED BY <1>5, <2>1, <2>2 DEF Promise!Resolve
<1>8. CASE n > 1
  <2>1. n = Len(a) /\ a # <<>> /\ Len(b) = n - 1 /\ Len(a) # 1
    BY <1>4, <1>8
  <2>2. n - 1 \in 1 .. n - 1 /\ n - 1 \in 1 .. n /\ n \in 1 .. n /\ \A i \in 1 .. n - 1 : i \in 1 .. n
    BY <1>8
  <2>3. b[n - 1] = a[n - 1] \cup a[n]
    <3>1. \A x : x \in b[n - 1] <=> x \in a[n - 1] \/ x \in a[n]
      BY <1>3, <1>4, <2>2
    <3> QED BY <1>4, <2>2, <3>1
  <2>4. ASSUME NEW i \in 1 .. n - 1, i # n - 1 PROVE b[i] = a[i]
    <3>1. \A x : x \in b[i] <=> x \in a[i]
      BY <1>3, <1>4, <2>2, <2>4
    <3> QED BY <1>4, <2>2, <3>1
  <2>5. b = [SubSeq(a, 1, Len(a) - 1) EXCEPT ![Len(a) - 1] = @ \cup a[Len(a)]]
    BY <1>4, <1>8, <2>1, <2>3, <2>4, ScopeHanded
  <2> QED BY <1>1, <1>5, <1>8, <2>1, <2>5 DEF Promise!Resolve, Promise!Outer
<1> QED BY <1>6, <1>7, <1>8

LEMMA ScopeRejections ==
  ASSUME Serialised, BeginInv, NEW t \in Tasks, CallbackRejects(t) \/ CloseFails(t)
  PROVE  Promise!Reject \/ Promise!End
<1>1. /\ MayAct(t) /\ calls[t] # <<>> /\ eng' = Cleanup(eng, Top(t)) /\ Drop(t)
      /\ txDepth' \in Int /\ txDepth' <= txDepth - 1 /\ UNCHANGED <<promised, opens>>
  BY RejectsDrop
<1>n. PICK n \in Nat : n = Len(Held(t))
  <2>1. Held(t) \in Records
    BY <1>1, Alone
  <2> QED BY <2>1, RecordsFields
<1>2. /\ BeginInv' /\ eng'.durable = eng.durable
      /\ n = 0 => Held(t)' = <<>> /\ lost'[t] = lost[t] - 1 /\ lost[t] > 0
      /\ n # 0 => /\ Len(Held(t)') = n - 1 /\ lost'[t] = lost[t]
                  /\ \A i \in 1 .. n - 1 : Held(t)'[i] = Held(t)[i]
  BY <1>1, <1>n, DropKeeps
<1>3. /\ Held(t) \in Records /\ Held(t)' \in Records
      /\ OpenWork = Works(Held(t)) /\ OpenWork' = Works(Held(t)')
      /\ GoneCalls = lost[t] /\ GoneCalls' = lost'[t]
  <2>1. \E c : calls' = [calls EXCEPT ![t] = c]
    BY <1>1 DEF Drop
  <2> QED BY <1>1, <1>2, <2>1, TaskStep
<1> DEFINE c == Held(t) d == Held(t)' a == Works(c) b == Works(d)
<1>4. CASE n = 0
  <2>1. c = <<>> /\ d = <<>>
    BY <1>2, <1>3, <1>4, <1>n, RecordsFields
  <2> HIDE DEF c, d
  <2>2. OpenWork = a /\ OpenWork' = a /\ a = <<>>
    BY <1>3, <2>1, WorksAre, RecordsFields, ScopeFields DEF c, d
  <2> QED BY <1>2, <1>3, <1>4, <2>2 DEF Promise!End
<1>5. CASE n # 0
  <2>1. /\ c \in Records /\ d \in Records /\ Len(c) = n /\ Len(d) = n - 1
        /\ \A i \in 1 .. n - 1 : d[i] = c[i]
    BY <1>2, <1>3, <1>5, <1>n
  <2> HIDE DEF c, d
  <2>2. /\ a \in Scopes /\ Len(a) = n /\ \A i \in 1 .. n : a[i] = c[i].work
        /\ b \in Scopes /\ Len(b) = n - 1 /\ \A i \in 1 .. n - 1 : b[i] = d[i].work
        /\ (a = <<>> <=> Len(a) = 0)
    BY <2>1, WorksAre, ScopeFields
  <2> HIDE DEF a, b
  <2>3. a # <<>> /\ Len(b) = Len(a) - 1 /\ \A i \in 1 .. Len(a) - 1 : i \in 1 .. n
    BY <1>5, <2>2
  <2>4. \A i \in 1 .. Len(a) - 1 : b[i] = a[i]
    BY <2>1, <2>2, <2>3
  <2>5. b = SubSeq(a, 1, Len(a) - 1)
    BY <2>2, <2>3, <2>4, ScopeDropped
  <2>6. OpenWork = a /\ OpenWork' = b /\ GoneCalls' = GoneCalls
    BY <1>2, <1>3, <1>5 DEF a, b, c, d
  <2> QED BY <1>2, <2>3, <2>5, <2>6 DEF Promise!Reject, Promise!Outer
<1> QED BY <1>4, <1>5

LEMMA EngineAborts ==
  ASSUME Serialised, BeginInv, NEW t \in Tasks, StatementAborts(t) PROVE Promise!Abort
<1>1. /\ BeginInv' /\ eng'.durable = eng.durable
      /\ Len(Held(t)) > 0 /\ Held(t)' = <<>> /\ lost'[t] = lost[t] + Len(Held(t))
  BY StatementAbortsKeeps
<1>2. /\ Held(t) \in Records /\ Held(t)' \in Records
      /\ OpenWork = Works(Held(t)) /\ OpenWork' = Works(Held(t)')
      /\ GoneCalls = lost[t] /\ GoneCalls' = lost'[t]
  <2>1. MayAct(t) /\ calls' = calls
    BY DEF StatementAborts
  <2> QED BY <1>1, <2>1, TaskStep
<1>3. Len(OpenWork) = Len(Held(t)) /\ OpenWork # <<>> /\ OpenWork' = <<>>
  <2>1. /\ Works(Held(t)) \in Scopes /\ Len(Works(Held(t))) = Len(Held(t))
        /\ Works(<<>>) \in Scopes /\ Len(Works(<<>>)) = 0
    BY <1>1, <1>2, WorksAre, EmptySeq
  <2>2. Works(Held(t)) # <<>> /\ Works(<<>>) = <<>>
    BY <1>1, <2>1, ScopeFields
  <2> QED BY <1>1, <1>2, <2>1, <2>2
<1> QED BY <1>1, <1>2, <1>3 DEF Promise!Abort

LEMMA BeginStep == Serialised /\ BeginInv /\ BeginNext => ScopeSteps
<1> SUFFICES ASSUME Serialised, BeginInv, NEW t \in Tasks,
                    \/ BeginCall(t) \/ BeginRefused(t) \/ \E s \in Statements : Statement(t, s)
                    \/ StatementAborts(t) \/ CallbackResolves(t) \/ CloseFails(t) \/ CallbackRejects(t)
             PROVE  ScopeSteps
  BY DEF BeginNext
<1>1. CASE BeginCall(t)
  BY <1>1, BeginCallOpens DEF ScopeSteps, Promise!NTNext
<1>2. CASE BeginRefused(t)
  BY <1>2 DEF BeginRefused, ScopeSteps, OpenWork, GoneCalls, One, Inside, Held
<1>3. CASE \E s \in Statements : Statement(t, s)
  BY <1>3, StatementWrites DEF ScopeSteps, Promise!NTNext
<1>4. CASE StatementAborts(t)
  BY <1>4, EngineAborts DEF ScopeSteps, Promise!NTNext
<1>5. CASE CallbackResolves(t)
  BY <1>5, CallbackResolvesResolves DEF ScopeSteps, Promise!NTNext
<1>6. CASE CallbackRejects(t) \/ CloseFails(t)
  BY <1>6, ScopeRejections DEF ScopeSteps, Promise!NTNext
<1> QED BY <1>1, <1>2, <1>3, <1>4, <1>5, <1>6

\* begin()/savepoint() of db.ts, callers serialised, implements nested transactions:
\* every step opens a scope, adds a statement to the innermost one, hands a resolved
\* scope's work outwards or to the database, drops a rejected scope with exactly its
\* own work, loses all of them at once when the engine rolls back under them, or
\* changes nothing a caller can see.
THEOREM BeginIsNested ==
  ASSUME Serialised PROVE BeginSpec => ScopesAreAtomic
<1>1. BeginInit => BeginInv /\ Promise!NTInit
  <2>1. BeginInit => Promise!NTInit
    BY DEF BeginInit, Promise!NTInit, OpenWork, GoneCalls, Inside
  <2> QED BY <2>1, BeginInvInit
<1>2. BeginInv /\ [BeginNext]_beginVars => BeginInv'
  BY BeginInvNext
<1>3. BeginInv /\ [BeginNext]_beginVars => [Promise!NTNext]_(Promise!ntVars)
  <2>1. UNCHANGED beginVars => UNCHANGED <<eng.durable, OpenWork, GoneCalls>>
    BY DEF beginVars, OpenWork, GoneCalls, One, Inside, Held
  <2> QED BY <2>1, BeginStep DEF ScopeSteps, Promise!ntVars
<1> QED BY <1>1, <1>2, <1>3, PTL DEF BeginSpec, ScopesAreAtomic, Promise!NTSpec

----------------------------------------------------------------------------
(* transaction().                                                            *)

Active(k) == pc[k] \notin Settled \cup {"idle"}

\* A nested call is under way only while the enclosing callback is running,
\* and a callback that is running has its run counted as pending.
NestedInside ==
  /\ \A k \in Calls : Parent[k] # NoCall /\ Active(k) => pc[Parent[k]] = "body"
  /\ \A c \in Calls : pc[c] = "body" => pending[c] > 0

Typed == TxTypes /\ NestedInside

USE TransactionCallAssumption
USE DEF PCs, Settled, Errors, Signals

LEMMA TypedInit == TxInit => Typed
BY DEF TxInit, Typed, TxTypes, NestedInside, Active

LEMMA TypedNext == Typed /\ [TxNext]_txVars => Typed'
<1> SUFFICES ASSUME Typed, [TxNext]_txVars PROVE Typed'
  OBVIOUS
<1> USE DEF Typed, TxTypes, NestedInside, Active, Goto
<1>1. CASE UNCHANGED txVars
  BY <1>1 DEF txVars
<1>2. ASSUME NEW c \in Calls, Invoke(c) PROVE Typed'
  BY <1>2 DEF Invoke, BodyIdle
<1>3. ASSUME NEW c \in Calls, BeginAttempt(c) PROVE Typed'
  <2>1. TxTypes'
    BY <1>3 DEF BeginAttempt
  <2>2. NestedInside'
    BY <1>3 DEF BeginAttempt, Children
  <2> QED BY <2>1, <2>2
<1>4. ASSUME NEW c \in Calls, NEW e \in Errors \ {"none"},
             BodyThrows(c, e) \/ CommitFails(c, e) PROVE Typed'
  <2>1. BodyIdle(c) /\ pc' = [pc EXCEPT ![c] = "caught"] /\ pending' = Undo(c)
    BY <1>4 DEF BodyThrows, CommitFails
  <2>2. pending' \in [Calls -> Nat]
    BY <2>1 DEF BodyIdle, Undo
  <2>3. TxTypes'
    <3>1. error' = [error EXCEPT ![c] = e] /\ UNCHANGED <<attempt, applied>>
      BY <1>4 DEF BodyThrows, CommitFails
    <3>2. reported' \in [Calls -> SUBSET Signals]
      BY <1>4 DEF BodyThrows, CommitFails
    <3> QED BY <2>1, <2>2, <3>1, <3>2
  <2>4. NestedInside'
    BY <2>1 DEF BodyIdle, Undo, Family, Children, Roots
  <2> QED BY <2>3, <2>4
<1>5. ASSUME NEW c \in Calls, Close(c) PROVE Typed'
  <2>1. TxTypes'
    BY <1>5 DEF Close
  <2>2. NestedInside'
    BY <1>5 DEF Close, BodyIdle, Family, Children, Roots
  <2> QED BY <2>1, <2>2
<1>6. ASSUME NEW c \in Calls, AfterCommit(c) PROVE Typed'
  BY <1>6 DEF AfterCommit
<1>7. ASSUME NEW c \in Calls, NEW e \in Errors \ {"none"}, AfterCommitThrows(c, e) PROVE Typed'
  BY <1>7 DEF AfterCommitThrows
<1>8. ASSUME NEW c \in Calls, Retry(c) PROVE Typed'
  BY <1>8 DEF Retry, WillRetry
<1>9. ASSUME NEW c \in Calls, OnRetryThrows(c) PROVE Typed'
  BY <1>9 DEF OnRetryThrows, WillRetry
<1>10. ASSUME NEW c \in Calls, Wake(c) PROVE Typed'
  BY <1>10 DEF Wake
<1>11. ASSUME NEW c \in Calls, GiveUp(c) PROVE Typed'
  BY <1>11 DEF GiveUp
<1> QED
  BY <1>1, <1>2, <1>3, <1>4, <1>5, <1>6, <1>7, <1>8, <1>9, <1>10, <1>11 DEF TxNext, Advance

\* Every variable keeps its type; in particular the loop never begins more
\* retries than options.retries allows, whatever the callbacks do.
THEOREM TypeCorrect == TxSpec => []TxTypes
<1>1. TxSpec => []Typed
  BY TypedInit, TypedNext, PTL DEF TxSpec
<1>2. Typed => TxTypes
  BY DEF Typed
<1> QED BY <1>1, <1>2, PTL

----------------------------------------------------------------------------
(* A transaction applies its callback at most once and tells the truth about *)
(* it, as long as its afterCommit does not throw.  The invariant below says,  *)
(* for every place a call can be at, how many runs of its callback are        *)
(* pending and how many are durable; what a nested call may have depends on   *)
(* where the call around it is.                                               *)

NotRun == {"idle", "attempt", "caught", "backoff", "rejected"}
HasRun == {"body", "closed", "resolved"}

RootRuns ==
  \A c \in Roots : ~Misled(c) =>
    /\ pc[c] \in NotRun => pending[c] = 0 /\ applied[c] = 0
    /\ pc[c] = "body" => pending[c] = 1 /\ applied[c] = 0
    /\ pc[c] \in {"closed", "resolved"} => pending[c] = 0 /\ applied[c] = 1

NestedRuns ==
  \A c \in Roots : ~Misled(c) => \A k \in Children(c) :
    /\ pc[c] \in NotRun => pending[k] = 0 /\ applied[k] = 0
    /\ pc[c] = "body" =>
         /\ applied[k] = 0
         /\ pc[k] \in NotRun /\ ~Misled(k) => pending[k] = 0
         /\ pc[k] \in HasRun /\ ~Misled(k) => pending[k] = 1
    /\ pc[c] \in {"closed", "resolved"} =>
         pending[k] = 0 /\ (~Misled(k) => applied[k] <= 1)

Runs == Typed /\ RootRuns /\ NestedRuns

LEMMA RunsInit == TxInit => Runs
BY TypedInit DEF TxInit, Runs, RootRuns, NestedRuns, NotRun, HasRun, Roots, Children, Typed, TxTypes

\* A call is outermost, or the child of exactly one outermost call.
LEMMA Forest ==
  /\ Calls = Roots \cup UNION {Children(c) : c \in Roots}
  /\ \A c \in Roots : c \notin UNION {Children(d) : d \in Roots}
  /\ \A c, d \in Roots : \A k \in Children(c) : k \in Children(d) => c = d
  /\ \A c \in Roots : \A k \in Children(c) :
       k \in Calls /\ k \notin Roots /\ Parent[k] = c /\ Children(k) = {}
BY DEF Roots, Children

LEMMA RunsNext == Runs /\ [TxNext]_txVars => Runs'
<1> SUFFICES ASSUME Runs, [TxNext]_txVars PROVE Runs'
  OBVIOUS
<1>0. Typed'
  BY TypedNext DEF Runs
<1> SUFFICES RootRuns' /\ NestedRuns'
  BY <1>0 DEF Runs
<1> USE Forest
<1> USE DEF Runs, Typed, TxTypes, NestedInside, Active, RootRuns, NestedRuns, NotRun, HasRun, Goto, Misled
<1>1. CASE UNCHANGED txVars
  BY <1>1 DEF txVars
<1>2. ASSUME NEW c \in Calls, Invoke(c) PROVE RootRuns' /\ NestedRuns'
  BY <1>2 DEF Invoke, BodyIdle
<1>3. ASSUME NEW c \in Calls, BeginAttempt(c) PROVE RootRuns' /\ NestedRuns'
  BY <1>3 DEF BeginAttempt
<1>4. ASSUME NEW c \in Calls, NEW e \in Errors \ {"none"},
             BodyThrows(c, e) \/ CommitFails(c, e) PROVE RootRuns' /\ NestedRuns'
  <2>1. /\ BodyIdle(c) /\ pc' = [pc EXCEPT ![c] = "caught"] /\ pending' = Undo(c)
        /\ UNCHANGED <<applied, reported>>
    BY <1>4 DEF BodyThrows, CommitFails
  <2>2. RootRuns'
    BY <2>1 DEF BodyIdle, Undo, Family
  <2>3. NestedRuns'
    BY <2>1 DEF BodyIdle, Undo, Family
  <2> QED BY <2>2, <2>3
<1>5. ASSUME NEW c \in Calls, Close(c) PROVE RootRuns' /\ NestedRuns'
  BY <1>5 DEF Close, BodyIdle, Family
<1>6. ASSUME NEW c \in Calls, AfterCommit(c) PROVE RootRuns' /\ NestedRuns'
  BY <1>6 DEF AfterCommit
<1>7. ASSUME NEW c \in Calls, NEW e \in Errors \ {"none"}, AfterCommitThrows(c, e)
      PROVE RootRuns' /\ NestedRuns'
  <2>1. RootRuns'
    BY <1>7 DEF AfterCommitThrows, Signals
  <2>2. NestedRuns'
    BY <1>7 DEF AfterCommitThrows, Signals
  <2> QED BY <2>1, <2>2
<1>8. ASSUME NEW c \in Calls, Retry(c) PROVE RootRuns' /\ NestedRuns'
  BY <1>8 DEF Retry
<1>9. ASSUME NEW c \in Calls, OnRetryThrows(c) PROVE RootRuns' /\ NestedRuns'
  BY <1>9 DEF OnRetryThrows
<1>10. ASSUME NEW c \in Calls, Wake(c) PROVE RootRuns' /\ NestedRuns'
  BY <1>10 DEF Wake
<1>11. ASSUME NEW c \in Calls, GiveUp(c) PROVE RootRuns' /\ NestedRuns'
  BY <1>11 DEF GiveUp
<1> QED
  BY <1>1, <1>2, <1>3, <1>4, <1>5, <1>6, <1>7, <1>8, <1>9, <1>10, <1>11 DEF TxNext, Advance

LEMMA RunsInvariant == TxSpec => []Runs
BY RunsInit, RunsNext, PTL DEF TxSpec

\* transaction() never leaves the writes of its callback in the database
\* twice, at any level of nesting and for every retry budget, unless an
\* afterCommit callback throws inside the retry loop.
THEOREM AppliedOnce == TxSpec => []AppliedAtMostOnce
<1>1. Runs => AppliedAtMostOnce
  BY Forest DEF Runs, Typed, TxTypes, RootRuns, NestedRuns, NotRun, HasRun, AppliedAtMostOnce, RootOf
<1> QED BY <1>1, RunsInvariant, PTL

----------------------------------------------------------------------------
(* Nested work follows the transaction around it, whatever the callbacks do. *)

NestedFollows ==
  \A c \in Roots : \A k \in Children(c) :
    /\ applied[k] > 0 => applied[c] > 0
    /\ pc[c] # "body" => pending[k] = 0

Follows == Typed /\ NestedFollows

LEMMA FollowsNext == Follows /\ [TxNext]_txVars => Follows'
<1> SUFFICES ASSUME Follows, [TxNext]_txVars PROVE NestedFollows'
  BY TypedNext DEF Follows
<1> USE Forest DEF Follows, NestedFollows, Typed, TxTypes, NestedInside, Active, Goto
<1>1. CASE UNCHANGED txVars
  BY <1>1 DEF txVars
<1>2. ASSUME NEW c \in Calls, Invoke(c) PROVE NestedFollows'
  BY <1>2 DEF Invoke, BodyIdle
<1>3. ASSUME NEW c \in Calls, BeginAttempt(c) PROVE NestedFollows'
  BY <1>3 DEF BeginAttempt
<1>4. ASSUME NEW c \in Calls, NEW e \in Errors \ {"none"},
             BodyThrows(c, e) \/ CommitFails(c, e) PROVE NestedFollows'
  <2>1. BodyIdle(c) /\ pc' = [pc EXCEPT ![c] = "caught"] /\ pending' = Undo(c) /\ applied' = applied
    BY <1>4 DEF BodyThrows, CommitFails
  <2> QED BY <2>1 DEF BodyIdle, Undo, Family
<1>5. ASSUME NEW c \in Calls, Close(c) PROVE NestedFollows'
  BY <1>5 DEF Close, BodyIdle, Family
<1>6. ASSUME NEW c \in Calls, AfterCommit(c) PROVE NestedFollows'
  BY <1>6 DEF AfterCommit
<1>7. ASSUME NEW c \in Calls, NEW e \in Errors \ {"none"}, AfterCommitThrows(c, e) PROVE NestedFollows'
  BY <1>7 DEF AfterCommitThrows
<1>8. ASSUME NEW c \in Calls, Retry(c) \/ OnRetryThrows(c) PROVE NestedFollows'
  BY <1>8 DEF Retry, OnRetryThrows
<1>9. ASSUME NEW c \in Calls, Wake(c) \/ GiveUp(c) PROVE NestedFollows'
  BY <1>9 DEF Wake, GiveUp
<1> QED
  BY <1>1, <1>2, <1>3, <1>4, <1>5, <1>6, <1>7, <1>8, <1>9 DEF TxNext, Advance

LEMMA FollowsInvariant == TxSpec => []Follows
<1>1. TxInit => Follows
  BY TypedInit DEF TxInit, Follows, NestedFollows, Typed, TxTypes, Roots, Children
<1> QED BY <1>1, FollowsNext, PTL DEF TxSpec

\* A resolved transaction() has been applied exactly once and of a rejected one
\* nothing has been, under the same proviso; the work of a nested transaction()
\* is never durable without the work of the transaction around it, and none of
\* it is left behind once that one is over.
THEOREM TruthfulOutcome == TxSpec => []OutcomeIsTruthful
<1>1. Runs => \A c \in Roots : Misled(c) \/ ToldTheTruth(c)
  BY DEF Runs, RootRuns, NestedRuns, NotRun, Family, ToldTheTruth
<1>2. Follows => NestedWorkFollowsItsRoot
  BY DEF Follows, NestedFollows, NestedWorkFollowsItsRoot
<1>3. Runs /\ Follows => OutcomeIsTruthful
  BY <1>1, <1>2 DEF OutcomeIsTruthful
<1> QED BY <1>3, RunsInvariant, FollowsInvariant, PTL

HIDE TransactionCallAssumption DEF PCs, Settled, Errors, Signals

----------------------------------------------------------------------------
(* runWithHooks().                                                          *)

USE QueryRunAssumption

\* Until the abort every unanswered query with the signal has its listener;
\* after it, each has been cancelled.
Reached ==
  \A q \in WithSignal : answer[q] = "pending" => IF aborted THEN cancelled[q] ELSE listening[q]

RunInv == RunTypes /\ HooksTellTheOutcome /\ Reached

\* Appending to a sequence of one element.
LEMMA AppendToOne == ASSUME NEW S, NEW a \in S, NEW b \in S
                     PROVE  Append(<<a>>, b) = <<a, b>>
<1> DEFINE s == Append(<<a>>, b)
<1> DEFINE t == <<a, b>>
<1>1. <<a>> \in Seq(S) /\ Len(<<a>>) = 1 /\ <<a>>[1] = a
  OBVIOUS
<1>2. t \in Seq(S) /\ Len(t) = 2 /\ t[1] = a /\ t[2] = b
  OBVIOUS
<1>3. s \in Seq(S) /\ Len(s) = 2 /\ s[1] = a /\ s[2] = b
  BY <1>1, AppendProperties
<1>4. \A i \in 1..Len(s) : s[i] = t[i]
  BY <1>2, <1>3
<1> HIDE DEF s, t
<1>5. s = t
  BY <1>2, <1>3, <1>4, SeqEqual
<1> QED BY <1>5 DEF s, t

\* An event list one longer than the start hook alone.
LEMMA Reports == ASSUME NEW how \in {"rows"} \cup Rejections
                 PROVE  /\ Append(<<"onQueryStart">>, Finish(how)) = <<"onQueryStart", Finish(how)>>
                        /\ <<"onQueryStart", Finish(how)>> \in Seq(Events)
                        /\ \A s \in Seq(Events) : Append(s, Finish(how)) \in Seq(Events)
<1>1. Finish(how) \in Events
  BY DEF Finish, Events
<1>2. Append(<<"onQueryStart">>, Finish(how)) = <<"onQueryStart", Finish(how)>>
  BY <1>1, AppendToOne DEF Events
<1>3. <<"onQueryStart", Finish(how)>> \in Seq(Events)
  BY <1>1 DEF Events
<1> QED BY <1>1, <1>2, <1>3

\* What Settle leaves true of types, and of the hooks of every query.
LEMMA Settling == ASSUME RunTypes, HooksTellTheOutcome, NEW q \in Queries, NEW how \in {"rows"} \cup Rejections,
                         Settle(q, how)
                  PROVE  /\ outcome' \in [Queries -> {"uncalled", "pending", "rows"} \cup Rejections]
                         /\ events' \in [Queries -> Seq(Events)]
                         /\ timer' \in [Queries -> BOOLEAN]
                         /\ HooksTellTheOutcome'
<1> USE DEF Settle, RunTypes
<1>1. /\ outcome' \in [Queries -> {"uncalled", "pending", "rows"} \cup Rejections]
      /\ timer' \in [Queries -> BOOLEAN]
  OBVIOUS
<1>2. events' \in [Queries -> Seq(Events)]
  <2>1. Append(events[q], Finish(how)) \in Seq(Events)
    BY Reports
  <2> QED BY <2>1
<1>3. HooksTellTheOutcome'
  <2>1. CASE outcome[q] = "pending"
    <3>1. events[q] = <<"onQueryStart">>
      BY <2>1 DEF HooksTellTheOutcome
    <3>2. events'[q] = <<"onQueryStart", Finish(how)>> /\ outcome'[q] = how
      BY <3>1, <2>1, Reports
    <3>3. ASSUME NEW p \in Queries, p # q PROVE events'[p] = events[p] /\ outcome'[p] = outcome[p]
      BY <2>1, <3>3
    <3> QED BY <3>2, <3>3 DEF HooksTellTheOutcome, IsSettled, Rejections
  <2>2. CASE outcome[q] # "pending"
    BY <2>2 DEF HooksTellTheOutcome, IsSettled
  <2> QED BY <2>1, <2>2
<1> QED BY <1>1, <1>2, <1>3

LEMMA RunInvInit == RunInit => RunInv
<1>1. <<>> \in Seq(Events)
  OBVIOUS
<1> QED BY <1>1 DEF RunInit, RunInv, RunTypes, HooksTellTheOutcome, IsSettled, Reached

LEMMA RunTypesNext == RunTypes /\ HooksTellTheOutcome /\ [RunNext]_runVars => RunTypes' /\ HooksTellTheOutcome'
<1> SUFFICES ASSUME RunTypes, HooksTellTheOutcome, [RunNext]_runVars PROVE RunTypes' /\ HooksTellTheOutcome'
  OBVIOUS
<1>1. CASE UNCHANGED runVars
  BY <1>1 DEF runVars, RunTypes, HooksTellTheOutcome, IsSettled
<1>2. CASE Abort
  BY <1>2 DEF Abort, RunTypes, HooksTellTheOutcome, IsSettled
<1>3. ASSUME NEW q \in Queries, CallQuery(q) PROVE RunTypes' /\ HooksTellTheOutcome'
  <2>1. <<"onQueryStart">> \in Seq(Events)
    BY DEF Events
  <2>2. RunTypes'
    BY <1>3, <2>1 DEF CallQuery, RunTypes
  <2>3. HooksTellTheOutcome'
    BY <1>3 DEF CallQuery, RunTypes, HooksTellTheOutcome, IsSettled
  <2> QED BY <2>2, <2>3
<1>4. ASSUME NEW q \in Queries, CallAborted(q) PROVE RunTypes' /\ HooksTellTheOutcome'
  <2>1. <<"onQueryStart", Finish("abort")>> \in Seq(Events)
    BY Reports DEF Rejections
  <2>2. RunTypes'
    BY <1>4, <2>1 DEF CallAborted, RunTypes, Rejections
  <2>3. HooksTellTheOutcome'
    BY <1>4 DEF CallAborted, RunTypes, HooksTellTheOutcome, IsSettled
  <2> QED BY <2>2, <2>3
<1>5. ASSUME NEW q \in Queries, TimerFires(q) PROVE RunTypes' /\ HooksTellTheOutcome'
  <2>1. CASE outcome[q] = "pending"
    <3>1. Settle(q, "timeout")
      BY <1>5, <2>1 DEF TimerFires, Settle
    <3>2. /\ HooksTellTheOutcome' /\ events' \in [Queries -> Seq(Events)]
          /\ outcome' \in [Queries -> {"uncalled", "pending", "rows"} \cup Rejections]
      BY <3>1, Settling DEF Rejections
    <3> QED BY <1>5, <3>2 DEF TimerFires, RunTypes
  <2>2. CASE outcome[q] # "pending"
    BY <1>5, <2>2 DEF TimerFires, RunTypes, HooksTellTheOutcome, IsSettled
  <2> QED BY <2>1, <2>2
<1>6. ASSUME NEW q \in Queries, NEW result \in Results, Answer(q, result) PROVE RunTypes' /\ HooksTellTheOutcome'
  <2>1. result \in {"rows"} \cup Rejections
    BY DEF Results, Rejections
  <2>2. /\ HooksTellTheOutcome' /\ events' \in [Queries -> Seq(Events)] /\ timer' \in [Queries -> BOOLEAN]
        /\ outcome' \in [Queries -> {"uncalled", "pending", "rows"} \cup Rejections]
    BY <1>6, <2>1, Settling DEF Answer
  <2> QED BY <1>6, <2>2 DEF Answer, RunTypes
<1> QED BY <1>1, <1>2, <1>3, <1>4, <1>5, <1>6 DEF RunNext

LEMMA ReachedNext == RunTypes /\ Reached /\ [RunNext]_runVars => Reached'
<1> SUFFICES ASSUME RunTypes, Reached, [RunNext]_runVars PROVE Reached'
  OBVIOUS
<1> USE DEF RunTypes, Reached
<1>1. CASE UNCHANGED runVars
  BY <1>1 DEF runVars
<1>2. CASE Abort
  BY <1>2 DEF Abort
<1>3. ASSUME NEW q \in Queries, CallQuery(q) \/ CallAborted(q) PROVE Reached'
  <2>1. CASE CallQuery(q)
    BY <1>3, <2>1 DEF CallQuery
  <2>2. CASE CallAborted(q)
    BY <1>3, <2>2 DEF CallAborted
  <2> QED BY <1>3, <2>1, <2>2
<1>4. ASSUME NEW q \in Queries, TimerFires(q) PROVE Reached'
  BY <1>4 DEF TimerFires
<1>5. ASSUME NEW q \in Queries, NEW result \in Results, Answer(q, result) PROVE Reached'
  BY <1>5 DEF Answer, Results
<1> QED BY <1>1, <1>2, <1>3, <1>4, <1>5 DEF RunNext

THEOREM RunInvariance == RunSpec => []RunInv
<1>1. RunInv /\ [RunNext]_runVars => RunInv'
  BY RunTypesNext, ReachedNext DEF RunInv
<1> QED BY RunInvInit, <1>1, PTL DEF RunSpec

\* Every state of every run has the types RunTypes gives.
THEOREM QueryTypes == RunSpec => []RunTypes
BY RunInvariance, PTL DEF RunInv

\* runWithHooks() of client.ts reports the start of a query once and then once
\* more, with the hook that matches what the caller got.
THEOREM TruthfulHooks == RunSpec => []HooksTellTheOutcome
BY RunInvariance, PTL DEF RunInv

\* An abort of the shared signal cancels every unanswered query it was given
\* to, the ones started after it included.
THEOREM AbortReaches == RunSpec => []AbortReachesEveryQuery
<1>1. RunInv => AbortReachesEveryQuery
  BY DEF RunInv, Reached, AbortReachesEveryQuery
<1> QED BY <1>1, RunInvariance, PTL

HIDE QueryRunAssumption

----------------------------------------------------------------------------
(* firstOrCreate, updateOrCreate, updateOrInsert, upsert and insertOrIgnore.   *)

Positions == {"idle", "absent", "present", "inserted", "written"} \cup Over
OneConnection == \A conn, other \in pool : conn = other

KeyedShape ==
  /\ dialect \in Dialects /\ unique \in BOOLEAN /\ pool \in Pools
  /\ nextId \in Nat \ {0} /\ deletes \in Nat
  /\ DOMAIN matching \subseteq 1 .. nextId - 1
  /\ matching = [id \in DOMAIN matching |-> matching[id]]
  /\ \A id \in DOMAIN matching : matching[id] \in Callers
  /\ at \in [Callers -> [pc : Positions, call : Helpers \cup {"none"}, id : 0 .. nextId - 1]]
  /\ \A c \in Callers : at[c].pc = "idle" => at[c].call = "none"
  /\ lastId \in [pool -> 0 .. nextId - 1]
  /\ made \in [Callers -> 0 .. nextId - 1]
  /\ crossed \subseteq Callers /\ overlap \subseteq Callers

\* A caller that found nothing while a row is there by now, or that is not the
\* only one to have found nothing, overlaps another.
LookersKnow ==
  /\ \A c \in Callers : at[c].pc = "absent" /\ DOMAIN matching # {} => c \in overlap
  /\ \A c, d \in Callers : at[c].pc = "absent" /\ at[d].pc = "absent" /\ c # d => c \in overlap

FewRows ==
  (\E i, j \in DOMAIN matching : i # j) =>
    ~unique /\ (overlap # {} \/ \E c \in Callers : at[c].call \in {"upsert", "insertOrIgnore"})

\* What was found or inserted is there as long as nobody removes rows.
NothingIsLost ==
  deletes = 0 =>
    /\ \A conn \in pool : lastId[conn] # NoId => lastId[conn] \in DOMAIN matching
    /\ \A c \in Callers :
         /\ at[c].pc \notin {"idle", "absent"} => DOMAIN matching # {}
         /\ at[c].pc \in {"present", "written"} => at[c].id \in DOMAIN matching

\* On one connection LAST_INSERT_ID() is the caller's own id until another INSERT.
IdsAreKept ==
  \A c \in Callers :
    /\ at[c].pc \in {"idle", "absent", "present"} => made[c] = NoId
    /\ at[c].pc = "inserted" =>
         /\ dialect = "mysql" /\ made[c] # NoId
         /\ OneConnection => \A conn \in pool :
              lastId[conn] # NoId /\ (c \notin crossed => lastId[conn] = made[c])
    /\ at[c].pc \in {"written", "returned"} /\ made[c] # NoId
         /\ ~(dialect = "mysql" /\ (~OneConnection \/ c \in crossed))
         => at[c].id = made[c]

FailuresHaveReasons ==
  \A c \in Callers : at[c].pc = "failed" =>
    deletes > 0 \/ (unique /\ c \in overlap) \/ (dialect = "mysql" /\ ~OneConnection)

KeyedInv ==
  KeyedShape /\ LookersKnow /\ FewRows /\ NothingIsLost /\ IdsAreKept /\ FailuresHaveReasons

USE KeyedAssumption
USE DEF NoId

\* Where a call is and what it holds change for that call alone.
LEMMA Moved ==
  ASSUME KeyedShape, NEW c \in Callers, NEW pos \in Positions, NEW n, nextId' \in Nat, nextId' >= nextId,
         n \in 0 .. nextId' - 1, Move(c, pos, n)
  PROVE  /\ at' \in [Callers -> [pc : Positions, call : Helpers \cup {"none"}, id : 0 .. nextId' - 1]]
         /\ at'[c].pc = pos /\ at'[c].id = n /\ at'[c].call = at[c].call
         /\ \A d \in Callers \ {c} : at'[d] = at[d]
<1>1. at' = [at EXCEPT ![c] = [at[c] EXCEPT !.pc = pos, !.id = n]]
  BY DEF KeyedShape, Move
<1>2. 0 .. nextId - 1 \subseteq 0 .. nextId' - 1
  BY DEF KeyedShape
<1>3. at[c] \in [pc : Positions, call : Helpers \cup {"none"}, id : 0 .. nextId - 1]
  BY DEF KeyedShape
<1>4. at \in [Callers -> [pc : Positions, call : Helpers \cup {"none"}, id : 0 .. nextId' - 1]]
  BY <1>2 DEF KeyedShape
<1>5. [at[c] EXCEPT !.pc = pos, !.id = n] \in [pc : Positions, call : Helpers \cup {"none"}, id : 0 .. nextId' - 1]
  BY <1>3
<1> QED BY <1>1, <1>3, <1>4, <1>5

LEMMA Began ==
  ASSUME KeyedShape, NEW c \in Callers, NEW pos \in Positions, NEW n, NEW call \in Helpers,
         nextId' \in Nat, nextId' >= nextId, n \in 0 .. nextId' - 1,
         at' = [at EXCEPT ![c] = [pc |-> pos, call |-> call, id |-> n]]
  PROVE  /\ at' \in [Callers -> [pc : Positions, call : Helpers \cup {"none"}, id : 0 .. nextId' - 1]]
         /\ at'[c].pc = pos /\ at'[c].id = n /\ at'[c].call = call
         /\ \A d \in Callers \ {c} : at'[d] = at[d]
<1>1. 0 .. nextId - 1 \subseteq 0 .. nextId' - 1
  BY DEF KeyedShape
<1>2. at \in [Callers -> [pc : Positions, call : Helpers \cup {"none"}, id : 0 .. nextId' - 1]]
  BY <1>1 DEF KeyedShape
<1> QED BY <1>2 DEF KeyedShape

\* Whoever looks or inserts meets those that have looked and not inserted yet.
LEMMA Met ==
  ASSUME KeyedShape, NEW c \in Callers, Meet(c)
  PROVE  /\ overlap' \subseteq Callers /\ overlap \subseteq overlap'
         /\ \A d \in Callers \ {c} : at[d].pc = "absent" => d \in overlap' /\ c \in overlap'
<1>1. overlap' = overlap \cup (IF Looking \ {c} = {} THEN {} ELSE {c} \cup Looking)
  BY DEF Meet
<1> QED BY <1>1 DEF KeyedShape, Looking

LEMMA KeyedInvInit == KeyedInit => KeyedInv
<1> SUFFICES ASSUME KeyedInit PROVE KeyedInv
  OBVIOUS
<1>1. DOMAIN matching = {} /\ matching = [id \in DOMAIN matching |-> matching[id]]
  BY DEF KeyedInit
<1>2. \A c \in Callers : at[c] = Idle
  BY DEF KeyedInit
<1>3. Idle \in [pc : Positions, call : Helpers \cup {"none"}, id : 0 .. 0]
  BY DEF Idle, Positions
<1>4. KeyedShape
  BY <1>1, <1>2, <1>3 DEF KeyedInit, KeyedShape, Idle
<1>5. LookersKnow /\ FewRows /\ NothingIsLost /\ FailuresHaveReasons
  BY <1>1, <1>2 DEF LookersKnow, FewRows, NothingIsLost, FailuresHaveReasons, Idle, KeyedInit
<1>6. IdsAreKept
  BY <1>2 DEF IdsAreKept, Idle, KeyedInit
<1> QED BY <1>4, <1>5, <1>6 DEF KeyedInv

LEMMA LookKeeps ==
  ASSUME KeyedInv, NEW c \in Callers, NEW call \in Helpers, Look(c, call) PROVE KeyedInv'
<1>1. at[c].pc = "idle" /\ Meet(c) /\ UNCHANGED <<dialect, pool, unique, made, crossed, matching, nextId, lastId, deletes>>
  BY DEF Look, fixed, ghosts
<1>2. PICK pos \in {"absent", "present"} : \E id \in 0 .. nextId - 1 :
        /\ at' = [at EXCEPT ![c] = [pc |-> pos, call |-> call, id |-> id]]
        /\ pos = "absent" => id = NoId /\ DOMAIN matching = {}
        /\ pos = "present" => id \in DOMAIN matching
  <2>1. nextId \in Nat \ {0} /\ Live \subseteq 1 .. nextId - 1 /\ Live = DOMAIN matching
    BY DEF KeyedInv, KeyedShape, Live
  <2>2. NoId \in 0 .. nextId - 1 /\ Live \subseteq 0 .. nextId - 1
    BY <2>1
  <2>3. CASE Live = {} /\ at' = [at EXCEPT ![c] = [pc |-> "absent", call |-> call, id |-> NoId]]
    BY <2>1, <2>2, <2>3
  <2>4. ASSUME NEW id \in Live, at' = [at EXCEPT ![c] = [pc |-> "present", call |-> call, id |-> id]]
        PROVE  \E pos \in {"absent", "present"} : \E n \in 0 .. nextId - 1 :
                 /\ at' = [at EXCEPT ![c] = [pc |-> pos, call |-> call, id |-> n]]
                 /\ pos = "absent" => n = NoId /\ DOMAIN matching = {}
                 /\ pos = "present" => n \in DOMAIN matching
    BY <2>1, <2>2, <2>4
  <2> QED BY <2>3, <2>4 DEF Look
<1>3. PICK n \in 0 .. nextId - 1 :
        /\ at' = [at EXCEPT ![c] = [pc |-> pos, call |-> call, id |-> n]]
        /\ pos = "absent" => n = NoId /\ DOMAIN matching = {}
        /\ pos = "present" => n \in DOMAIN matching
  BY <1>2
<1> USE DEF KeyedInv
<1>4. n \in 0 .. nextId - 1 /\ nextId \in Nat
  BY <1>3 DEF KeyedShape
<1>5. /\ at' \in [Callers -> [pc : Positions, call : Helpers \cup {"none"}, id : 0 .. nextId' - 1]]
      /\ at'[c].pc = pos /\ at'[c].id = n /\ at'[c].call = call
      /\ \A d \in Callers \ {c} : at'[d] = at[d]
  <2>1. pos \in Positions /\ nextId' \in Nat /\ nextId' >= nextId /\ n \in 0 .. nextId' - 1
    BY <1>1, <1>3, <1>4 DEF Positions
  <2> QED BY <1>3, <2>1, Began
<1>6. /\ overlap' \subseteq Callers /\ overlap \subseteq overlap'
      /\ \A d \in Callers \ {c} : at[d].pc = "absent" => d \in overlap' /\ c \in overlap'
  BY <1>1, Met
<1>7. KeyedShape'
  BY <1>1, <1>3, <1>5, <1>6 DEF KeyedShape
<1>8. LookersKnow'
  BY <1>1, <1>3, <1>5, <1>6 DEF LookersKnow
<1>9. FewRows'
  <2>1. \A d \in Callers : at[d].call \in {"upsert", "insertOrIgnore"} => at'[d].call = at[d].call
    BY <1>1, <1>5 DEF KeyedShape
  <2> QED BY <1>1, <1>6, <2>1 DEF FewRows
<1>10. NothingIsLost'
  BY <1>1, <1>3, <1>5 DEF NothingIsLost
<1>11. IdsAreKept'
  BY <1>1, <1>3, <1>5 DEF IdsAreKept, OneConnection
<1>12. FailuresHaveReasons'
  BY <1>1, <1>3, <1>5, <1>6 DEF FailuresHaveReasons, OneConnection
<1> QED BY <1>7, <1>8, <1>9, <1>10, <1>11, <1>12

\* Steps of a call that insert nothing: it goes on, fails or is over.
LEMMA GoingOnKeeps ==
  ASSUME KeyedInv, NEW c \in Callers, NEW pos \in {"written", "returned", "wrote", "failed"}, NEW n,
         n \in 0 .. nextId - 1, Move(c, pos, n), at[c].pc \in {"present", "inserted", "written"},
         UNCHANGED <<dialect, pool, unique, made, crossed, nextId, lastId, deletes, overlap>>,
         matching' = matching \/ matching' = [id \in DOMAIN matching |-> c],
         pos = "written" /\ deletes = 0 => n \in DOMAIN matching,
         (/\ pos \in {"written", "returned"} /\ made[c] # NoId
          /\ ~(dialect = "mysql" /\ (~OneConnection \/ c \in crossed))) => n = made[c],
         pos = "failed" => deletes > 0 \/ (unique /\ c \in overlap) \/ (dialect = "mysql" /\ ~OneConnection)
  PROVE  KeyedInv'
<1> USE DEF KeyedInv
<1>1. /\ at' \in [Callers -> [pc : Positions, call : Helpers \cup {"none"}, id : 0 .. nextId' - 1]]
      /\ at'[c].pc = pos /\ at'[c].id = n /\ at'[c].call = at[c].call
      /\ \A d \in Callers \ {c} : at'[d] = at[d]
  <2>1. pos \in Positions /\ nextId' \in Nat /\ nextId' >= nextId /\ n \in 0 .. nextId' - 1
    BY DEF Positions, Over, KeyedShape
  <2> QED BY <2>1, Moved
<1>2. DOMAIN matching' = DOMAIN matching /\ matching' = [id \in DOMAIN matching' |-> matching'[id]]
      /\ \A id \in DOMAIN matching' : matching'[id] \in Callers
  BY DEF KeyedShape
<1>3. KeyedShape'
  BY <1>1, <1>2 DEF KeyedShape
<1>4. LookersKnow'
  BY <1>1, <1>2 DEF LookersKnow
<1>5. FewRows'
  <2>1. \A d \in Callers : at'[d].call = at[d].call
    BY <1>1
  <2> QED BY <1>2, <2>1 DEF FewRows
<1>6. NothingIsLost'
  BY <1>1, <1>2 DEF NothingIsLost
<1>7. IdsAreKept'
  BY <1>1 DEF IdsAreKept, OneConnection
<1>8. FailuresHaveReasons'
  BY <1>1 DEF FailuresHaveReasons, OneConnection
<1> QED BY <1>3, <1>4, <1>5, <1>6, <1>7, <1>8

LEMMA FoundKeeps ==
  ASSUME KeyedInv, NEW c \in Callers, ReturnFound(c) \/ UpdateFound(c) \/ ReadBack(c) PROVE KeyedInv'
<1> USE DEF KeyedInv
<1>1. at[c].id \in 0 .. nextId - 1 /\ 0 \in 0 .. nextId - 1
  BY DEF KeyedShape
<1>2. CASE ReturnFound(c)
  <2>1. /\ at[c].pc = "present" /\ Move(c, "returned", at[c].id) /\ matching' = matching
        /\ UNCHANGED <<dialect, pool, unique, made, crossed, nextId, lastId, deletes, overlap>>
    BY <1>2 DEF ReturnFound, fixed, ghosts
  <2>2. made[c] = NoId
    BY <2>1 DEF IdsAreKept
  <2> QED BY <1>1, <2>1, <2>2, GoingOnKeeps
<1>3. CASE UpdateFound(c)
  <2>1. /\ at[c].pc = "present" /\ matching' = [id \in DOMAIN matching |-> c]
        /\ UNCHANGED <<dialect, pool, unique, made, crossed, nextId, lastId, deletes, overlap>>
    BY <1>3 DEF UpdateFound, fixed, ghosts, Live
  <2>2. PICK pos \in {"wrote", "written"} : Move(c, pos, at[c].id)
    BY <1>3 DEF UpdateFound
  <2>3. made[c] = NoId /\ (deletes = 0 => at[c].id \in DOMAIN matching)
    BY <2>1 DEF IdsAreKept, NothingIsLost
  <2> QED BY <1>1, <2>1, <2>2, <2>3, GoingOnKeeps
<1>4. CASE ReadBack(c)
  <2>1. /\ at[c].pc = "written" /\ matching' = matching
        /\ UNCHANGED <<dialect, pool, unique, made, crossed, nextId, lastId, deletes, overlap>>
    BY <1>4 DEF ReadBack, fixed, ghosts
  <2>2. CASE at[c].id \in DOMAIN matching
    <3>1. Move(c, "returned", at[c].id)
      BY <1>4, <2>2 DEF ReadBack, Live
    <3>2. (made[c] # NoId /\ ~(dialect = "mysql" /\ (~OneConnection \/ c \in crossed))) => at[c].id = made[c]
      BY <2>1 DEF IdsAreKept
    <3> QED BY <1>1, <2>1, <3>1, <3>2, GoingOnKeeps
  <2>3. CASE at[c].id \notin DOMAIN matching
    <3>1. Move(c, "failed", NoId)
      BY <1>4, <2>3 DEF ReadBack, Live
    <3>2. deletes > 0
      BY <2>1, <2>3 DEF NothingIsLost, KeyedShape
    <3> QED BY <1>1, <2>1, <3>1, <3>2, GoingOnKeeps
  <2> QED BY <2>2, <2>3
<1> QED BY <1>2, <1>3, <1>4

LEMMA AskKeeps ==
  ASSUME KeyedInv, NEW c \in Callers, NEW conn \in pool, AskLastInsertId(c, conn) PROVE KeyedInv'
<1> USE DEF KeyedInv
<1>1. /\ at[c].pc = "inserted" /\ matching' = matching
      /\ Move(c, IF lastId[conn] = NoId THEN "failed" ELSE "written", lastId[conn])
      /\ UNCHANGED <<dialect, pool, unique, made, crossed, nextId, lastId, deletes, overlap>>
  BY DEF AskLastInsertId, fixed, ghosts
<1>2. lastId[conn] \in 0 .. nextId - 1
  BY DEF KeyedShape
<1>3. /\ dialect = "mysql" /\ (OneConnection => lastId[conn] # NoId)
      /\ OneConnection /\ c \notin crossed => lastId[conn] = made[c]
  BY <1>1 DEF IdsAreKept
<1>4. CASE lastId[conn] = NoId
  <2>1. Move(c, "failed", lastId[conn])
    BY <1>1, <1>4
  <2> QED BY <1>1, <1>2, <1>3, <1>4, <2>1, GoingOnKeeps
<1>5. CASE lastId[conn] # NoId
  <2>1. Move(c, "written", lastId[conn])
    BY <1>1, <1>5
  <2>2. deletes = 0 => lastId[conn] \in DOMAIN matching
    BY <1>5 DEF NothingIsLost
  <2> QED BY <1>1, <1>2, <1>3, <2>1, <2>2, GoingOnKeeps
<1> QED BY <1>4, <1>5

LEMMA RemoveKeeps ==
  ASSUME KeyedInv, NEW id \in Live, RemoveRow(id) PROVE KeyedInv'
<1> USE DEF KeyedInv
<1>1. /\ matching' = [i \in DOMAIN matching \ {id} |-> matching[i]] /\ deletes' = deletes + 1
      /\ UNCHANGED <<dialect, pool, unique, made, crossed, nextId, lastId, at, overlap>>
  BY DEF RemoveRow, fixed, ghosts, Live
<1>2. DOMAIN matching' = DOMAIN matching \ {id} /\ matching' = [i \in DOMAIN matching' |-> matching'[i]]
      /\ \A i \in DOMAIN matching' : matching'[i] \in Callers
  BY <1>1 DEF KeyedShape
<1>3. deletes' \in Nat /\ deletes' > 0
  BY <1>1 DEF KeyedShape
<1>4. KeyedShape'
  BY <1>1, <1>2, <1>3 DEF KeyedShape
<1>5. LookersKnow' /\ FewRows' /\ NothingIsLost'
  BY <1>1, <1>2, <1>3 DEF LookersKnow, FewRows, NothingIsLost
<1>6. IdsAreKept'
  BY <1>1 DEF IdsAreKept, OneConnection
<1>7. FailuresHaveReasons'
  BY <1>1, <1>3 DEF FailuresHaveReasons, OneConnection
<1> QED BY <1>4, <1>5, <1>6, <1>7

\* A row is inserted: by a call that looked, or by one that never looks.
LEMMA InsertKeeps ==
  ASSUME KeyedInv, NEW c \in Callers, NEW conn \in pool,
         NEW pos \in {"wrote", "inserted", "written"}, NEW n,
         Meet(c), at[c].pc \in {"idle", "absent"},
         at' \in [Callers -> [pc : Positions, call : Helpers \cup {"none"}, id : 0 .. nextId' - 1]],
         at'[c].pc = pos, at'[c].id = n,
         \A d \in Callers \ {c} : at'[d] = at[d],
         at[c].pc = "idle" => at'[c].call \in {"upsert", "insertOrIgnore"},
         at[c].pc = "absent" => at'[c].call = at[c].call,
         ~(unique /\ DOMAIN matching # {}),
         matching' = [id \in DOMAIN matching \cup {nextId} |-> IF id = nextId THEN c ELSE matching[id]],
         nextId' = nextId + 1, lastId' = [lastId EXCEPT ![conn] = nextId],
         crossed' = crossed \cup {d \in Callers : at[d].pc = "inserted"},
         UNCHANGED <<dialect, pool, unique, deletes>>,
         \/ made' = made /\ pos = "wrote"
         \/ made' = [made EXCEPT ![c] = nextId],
         pos = "inserted" => dialect = "mysql",
         pos = "written" => n = nextId
  PROVE  KeyedInv'
<1> USE DEF KeyedInv
<1>1. /\ overlap' \subseteq Callers /\ overlap \subseteq overlap'
      /\ \A d \in Callers \ {c} : at[d].pc = "absent" => d \in overlap' /\ c \in overlap'
  BY Met
<1>2. /\ DOMAIN matching' = DOMAIN matching \cup {nextId}
      /\ matching' = [id \in DOMAIN matching' |-> matching'[id]]
      /\ \A id \in DOMAIN matching' : matching'[id] \in Callers
  BY DEF KeyedShape
<1>3. /\ lastId' \in [pool' -> 0 .. nextId' - 1] /\ lastId'[conn] = nextId
      /\ \A other \in pool : other # conn => lastId'[other] = lastId[other]
  <2>1. lastId \in [pool -> 0 .. nextId' - 1] /\ nextId \in 0 .. nextId' - 1
    BY DEF KeyedShape
  <2> QED BY <2>1
<1>4. /\ made' \in [Callers -> 0 .. nextId' - 1]
      /\ \A d \in Callers \ {c} : made'[d] = made[d]
      /\ pos # "wrote" => made'[c] = nextId
  <2>1. made \in [Callers -> 0 .. nextId' - 1] /\ nextId \in 0 .. nextId' - 1
    BY DEF KeyedShape
  <2> QED BY <2>1
<1>5. KeyedShape'
  <2>1. DOMAIN matching' \subseteq 1 .. nextId' - 1 /\ nextId' \in Nat \ {0}
    BY <1>2 DEF KeyedShape
  <2>2. \A d \in Callers : at'[d].pc = "idle" => at'[d].call = "none"
    BY DEF KeyedShape
  <2> QED BY <1>1, <1>2, <1>3, <1>4, <2>1, <2>2 DEF KeyedShape
<1>6. LookersKnow'
  BY <1>1 DEF LookersKnow
<1>7. FewRows'
  <2> SUFFICES ASSUME NEW i \in DOMAIN matching', NEW j \in DOMAIN matching', i # j
               PROVE  ~unique /\ (overlap' # {} \/ \E d \in Callers : at'[d].call \in {"upsert", "insertOrIgnore"})
    BY DEF FewRows
  <2>1. DOMAIN matching # {} /\ ~unique
    BY <1>2
  <2>2. CASE at[c].pc = "idle"
    BY <2>1, <2>2
  <2>3. CASE at[c].pc = "absent"
    BY <1>1, <2>1, <2>3 DEF LookersKnow
  <2> QED BY <2>2, <2>3
<1>8. NothingIsLost'
  BY <1>2, <1>3 DEF NothingIsLost, KeyedShape
<1>9. IdsAreKept'
  <2> SUFFICES ASSUME NEW d \in Callers
               PROVE  /\ at'[d].pc \in {"idle", "absent", "present"} => made'[d] = NoId
                      /\ at'[d].pc = "inserted" =>
                           /\ dialect = "mysql" /\ made'[d] # NoId
                           /\ OneConnection => \A other \in pool :
                                lastId'[other] # NoId /\ (d \notin crossed' => lastId'[other] = made'[d])
                      /\ at'[d].pc \in {"written", "returned"} /\ made'[d] # NoId
                           /\ ~(dialect = "mysql" /\ (~OneConnection \/ d \in crossed'))
                           => at'[d].id = made'[d]
    BY DEF IdsAreKept, OneConnection
  <2>1. nextId # NoId
    BY DEF KeyedShape
  <2>2. CASE d = c
    <3>1. OneConnection => \A other \in pool : lastId'[other] = nextId
      BY <1>3 DEF OneConnection
    <3> QED BY <1>4, <2>1, <2>2, <3>1
  <2>3. CASE d # c
    <3>1. at'[d] = at[d] /\ made'[d] = made[d] /\ crossed \subseteq crossed'
      BY <1>4, <2>3
    <3>2. at[d].pc = "inserted" => d \in crossed'
      OBVIOUS
    <3>3. OneConnection => \A other \in pool : lastId'[other] # NoId
      BY <1>3, <2>1 DEF OneConnection
    <3> QED BY <3>1, <3>2, <3>3 DEF IdsAreKept
  <2> QED BY <2>2, <2>3
<1>10. FailuresHaveReasons'
  BY <1>1 DEF FailuresHaveReasons, OneConnection
<1> QED BY <1>5, <1>6, <1>7, <1>8, <1>9, <1>10

\* The database refuses the row, or updates the one there is.
LEMMA ConflictKeeps ==
  ASSUME KeyedInv, NEW c \in Callers, NEW pos \in {"failed", "wrote"},
         Meet(c), at[c].pc \in {"idle", "absent"},
         at' \in [Callers -> [pc : Positions, call : Helpers \cup {"none"}, id : 0 .. nextId' - 1]],
         at'[c].pc = pos,
         \A d \in Callers \ {c} : at'[d] = at[d],
         at[c].pc = "absent" \/ pos = "wrote",
         unique, DOMAIN matching # {},
         matching' = matching \/ matching' = [id \in DOMAIN matching |-> c],
         UNCHANGED <<dialect, pool, unique, made, crossed, nextId, lastId, deletes>>
  PROVE  KeyedInv'
<1> USE DEF KeyedInv
<1>1. /\ overlap' \subseteq Callers /\ overlap \subseteq overlap'
      /\ \A d \in Callers \ {c} : at[d].pc = "absent" => d \in overlap' /\ c \in overlap'
  BY Met
<1>2. DOMAIN matching' = DOMAIN matching /\ matching' = [id \in DOMAIN matching' |-> matching'[id]]
      /\ \A id \in DOMAIN matching' : matching'[id] \in Callers
  BY DEF KeyedShape
<1>3. KeyedShape'
  <2>1. \A d \in Callers : at'[d].pc = "idle" => at'[d].call = "none"
    BY DEF KeyedShape
  <2> QED BY <1>1, <1>2, <2>1 DEF KeyedShape
<1>4. LookersKnow' /\ FewRows' /\ NothingIsLost'
  BY <1>1, <1>2 DEF LookersKnow, FewRows, NothingIsLost
<1>5. IdsAreKept'
  BY DEF IdsAreKept, OneConnection
<1>6. FailuresHaveReasons'
  BY <1>1 DEF FailuresHaveReasons, LookersKnow, OneConnection
<1> QED BY <1>3, <1>4, <1>5, <1>6

LEMMA InsertRowKeeps ==
  ASSUME KeyedInv, NEW c \in Callers, NEW conn \in pool, InsertRow(c, conn) PROVE KeyedInv'
<1>1. at[c].pc = "absent" /\ Meet(c) /\ UNCHANGED <<dialect, pool, unique, deletes>>
  BY DEF InsertRow, fixed
<1>2. KeyedShape /\ nextId \in Nat /\ nextId > 0
  BY DEF KeyedInv, KeyedShape
<1>3. CASE unique /\ DOMAIN matching # {}
  <2>1. Move(c, "failed", NoId) /\ UNCHANGED <<matching, nextId, lastId, made, crossed>>
    BY <1>3 DEF InsertRow, Live, ghosts
  <2>2. /\ at' \in [Callers -> [pc : Positions, call : Helpers \cup {"none"}, id : 0 .. nextId' - 1]]
        /\ at'[c].pc = "failed" /\ \A d \in Callers \ {c} : at'[d] = at[d]
    <3>1. "failed" \in Positions /\ nextId' \in Nat /\ nextId' >= nextId /\ NoId \in 0 .. nextId' - 1
      BY <1>2, <2>1 DEF Positions, Over
    <3> QED BY <1>2, <2>1, <3>1, Moved
  <2> QED BY <1>1, <1>3, <2>1, <2>2, ConflictKeeps
<1>4. CASE ~(unique /\ DOMAIN matching # {})
  <2>1. /\ matching' = [id \in DOMAIN matching \cup {nextId} |-> IF id = nextId THEN c ELSE matching[id]]
        /\ nextId' = nextId + 1 /\ lastId' = [lastId EXCEPT ![conn] = nextId]
        /\ made' = [made EXCEPT ![c] = nextId]
        /\ crossed' = crossed \cup {d \in Callers : at[d].pc = "inserted"}
    BY <1>4 DEF InsertRow, Live
  <2>2. PICK pos \in {"wrote", "inserted", "written"}, n \in {NoId, nextId} :
          /\ Move(c, pos, n) /\ (pos = "inserted" => dialect = "mysql") /\ (pos = "written" => n = nextId)
    BY <1>4 DEF InsertRow, Live
  <2>3. /\ at' \in [Callers -> [pc : Positions, call : Helpers \cup {"none"}, id : 0 .. nextId' - 1]]
        /\ at'[c].pc = pos /\ at'[c].id = n /\ at'[c].call = at[c].call
        /\ \A d \in Callers \ {c} : at'[d] = at[d]
    <3>1. pos \in Positions /\ nextId' \in Nat /\ nextId' >= nextId /\ n \in 0 .. nextId' - 1
      BY <1>2, <2>1 DEF Positions, Over
    <3> QED BY <1>2, <2>2, <3>1, Moved
  <2> QED BY <1>1, <1>4, <2>1, <2>2, <2>3, InsertKeeps
<1> QED BY <1>3, <1>4

LEMMA AtOnceKeeps ==
  ASSUME KeyedInv, NEW c \in Callers, NEW call \in Helpers, NEW conn \in pool, InsertAtOnce(c, call, conn)
  PROVE  KeyedInv'
<1>1. /\ at[c].pc = "idle" /\ Meet(c) /\ UNCHANGED <<dialect, pool, unique, deletes, made>>
      /\ call \in {"upsert", "insertOrIgnore"}
      /\ at' = [at EXCEPT ![c] = [pc |-> "wrote", call |-> call, id |-> NoId]]
  BY DEF InsertAtOnce, fixed
<1>2. KeyedShape /\ nextId \in Nat /\ nextId > 0
  BY DEF KeyedInv, KeyedShape
<1>3. nextId' \in {nextId, nextId + 1}
  BY DEF InsertAtOnce
<1>4. /\ at' \in [Callers -> [pc : Positions, call : Helpers \cup {"none"}, id : 0 .. nextId' - 1]]
      /\ at'[c].pc = "wrote" /\ at'[c].id = NoId /\ at'[c].call = call
      /\ \A d \in Callers \ {c} : at'[d] = at[d]
  <2>1. nextId' \in Nat /\ nextId' >= nextId /\ NoId \in 0 .. nextId' - 1
    <3>1. nextId' = nextId \/ nextId' = nextId + 1
      BY <1>3
    <3>2. nextId' \in Nat /\ nextId' >= nextId /\ nextId' >= 1
      BY <1>2, <3>1
    <3>3. \A m \in Nat : m >= 1 => 0 \in 0 .. m - 1
      OBVIOUS
    <3> QED BY <3>2, <3>3
  <2>2. "wrote" \in Positions
    BY DEF Positions, Over
  <2> QED BY <1>1, <1>2, <2>1, <2>2, Began
<1>5. CASE unique /\ DOMAIN matching # {}
  <2>1. /\ matching' = matching \/ matching' = [id \in DOMAIN matching |-> c]
        /\ UNCHANGED <<nextId, lastId, crossed>>
    BY <1>5 DEF InsertAtOnce, Live
  <2> QED BY <1>1, <1>4, <1>5, <2>1, ConflictKeeps
<1>6. CASE ~(unique /\ DOMAIN matching # {})
  <2>1. /\ matching' = [id \in DOMAIN matching \cup {nextId} |-> IF id = nextId THEN c ELSE matching[id]]
        /\ nextId' = nextId + 1 /\ lastId' = [lastId EXCEPT ![conn] = nextId]
        /\ crossed' = crossed \cup {d \in Callers : at[d].pc = "inserted"}
    BY <1>6 DEF InsertAtOnce, Live
  <2> QED BY <1>1, <1>4, <1>6, <2>1, InsertKeeps
<1> QED BY <1>5, <1>6

LEMMA KeyedInvNext == KeyedInv /\ [KeyedNext]_keyedVars => KeyedInv'
<1> SUFFICES ASSUME KeyedInv, [KeyedNext]_keyedVars PROVE KeyedInv'
  OBVIOUS
<1>1. CASE UNCHANGED keyedVars
  BY <1>1 DEF keyedVars, KeyedInv, KeyedShape, LookersKnow, FewRows, NothingIsLost, IdsAreKept,
              OneConnection, FailuresHaveReasons
<1>2. CASE KeyedNext
  BY <1>2, LookKeeps, FoundKeeps, AskKeeps, InsertRowKeeps, AtOnceKeeps, RemoveKeeps DEF KeyedNext, CallerStep
<1> QED BY <1>1, <1>2

LEMMA Several ==
  ASSUME NEW S, IsFiniteSet(S)
  PROVE  Cardinality(S) > 1 <=> \E x, y \in S : x # y
<1>1. CASE S = {}
  BY <1>1, FS_EmptySet
<1>2. ASSUME NEW x \in S, \A y \in S : x = y PROVE Cardinality(S) = 1
  <2>1. S = {x}
    BY <1>2
  <2> QED BY <2>1, FS_Singleton
<1>3. ASSUME NEW x \in S, NEW y \in S, x # y PROVE Cardinality(S) > 1
  <2>1. Cardinality({x, y}) = 2 /\ IsFiniteSet({x, y})
    <3>1. IsFiniteSet({x}) /\ Cardinality({x}) = 1 /\ y \notin {x}
      BY <1>3, FS_Singleton
    <3>2. {x, y} = {x} \cup {y}
      OBVIOUS
    <3>3. IsFiniteSet({x} \cup {y}) /\ Cardinality({x} \cup {y}) = 1 + 1
      BY <3>1, FS_AddElement
    <3>4. IsFiniteSet({x, y}) /\ Cardinality({x, y}) = 1 + 1
      BY ONLY <3>2, <3>3, Zenon
    <3>5. 1 + 1 = 2
      OBVIOUS
    <3> QED BY ONLY <3>4, <3>5, Zenon
  <2>2. Cardinality({x, y}) <= Cardinality(S) /\ Cardinality(S) \in Nat
    <3>1. {x, y} \subseteq S
      OBVIOUS
    <3> QED BY <3>1, FS_Subset, FS_CardinalityType
  <2> QED BY <2>1, <2>2
<1> QED BY <1>1, <1>2, <1>3

LEMMA KeyedInvMeans == KeyedInv => KeyedTypes /\ DuplicatesNeedOverlap /\ OwnIdComesBack
<1> SUFFICES ASSUME KeyedInv PROVE KeyedTypes /\ DuplicatesNeedOverlap /\ OwnIdComesBack
  OBVIOUS
<1> USE DEF KeyedInv
<1>1. KeyedTypes
  BY DEF KeyedShape, KeyedTypes, Live
<1>2. DuplicatesNeedOverlap
  <2>1. IsFiniteSet(Live)
    <3>1. IsFiniteSet(1 .. nextId - 1) /\ Live \subseteq 1 .. nextId - 1
      <4>1. 1 \in Int /\ nextId - 1 \in Int
        BY DEF KeyedShape
      <4> QED BY <4>1, FS_Interval DEF KeyedShape, Live
    <3> QED BY <3>1, FS_Subset
  <2>2. Cardinality(Live) > 1 <=> \E i, j \in Live : i # j
    BY <2>1, Several
  <2>3. AllOver /\ deletes = 0 => Live # {}
    BY DEF AllOver, Over, NothingIsLost, Live
  <2> QED BY <2>2, <2>3 DEF DuplicatesNeedOverlap, FewRows, Live
<1>3. OwnIdComesBack
  <2>1. Cardinality(pool) > 1 <=> ~OneConnection
    <3>1. IsFiniteSet(pool)
      BY DEF KeyedShape
    <3> QED BY <3>1, Several DEF OneConnection
  <2> QED BY <2>1 DEF OwnIdComesBack, IdsAreKept, FailuresHaveReasons
<1> QED BY <1>1, <1>2, <1>3

HIDE KeyedAssumption DEF NoId

----------------------------------------------------------------------------
(* A list that names each of its elements once.                              *)

Listing(s, S) ==
  /\ s \in Seq(S) /\ Len(s) \in Nat
  /\ \A x : x \in S <=> \E i \in 1 .. Len(s) : s[i] = x
  /\ \A i, j \in 1 .. Len(s) : s[i] = s[j] => i = j

LEMMA NothingListed == Listing(<<>>, {})
BY DEF Listing

LEMMA OneListed == ASSUME NEW x PROVE Listing(<<x>>, {x})
BY DEF Listing

LEMMA SetListed == ASSUME NEW S, IsFiniteSet(S) PROVE Listing(SetToSeq(S), S)
<1> DEFINE n == Cardinality(S)
           f == SetToSeq(S)
<1>1. n \in Nat /\ ExistsBijection(1 .. n, S)
  BY FS_CardinalityType
<1>2. PICK g \in [1 .. n -> S] : IsInjective(g)
  BY <1>1 DEF ExistsBijection, Bijection, Injection
<1>3. f \in [1 .. n -> S] /\ IsInjective(f)
  BY <1>2 DEF SetToSeq
<1> HIDE DEF n, f
<1>4. f \in Seq(S) /\ Len(f) = n /\ DOMAIN f = 1 .. n
  BY <1>1, <1>3
<1>5. f \in Surjection(1 .. n, S)
  <2>1. f \in Injection(1 .. n, S) /\ IsFiniteSet(1 .. n) /\ Cardinality(1 .. n) = n
    <3>1. IsFiniteSet(1 .. n) /\ Cardinality(1 .. n) = IF 1 > n THEN 0 ELSE n - 1 + 1
      BY <1>1, FS_Interval
    <3>2. Cardinality(1 .. n) = n
      BY <1>1, <3>1
    <3> QED BY <1>3, <3>1, <3>2 DEF Injection
  <2> QED BY <2>1, FS_Injection DEF n
<1>6. \A x \in S : \E i \in 1 .. n : f[i] = x
  BY <1>5 DEF Surjection
<1>7. \A i, j \in 1 .. n : f[i] = f[j] => i = j
  BY <1>3, <1>4 DEF IsInjective
<1> QED BY <1>1, <1>3, <1>4, <1>6, <1>7 DEF Listing, f

LEMMA BothListed ==
  ASSUME NEW s, NEW S, Listing(s, S), NEW t, NEW T, Listing(t, T), \A x \in S : x \notin T
  PROVE  Listing(s \o t, S \cup T)
<1> DEFINE u == s \o t
           m == Len(s)
           n == Len(t)
<1>1. m \in Nat /\ n \in Nat /\ s \in Seq(S \cup T) /\ t \in Seq(S \cup T)
  <2>1. /\ m \in Nat /\ n \in Nat /\ s = [i \in 1 .. m |-> s[i]] /\ t = [i \in 1 .. n |-> t[i]]
        /\ \A i \in 1 .. m : s[i] \in S
        /\ \A i \in 1 .. n : t[i] \in T
    BY DEF Listing
  <2> QED BY <2>1
<1>2. /\ u \in Seq(S \cup T) /\ Len(u) = m + n
      /\ \A i \in 1 .. m + n : u[i] = IF i <= m THEN s[i] ELSE t[i - m]
  BY <1>1, ConcatProperties
<1> HIDE DEF u, m, n
<1>3. \A i \in 1 .. m : i \in 1 .. m + n /\ u[i] = s[i]
  BY <1>1, <1>2
<1>4. \A i \in 1 .. n : m + i \in 1 .. m + n /\ u[m + i] = t[i]
  <2> TAKE i \in 1 .. n
  <2> DEFINE k == m + i
  <2>1. k \in 1 .. m + n /\ ~(k <= m) /\ k - m = i
    BY <1>1
  <2> HIDE DEF k
  <2>2. u[k] = t[i]
    BY <1>2, <2>1
  <2> QED BY <2>1, <2>2 DEF k
<1>5. \A i \in 1 .. m + n : i \in 1 .. m \/ (i - m \in 1 .. n /\ i = m + (i - m))
  BY <1>1
<1>6. ASSUME NEW x PROVE x \in S \cup T <=> \E i \in 1 .. m + n : u[i] = x
  <2>1. x \in S <=> \E i \in 1 .. m : s[i] = x
    BY DEF Listing, m
  <2>2. x \in T <=> \E i \in 1 .. n : t[i] = x
    BY DEF Listing, n
  <2>3. ASSUME NEW i \in 1 .. m + n, u[i] = x PROVE x \in S \cup T
    <3>1. CASE i \in 1 .. m
      BY <1>3, <2>1, <2>3, <3>1
    <3>2. CASE i - m \in 1 .. n /\ i = m + (i - m)
      BY <1>4, <2>2, <2>3, <3>2
    <3> QED BY <1>5, <3>1, <3>2
  <2> QED BY <1>3, <1>4, <2>1, <2>2, <2>3
<1>7. ASSUME NEW i \in 1 .. m + n, NEW j \in 1 .. m + n, u[i] = u[j] PROVE i = j
  <2>1. /\ \A k, l \in 1 .. m : s[k] = s[l] => k = l
        /\ \A k, l \in 1 .. n : t[k] = t[l] => k = l
        /\ \A k \in 1 .. m : s[k] \in S
        /\ \A k \in 1 .. n : t[k] \in T
    BY DEF Listing, m, n
  <2>2. CASE i \in 1 .. m /\ j \in 1 .. m
    BY <1>3, <1>7, <2>1, <2>2
  <2>3. CASE i - m \in 1 .. n /\ i = m + (i - m) /\ j - m \in 1 .. n /\ j = m + (j - m)
    <3>1. t[i - m] = t[j - m]
      BY <1>4, <1>7, <2>3
    <3> QED BY <2>1, <2>3, <3>1
  <2>4. ~(i \in 1 .. m /\ j - m \in 1 .. n /\ j = m + (j - m))
    BY <1>3, <1>4, <1>7, <2>1
  <2>5. ~(j \in 1 .. m /\ i - m \in 1 .. n /\ i = m + (i - m))
    BY <1>3, <1>4, <1>7, <2>1
  <2> QED BY <1>5, <2>2, <2>3, <2>4, <2>5
<1>8. Len(u) \in Nat
  BY <1>1, <1>2
<1>9. Listing(u, S \cup T)
  BY <1>2, <1>6, <1>7, <1>8 DEF Listing
<1> QED BY <1>9 DEF u

\* Without its first element a list names the others.
LEMMA FirstTaken ==
  ASSUME NEW s, NEW S, Listing(s, S), s # <<>>
  PROVE  Head(s) \in S /\ Listing(Tail(s), S \ {Head(s)})
<1> DEFINE r == Tail(s)
           n == Len(s)
<1>1. /\ s \in Seq(S) /\ n \in Nat /\ n > 0 /\ Head(s) = s[1] /\ Head(s) \in S
      /\ r \in Seq(S) /\ Len(r) = n - 1
      /\ \A i \in 1 .. n - 1 : r[i] = s[i + 1]
  <2>1. s \in Seq(S) /\ n \in Nat /\ n > 0 /\ Head(s) = s[1]
    BY DEF Listing
  <2>2. Head(s) \in S /\ r \in Seq(S) /\ Len(r) = n - 1 /\ \A i \in 1 .. Len(r) : r[i] = s[i + 1]
    BY <2>1, HeadTailProperties
  <2> QED BY <2>1, <2>2
<1>2. /\ \A x : x \in S <=> \E i \in 1 .. n : s[i] = x
      /\ \A i, j \in 1 .. n : s[i] = s[j] => i = j
  BY DEF Listing
<1> HIDE DEF r, n
<1>3. ASSUME NEW x PROVE x \in S \ {Head(s)} <=> \E i \in 1 .. n - 1 : r[i] = x
  <2>1. ASSUME NEW i \in 1 .. n - 1, r[i] = x PROVE x \in S \ {Head(s)}
    <3>1. i + 1 \in 1 .. n /\ 1 \in 1 .. n /\ i + 1 # 1
      BY <1>1
    <3> QED BY <1>1, <1>2, <2>1, <3>1
  <2>2. ASSUME x \in S \ {Head(s)} PROVE \E i \in 1 .. n - 1 : r[i] = x
    <3>1. PICK i \in 1 .. n : s[i] = x
      BY <1>2, <2>2
    <3>2. i # 1
      BY <1>1, <2>2, <3>1
    <3>3. i - 1 \in 1 .. n - 1 /\ i - 1 + 1 = i
      BY <1>1, <3>2
    <3> QED BY <1>1, <3>1, <3>3
  <2> QED BY <2>1, <2>2
<1>4. ASSUME NEW i \in 1 .. n - 1, NEW j \in 1 .. n - 1, r[i] = r[j] PROVE i = j
  <2>1. i + 1 \in 1 .. n /\ j + 1 \in 1 .. n
    BY <1>1
  <2>2. i + 1 = j + 1
    BY <1>1, <1>2, <1>4, <2>1
  <2> QED BY <2>2
<1>5. r \in Seq(S \ {Head(s)})
  <2>1. \A i \in 1 .. n - 1 : r[i] \in S \ {Head(s)}
    BY <1>3
  <2>2. r = [i \in 1 .. n - 1 |-> r[i]] /\ n - 1 \in Nat
    BY <1>1
  <2> QED BY <2>1, <2>2
<1> QED BY <1>1, <1>3, <1>4, <1>5 DEF Listing, r

----------------------------------------------------------------------------
(* The statements of a call.                                                 *)

USE PivotAssumption

Ops == {"sync", "toggle", "attach", "detach", "update"}
PivotStatements == [op : {"detach", "attach", "update"}, ids : SUBSET Related, extras : 0 .. 1]

\* What a call detaches, attaches and updates.
Gone(op, had, want) == IF op = "sync" THEN had \ want ELSE had \cap want
New(had, want) == want \ had
Kept(op, had, want, extras) == IF op = "sync" /\ extras # 0 THEN want \cap had ELSE {}

Attaches(ids, extras) == {Attach(id, extras) : id \in ids}
Updates(ids, extras) == {UpdatePivot(id, extras) : id \in ids}
Detaches(ids) == IF ids = {} THEN {} ELSE {Detach(ids)}

Work(op, had, want, extras) ==
  CASE op \in {"sync", "toggle"} ->
         Detaches(Gone(op, had, want)) \cup Attaches(New(had, want), extras)
           \cup Updates(Kept(op, had, want, extras), extras)
    [] op = "attach" -> Attaches(want, extras)
    [] op = "detach" -> {Detach(want)}
    [] op = "update" -> Updates(want, extras)

LEMMA FewStatements ==
  ASSUME NEW ids, ids \subseteq Related, NEW extras
  PROVE  IsFiniteSet(Attaches(ids, extras)) /\ IsFiniteSet(Updates(ids, extras))
<1>1. IsFiniteSet(ids)
  BY FS_Subset
<1>2. [id \in ids |-> Attach(id, extras)] \in Surjection(ids, Attaches(ids, extras))
  BY DEF Surjection, Attaches
<1>3. [id \in ids |-> UpdatePivot(id, extras)] \in Surjection(ids, Updates(ids, extras))
  BY DEF Surjection, Updates
<1> QED BY <1>1, <1>2, <1>3, FS_Surjection

LEMMA KindsOfStatements ==
  ASSUME NEW ids, NEW extras, NEW s
  PROVE  /\ s \in Attaches(ids, extras) =>
              s.op = "attach" /\ s.extras = extras /\ \E id \in ids : s.ids = {id} /\ s = Attach(id, extras)
         /\ s \in Updates(ids, extras) =>
              s.op = "update" /\ s.extras = extras /\ \E id \in ids : s.ids = {id} /\ s = UpdatePivot(id, extras)
         /\ s \in Detaches(ids) => s.op = "detach" /\ s.ids = ids /\ s = Detach(ids) /\ ids # {}
BY DEF Attaches, Updates, Detaches, Attach, UpdatePivot, Detach

LEMMA StatementsOf ==
  ASSUME NEW op \in Ops, NEW had, had \subseteq Related, NEW want, want \subseteq Related, NEW extras \in 0 .. 1
  PROVE  Work(op, had, want, extras) \subseteq PivotStatements
<1>1. \A ids : ids \subseteq Related => Attaches(ids, extras) \subseteq PivotStatements
  BY DEF Attaches, Attach, PivotStatements
<1>2. \A ids : ids \subseteq Related => Updates(ids, extras) \subseteq PivotStatements
  BY DEF Updates, UpdatePivot, PivotStatements
<1>3. \A ids : ids \subseteq Related => Detach(ids) \in PivotStatements
  BY DEF Detach, PivotStatements
<1>4. Gone(op, had, want) \subseteq Related /\ New(had, want) \subseteq Related /\ Kept(op, had, want, extras) \subseteq Related
  BY DEF Gone, New, Kept
<1>5. Detaches(Gone(op, had, want)) \subseteq PivotStatements
  BY <1>3, <1>4 DEF Detaches
<1>6. CASE op \in {"sync", "toggle"}
  BY <1>1, <1>2, <1>4, <1>5, <1>6 DEF Work
<1>7. CASE op \in {"attach", "detach", "update"}
  BY <1>1, <1>2, <1>3, <1>7 DEF Work
<1> QED BY <1>6, <1>7 DEF Ops

LEMMA PlanIs ==
  ASSUME NEW op \in Ops, NEW had, had \subseteq Related, NEW want, want \subseteq Related, NEW extras \in 0 .. 1,
         op = "toggle" => extras = 0
  PROVE  Listing(Plan(op, had, want, extras), Work(op, had, want, extras))
<1> DEFINE A == Attaches(New(had, want), extras)
           U == Updates(Kept(op, had, want, extras), extras)
           D == Detaches(Gone(op, had, want))
<1>1. New(had, want) \subseteq Related /\ Kept(op, had, want, extras) \subseteq Related
  BY DEF New, Kept
<1>2. IsFiniteSet(A) /\ IsFiniteSet(U)
  BY <1>1, FewStatements
<1>3. IsFiniteSet(A \cup U)
  BY <1>2, FS_Union
<1>4. /\ \A s \in A : s.op = "attach"
      /\ \A s \in U : s.op = "update"
      /\ \A s \in D : s.op = "detach"
  BY KindsOfStatements
<1>5. Listing(IF Gone(op, had, want) = {} THEN <<>> ELSE <<Detach(Gone(op, had, want))>>, D)
  BY NothingListed, OneListed DEF Detaches
<1> DEFINE d == IF Gone(op, had, want) = {} THEN <<>> ELSE <<Detach(Gone(op, had, want))>>
<1>6. Listing(SetToSeq(A \cup U), A \cup U) /\ Listing(SetToSeq(A), A)
  BY <1>2, <1>3, SetListed
<1>7. CASE op = "sync"
  <2>1. SyncFromDesired(had, want, extras) = SetToSeq(A \cup U)
    BY <1>7 DEF SyncFromDesired, Attaches, Updates, New, Kept
  <2>2. (IF had \subseteq want THEN <<>> ELSE <<Detach(had \ want)>>) = d
    BY <1>7 DEF Gone
  <2>3. Plan(op, had, want, extras) = d \o SetToSeq(A \cup U)
    BY <1>7, <2>1, <2>2 DEF Plan, SyncPlan
  <2> HIDE DEF d, A, U, D
  <2>4. Listing(d \o SetToSeq(A \cup U), D \cup (A \cup U))
    <3>1. \A s \in D : s \notin A \cup U
      BY <1>4
    <3> QED BY <1>5, <1>6, <3>1, BothListed DEF d
  <2>5. Work(op, had, want, extras) = D \cup (A \cup U)
    BY <1>7 DEF Work, A, U, D
  <2> QED BY <2>3, <2>4, <2>5
<1>8. CASE op = "toggle"
  <2>1. U = {}
    BY <1>8 DEF Updates, Kept
  <2>2. Plan(op, had, want, extras) = SetToSeq(A) \o d
    BY <1>8 DEF Plan, TogglePlan, Attaches, New, Gone
  <2> HIDE DEF d, A, U, D
  <2>3. Listing(SetToSeq(A) \o d, A \cup D)
    <3>1. \A s \in A : s \notin D
      BY <1>4
    <3> QED BY <1>5, <1>6, <3>1, BothListed DEF d
  <2>4. Work(op, had, want, extras) = A \cup D
    BY <1>8, <2>1 DEF Work, A, U, D
  <2> QED BY <2>2, <2>3, <2>4
<1>9. CASE op = "attach"
  BY <1>9, FewStatements, SetListed DEF Plan, Work, Attaches
<1>10. CASE op = "detach"
  BY <1>10, OneListed DEF Plan, Work
<1>11. CASE op = "update"
  BY <1>11, FewStatements, SetListed DEF Plan, Work, Updates
<1> QED BY <1>7, <1>8, <1>9, <1>10, <1>11 DEF Ops

----------------------------------------------------------------------------
PivotCalls == {"none"} \cup Ops
Jobs ==
  [pc : {"idle", "running", "failed", "returned"}, op : PivotCalls, want : SUBSET Related, extras : 0 .. 1,
   todo : Seq(PivotStatements), attached : SUBSET Related, detached : SUBSET Related,
   updated : SUBSET Related, had : SUBSET Related]

PivotShape ==
  /\ pivot \in [Related -> Seq(0 .. 1)] /\ \A r \in Related : Len(pivot[r]) <= MaxRows
  /\ job \in [Syncers -> Jobs] /\ alone \subseteq Syncers

\* Who is alone is the only one with a call under way.
AloneIsAlone == \A c \in alone, d \in Syncers : job[c].pc # "idle" /\ job[d].pc # "idle" => d = c

\* What is left of a call is some of the work it set out to do.
WorkLeft(j, L) ==
  /\ j.op \in Ops /\ (j.op = "toggle" => j.extras = 0)
  /\ Listing(j.todo, L) /\ L \subseteq Work(j.op, j.had, j.want, j.extras)

JobsAreWork ==
  \A c \in Syncers : job[c].pc # "idle" =>
    /\ \E L \in SUBSET PivotStatements : WorkLeft(job[c], L)
    /\ job[c].pc = "returned" => job[c].todo = <<>>

\* A sync or toggle that is alone has done what it does not have left to do.
HasDone(p, j, L) ==
  LET gone == Gone(j.op, j.had, j.want)
      new == New(j.had, j.want)
      kept == Kept(j.op, j.had, j.want, j.extras)
  IN  /\ j.detached \subseteq gone /\ j.attached \subseteq new /\ j.updated \subseteq kept
      /\ \A r \in gone : IF Detach(gone) \in L THEN p[r] # <<>> /\ r \notin j.detached
                           ELSE p[r] = <<>> /\ r \in j.detached
      /\ \A r \in new : IF Attach(r, j.extras) \in L THEN p[r] = <<>> /\ r \notin j.attached
                          ELSE p[r] = <<j.extras>> /\ r \in j.attached
      /\ \A r \in kept : UpdatePivot(r, j.extras) \notin L => ToSet(p[r]) = {j.extras}
      /\ \A r \in j.had \ gone : p[r] # <<>>
      /\ \A r \in Related \ (j.had \cup j.want) : p[r] = <<>>

AloneIsOnItsWay ==
  \A c \in alone : job[c].op \in {"sync", "toggle"} /\ job[c].pc \in {"running", "returned"} =>
    HasDone(pivot, job[c], ToSet(job[c].todo))

PivotInv == PivotShape /\ AloneIsAlone /\ JobsAreWork /\ AloneIsOnItsWay

LEMMA ListingIs == ASSUME NEW s, NEW S, Listing(s, S) PROVE ToSet(s) = S
BY DEF Listing, ToSet

LEMMA PivotInvInit == PivotInit => PivotInv
<1> SUFFICES ASSUME PivotInit PROVE PivotInv
  OBVIOUS
<1>1. Rested \in Jobs /\ Rested.pc = "idle"
  BY DEF Rested, Jobs, PivotCalls
<1>2. pivot \in [Related -> Seq(0 .. 1)] /\ \A r \in Related : Len(pivot[r]) <= MaxRows
  <2>1. <<>> \in Seq(0 .. 1) /\ <<0>> \in Seq(0 .. 1) /\ Len(<<>>) = 0 /\ Len(<<0>>) = 1
    OBVIOUS
  <2>2. pivot \in [Related -> {<<>>, <<0>>}]
    BY DEF PivotInit
  <2>3. \A r \in Related : pivot[r] = <<>> \/ pivot[r] = <<0>>
    BY <2>2
  <2>4. \A r \in Related : pivot[r] \in Seq(0 .. 1) /\ Len(pivot[r]) <= MaxRows
    <3> TAKE r \in Related
    <3>1. CASE pivot[r] = <<>>
      BY <2>1, <3>1 DEF MaxRows
    <3>2. CASE pivot[r] = <<0>>
      BY <2>1, <3>2 DEF MaxRows
    <3> QED BY <2>3, <3>1, <3>2
  <2> QED BY <2>2, <2>4
<1>3. job \in [Syncers -> Jobs] /\ \A c \in Syncers : job[c].pc = "idle"
  BY <1>1 DEF PivotInit
<1>4. alone = {}
  BY DEF PivotInit
<1> QED BY <1>2, <1>3, <1>4 DEF PivotInv, PivotShape, AloneIsAlone, JobsAreWork, AloneIsOnItsWay

\* The call reads what is there and sets out.
LEMMA SettingOut ==
  ASSUME PivotShape, NEW op \in Ops, NEW want, want \subseteq Related, NEW extras \in 0 .. 1,
         op = "toggle" => extras = 0, NEW j, j = Started(op, want, extras)
  PROVE  /\ j \in Jobs /\ j.pc = "running" /\ j.op = op
         /\ \E L \in SUBSET PivotStatements : WorkLeft(j, L)
         /\ op \in {"sync", "toggle"} => HasDone(pivot, j, ToSet(j.todo))
<1> DEFINE had == Present
           W == Work(op, had, want, extras)
           plan == Plan(op, had, want, extras)
<1>1. had \subseteq Related /\ \A r \in Related : r \in had <=> pivot[r] # <<>>
  BY DEF Present
<1> HIDE DEF had
<1>2. Listing(plan, W) /\ W \subseteq PivotStatements /\ plan \in Seq(PivotStatements)
  <2>1. Listing(plan, W)
    BY <1>1, PlanIs
  <2>2. W \subseteq PivotStatements
    BY <1>1, StatementsOf
  <2> HIDE DEF plan, W
  <2>3. plan = [i \in 1 .. Len(plan) |-> plan[i]] /\ Len(plan) \in Nat /\ \A i \in 1 .. Len(plan) : plan[i] \in W
    BY <2>1 DEF Listing
  <2>4. \A i \in 1 .. Len(plan) : plan[i] \in PivotStatements
    BY <2>2, <2>3
  <2> QED BY <2>1, <2>2, <2>3, <2>4
<1>3. j = [pc |-> "running", op |-> op, want |-> want, extras |-> extras, todo |-> plan,
           attached |-> {}, detached |-> {}, updated |-> {}, had |-> had]
  BY DEF Started, Rested, had
<1> HIDE DEF plan, W
<1>4. /\ j.pc = "running" /\ j.op = op /\ j.want = want /\ j.extras = extras /\ j.todo = plan
      /\ j.attached = {} /\ j.detached = {} /\ j.updated = {} /\ j.had = had
  BY <1>3
<1>5. j \in Jobs
  BY <1>1, <1>2, <1>3 DEF Jobs, PivotCalls
<1>6. WorkLeft(j, W) /\ W \in SUBSET PivotStatements
  BY <1>2, <1>4 DEF WorkLeft, W
<1>7. ToSet(j.todo) = W
  BY <1>2, <1>4, ListingIs
<1>8. ASSUME op \in {"sync", "toggle"} PROVE HasDone(pivot, j, W)
  <2> DEFINE gone == Gone(op, had, want)
             new == New(had, want)
             kept == Kept(op, had, want, extras)
  <2>1. W = Detaches(gone) \cup Attaches(new, extras) \cup Updates(kept, extras)
    BY <1>8 DEF Work, W
  <2>2. \A r \in gone : Detach(gone) \in W
    BY <2>1 DEF Detaches
  <2>3. \A r \in new : Attach(r, extras) \in W
    BY <2>1 DEF Attaches
  <2>4. \A r \in kept : UpdatePivot(r, extras) \in W
    BY <2>1 DEF Updates
  <2>5. gone \subseteq had /\ \A r \in new : r \in Related /\ r \notin had
    BY DEF Gone, New
  <2> HIDE DEF gone, new, kept
  <2>6. \A r \in gone : pivot[r] # <<>>
    BY <1>1, <2>5
  <2>7. \A r \in new : pivot[r] = <<>>
    BY <1>1, <2>5
  <2>8. \A r \in had \ gone : pivot[r] # <<>>
    BY <1>1
  <2>9. \A r \in Related \ (had \cup want) : pivot[r] = <<>>
    BY <1>1
  <2> QED BY <1>4, <2>2, <2>3, <2>4, <2>6, <2>7, <2>8, <2>9 DEF HasDone, gone, new, kept
<1> QED BY <1>4, <1>5, <1>6, <1>7, <1>8

LEMMA SameStatement ==
  ASSUME NEW ids, NEW r, NEW q, NEW extras
  PROVE  /\ Attach(r, extras) = Attach(q, extras) <=> r = q
         /\ UpdatePivot(r, extras) = UpdatePivot(q, extras) <=> r = q
         /\ Attach(r, extras) # UpdatePivot(q, extras)
         /\ Attach(r, extras) # Detach(ids) /\ UpdatePivot(r, extras) # Detach(ids)
<1>1. /\ Attach(r, extras).ids = {r} /\ Attach(q, extras).ids = {q}
      /\ UpdatePivot(r, extras).ids = {r} /\ UpdatePivot(q, extras).ids = {q}
  BY DEF Attach, UpdatePivot
<1>2. {r} = {q} <=> r = q
  OBVIOUS
<1>3. /\ Attach(r, extras).op = "attach" /\ UpdatePivot(q, extras).op = "update"
      /\ UpdatePivot(r, extras).op = "update" /\ Detach(ids).op = "detach"
  BY DEF Attach, UpdatePivot, Detach
<1>4. /\ Attach(r, extras) = Attach(q, extras) <=> r = q
      /\ UpdatePivot(r, extras) = UpdatePivot(q, extras) <=> r = q
  BY <1>1, <1>2
<1> QED BY <1>3, <1>4

\* The rows after a statement, and what the call is then.
RowsAfter(p, s) ==
  /\ p \in [Related -> Seq(0 .. 1)] /\ \A r \in Related : Len(p[r]) <= MaxRows
  /\ \A r \in Related \ s.ids : p[r] = pivot[r]
  /\ s.op = "detach" => \A r \in s.ids : p[r] = <<>>
  /\ s.op = "attach" => \A r \in s.ids : pivot[r] = <<>> => p[r] = <<s.extras>>
  /\ s.op # "attach" => \A r \in Related : Len(p[r]) <= Len(pivot[r])
  /\ s.op = "update" => \A r \in s.ids : pivot[r] # <<>> => ToSet(p[r]) = {s.extras} /\ p[r] # <<>>

CallAfter(k, j, s, rest) ==
  /\ k \in Jobs /\ k.todo = rest
  /\ k.pc = j.pc /\ k.op = j.op /\ k.want = j.want /\ k.extras = j.extras /\ k.had = j.had
  /\ k.attached = (IF s.op = "attach" THEN j.attached \cup s.ids ELSE j.attached)
  /\ k.detached = (IF s.op = "detach" THEN j.detached \cup s.ids ELSE j.detached)
  /\ k.updated = (IF s.op = "update" THEN j.updated \cup s.ids ELSE j.updated)

LEMMA AppliedIs ==
  ASSUME PivotShape, NEW s \in PivotStatements,
         \A r \in s.ids : s.op = "attach" => Len(pivot[r]) < MaxRows,
         NEW p, p = Applied(s)
  PROVE  RowsAfter(p, s)
<1>1. s.op \in {"detach", "attach", "update"} /\ s.ids \subseteq Related /\ s.extras \in 0 .. 1
  BY DEF PivotStatements
<1>2. \A r \in Related : pivot[r] \in Seq(0 .. 1) /\ Len(pivot[r]) \in Nat /\ Len(pivot[r]) <= MaxRows
  BY DEF PivotShape
<1> DEFINE f(r) == IF r \notin s.ids THEN pivot[r]
                   ELSE CASE s.op = "detach" -> <<>>
                          [] s.op = "attach" -> Append(pivot[r], s.extras)
                          [] s.op = "update" -> [i \in DOMAIN pivot[r] |-> s.extras]
<1>3. p = [r \in Related |-> f(r)]
  BY DEF Applied
<1> HIDE DEF f
<1>4. ASSUME NEW r \in Related, r \notin s.ids PROVE p[r] = pivot[r]
  BY <1>4 DEF Applied
<1>5. ASSUME NEW r \in s.ids, s.op = "detach" PROVE p[r] = <<>>
  BY <1>1, <1>5 DEF Applied
<1>6. ASSUME NEW r \in s.ids, s.op = "attach" PROVE p[r] = Append(pivot[r], s.extras)
  BY <1>1, <1>6 DEF Applied
<1>7. ASSUME NEW r \in s.ids, s.op = "update" PROVE p[r] = [i \in DOMAIN pivot[r] |-> s.extras]
  BY <1>1, <1>7 DEF Applied
<1>8. ASSUME NEW r \in s.ids, s.op = "attach"
      PROVE  p[r] \in Seq(0 .. 1) /\ Len(p[r]) <= MaxRows /\ (pivot[r] = <<>> => p[r] = <<s.extras>>)
  <2>1. p[r] \in Seq(0 .. 1) /\ Len(p[r]) = Len(pivot[r]) + 1
    BY <1>1, <1>2, <1>6, <1>8
  <2>2. Len(p[r]) <= MaxRows
    BY <1>1, <1>2, <1>8, <2>1 DEF MaxRows
  <2>3. Append(<<>>, s.extras) = <<s.extras>>
    OBVIOUS
  <2> QED BY <1>6, <1>8, <2>1, <2>2, <2>3
<1>9. ASSUME NEW r \in s.ids, s.op = "update"
      PROVE  /\ p[r] \in Seq(0 .. 1) /\ Len(p[r]) = Len(pivot[r])
             /\ pivot[r] # <<>> => ToSet(p[r]) = {s.extras} /\ p[r] # <<>>
  <2> DEFINE n == Len(pivot[r])
  <2>1. n \in Nat /\ DOMAIN pivot[r] = 1 .. n /\ pivot[r] \in Seq(0 .. 1)
    BY <1>1, <1>2
  <2>2. p[r] = [i \in 1 .. n |-> s.extras]
    BY <1>7, <1>9, <2>1
  <2>3. pivot[r] # <<>> => n # 0
    BY <2>1
  <2> HIDE DEF n
  <2>4. p[r] \in Seq(0 .. 1) /\ Len(p[r]) = n /\ DOMAIN p[r] = 1 .. n
    BY <1>1, <2>1, <2>2
  <2>5. n # 0 => ToSet(p[r]) = {s.extras} /\ p[r] # <<>>
    <3>1. n # 0 => 1 \in 1 .. n
      BY <2>1
    <3>2. \A i \in 1 .. n : p[r][i] = s.extras
      BY <2>2
    <3> QED BY <2>4, <3>1, <3>2 DEF ToSet
  <2> QED BY <2>3, <2>4, <2>5 DEF n
<1>10. ASSUME NEW r \in Related PROVE p[r] \in Seq(0 .. 1) /\ Len(p[r]) <= MaxRows
  <2>1. CASE r \notin s.ids
    BY <1>2, <1>4, <2>1
  <2>2. CASE r \in s.ids /\ s.op = "detach"
    <3>1. p[r] = <<>> /\ <<>> \in Seq(0 .. 1) /\ Len(<<>>) = 0
      BY <1>5, <2>2
    <3> QED BY <3>1 DEF MaxRows
  <2>3. CASE r \in s.ids /\ s.op = "attach"
    BY <1>8, <2>3
  <2>4. CASE r \in s.ids /\ s.op = "update"
    BY <1>2, <1>9, <2>4
  <2> QED BY <1>1, <2>1, <2>2, <2>3, <2>4
<1>11. p \in [Related -> Seq(0 .. 1)]
  BY <1>3, <1>10
<1>12. ASSUME s.op # "attach", NEW r \in Related PROVE Len(p[r]) <= Len(pivot[r])
  <2>1. CASE r \notin s.ids
    BY <1>2, <1>4, <2>1
  <2>2. CASE r \in s.ids /\ s.op = "detach"
    <3>1. p[r] = <<>> /\ Len(<<>>) = 0
      BY <1>5, <2>2
    <3> QED BY <1>2, <3>1
  <2>3. CASE r \in s.ids /\ s.op = "update"
    BY <1>2, <1>9, <2>3
  <2> QED BY <1>1, <1>12, <2>1, <2>2, <2>3
<1> QED BY <1>4, <1>5, <1>8, <1>9, <1>10, <1>11, <1>12 DEF RowsAfter

LEMMA ToldIs ==
  ASSUME NEW j \in Jobs, NEW s \in PivotStatements, NEW rest \in Seq(PivotStatements),
         NEW k, k = [Told(j, s) EXCEPT !.todo = rest]
  PROVE  CallAfter(k, j, s, rest)
<1>1. s.op \in {"detach", "attach", "update"} /\ s.ids \subseteq Related
  BY DEF PivotStatements
<1> USE DEF CallAfter
<1>2. CASE s.op = "attach"
  <2>1. k = [[j EXCEPT !.attached = j.attached \cup s.ids] EXCEPT !.todo = rest]
    BY <1>2 DEF Told
  <2> QED BY <1>1, <1>2, <2>1 DEF Jobs
<1>3. CASE s.op = "detach"
  <2>1. k = [[j EXCEPT !.detached = j.detached \cup s.ids] EXCEPT !.todo = rest]
    BY <1>3 DEF Told
  <2> QED BY <1>1, <1>3, <2>1 DEF Jobs
<1>4. CASE s.op = "update"
  <2>1. k = [[j EXCEPT !.updated = j.updated \cup s.ids] EXCEPT !.todo = rest]
    BY <1>4 DEF Told
  <2> QED BY <1>1, <1>4, <2>1 DEF Jobs
<1> QED BY <1>1, <1>2, <1>3, <1>4

\* A statement does its part of the call's work, and that part only.
LEMMA StatementDoesItsPart ==
  ASSUME PivotShape, NEW j \in Jobs, NEW L, WorkLeft(j, L), j.op \in {"sync", "toggle"},
         HasDone(pivot, j, L), NEW s \in L, NEW rest, NEW k, CallAfter(k, j, s, rest),
         NEW p, RowsAfter(p, s)
  PROVE  HasDone(p, k, L \ {s})
<1>1. j.want \subseteq Related /\ j.had \subseteq Related /\ j.extras \in 0 .. 1
  BY DEF Jobs
<1>2. /\ k.op = j.op /\ k.want = j.want /\ k.extras = j.extras /\ k.had = j.had
      /\ k.attached = (IF s.op = "attach" THEN j.attached \cup s.ids ELSE j.attached)
      /\ k.detached = (IF s.op = "detach" THEN j.detached \cup s.ids ELSE j.detached)
      /\ k.updated = (IF s.op = "update" THEN j.updated \cup s.ids ELSE j.updated)
  BY DEF CallAfter
<1>3. /\ \A r \in Related \ s.ids : p[r] = pivot[r]
      /\ s.op = "detach" => \A r \in s.ids : p[r] = <<>>
      /\ s.op = "attach" => \A r \in s.ids : pivot[r] = <<>> => p[r] = <<s.extras>>
      /\ s.op = "update" => \A r \in s.ids : pivot[r] # <<>> => ToSet(p[r]) = {s.extras} /\ p[r] # <<>>
  BY DEF RowsAfter
<1> DEFINE gone == Gone(j.op, j.had, j.want)
           new == New(j.had, j.want)
           kept == Kept(j.op, j.had, j.want, j.extras)
           M == L \ {s}
<1>4. /\ gone \subseteq j.had /\ gone \subseteq Related /\ new \subseteq Related /\ kept \subseteq Related
      /\ \A r \in new : r \notin j.had /\ r \in j.want
      /\ \A r \in kept : r \in j.had \ gone /\ r \notin new
  BY <1>1 DEF Gone, New, Kept
<1>5. /\ j.detached \subseteq gone /\ j.attached \subseteq new /\ j.updated \subseteq kept
      /\ \A r \in gone : IF Detach(gone) \in L THEN pivot[r] # <<>> /\ r \notin j.detached
                           ELSE pivot[r] = <<>> /\ r \in j.detached
      /\ \A r \in new : IF Attach(r, j.extras) \in L THEN pivot[r] = <<>> /\ r \notin j.attached
                          ELSE pivot[r] = <<j.extras>> /\ r \in j.attached
      /\ \A r \in kept : UpdatePivot(r, j.extras) \notin L => ToSet(pivot[r]) = {j.extras}
      /\ \A r \in j.had \ gone : pivot[r] # <<>>
      /\ \A r \in Related \ (j.had \cup j.want) : pivot[r] = <<>>
  BY DEF HasDone
<1>6. s \in Detaches(gone) \/ s \in Attaches(new, j.extras) \/ s \in Updates(kept, j.extras)
  BY DEF WorkLeft, Work
<1>7. /\ gone = Gone(k.op, k.had, k.want) /\ new = New(k.had, k.want)
      /\ kept = Kept(k.op, k.had, k.want, k.extras)
  BY <1>2
<1> HIDE DEF gone, new, kept
<1>8. SUFFICES
        /\ k.detached \subseteq gone /\ k.attached \subseteq new /\ k.updated \subseteq kept
        /\ \A r \in gone : IF Detach(gone) \in M THEN p[r] # <<>> /\ r \notin k.detached
                             ELSE p[r] = <<>> /\ r \in k.detached
        /\ \A r \in new : IF Attach(r, j.extras) \in M THEN p[r] = <<>> /\ r \notin k.attached
                            ELSE p[r] = <<j.extras>> /\ r \in k.attached
        /\ \A r \in kept : UpdatePivot(r, j.extras) \notin M => ToSet(p[r]) = {j.extras}
        /\ \A r \in j.had \ gone : p[r] # <<>>
        /\ \A r \in Related \ (j.had \cup j.want) : p[r] = <<>>
  BY <1>2, <1>7 DEF HasDone
<1>9. CASE s \in Detaches(gone)
  <2>1. s.op = "detach" /\ s.ids = gone /\ s = Detach(gone)
    BY <1>9, KindsOfStatements
  <2>2. \A r : Attach(r, j.extras) # s /\ UpdatePivot(r, j.extras) # s
    BY <2>1, SameStatement
  <2>3. \A r : (Attach(r, j.extras) \in M <=> Attach(r, j.extras) \in L)
             /\ (UpdatePivot(r, j.extras) \in M <=> UpdatePivot(r, j.extras) \in L)
    BY <2>2
  <2>4. /\ k.detached = gone /\ k.attached = j.attached /\ k.updated = j.updated /\ Detach(gone) \notin M
    BY <1>2, <1>5, <2>1
  <2>5. (\A r \in gone : p[r] = <<>>) /\ \A r \in Related \ gone : p[r] = pivot[r]
    BY <1>3, <2>1
  <2>6. \A r \in new : p[r] = pivot[r]
    BY <1>4, <2>5
  <2>7. \A r \in kept : p[r] = pivot[r]
    BY <1>4, <2>5
  <2>8. \A r \in j.had \ gone : p[r] # <<>>
    BY <1>1, <1>5, <2>5
  <2>9. \A r \in Related \ (j.had \cup j.want) : p[r] = <<>>
    BY <1>4, <1>5, <2>5
  <2> HIDE DEF M
  <2> QED BY <1>5, <2>3, <2>4, <2>5, <2>6, <2>7, <2>8, <2>9
<1>10. CASE s \in Attaches(new, j.extras)
  <2>1. PICK id \in new : s.ids = {id} /\ s = Attach(id, j.extras) /\ s.op = "attach" /\ s.extras = j.extras
    BY <1>10, KindsOfStatements
  <2>2. /\ Detach(gone) # s
        /\ \A r : UpdatePivot(r, j.extras) # s /\ (Attach(r, j.extras) = s <=> r = id)
    BY <2>1, SameStatement
  <2>3. /\ Detach(gone) \in M <=> Detach(gone) \in L
        /\ \A r : UpdatePivot(r, j.extras) \in M <=> UpdatePivot(r, j.extras) \in L
        /\ \A r : Attach(r, j.extras) \in M <=> Attach(r, j.extras) \in L /\ r # id
    BY <2>2
  <2>4. k.detached = j.detached /\ k.attached = j.attached \cup {id} /\ k.updated = j.updated
    BY <1>2, <2>1
  <2>5. pivot[id] = <<>> /\ p[id] = <<j.extras>> /\ \A r \in Related \ {id} : p[r] = pivot[r]
    BY <1>3, <1>5, <2>1
  <2>6. id \notin gone /\ id \notin kept /\ id \notin j.had /\ id \in j.want
    BY <1>4
  <2> HIDE DEF M
  <2>7. \A r \in gone : IF Detach(gone) \in M THEN p[r] # <<>> /\ r \notin k.detached
                         ELSE p[r] = <<>> /\ r \in k.detached
    BY <1>4, <1>5, <2>3, <2>4, <2>5, <2>6
  <2>8. \A r \in new : IF Attach(r, j.extras) \in M THEN p[r] = <<>> /\ r \notin k.attached
                        ELSE p[r] = <<j.extras>> /\ r \in k.attached
    BY <1>4, <1>5, <2>3, <2>4, <2>5
  <2>9. \A r \in kept : UpdatePivot(r, j.extras) \notin M => ToSet(p[r]) = {j.extras}
    BY <1>4, <1>5, <2>3, <2>5, <2>6
  <2>10. /\ \A r \in j.had \ gone : p[r] # <<>>
         /\ \A r \in Related \ (j.had \cup j.want) : p[r] = <<>>
    BY <1>1, <1>5, <2>5, <2>6
  <2> QED BY <1>5, <2>4, <2>7, <2>8, <2>9, <2>10
<1>11. CASE s \in Updates(kept, j.extras)
  <2>1. PICK id \in kept : s.ids = {id} /\ s = UpdatePivot(id, j.extras) /\ s.op = "update" /\ s.extras = j.extras
    BY <1>11, KindsOfStatements
  <2>2. /\ Detach(gone) # s
        /\ \A r : Attach(r, j.extras) # s /\ (UpdatePivot(r, j.extras) = s <=> r = id)
    BY <2>1, SameStatement
  <2>3. /\ Detach(gone) \in M <=> Detach(gone) \in L
        /\ \A r : Attach(r, j.extras) \in M <=> Attach(r, j.extras) \in L
        /\ \A r : UpdatePivot(r, j.extras) \in M <=> UpdatePivot(r, j.extras) \in L /\ r # id
    BY <2>2
  <2>4. k.detached = j.detached /\ k.attached = j.attached /\ k.updated = j.updated \cup {id}
    BY <1>2, <2>1
  <2>5. id \in j.had \ gone /\ id \notin new /\ id \in Related
    BY <1>4
  <2>6. pivot[id] # <<>> /\ ToSet(p[id]) = {j.extras} /\ p[id] # <<>> /\ \A r \in Related \ {id} : p[r] = pivot[r]
    BY <1>3, <1>5, <2>1, <2>5
  <2> HIDE DEF M
  <2>7. \A r \in gone : IF Detach(gone) \in M THEN p[r] # <<>> /\ r \notin k.detached
                         ELSE p[r] = <<>> /\ r \in k.detached
    BY <1>4, <1>5, <2>3, <2>4, <2>5, <2>6
  <2>8. \A r \in new : IF Attach(r, j.extras) \in M THEN p[r] = <<>> /\ r \notin k.attached
                        ELSE p[r] = <<j.extras>> /\ r \in k.attached
    BY <1>4, <1>5, <2>3, <2>4, <2>5, <2>6
  <2>9. \A r \in kept : UpdatePivot(r, j.extras) \notin M => ToSet(p[r]) = {j.extras}
    BY <1>4, <1>5, <2>3, <2>6
  <2>10. /\ \A r \in j.had \ gone : p[r] # <<>>
         /\ \A r \in Related \ (j.had \cup j.want) : p[r] = <<>>
    BY <1>1, <1>5, <2>5, <2>6
  <2> QED BY <1>5, <2>1, <2>4, <2>7, <2>8, <2>9, <2>10
<1> QED BY <1>6, <1>9, <1>10, <1>11

\* One call changes.
LEMMA JobMoved ==
  ASSUME PivotShape, NEW c \in Syncers, NEW j \in Jobs, job' = [job EXCEPT ![c] = j]
  PROVE  job' \in [Syncers -> Jobs] /\ job'[c] = j /\ \A d \in Syncers \ {c} : job'[d] = job[d]
BY DEF PivotShape

LEMMA BeginKeeps ==
  ASSUME PivotInv, NEW c \in Syncers, NEW op \in Ops, NEW want, want \subseteq Related, NEW extras \in 0 .. 1,
         op = "toggle" => extras = 0, Begin(c, op, want, extras)
  PROVE  PivotInv'
<1> DEFINE j == Started(op, want, extras)
<1>1. /\ job[c].pc = "idle" /\ job' = [job EXCEPT ![c] = j] /\ pivot' = pivot
      /\ alone' = IF Busy = {} THEN alone \cup {c} ELSE alone \ (Busy \cup {c})
  BY DEF Begin
<1>2. PivotShape /\ AloneIsAlone /\ JobsAreWork /\ AloneIsOnItsWay
  BY DEF PivotInv
<1>3. /\ j \in Jobs /\ j.pc = "running" /\ j.op = op
      /\ \E L \in SUBSET PivotStatements : WorkLeft(j, L)
      /\ op \in {"sync", "toggle"} => HasDone(pivot, j, ToSet(j.todo))
  BY <1>2, SettingOut
<1> HIDE DEF j
<1>4. job' \in [Syncers -> Jobs] /\ job'[c] = j /\ \A d \in Syncers \ {c} : job'[d] = job[d]
  BY <1>1, <1>2, <1>3, JobMoved
<1>5. PivotShape'
  BY <1>1, <1>2, <1>4 DEF PivotShape
<1>6. ASSUME NEW e \in alone', NEW d \in Syncers, job'[e].pc # "idle", job'[d].pc # "idle"
      PROVE  d = e /\ e = c
  <2>1. e \in Syncers
    BY <1>5 DEF PivotShape
  <2>2. CASE Busy = {}
    BY <1>4, <1>6, <2>1, <2>2 DEF Busy
  <2>3. CASE Busy # {}
    BY <1>1, <1>4, <1>6, <2>1, <2>3 DEF Busy
  <2> QED BY <2>2, <2>3
<1>7. AloneIsAlone'
  BY <1>6 DEF AloneIsAlone
<1>8. JobsAreWork'
  BY <1>2, <1>3, <1>4 DEF JobsAreWork
<1>9. AloneIsOnItsWay'
  <2> SUFFICES ASSUME NEW e \in alone', job'[e].op \in {"sync", "toggle"}, job'[e].pc \in {"running", "returned"}
               PROVE  HasDone(pivot', job'[e], ToSet(job'[e].todo))
    BY DEF AloneIsOnItsWay
  <2>1. e = c
    <3>1. e \in Syncers
      BY <1>5 DEF PivotShape
    <3> QED BY <1>6, <3>1
  <2> QED BY <1>1, <1>3, <1>4, <2>1
<1> QED BY <1>5, <1>7, <1>8, <1>9 DEF PivotInv

LEMMA StatementKeepsPivot ==
  ASSUME PivotInv, NEW c \in Syncers, RunStatement(c)
  PROVE  PivotInv'
<1> DEFINE j == job[c]
           s == Head(j.todo)
           rest == Tail(j.todo)
           k == [Told(j, s) EXCEPT !.todo = rest]
<1>1. /\ j.pc = "running" /\ j.todo # <<>> /\ UNCHANGED alone
      /\ \A r \in s.ids : s.op = "attach" => Len(pivot[r]) < MaxRows
      /\ pivot' = Applied(s) /\ job' = [job EXCEPT ![c] = k]
  BY DEF RunStatement
<1>2. PivotShape /\ AloneIsAlone /\ JobsAreWork /\ AloneIsOnItsWay
  BY DEF PivotInv
<1>3. j \in Jobs /\ alone \subseteq Syncers
  BY <1>2 DEF PivotShape
<1>4. PICK L \in SUBSET PivotStatements : WorkLeft(j, L)
  BY <1>1, <1>2 DEF JobsAreWork
<1> HIDE DEF k, j
<1>5. s \in L /\ s \in PivotStatements /\ Listing(rest, L \ {s}) /\ rest \in Seq(PivotStatements)
  <2>1. Listing(j.todo, L)
    BY <1>4 DEF WorkLeft
  <2>2. s \in L /\ Listing(rest, L \ {s})
    BY <1>1, <2>1, FirstTaken
  <2>3. j.todo \in Seq(PivotStatements)
    BY <1>3 DEF Jobs
  <2> QED BY <1>1, <2>2, <2>3
<1> HIDE DEF s, rest
<1>6. RowsAfter(pivot', s)
  BY <1>1, <1>2, <1>5, AppliedIs
<1>7. CallAfter(k, j, s, rest)
  BY <1>3, <1>5, ToldIs DEF k
<1>8. k \in Jobs /\ k.todo = rest /\ k.pc = "running"
      /\ k.op = j.op /\ k.want = j.want /\ k.extras = j.extras /\ k.had = j.had
  BY <1>1, <1>7 DEF CallAfter
<1>9. job' \in [Syncers -> Jobs] /\ job'[c] = k /\ \A d \in Syncers \ {c} : job'[d] = job[d]
  BY <1>1, <1>2, <1>8, JobMoved
<1>10. PivotShape'
  BY <1>1, <1>3, <1>6, <1>9 DEF PivotShape, RowsAfter
<1>11. AloneIsAlone'
  BY <1>1, <1>2, <1>3, <1>8, <1>9 DEF AloneIsAlone, j
<1>12. JobsAreWork'
  <2>1. WorkLeft(k, L \ {s}) /\ L \ {s} \in SUBSET PivotStatements
    BY <1>4, <1>5, <1>8 DEF WorkLeft
  <2>2. \A d \in Syncers \ {c} : job'[d] = job[d]
    BY <1>9
  <2>3. \E M \in SUBSET PivotStatements : WorkLeft(job'[c], M)
    BY <1>9, <2>1
  <2> QED BY <1>2, <1>8, <1>9, <2>2, <2>3 DEF JobsAreWork
<1>13. AloneIsOnItsWay'
  <2> SUFFICES ASSUME NEW e \in alone, job'[e].op \in {"sync", "toggle"}, job'[e].pc \in {"running", "returned"}
               PROVE  HasDone(pivot', job'[e], ToSet(job'[e].todo))
    BY <1>1 DEF AloneIsOnItsWay
  <2>1. e = c
    <3>1. e \in Syncers /\ job[c].pc # "idle"
      BY <1>1, <1>3 DEF j
    <3>2. e # c => job[e].pc # "idle"
      BY <1>9, <3>1
    <3> QED BY <1>2, <3>1, <3>2 DEF AloneIsAlone
  <2>2. j.op \in {"sync", "toggle"}
    BY <1>8, <1>9, <2>1
  <2>3. HasDone(pivot, j, L)
    <3>1. ToSet(j.todo) = L
      BY <1>4, ListingIs DEF WorkLeft
    <3>2. HasDone(pivot, j, ToSet(j.todo))
      BY <1>1, <1>2, <2>1, <2>2 DEF AloneIsOnItsWay, j
    <3> QED BY <3>1, <3>2
  <2>4. HasDone(pivot', k, L \ {s})
    BY <1>2, <1>3, <1>4, <1>5, <1>6, <1>7, <2>2, <2>3, StatementDoesItsPart
  <2>5. ToSet(k.todo) = L \ {s}
    BY <1>5, <1>8, ListingIs
  <2> QED BY <1>9, <2>1, <2>4, <2>5
<1> QED BY <1>10, <1>11, <1>12, <1>13 DEF PivotInv

\* The call moves on without a statement.
LEMMA CallMoves ==
  ASSUME PivotInv, NEW c \in Syncers, UNCHANGED <<pivot, alone>>, NEW j \in Jobs, job' = [job EXCEPT ![c] = j],
         j.pc = "idle" \/ (job[c].pc # "idle" /\ j.pc \in {"failed", "returned"}
                            /\ \E L \in SUBSET PivotStatements : WorkLeft(j, L)),
         j.pc = "returned" => j.todo = <<>>,
         j.pc = "returned" /\ c \in alone /\ j.op \in {"sync", "toggle"} => HasDone(pivot, j, ToSet(j.todo))
  PROVE  PivotInv'
<1>1. PivotShape /\ AloneIsAlone /\ JobsAreWork /\ AloneIsOnItsWay /\ alone \subseteq Syncers
  BY DEF PivotInv, PivotShape
<1>2. job' \in [Syncers -> Jobs] /\ job'[c] = j /\ \A d \in Syncers \ {c} : job'[d] = job[d]
  BY <1>1, JobMoved
<1>3. PivotShape'
  BY <1>1, <1>2 DEF PivotShape
<1>4. AloneIsAlone'
  BY <1>1, <1>2 DEF AloneIsAlone
<1>5. JobsAreWork'
  BY <1>1, <1>2 DEF JobsAreWork
<1>6. AloneIsOnItsWay'
  <2> SUFFICES ASSUME NEW e \in alone, job'[e].op \in {"sync", "toggle"}, job'[e].pc \in {"running", "returned"}
               PROVE  HasDone(pivot, job'[e], ToSet(job'[e].todo))
    BY DEF AloneIsOnItsWay
  <2>1. CASE e = c
    BY <1>2, <2>1
  <2>2. CASE e # c
    BY <1>1, <1>2, <2>2 DEF AloneIsOnItsWay
  <2> QED BY <2>1, <2>2
<1> QED BY <1>3, <1>4, <1>5, <1>6 DEF PivotInv

LEMMA FailureKeeps == ASSUME PivotInv, NEW c \in Syncers, StatementFails(c) PROVE PivotInv'
<1> DEFINE j == [job[c] EXCEPT !.pc = "failed"]
<1>1. job[c].pc = "running" /\ job' = [job EXCEPT ![c] = j] /\ UNCHANGED <<pivot, alone>>
  BY DEF StatementFails
<1>2. job[c] \in Jobs
  BY DEF PivotInv, PivotShape
<1>3. j \in Jobs /\ j.pc = "failed" /\ j.op = job[c].op /\ j.todo = job[c].todo /\ j.had = job[c].had
      /\ j.want = job[c].want /\ j.extras = job[c].extras
  BY <1>2 DEF Jobs
<1> HIDE DEF j
<1>4. \E L \in SUBSET PivotStatements : WorkLeft(j, L)
  <2>1. PICK L \in SUBSET PivotStatements : WorkLeft(job[c], L)
    BY <1>1 DEF PivotInv, JobsAreWork
  <2> QED BY <1>3, <2>1 DEF WorkLeft
<1> QED BY <1>1, <1>3, <1>4, CallMoves

LEMMA ReturnKeeps == ASSUME PivotInv, NEW c \in Syncers, Return(c) PROVE PivotInv'
<1> DEFINE j == [job[c] EXCEPT !.pc = "returned"]
<1>1. job[c].pc = "running" /\ job[c].todo = <<>> /\ job' = [job EXCEPT ![c] = j] /\ UNCHANGED <<pivot, alone>>
  BY DEF Return
<1>2. job[c] \in Jobs
  BY DEF PivotInv, PivotShape
<1>3. /\ j \in Jobs /\ j.pc = "returned" /\ j.op = job[c].op /\ j.todo = job[c].todo /\ j.had = job[c].had
      /\ j.want = job[c].want /\ j.extras = job[c].extras
      /\ j.attached = job[c].attached /\ j.detached = job[c].detached /\ j.updated = job[c].updated
  BY <1>2 DEF Jobs
<1> HIDE DEF j
<1>4. \E L \in SUBSET PivotStatements : WorkLeft(j, L)
  <2>1. PICK L \in SUBSET PivotStatements : WorkLeft(job[c], L)
    BY <1>1 DEF PivotInv, JobsAreWork
  <2> QED BY <1>3, <2>1 DEF WorkLeft
<1>5. ASSUME c \in alone, j.op \in {"sync", "toggle"} PROVE HasDone(pivot, j, ToSet(j.todo))
  <2>1. HasDone(pivot, job[c], ToSet(job[c].todo))
    BY <1>1, <1>3, <1>5 DEF PivotInv, AloneIsOnItsWay
  <2> QED BY <1>3, <2>1 DEF HasDone
<1> QED BY <1>1, <1>3, <1>4, <1>5, CallMoves

LEMMA RestKeeps == ASSUME PivotInv, NEW c \in Syncers, Rest(c) PROVE PivotInv'
<1>1. job' = [job EXCEPT ![c] = Rested] /\ UNCHANGED <<pivot, alone>>
  BY DEF Rest
<1>2. Rested \in Jobs /\ Rested.pc = "idle"
  BY DEF Rested, Jobs, PivotCalls
<1> QED BY <1>1, <1>2, CallMoves

\* A sync that failed starts over; it is alone if nobody else has a call under way.
LEMMA TryAgainKeeps == ASSUME PivotInv, NEW c \in Syncers, TryAgain(c) PROVE PivotInv'
<1> DEFINE j == Started("sync", job[c].want, job[c].extras)
<1>1. /\ job[c].pc = "failed" /\ job[c].op = "sync" /\ job' = [job EXCEPT ![c] = j] /\ UNCHANGED pivot
      /\ alone' = IF Busy = {c} THEN alone \cup {c} ELSE alone \ Busy
  BY DEF TryAgain
<1>2. PivotShape /\ AloneIsAlone /\ JobsAreWork /\ AloneIsOnItsWay
  BY DEF PivotInv
<1>3. job[c] \in Jobs /\ job[c].want \subseteq Related /\ job[c].extras \in 0 .. 1
  BY <1>2 DEF PivotShape, Jobs
<1>4. /\ j \in Jobs /\ j.pc = "running" /\ j.op = "sync"
      /\ \E L \in SUBSET PivotStatements : WorkLeft(j, L)
      /\ HasDone(pivot, j, ToSet(j.todo))
  <2>1. "sync" \in Ops
    BY DEF Ops
  <2> QED BY <1>2, <1>3, <2>1, SettingOut
<1> HIDE DEF j
<1>5. job' \in [Syncers -> Jobs] /\ job'[c] = j /\ \A d \in Syncers \ {c} : job'[d] = job[d]
  BY <1>1, <1>2, <1>4, JobMoved
<1>6. PivotShape'
  BY <1>1, <1>2, <1>5 DEF PivotShape
<1>7. ASSUME NEW e \in alone', NEW d \in Syncers, job'[e].pc # "idle", job'[d].pc # "idle"
      PROVE  d = e /\ e = c
  <2>1. e \in Syncers
    BY <1>6 DEF PivotShape
  <2>2. (e # c => e \in Busy) /\ (d # c => d \in Busy) /\ c \in Busy
    BY <1>1, <1>5, <1>7, <2>1 DEF Busy
  <2>3. CASE Busy = {c}
    BY <2>2, <2>3
  <2>4. CASE Busy # {c}
    BY <1>1, <2>2, <2>4
  <2> QED BY <2>3, <2>4
<1>8. AloneIsAlone'
  BY <1>7 DEF AloneIsAlone
<1>9. JobsAreWork'
  BY <1>2, <1>4, <1>5 DEF JobsAreWork
<1>10. AloneIsOnItsWay'
  <2> SUFFICES ASSUME NEW e \in alone', job'[e].op \in {"sync", "toggle"}, job'[e].pc \in {"running", "returned"}
               PROVE  HasDone(pivot', job'[e], ToSet(job'[e].todo))
    BY DEF AloneIsOnItsWay
  <2>1. e = c
    <3>1. e \in Syncers
      BY <1>6 DEF PivotShape
    <3> QED BY <1>7, <3>1
  <2> QED BY <1>1, <1>4, <1>5, <2>1
<1> QED BY <1>6, <1>8, <1>9, <1>10 DEF PivotInv

LEMMA PivotInvNext == PivotInv /\ [PivotNext]_pivotVars => PivotInv'
<1> SUFFICES ASSUME PivotInv, [PivotNext]_pivotVars PROVE PivotInv'
  OBVIOUS
<1>1. CASE UNCHANGED pivotVars
  BY <1>1 DEF pivotVars, PivotInv, PivotShape, AloneIsAlone, JobsAreWork, AloneIsOnItsWay
<1>2. ASSUME NEW c \in Syncers, CallPivot(c) PROVE PivotInv'
  <2>1. PICK want \in SUBSET Related :
          \/ \E op \in {"sync", "attach"}, extras \in 0 .. 1 : Begin(c, op, want, extras)
          \/ Begin(c, "update", want, 1)
          \/ \E op \in {"toggle", "detach"} : Begin(c, op, want, 0)
    BY <1>2 DEF CallPivot
  <2>2. 0 \in 0 .. 1 /\ 1 \in 0 .. 1
    OBVIOUS
  <2>3. ASSUME NEW op \in {"sync", "attach"}, NEW extras \in 0 .. 1, Begin(c, op, want, extras) PROVE PivotInv'
    <3>1. op \in Ops /\ op # "toggle"
      BY DEF Ops
    <3> QED BY <2>3, <3>1, BeginKeeps
  <2>4. ASSUME Begin(c, "update", want, 1) PROVE PivotInv'
    <3>1. "update" \in Ops
      BY DEF Ops
    <3> QED BY <2>2, <2>4, <3>1, BeginKeeps
  <2>5. ASSUME NEW op \in {"toggle", "detach"}, Begin(c, op, want, 0) PROVE PivotInv'
    <3>1. op \in Ops
      BY DEF Ops
    <3> QED BY <2>2, <2>5, <3>1, BeginKeeps
  <2> QED BY <2>1, <2>3, <2>4, <2>5
<1> QED
  BY <1>1, <1>2, StatementKeepsPivot, ReturnKeeps, RestKeeps, TryAgainKeeps, FailureKeeps DEF PivotNext, PivotStep

LEMMA PivotInvMeans == PivotInv => PivotTypes /\ AloneDoesWhatItSays
<1> SUFFICES ASSUME PivotInv PROVE PivotTypes /\ AloneDoesWhatItSays
  OBVIOUS
<1>1. PivotShape /\ JobsAreWork /\ AloneIsOnItsWay
  BY DEF PivotInv
<1>2. PivotTypes
  <2>1. ASSUME NEW r \in Related PROVE pivot[r] \in UNION {[1 .. n -> 0 .. 1] : n \in 0 .. MaxRows}
    <3> DEFINE n == Len(pivot[r])
    <3>1. n \in Nat /\ n <= MaxRows /\ pivot[r] \in [1 .. n -> 0 .. 1]
      BY <1>1 DEF PivotShape
    <3> HIDE DEF n
    <3>2. n \in 0 .. MaxRows
      BY <3>1 DEF MaxRows
    <3> QED BY <3>1, <3>2
  <2>2. \A c \in Syncers : job[c].pc \in {"idle", "running", "failed", "returned"}
    BY <1>1 DEF PivotShape, Jobs
  <2> QED BY <1>1, <2>1, <2>2 DEF PivotTypes, PivotShape
<1>3. AloneDoesWhatItSays
  <2> SUFFICES ASSUME NEW c \in alone, job[c].pc = "returned", job[c].op \in {"sync", "toggle"}
               PROVE  /\ job[c].op = "sync" =>
                           /\ Present = job[c].want
                           /\ job[c].extras # 0 => \A r \in job[c].want : ToSet(pivot[r]) = {job[c].extras}
                           /\ job[c].attached = job[c].want \ job[c].had /\ job[c].detached = job[c].had \ job[c].want
                           /\ job[c].updated \subseteq job[c].want \cap job[c].had
                      /\ job[c].op = "toggle" =>
                           /\ Present = (job[c].had \ job[c].want) \cup (job[c].want \ job[c].had)
                           /\ job[c].attached \cap job[c].detached = {}
    BY DEF AloneDoesWhatItSays
  <2> DEFINE j == job[c]
             gone == Gone(j.op, j.had, j.want)
             new == New(j.had, j.want)
             kept == Kept(j.op, j.had, j.want, j.extras)
  <2>1. c \in Syncers /\ j \in Jobs /\ j.todo = <<>>
    BY <1>1 DEF PivotShape, JobsAreWork
  <2>2. HasDone(pivot, j, {})
    <3>1. ToSet(<<>>) = {}
      BY DEF ToSet
    <3>2. HasDone(pivot, j, ToSet(j.todo))
      BY <1>1 DEF AloneIsOnItsWay
    <3> QED BY <2>1, <3>1, <3>2
  <2>3. /\ j.detached \subseteq gone /\ j.attached \subseteq new /\ j.updated \subseteq kept
        /\ \A r \in gone : pivot[r] = <<>> /\ r \in j.detached
        /\ \A r \in new : pivot[r] = <<j.extras>> /\ r \in j.attached
        /\ \A r \in kept : ToSet(pivot[r]) = {j.extras}
        /\ \A r \in j.had \ gone : pivot[r] # <<>>
        /\ \A r \in Related \ (j.had \cup j.want) : pivot[r] = <<>>
    BY <2>2 DEF HasDone
  <2>4. j.had \subseteq Related /\ j.want \subseteq Related
    BY <2>1 DEF Jobs
  <2> HIDE DEF j
  <2>5. new = j.want \ j.had
    BY DEF New
  <2>6. \A r \in new : pivot[r] # <<>> /\ ToSet(pivot[r]) = {j.extras}
    <3>1. <<j.extras>> # <<>> /\ ToSet(<<j.extras>>) = {j.extras}
      BY DEF ToSet
    <3> QED BY <2>3, <3>1
  <2>7. CASE j.op = "sync"
    <3>1. gone = j.had \ j.want /\ kept = IF j.extras # 0 THEN j.want \cap j.had ELSE {}
      BY <2>7 DEF Gone, Kept
    <3> HIDE DEF gone, new, kept
    <3>2. Present = j.want
      BY <2>3, <2>4, <2>5, <2>6, <3>1 DEF Present
    <3>3. ASSUME j.extras # 0, NEW r \in j.want PROVE ToSet(pivot[r]) = {j.extras}
      BY <2>3, <2>5, <2>6, <3>1, <3>3
    <3>4. j.attached = j.want \ j.had /\ j.detached = j.had \ j.want /\ j.updated \subseteq j.want \cap j.had
      BY <2>3, <2>5, <3>1
    <3> QED BY <2>7, <3>2, <3>3, <3>4 DEF j
  <2>8. CASE j.op = "toggle"
    <3>1. gone = j.had \cap j.want
      BY <2>8 DEF Gone
    <3> HIDE DEF gone, new, kept
    <3>2. Present = (j.had \ j.want) \cup (j.want \ j.had)
      BY <2>3, <2>4, <2>5, <2>6, <3>1 DEF Present
    <3>3. j.attached \cap j.detached = {}
      BY <2>3, <2>5, <3>1
    <3> QED BY <2>8, <3>2, <3>3 DEF j
  <2> QED BY <2>7, <2>8 DEF j
<1> QED BY <1>2, <1>3

LEMMA SecondRows == PivotInv /\ [PivotNext]_pivotVars => [SecondRowNeedsOverlap]_pivotVars
<1> SUFFICES ASSUME PivotInv, PivotNext, NEW r \in Related, pivot[r] # <<>>, Len(pivot'[r]) > Len(pivot[r])
             PROVE  \E c \in Syncers : job[c].pc = "running" /\ (job[c].op = "attach" \/ c \notin alone)
  BY DEF SecondRowNeedsOverlap
<1>1. PivotShape /\ JobsAreWork /\ AloneIsOnItsWay
  BY DEF PivotInv
<1>2. Len(pivot[r]) \in Nat
  BY <1>1 DEF PivotShape
<1>3. pivot' # pivot
  BY <1>2
<1>4. PICK c \in Syncers : RunStatement(c)
  BY <1>3 DEF PivotNext, CallPivot, Begin, PivotStep, StatementFails, Return, Rest, TryAgain
<1> DEFINE j == job[c]
           s == Head(j.todo)
<1>5. /\ j.pc = "running" /\ j.todo # <<>> /\ pivot' = Applied(s)
      /\ \A q \in s.ids : s.op = "attach" => Len(pivot[q]) < MaxRows
  BY <1>4 DEF RunStatement
<1>6. PICK L \in SUBSET PivotStatements : WorkLeft(j, L)
  BY <1>1, <1>5 DEF JobsAreWork
<1>7. s \in L /\ s \in PivotStatements /\ Listing(j.todo, L) /\ L \subseteq Work(j.op, j.had, j.want, j.extras) /\ j.op \in Ops
  <2>1. Listing(j.todo, L) /\ L \subseteq Work(j.op, j.had, j.want, j.extras) /\ j.op \in Ops
    BY <1>6 DEF WorkLeft
  <2> HIDE DEF j
  <2>2. s \in L
    BY <1>5, <2>1, FirstTaken
  <2> QED BY <2>1, <2>2
<1> SUFFICES ASSUME j.op # "attach", c \in alone PROVE FALSE
  BY <1>5
<1> HIDE DEF s
<1>8. RowsAfter(pivot', s)
  BY <1>1, <1>5, <1>7, AppliedIs
<1>9. s.op = "attach" /\ r \in s.ids
  <2>1. s.op = "attach"
    BY <1>2, <1>8 DEF RowsAfter
  <2>2. r \notin s.ids => pivot'[r] = pivot[r]
    BY <1>8 DEF RowsAfter
  <2> QED BY <1>2, <2>1, <2>2
<1>10. j.op \in {"sync", "toggle"}
  <2>1. j.op = "update" => s \in Updates(j.want, j.extras)
    BY <1>7 DEF Work
  <2>2. j.op = "detach" => s.op = "detach"
    BY <1>7 DEF Work, Detach
  <2>3. s \notin Updates(j.want, j.extras)
    BY <1>9, KindsOfStatements
  <2> QED BY <1>7, <1>9, <2>1, <2>2, <2>3 DEF Ops
<1>11. s \in Attaches(New(j.had, j.want), j.extras)
  <2>1. \/ s \in Detaches(Gone(j.op, j.had, j.want)) \/ s \in Attaches(New(j.had, j.want), j.extras)
        \/ s \in Updates(Kept(j.op, j.had, j.want, j.extras), j.extras)
    BY <1>7, <1>10 DEF Work
  <2> HIDE DEF j
  <2>2. s \in Detaches(Gone(j.op, j.had, j.want)) => s.op = "detach"
    BY ONLY KindsOfStatements
  <2>3. s \in Updates(Kept(j.op, j.had, j.want, j.extras), j.extras) => s.op = "update"
    BY ONLY KindsOfStatements
  <2> QED BY <1>9, <2>1, <2>2, <2>3
<1>12. PICK id \in New(j.had, j.want) : s.ids = {id} /\ s = Attach(id, j.extras)
  <2> HIDE DEF j
  <2> QED BY <1>11, KindsOfStatements
<1>13. r \in New(j.had, j.want) /\ Attach(r, j.extras) \in L
  BY <1>7, <1>9, <1>12
<1>14. HasDone(pivot, j, L)
  <2>1. ToSet(j.todo) = L
    BY <1>7, ListingIs
  <2>2. HasDone(pivot, j, ToSet(j.todo))
    BY <1>1, <1>5, <1>10 DEF AloneIsOnItsWay
  <2> QED BY <2>1, <2>2
<1> HIDE DEF j
<1>15. pivot[r] = <<>>
  BY <1>13, <1>14 DEF HasDone
<1> QED BY <1>15

HIDE PivotAssumption

----------------------------------------------------------------------------
(* The composition.  Its parts share no variable, so that a step of the whole *)
(* is a step of one of them and a stuttering step of the others.             *)

TableInv == WalkInv /\ KeyedInv /\ PivotInv

LEMMA StepsOfParts ==
  ASSUME [Next]_vars
  PROVE  /\ [BeginNext]_beginVars /\ [TxNext]_txVars /\ [RunNext]_runVars
         /\ [WalkNext]_walkVars /\ [KeyedNext]_keyedVars /\ [PivotNext]_pivotVars
<1>1. CASE UNCHANGED vars
  BY <1>1 DEF vars, tableVars
<1>2. CASE part = "connection" /\ BeginNext /\ UNCHANGED <<part, txVars, runVars, tableVars>>
  BY <1>2 DEF tableVars
<1>3. CASE part = "transaction" /\ TxNext /\ UNCHANGED <<part, beginVars, runVars, tableVars>>
  BY <1>3 DEF tableVars
<1>4. CASE part = "query" /\ RunNext /\ UNCHANGED <<part, beginVars, txVars, tableVars>>
  BY <1>4 DEF tableVars
<1>5. CASE part = "table" /\ TableNext /\ UNCHANGED <<part, beginVars, txVars, runVars>>
  BY <1>5 DEF TableNext
<1> QED BY <1>1, <1>2, <1>3, <1>4, <1>5 DEF Next

LEMMA TableInvInit == Init => TableInv
BY WalkInvInit, KeyedInvInit, PivotInvInit DEF Init, TableInit, TableInv

LEMMA TableInvNext == TableInv /\ [Next]_vars => TableInv'
BY StepsOfParts, WalkInvNext, KeyedInvNext, PivotInvNext DEF TableInv

LEMMA TableInvariance == Spec => []TableInv
BY TableInvInit, TableInvNext, PTL DEF Spec

\* Whatever others insert and delete between two pages, a walk by key hands over
\* every row that stayed exactly once and in order, an offset walk misses and
\* repeats no more rows than were written, and a page read in a transaction
\* agrees with its totals: for any keys, page sizes and number of writes.
THEOREM WalksKeepTheirRows == Spec => []WalksAccountForRows
<1>1. TableInv => WalksAccountForRows
  BY WalkInvMeans DEF TableInv
<1> QED BY <1>1, TableInvariance, PTL

\* Two rows with the match come only from callers between their look and their
\* insert at once, or from an insert that does not look, and never where the
\* table has a unique index; whoever wrote, someone's row is there.
THEOREM DuplicatesComeFromOverlap == Spec => []DuplicatesNeedOverlap
<1>1. TableInv => DuplicatesNeedOverlap
  BY KeyedInvMeans DEF TableInv
<1> QED BY <1>1, TableInvariance, PTL

\* create() reads back the row it inserted, on MySQL as long as the pool is one
\* connection and nothing else was inserted in between; and it fails for a reason.
THEOREM CreateReadsItsOwnRow == Spec => []OwnIdComesBack
<1>1. TableInv => OwnIdComesBack
  BY KeyedInvMeans DEF TableInv
<1> QED BY <1>1, TableInvariance, PTL

\* A sync or a toggle that ran by itself did what it says and told what it did,
\* after a failure half way and a second try as well; a second pivot row for an
\* id comes from attach(), which does not look, or from calls that overlapped.
THEOREM PivotCallsKeepTheirWord == Spec => PivotCallsAreSound
<1>1. TableInv => (alone # {} => AloneDoesWhatItSays)
  BY PivotInvMeans DEF TableInv
<1>2. TableInv /\ [Next]_vars => [SecondRowNeedsOverlap]_pivotVars
  BY StepsOfParts, SecondRows DEF TableInv
<1> QED BY <1>1, <1>2, TableInvariance, PTL DEF Spec, PivotCallsAreSound

\* Every behaviour of the whole, seen through the variables of the retry loop or
\* of runWithHooks(), is one of theirs, so that what is proved of each holds here.
LEMMA PartsKeepTheirSpecs == Spec => BeginSpec /\ TxSpec /\ RunSpec
<1>1. Init => BeginInit /\ TxInit /\ RunInit
  BY DEF Init
<1> QED BY <1>1, StepsOfParts, PTL DEF Spec, BeginSpec, TxSpec, RunSpec

\* Every variable of the composition keeps its type; in particular transaction()
\* begins no more retries than its options allow.
THEOREM CallsTypes == ASSUME Serialised PROVE Spec => []TypeOK
<1>1. BeginInit => BeginInv
  BY BeginInvInit
<1>2. BeginInv /\ [BeginNext]_beginVars => BeginInv'
  BY BeginInvNext
<1>3. BeginInv => BeginTypes
  BY DEF BeginInv
<1>4. BeginSpec => []BeginTypes
  BY <1>1, <1>2, <1>3, PTL DEF BeginSpec
<1>5. TableInv => TableTypes
  BY WalkInvMeans, KeyedInvMeans, PivotInvMeans DEF TableInv, TableTypes
<1>6. BeginTypes /\ TxTypes /\ RunTypes /\ TableTypes => TypeOK
  BY DEF TypeOK
<1> QED BY <1>4, <1>5, <1>6, TableInvariance, PartsKeepTheirSpecs, TypeCorrect, QueryTypes, PTL

\* The composition keeps the promises of its parts: callers of the connection in
\* turns, nothing is left open, no callback's writes are applied twice, what a
\* caller and its hooks are told is what happened, and an abort reaches every query.
THEOREM CallsKeepTheirWord ==
  ASSUME Serialised
  PROVE  Spec => /\ [](NoDanglingTransaction /\ AppliedAtMostOnce /\ OutcomeIsTruthful)
                 /\ [](HooksTellTheOutcome /\ AbortReachesEveryQuery)
                 /\ ScopesAreAtomic
BY PartsKeepTheirSpecs, NothingDangles, BeginIsNested, AppliedOnce, TruthfulOutcome, TruthfulHooks, AbortReaches, PTL

============================================================================
