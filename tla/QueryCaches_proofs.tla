-------------------------- MODULE QueryCaches_proofs --------------------------
(***************************************************************************)
(* Proofs about the query cache and the cached selects, for any keys, times  *)
(* to live, caps, readers, queries and writes.                              *)
(***************************************************************************)
EXTENDS QueryCaches, FiniteSetTheorems, SharedLemmas

----------------------------------------------------------------------------
(* What the methods of the cache keep of it.                               *)

\* d is what is left of c: some of its entries, in their order.
LeftOf(d, c) ==
  \E h \in [DOMAIN d -> DOMAIN c] :
    /\ \A i \in DOMAIN d : d[i] = c[h[i]]
    /\ \A i, j \in DOMAIN d : i < j => h[i] < h[j]

\* The entry at i of c is still in d.
Kept(c, d, i) == \E m \in DOMAIN d : d[m] = c[i]

LEMMA LeftOfAll == ASSUME NEW c PROVE LeftOf(c, c)
<1> DEFINE h == [i \in DOMAIN c |-> i]
<1>1. h \in [DOMAIN c -> DOMAIN c] /\ \A i \in DOMAIN c : h[i] = i
  OBVIOUS
<1> HIDE DEF h
<1> QED BY <1>1 DEF LeftOf

LEMMA LeftOfLeft ==
  ASSUME NEW b, NEW c, NEW d, LeftOf(c, b), LeftOf(d, c)
  PROVE  LeftOf(d, b)
<1>1. PICK g \in [DOMAIN c -> DOMAIN b] :
        /\ \A i \in DOMAIN c : c[i] = b[g[i]]
        /\ \A i, j \in DOMAIN c : i < j => g[i] < g[j]
  BY DEF LeftOf
<1>2. PICK h \in [DOMAIN d -> DOMAIN c] :
        /\ \A i \in DOMAIN d : d[i] = c[h[i]]
        /\ \A i, j \in DOMAIN d : i < j => h[i] < h[j]
  BY DEF LeftOf
<1> DEFINE e == [i \in DOMAIN d |-> g[h[i]]]
<1>3. e \in [DOMAIN d -> DOMAIN b] /\ \A i \in DOMAIN d : e[i] = g[h[i]] /\ h[i] \in DOMAIN c
  OBVIOUS
<1> HIDE DEF e
<1>4. /\ \A i \in DOMAIN d : d[i] = b[e[i]]
      /\ \A i, j \in DOMAIN d : i < j => e[i] < e[j]
  BY <1>1, <1>2, <1>3
<1> QED BY <1>3, <1>4 DEF LeftOf

LEMMA RemoveAtIs ==
  ASSUME NEW E, NEW c \in Seq(E), NEW i \in DOMAIN c
  PROVE  /\ RemoveAt(c, i) \in Seq(E) /\ Len(RemoveAt(c, i)) = Len(c) - 1
         /\ \A j \in 1 .. Len(c) - 1 : RemoveAt(c, i)[j] = IF j < i THEN c[j] ELSE c[j + 1]
         /\ LeftOf(RemoveAt(c, i), c)
         /\ \A j \in DOMAIN c : j # i => Kept(c, RemoveAt(c, i), j)
<1> DEFINE n == Len(c)
           a == SubSeq(c, 1, i - 1)
           b == SubSeq(c, i + 1, n)
           d == RemoveAt(c, i)
<1>1. n \in Nat /\ i \in 1 .. n /\ DOMAIN c = 1 .. n
  OBVIOUS
<1>2. a \in Seq(E) /\ Len(a) = i - 1 /\ \A j \in 1 .. i - 1 : a[j] = c[j]
  BY <1>1
<1>3. b \in Seq(E) /\ Len(b) = n - i /\ \A j \in 1 .. n - i : b[j] = c[i + j]
  BY <1>1
<1>4. d = a \o b
  BY DEF RemoveAt
<1> HIDE DEF a, b, d, n
<1>5. d \in Seq(E) /\ Len(d) = n - 1 /\ DOMAIN d = 1 .. n - 1
  <2>1. d \in Seq(E) /\ Len(d) = Len(a) + Len(b) /\ DOMAIN d = 1 .. Len(d)
    BY <1>2, <1>3, <1>4
  <2>2. Len(a) + Len(b) = n - 1
    BY <1>1, <1>2, <1>3
  <2> QED BY <2>1, <2>2
<1>6. ASSUME NEW j \in 1 .. n - 1 PROVE d[j] = IF j < i THEN c[j] ELSE c[j + 1]
  <2>1. CASE j < i
    BY <1>1, <1>2, <1>3, <1>4, <2>1
  <2>2. CASE ~ (j < i)
    <3>1. d[j] = b[j - (i - 1)]
      BY <1>1, <1>2, <1>3, <1>4, <2>2
    <3>2. j - (i - 1) \in 1 .. n - i /\ i + (j - (i - 1)) = j + 1
      BY <1>1, <2>2
    <3> QED BY <1>3, <2>2, <3>1, <3>2
  <2> QED BY <2>1, <2>2
<1>7. LeftOf(d, c)
  <2> DEFINE h == [j \in 1 .. n - 1 |-> IF j < i THEN j ELSE j + 1]
  <2>1. h \in [1 .. n - 1 -> 1 .. n] /\ \A j \in 1 .. n - 1 : h[j] = IF j < i THEN j ELSE j + 1
    BY <1>1
  <2> HIDE DEF h
  <2>2. \A j \in 1 .. n - 1 : d[j] = c[h[j]]
    BY <1>6, <2>1
  <2>3. \A j, k \in 1 .. n - 1 : j < k => h[j] < h[k]
    BY <1>1, <2>1
  <2> QED BY <1>1, <1>5, <2>1, <2>2, <2>3 DEF LeftOf
<1>8. ASSUME NEW j \in DOMAIN c, j # i PROVE Kept(c, d, j)
  <2>1. CASE j < i
    <3>1. j \in 1 .. n - 1 /\ d[j] = c[j]
      BY <1>1, <1>6, <2>1
    <3> QED BY <1>5, <3>1 DEF Kept
  <2>2. CASE ~ (j < i)
    <3>1. j - 1 \in 1 .. n - 1 /\ ~ (j - 1 < i) /\ j - 1 + 1 = j
      BY <1>1, <1>8, <2>2
    <3>2. d[j - 1] = c[j]
      BY <1>6, <3>1
    <3> QED BY <1>5, <3>1, <3>2 DEF Kept
  <2> QED BY <2>1, <2>2
<1> QED BY <1>5, <1>6, <1>7, <1>8 DEF d, n

\* A key has one entry.
Distinct(c) == \A i, j \in DOMAIN c : c[i].key = c[j].key => i = j

LEMMA PlaceOfKey ==
  ASSUME NEW c, NEW k \in Keys(c)
  PROVE  Place(c, k) \in DOMAIN c /\ c[Place(c, k)].key = k
BY DEF Keys, Place

\* Map.delete(k)
LEMMA WithoutIs ==
  ASSUME NEW E, NEW c \in Seq(E), NEW k
  PROVE  /\ Without(c, k) \in Seq(E) /\ LeftOf(Without(c, k), c)
         /\ Distinct(c) => k \notin Keys(Without(c, k))
         /\ Len(Without(c, k)) <= Len(c)
         /\ \A i \in DOMAIN c : c[i].key # k => Kept(c, Without(c, k), i)
<1>1. CASE k \notin Keys(c)
  <2>1. Without(c, k) = c
    BY <1>1 DEF Without
  <2> QED BY <1>1, <2>1, LeftOfAll DEF Kept
<1>2. CASE k \in Keys(c)
  <2> DEFINE i == Place(c, k)
             d == Without(c, k)
  <2>1. i \in DOMAIN c /\ c[i].key = k /\ d = RemoveAt(c, i)
    BY <1>2, PlaceOfKey DEF Without
  <2> HIDE DEF i, d
  <2>2. /\ d \in Seq(E) /\ LeftOf(d, c) /\ Len(d) = Len(c) - 1
        /\ \A j \in 1 .. Len(c) - 1 : d[j] = IF j < i THEN c[j] ELSE c[j + 1]
        /\ \A j \in DOMAIN c : j # i => Kept(c, d, j)
    BY <2>1, RemoveAtIs
  <2>3. ASSUME Distinct(c), NEW j \in DOMAIN d PROVE d[j].key # k
    <3>1. j \in 1 .. Len(c) - 1 /\ DOMAIN c = 1 .. Len(c)
      BY <2>2
    <3>2. PICK m \in DOMAIN c : d[j] = c[m] /\ m # i
      BY <2>1, <2>2, <3>1
    <3> QED BY <2>1, <2>3, <3>2 DEF Distinct
  <2>4. Distinct(c) => k \notin Keys(d)
    BY <2>3 DEF Keys
  <2> QED BY <2>1, <2>2, <2>4 DEF d
<1> QED BY <1>1, <1>2

LEMMA DropOneIs ==
  ASSUME NEW E, NEW c \in Seq(E), NEW cap \in Nat, NEW time
  PROVE  /\ DropOne(c, cap, time) \in Seq(E) /\ LeftOf(DropOne(c, cap, time), c)
         /\ \A i \in DOMAIN c : ~Expired(c[i], time) => Kept(c, DropOne(c, cap, time), i)
         /\ Len(DropOne(c, cap, time)) <= Len(c)
         /\ Len(c) <= cap /\ AnyExpired(c, time) => Len(DropOne(c, cap, time)) < cap
<1> DEFINE d == DropOne(c, cap, time)
           X == ExpiredPlaces(c, time)
<1>1. CASE Len(c) >= cap /\ X # {}
  <2>1. X \subseteq Nat /\ X \subseteq DOMAIN c /\ \A i \in X : Expired(c[i], time)
    BY DEF ExpiredPlaces
  <2> HIDE DEF X
  <2>2. \E m \in X : \A n \in X : m <= n
    BY <1>1, <2>1, LeastNumber
  <2>3. Min(X) \in X
    BY <2>2 DEF Min
  <2>4. d = RemoveAt(c, Min(X)) /\ Min(X) \in DOMAIN c /\ Expired(c[Min(X)], time)
    BY <1>1, <2>1, <2>3 DEF DropOne, AnyExpired, X
  <2> HIDE DEF d
  <2>5. /\ d \in Seq(E) /\ Len(d) = Len(c) - 1 /\ LeftOf(d, c)
        /\ \A j \in DOMAIN c : j # Min(X) => Kept(c, d, j)
    BY <2>4, RemoveAtIs
  <2>6. Len(d) <= Len(c) /\ (Len(c) <= cap => Len(d) < cap)
    BY <2>5
  <2> QED BY <2>4, <2>5, <2>6 DEF d
<1>2. CASE ~ (Len(c) >= cap /\ X # {})
  <2>1. d = c
    BY <1>2 DEF DropOne, AnyExpired
  <2>2. AnyExpired(c, time) => Len(c) < cap
    BY <1>2 DEF AnyExpired
  <2> QED BY <2>1, <2>2, LeftOfAll DEF Kept
<1> QED BY <1>1, <1>2

\* The scan of set() gives up expired entries only; from a full cache at least one.
LEMMA DropExpiredIs ==
  ASSUME NEW E, NEW c \in Seq(E), NEW cap \in Nat, NEW time
  PROVE  /\ DropExpired(c, cap, time) \in Seq(E) /\ LeftOf(DropExpired(c, cap, time), c)
         /\ \A i \in DOMAIN c : ~Expired(c[i], time) => Kept(c, DropExpired(c, cap, time), i)
         /\ Len(c) <= cap /\ AnyExpired(c, time) => Len(DropExpired(c, cap, time)) < cap
<1> DEFINE n == Len(c)
           V == Seq(E)
           step == [i \in 1 .. n |-> [v \in V |-> DropOne(v, cap, time)]]
           Scans(t) == [i \in 0 .. n |-> IF i = 0 THEN c ELSE DropOne(t[i - 1], cap, time)]
<1>1. n \in Nat /\ c \in V
  OBVIOUS
<1>2. \A v \in V : DropOne(v, cap, time) \in V
  BY DropOneIs
<1>3. step \in [1 .. n -> [V -> V]] /\ \A i \in 1 .. n, v \in V : step[i][v] = DropOne(v, cap, time)
  BY <1>2
<1> HIDE DEF n, V, step
<1>a. Stepwise(n, V, c, step)
  BY <1>1, <1>3 DEF Stepwise
<1>4. \E t : TraceOf(t, n, V, c, step)
  BY <1>a, StepByStep
<1>5. PICK t \in [0 .. n -> V] : t[0] = c /\ \A i \in 1 .. n : t[i] = step[i][t[i - 1]]
  BY <1>4 DEF TraceOf
<1>6. \A i \in 1 .. n : i - 1 \in 0 .. n /\ t[i - 1] \in V
  BY <1>1, <1>5
<1>7. \A i \in 0 .. n : t[i] = IF i = 0 THEN c ELSE DropOne(t[i - 1], cap, time)
  BY <1>1, <1>3, <1>5, <1>6
<1>8. t = Scans(t)
  BY <1>5, <1>7
<1> DEFINE scanned == CHOOSE g : g = Scans(g)
<1>9. scanned = Scans(scanned)
  BY <1>8
<1>10. DropExpired(c, cap, time) = scanned[n]
  BY DEF DropExpired, n
<1> HIDE DEF scanned
<1>11. scanned[0] = c /\ \A i \in 1 .. n : scanned[i] = DropOne(scanned[i - 1], cap, time)
  BY <1>1, <1>9
<1> DEFINE full == Len(c) <= cap /\ AnyExpired(c, time)
           Good(i, d) == /\ d \in Seq(E) /\ LeftOf(d, c)
                         /\ \A j \in DOMAIN c : ~Expired(c[j], time) => Kept(c, d, j)
                         /\ i > 0 /\ full => Len(d) < cap
           S == {i \in 0 .. n : Good(i, scanned[i])}
<1>12. 0 \in S
  BY <1>1, <1>11, LeftOfAll DEF Kept
<1>13. ASSUME NEW i \in 0 .. n - 1, i \in S PROVE i + 1 \in S
  <2> DEFINE b == scanned[i]
             d == scanned[i + 1]
  <2>1. Good(i, b)
    BY <1>13
  <2>2. i + 1 \in 0 .. n /\ i + 1 \in 1 .. n /\ i + 1 - 1 = i /\ i + 1 > 0
    BY <1>1
  <2>3. d = DropOne(b, cap, time)
    BY <1>11, <2>2
  <2>4. i = 0 => b = c
    BY <1>11
  <2> HIDE DEF b, d, full
  <2>5. /\ d \in Seq(E) /\ LeftOf(d, b)
        /\ \A j \in DOMAIN b : ~Expired(b[j], time) => Kept(b, d, j)
        /\ Len(d) <= Len(b)
        /\ Len(b) <= cap /\ AnyExpired(b, time) => Len(d) < cap
    BY <2>1, <2>3, DropOneIs
  <2>6. LeftOf(d, c)
    BY <2>1, <2>5, LeftOfLeft
  <2>7. \A j \in DOMAIN c : ~Expired(c[j], time) => Kept(c, d, j)
    BY <2>1, <2>5 DEF Kept
  <2>8. full => Len(d) < cap
    <3>1. CASE i = 0
      BY <2>4, <2>5, <3>1 DEF full
    <3>2. CASE i # 0
      <4>1. full => Len(b) < cap
        BY <2>1, <3>2
      <4>2. Len(b) \in Nat /\ Len(d) \in Nat
        BY <2>1, <2>5
      <4> QED BY <2>5, <4>1, <4>2
    <3> QED BY <3>1, <3>2
  <2>9. Good(i + 1, d)
    BY <2>5, <2>6, <2>7, <2>8
  <2> QED BY <2>2, <2>9 DEF d
<1> HIDE DEF S
<1>14. 0 .. n \subseteq S
  BY <1>1, <1>12, <1>13, CountingUp
<1>15. Good(n, scanned[n])
  BY <1>1, <1>14 DEF S
<1>16. full => n > 0
  BY DEF AnyExpired, ExpiredPlaces, n
<1> QED BY <1>10, <1>15, <1>16

\* All that is left of c comes after i.
After(c, d, i) == \A m \in DOMAIN d : \E j \in DOMAIN c : i < j /\ d[m] = c[j]

\* The room a new entry finds: expired entries went, or when there are none the
\* one that was used longest ago.
LEMMA MakeRoomIs ==
  ASSUME NEW E, NEW c \in Seq(E), NEW cap \in Nat, NEW time
  PROVE  /\ MakeRoom(c, cap, time) \in Seq(E) /\ LeftOf(MakeRoom(c, cap, time), c)
         /\ \A i \in DOMAIN c : \/ Kept(c, MakeRoom(c, cap, time), i)
                                \/ Expired(c[i], time)
                                \/ ~AnyExpired(c, time) /\ After(c, MakeRoom(c, cap, time), i)
         /\ Len(c) <= cap /\ cap > 0 => Len(MakeRoom(c, cap, time)) < cap
<1> DEFINE d == MakeRoom(c, cap, time)
<1>1. CASE Len(c) < cap \/ c = <<>>
  <2>1. d = c
    BY <1>1 DEF MakeRoom
  <2>2. cap > 0 => Len(c) < cap
    BY <1>1
  <2> QED BY <2>1, <2>2, LeftOfAll DEF Kept
<1>2. CASE ~ (Len(c) < cap \/ c = <<>>) /\ AnyExpired(c, time)
  <2>1. d = DropExpired(c, cap, time)
    BY <1>2 DEF MakeRoom
  <2> HIDE DEF d
  <2>2. /\ d \in Seq(E) /\ LeftOf(d, c)
        /\ \A i \in DOMAIN c : ~Expired(c[i], time) => Kept(c, d, i)
        /\ Len(c) <= cap => Len(d) < cap
    BY <1>2, <2>1, DropExpiredIs
  <2> QED BY <2>2 DEF d
<1>3. CASE ~ (Len(c) < cap \/ c = <<>>) /\ ~AnyExpired(c, time)
  <2> DEFINE n == Len(c)
  <2>1. d = Tail(c) /\ n \in Nat \ {0} /\ n >= cap /\ DOMAIN c = 1 .. n
    BY <1>3 DEF MakeRoom
  <2>2. d \in Seq(E) /\ Len(d) = n - 1 /\ DOMAIN d = 1 .. n - 1 /\ \A i \in 1 .. n - 1 : d[i] = c[i + 1]
    BY <2>1
  <2> HIDE DEF d, n
  <2> DEFINE h == [i \in 1 .. n - 1 |-> i + 1]
  <2>3. h \in [1 .. n - 1 -> 1 .. n] /\ \A i \in 1 .. n - 1 : h[i] = i + 1
    BY <2>1
  <2> HIDE DEF h
  <2>4. \A i, j \in 1 .. n - 1 : i < j => h[i] < h[j]
    BY <2>1, <2>3
  <2>5. LeftOf(d, c)
    BY <2>1, <2>2, <2>3, <2>4 DEF LeftOf
  <2>6. ASSUME NEW i \in DOMAIN c PROVE Kept(c, d, i) \/ After(c, d, i)
    <3>1. CASE i = 1
      <4>1. \A m \in DOMAIN d : m + 1 \in DOMAIN c /\ i < m + 1 /\ d[m] = c[m + 1]
        BY <2>1, <2>2, <3>1
      <4> QED BY <4>1 DEF After
    <3>2. CASE i # 1
      <4>1. i - 1 \in DOMAIN d /\ i - 1 + 1 = i
        BY <2>1, <2>2, <3>2
      <4>2. d[i - 1] = c[i]
        BY <2>2, <4>1
      <4> QED BY <4>1, <4>2 DEF Kept
    <3> QED BY <3>1, <3>2
  <2>7. n <= cap => Len(d) < cap
    BY <2>1, <2>2
  <2> QED BY <1>3, <2>2, <2>5, <2>6, <2>7 DEF d, n
<1> QED BY <1>1, <1>2, <1>3

\* Lowering the cap gives up what was used longest ago.
LEMMA TrimmedIs ==
  ASSUME NEW E, NEW c \in Seq(E), NEW cap \in Nat
  PROVE  /\ Trimmed(c, cap) \in Seq(E) /\ LeftOf(Trimmed(c, cap), c) /\ Len(Trimmed(c, cap)) <= cap
         /\ \A i \in DOMAIN c : Kept(c, Trimmed(c, cap), i) \/ After(c, Trimmed(c, cap), i)
<1> DEFINE d == Trimmed(c, cap)
           n == Len(c)
<1>1. CASE ~ (n > cap)
  <2>1. d = c
    BY <1>1 DEF Trimmed
  <2> QED BY <1>1, <2>1, LeftOfAll DEF Kept
<1>2. CASE n > cap
  <2> DEFINE k == n - cap
  <2>1. d = SubSeq(c, k + 1, n) /\ n \in Nat /\ k \in 1 .. n /\ DOMAIN c = 1 .. n /\ n - k = cap
    BY <1>2 DEF Trimmed
  <2>2. /\ d \in Seq(E) /\ Len(d) = n - k /\ DOMAIN d = 1 .. n - k
        /\ \A i \in 1 .. n - k : d[i] = c[i + k]
    BY <2>1
  <2> HIDE DEF d, n, k
  <2> DEFINE h == [i \in 1 .. n - k |-> i + k]
  <2>3. h \in [1 .. n - k -> 1 .. n] /\ \A i \in 1 .. n - k : h[i] = i + k
    BY <2>1
  <2> HIDE DEF h
  <2>4. \A i, j \in 1 .. n - k : i < j => h[i] < h[j]
    BY <2>1, <2>3
  <2>5. LeftOf(d, c)
    BY <2>1, <2>2, <2>3, <2>4 DEF LeftOf
  <2>6. ASSUME NEW i \in DOMAIN c PROVE Kept(c, d, i) \/ After(c, d, i)
    <3>1. CASE i <= k
      <4>1. \A m \in DOMAIN d : m + k \in DOMAIN c /\ i < m + k /\ d[m] = c[m + k]
        BY <2>1, <2>2, <3>1
      <4> QED BY <4>1 DEF After
    <3>2. CASE ~ (i <= k)
      <4>1. i - k \in DOMAIN d /\ i - k + k = i
        BY <2>1, <2>2, <3>2
      <4>2. d[i - k] = c[i]
        BY <2>2, <4>1
      <4> QED BY <4>1, <4>2 DEF Kept
    <3> QED BY <3>1, <3>2
  <2>7. Len(d) <= cap
    BY <2>1, <2>2
  <2> QED BY <2>2, <2>5, <2>6, <2>7 DEF d
<1> QED BY <1>1, <1>2

LEMMA AfterGetIs ==
  ASSUME NEW E, NEW c \in Seq(E), NEW k, NEW time
  PROVE  AfterGet(c, k, time) \in Seq(E)
<1>1. Without(c, k) \in Seq(E)
  BY WithoutIs
<1>2. ASSUME k \in Keys(c) PROVE Entry(c, k) \in E
  <2>1. Place(c, k) \in DOMAIN c
    BY <1>2, PlaceOfKey
  <2> QED BY <2>1 DEF Entry
<1> QED BY <1>1, <1>2 DEF AfterGet, Live

LEMMA AfterSetIs ==
  ASSUME NEW E, NEW c \in Seq(E), NEW k, NEW data, NEW ttl, NEW cap \in Nat, NEW time,
         [key |-> k, data |-> data, expiresAt |-> time + ttl] \in E
  PROVE  AfterSet(c, k, data, ttl, cap, time) \in Seq(E)
<1>1. Without(c, k) \in Seq(E)
  BY WithoutIs
<1>2. MakeRoom(Without(c, k), cap, time) \in Seq(E)
  BY <1>1, MakeRoomIs
<1> QED BY <1>2 DEF AfterSet

----------------------------------------------------------------------------
(* Cached selects.                                                         *)

Rows == [query : Queries, writes : SUBSET Writes]
CacheKeysOf == {CacheKey(q) : q \in Queries}
EntryType == [key : CacheKeysOf, data : Rows, expiresAt : Nat]
ReaderType ==
  [pc : {"sent", "arrived", "answered"}, query : Queries, inTx : BOOLEAN, rows : Rows \cup {NoRows}, at : Nat]

\* An entry is filed under the key of its query, for one time to live from now at
\* most; the writes it misses, and those undone that it shows, are no older than
\* its store and the delivery before it.
Recent(e) ==
  /\ e.key = CacheKey(e.data.query)
  /\ e.expiresAt <= now + Ttl
  /\ \A w \in Writes : w \notin e.data.writes => committed[w] + Latency + Ttl >= e.expiresAt
  /\ \A w \in e.data.writes : undone[w] + Ttl >= e.expiresAt

Entries == {e \in EntryType : Recent(e)}

\* Rows on their way show what was committed, or written by the transaction that
\* still waits for them, when the statement was evaluated.
RowsOnTheWay(r) ==
  /\ reader[r].rows \in Rows /\ reader[r].rows.query = reader[r].query
  /\ reader[r].at <= now /\ now <= reader[r].at + Latency
  /\ \A w \in Writes : w \notin reader[r].rows.writes => committed[w] >= reader[r].at
  /\ \A w \in reader[r].rows.writes :
       undone[w] = Never /\ (committed[w] # Never \/ (reader[r].inTx /\ w \in txWrites))

RowsGiven(r) ==
  /\ reader[r].rows \in Rows /\ reader[r].at <= now
  /\ TextIsShown => reader[r].rows.query = reader[r].query
  /\ \A w \in Writes : w \notin reader[r].rows.writes => committed[w] + Ttl + Latency >= reader[r].at
  /\ \A w \in reader[r].rows.writes : undone[w] + Ttl >= reader[r].at

ReaderOk(r) ==
  /\ reader[r] \in {Idle} \cup ReaderType
  /\ InFlight(r) /\ reader[r].inTx => txOpen
  /\ reader[r].pc = "arrived" => RowsOnTheWay(r)
  /\ reader[r].pc = "answered" => RowsGiven(r)

\* A write is open, committed or undone.
WritesOk ==
  /\ now \in 0 .. MaxTime /\ txOpen \in BOOLEAN /\ txWrites \subseteq Writes
  /\ committed \in [Writes -> 0 .. Never] /\ undone \in [Writes -> 0 .. Never]
  /\ \A w \in Writes : committed[w] # Never => committed[w] <= now /\ undone[w] = Never
  /\ \A w \in txWrites : committed[w] = Never /\ undone[w] = Never

ReadsInv ==
  /\ part \in {"use", "reads"} /\ DOMAIN reader = Readers
  /\ part = "use" => \A r \in Readers : reader[r] = Idle
  /\ part = "reads" =>
       WritesOk /\ cache \in Seq(Entries) /\ \A r \in Readers : ReaderOk(r)

LEMMA ReadsInvInit == Init => ReadsInv
<1> SUFFICES ASSUME Init PROVE ReadsInv
  OBVIOUS
<1>1. /\ part \in {"use", "reads"} /\ reader = [r \in Readers |-> Idle] /\ cache = <<>> /\ now = 0
      /\ committed = [w \in Writes |-> Never] /\ undone = [w \in Writes |-> Never]
      /\ txOpen = FALSE /\ txWrites = {}
  BY DEF Init, ReadsInit
<1>2. DOMAIN reader = Readers /\ \A r \in Readers : reader[r] = Idle
  BY <1>1
<1>3. \A r \in Readers : ReaderOk(r)
  BY <1>2 DEF ReaderOk, Idle, InFlight
<1>4. Never \in 0 .. Never /\ 0 \in 0 .. MaxTime
  BY CachedReadsAssumption DEF Never
<1>5. WritesOk
  BY <1>1, <1>4 DEF WritesOk
<1>6. cache \in Seq(Entries)
  BY <1>1
<1> QED BY <1>1, <1>2, <1>3, <1>5, <1>6 DEF ReadsInv

\* Time passes, and writes are committed or undone now: what is cached or was
\* given is as recent as before.
LEMMA StillRecent ==
  ASSUME WritesOk, now' \in Nat, now <= now',
         \A w \in Writes : committed'[w] = committed[w] \/ committed'[w] = now,
         \A w \in Writes : undone'[w] = undone[w] \/ undone'[w] = now
  PROVE  /\ Entries \subseteq Entries'
         /\ \A r \in Readers : reader[r] \in ReaderType /\ RowsGiven(r) /\ reader'[r] = reader[r] => RowsGiven(r)'
<1>0. /\ now \in Nat /\ Ttl \in Nat /\ Latency \in Nat
      /\ \A w \in Writes : committed[w] \in Nat /\ undone[w] \in Nat
      /\ \A w \in Writes : committed'[w] \in Nat /\ undone'[w] \in Nat
  <2>1. now \in Nat /\ Ttl \in Nat /\ Latency \in Nat /\ MaxTime \in Nat
    BY CachedReadsAssumption DEF WritesOk
  <2>2. \A w \in Writes : committed[w] \in Nat /\ undone[w] \in Nat
    BY DEF WritesOk
  <2> QED BY <2>1, <2>2
<1>1. ASSUME NEW e \in EntryType, Recent(e) PROVE Recent(e)'
  <2>1. e.expiresAt \in Nat /\ e.expiresAt <= now + Ttl /\ e.data.writes \subseteq Writes
    BY <1>1 DEF Recent, EntryType, Rows
  <2>2. e.expiresAt <= now' + Ttl
    BY <1>0, <2>1
  <2>3. ASSUME NEW w \in Writes, w \notin e.data.writes PROVE committed'[w] + Latency + Ttl >= e.expiresAt
    <3>1. committed[w] + Latency + Ttl >= e.expiresAt
      BY <1>1, <2>3 DEF Recent
    <3>2. CASE committed'[w] = now
      BY <1>0, <2>1, <3>2
    <3> QED BY <3>1, <3>2
  <2>4. ASSUME NEW w \in e.data.writes PROVE undone'[w] + Ttl >= e.expiresAt
    <3>1. undone[w] + Ttl >= e.expiresAt /\ w \in Writes
      BY <1>1, <2>1, <2>4 DEF Recent
    <3>2. CASE undone'[w] = now
      BY <1>0, <2>1, <3>2
    <3> QED BY <3>1, <3>2
  <2> QED BY <1>1, <2>2, <2>3, <2>4 DEF Recent
<1>2. ASSUME NEW r \in Readers, reader[r] \in ReaderType, RowsGiven(r), reader'[r] = reader[r]
      PROVE  RowsGiven(r)'
  <2> DEFINE d == reader[r]
  <2>1. /\ d.rows \in Rows /\ d.rows.writes \subseteq Writes /\ d.at \in Nat /\ d.at <= now
        /\ TextIsShown => d.rows.query = d.query
    BY <1>2 DEF RowsGiven, ReaderType, Rows
  <2>2. d.at <= now'
    BY <1>0, <2>1
  <2>3. ASSUME NEW w \in Writes, w \notin d.rows.writes PROVE committed'[w] + Ttl + Latency >= d.at
    <3>1. committed[w] + Ttl + Latency >= d.at
      BY <1>2, <2>3 DEF RowsGiven
    <3>2. CASE committed'[w] = now
      BY <1>0, <2>1, <3>2
    <3> QED BY <3>1, <3>2
  <2>4. ASSUME NEW w \in d.rows.writes PROVE undone'[w] + Ttl >= d.at
    <3>1. undone[w] + Ttl >= d.at /\ w \in Writes
      BY <1>2, <2>1, <2>4 DEF RowsGiven
    <3>2. CASE undone'[w] = now
      BY <1>0, <2>1, <3>2
    <3> QED BY <3>1, <3>2
  <2> HIDE DEF d
  <2> QED BY <1>2, <2>1, <2>2, <2>3, <2>4 DEF RowsGiven, d
<1> QED BY <1>1, <1>2 DEF Entries

\* One reader moves, the database stands still.
LEMMA OneReads ==
  ASSUME part = "reads", ReadsInv, part' = part, NEW r \in Readers,
         UNCHANGED <<now, committed, txOpen, txWrites, undone>>,
         cache' \in Seq(Entries),
         NEW d, reader' = [reader EXCEPT ![r] = d], ReaderOk(r)'
  PROVE  ReadsInv'
<1>1. WritesOk' /\ Entries' = Entries
  BY DEF ReadsInv, WritesOk, Entries, Recent
<1>2. DOMAIN reader' = Readers /\ \A q \in Readers \ {r} : reader'[q] = reader[q]
  BY DEF ReadsInv
<1>3. ASSUME NEW q \in Readers \ {r} PROVE ReaderOk(q)'
  BY <1>2 DEF ReadsInv, ReaderOk, InFlight, RowsOnTheWay, RowsGiven
<1> QED BY <1>1, <1>2, <1>3 DEF ReadsInv

LEMMA ReadOk ==
  ASSUME part = "reads", ReadsInv, part' = part, NEW r \in Readers, NEW q \in Queries, NEW inTx \in BOOLEAN,
         Read(r, q, inTx)
  PROVE  ReadsInv'
<1> DEFINE k == CacheKey(q)
           hit == Live(cache, k, now)
           d == [pc |-> IF hit THEN "answered" ELSE "sent", query |-> q, inTx |-> inTx,
                 rows |-> IF hit THEN Hit(cache, k) ELSE NoRows, at |-> now]
<1>0. /\ cache \in Seq(Entries) /\ WritesOk /\ now \in Nat
      /\ UNCHANGED <<now, committed, txOpen, txWrites, undone>>
  BY DEF ReadsInv, Read, WritesOk
<1>1. reader' = [reader EXCEPT ![r] = d] /\ cache' = AfterGet(cache, k, now) /\ (inTx => txOpen)
  BY DEF Read
<1>2. cache' \in Seq(Entries)
  BY <1>0, <1>1, AfterGetIs
<1>3. reader'[r] = d
  BY <1>1 DEF ReadsInv
<1>4. ASSUME hit PROVE Entry(cache, k) \in Entries /\ Entry(cache, k).key = k /\ now <= Entry(cache, k).expiresAt
  <2>1. k \in Keys(cache) /\ ~ (now > Entry(cache, k).expiresAt)
    BY <1>4 DEF Live, Expired
  <2>2. Place(cache, k) \in DOMAIN cache /\ cache[Place(cache, k)].key = k
    BY <2>1, PlaceOfKey
  <2>3. Entry(cache, k) \in Entries /\ Entry(cache, k).key = k
    BY <1>0, <2>2 DEF Entry
  <2>4. Entry(cache, k).expiresAt \in Nat
    BY <2>3 DEF Entries, EntryType
  <2> QED BY <1>0, <2>1, <2>3, <2>4
<1> HIDE DEF hit, k
<1>5. CASE hit
  <2> DEFINE e == Entry(cache, k)
  <2>1. e \in EntryType /\ Recent(e) /\ e.key = k /\ now <= e.expiresAt
    BY <1>4, <1>5 DEF Entries
  <2> HIDE DEF e
  <2>2. e.data \in Rows /\ e.data.query \in Queries /\ e.data.writes \subseteq Writes /\ e.expiresAt \in Nat
    BY <2>1 DEF EntryType, Rows
  <2>3. d.pc = "answered" /\ d.query = q /\ d.inTx = inTx /\ d.rows = e.data /\ d.at = now
    BY <1>5 DEF Hit, e
  <2>4. d \in ReaderType
    BY <1>0, <1>5, <2>2 DEF ReaderType, Hit, e
  <2>5. ASSUME TextIsShown PROVE e.data.query = q
    <3>1. CacheKey(e.data.query) = CacheKey(q)
      BY <2>1 DEF Recent, k
    <3>2. e.data.query.text = q.text /\ e.data.query.params = q.params
      BY <2>5, <3>1 DEF CacheKey
    <3> QED BY <2>2, <3>2 DEF Queries
  <2>6. \A w \in Writes : w \notin e.data.writes => committed[w] + Ttl + Latency >= now
    <3>1. \A w \in Writes : committed[w] \in Nat
      BY <1>0 DEF WritesOk
    <3> QED BY <1>0, <2>1, <2>2, <3>1, CachedReadsAssumption DEF Recent
  <2>7. \A w \in e.data.writes : undone[w] + Ttl >= now
    <3>1. \A w \in Writes : undone[w] \in Nat
      BY <1>0 DEF WritesOk
    <3> QED BY <1>0, <2>1, <2>2, <3>1, CachedReadsAssumption DEF Recent
  <2> HIDE DEF d
  <2>8. RowsGiven(r)'
    BY <1>0, <1>3, <2>2, <2>3, <2>5, <2>6, <2>7 DEF RowsGiven
  <2>9. ReaderOk(r)'
    BY <1>3, <2>3, <2>4, <2>8 DEF ReaderOk, InFlight
  <2> QED BY <1>0, <1>1, <1>2, <2>9, OneReads
<1>6. CASE ~hit
  <2>1. d.pc = "sent" /\ d.inTx = inTx /\ d \in ReaderType
    BY <1>0, <1>6 DEF ReaderType
  <2> HIDE DEF d
  <2>2. ReaderOk(r)'
    BY <1>0, <1>1, <1>3, <2>1 DEF ReaderOk, InFlight
  <2> QED BY <1>0, <1>1, <1>2, <2>2, OneReads
<1> QED BY <1>5, <1>6

LEMMA EvaluateOk ==
  ASSUME part = "reads", ReadsInv, part' = part, NEW r \in Readers, Evaluate(r)
  PROVE  ReadsInv'
<1> DEFINE o == reader[r]
           shown == Committed \cup IF o.inTx THEN txWrites ELSE {}
           rows == [query |-> o.query, writes |-> shown]
           d == [o EXCEPT !.pc = "arrived", !.at = now, !.rows = rows]
<1>0. /\ cache' \in Seq(Entries) /\ WritesOk /\ now \in Nat
      /\ UNCHANGED <<now, committed, txOpen, txWrites, undone>>
  BY DEF ReadsInv, Evaluate, WritesOk
<1>1. reader' = [reader EXCEPT ![r] = d]
  BY DEF Evaluate
<1>2. o \in ReaderType /\ o.pc = "sent" /\ (o.inTx => txOpen)
  BY DEF ReadsInv, ReaderOk, Evaluate, Idle, InFlight
<1>3. rows \in Rows /\ rows.query = o.query /\ rows.writes = shown
  BY <1>0, <1>2 DEF Rows, ReaderType, Committed, WritesOk
<1> HIDE DEF rows
<1>4. /\ d \in ReaderType /\ d.pc = "arrived" /\ d.query = o.query /\ d.inTx = o.inTx
      /\ d.at = now /\ d.rows = rows
  BY <1>0, <1>2, <1>3 DEF ReaderType
<1>5. reader'[r] = d
  BY <1>1 DEF ReadsInv
<1>6. \A w \in Writes : w \notin shown => committed[w] >= now
  <2>1. \A w \in Writes : committed[w] \in Nat
    BY <1>0 DEF WritesOk
  <2> QED BY <1>0, <2>1 DEF Committed
<1>7. \A w \in shown : undone[w] = Never /\ (committed[w] # Never \/ (o.inTx /\ w \in txWrites))
  <2>1. MaxTime \in Nat /\ now <= MaxTime
    BY <1>0, CachedReadsAssumption DEF WritesOk
  <2>2. \A w \in Committed : committed[w] # Never /\ w \in Writes
    BY <1>0, <2>1 DEF Committed, Never
  <2> QED BY <1>0, <2>2 DEF WritesOk
<1> HIDE DEF shown, d, o
<1>8. RowsOnTheWay(r)'
  BY <1>0, <1>3, <1>4, <1>5, <1>6, <1>7, CachedReadsAssumption DEF RowsOnTheWay
<1>9. ReaderOk(r)'
  BY <1>0, <1>2, <1>4, <1>5, <1>8 DEF ReaderOk, InFlight
<1> QED BY <1>0, <1>1, <1>9, OneReads

LEMMA StoreAndAnswerOk ==
  ASSUME part = "reads", ReadsInv, part' = part, NEW r \in Readers, StoreAndAnswer(r)
  PROVE  ReadsInv'
<1> DEFINE o == reader[r]
           d == [o EXCEPT !.pc = "answered", !.at = now]
           e == [key |-> CacheKey(o.query), data |-> o.rows, expiresAt |-> now + Ttl]
<1>0. /\ cache \in Seq(Entries) /\ WritesOk /\ now \in Nat /\ now <= MaxTime
      /\ MaxTime \in Nat /\ Ttl \in Nat /\ Latency \in Nat /\ Cap \in Nat
      /\ UNCHANGED <<now, committed, txOpen, txWrites, undone>>
  BY CachedReadsAssumption DEF ReadsInv, StoreAndAnswer, WritesOk
<1>1. /\ reader' = [reader EXCEPT ![r] = d]
      /\ cache' = AfterSet(cache, CacheKey(o.query), o.rows, Ttl, Cap, now)
  BY DEF StoreAndAnswer
<1>2. o \in ReaderType /\ o.pc = "arrived" /\ RowsOnTheWay(r)
  BY DEF ReadsInv, ReaderOk, StoreAndAnswer, Idle, InFlight
<1>3. /\ o.query \in Queries /\ o.inTx \in BOOLEAN /\ o.at \in Nat
      /\ o.rows \in Rows /\ o.rows.query = o.query /\ o.rows.writes \subseteq Writes
      /\ now <= o.at + Latency
      /\ \A w \in Writes : w \notin o.rows.writes => committed[w] >= o.at
      /\ \A w \in o.rows.writes : undone[w] = Never
  BY <1>2 DEF ReaderType, RowsOnTheWay, Rows
<1>4. /\ d \in ReaderType /\ d.pc = "answered" /\ d.query = o.query /\ d.inTx = o.inTx
      /\ d.at = now /\ d.rows = o.rows
  BY <1>0, <1>2 DEF ReaderType
<1>5. reader'[r] = d
  BY <1>1 DEF ReadsInv
<1>6. \A w \in Writes : w \notin o.rows.writes =>
        committed[w] + Latency + Ttl >= now + Ttl /\ committed[w] + Ttl + Latency >= now
  <2>1. \A w \in Writes : committed[w] \in Nat
    BY <1>0 DEF WritesOk
  <2> QED BY <1>0, <1>3, <2>1
<1>7. \A w \in o.rows.writes : undone[w] + Ttl >= now + Ttl /\ undone[w] + Ttl >= now
  BY <1>0, <1>3 DEF Never
<1>8. e \in Entries
  <2>1. e \in EntryType /\ e.key = CacheKey(o.query) /\ e.data = o.rows /\ e.expiresAt = now + Ttl
    BY <1>0, <1>3 DEF EntryType, CacheKeysOf
  <2> HIDE DEF e
  <2>2. Recent(e)
    BY <1>0, <1>3, <1>6, <1>7, <2>1 DEF Recent
  <2> QED BY <2>1, <2>2 DEF Entries
<1>9. cache' \in Seq(Entries)
  BY <1>0, <1>1, <1>8, AfterSetIs
<1> HIDE DEF d, o
<1>10. RowsGiven(r)'
  BY <1>0, <1>3, <1>4, <1>5, <1>6, <1>7 DEF RowsGiven
<1>11. ReaderOk(r)'
  BY <1>4, <1>5, <1>10 DEF ReaderOk, InFlight
<1> QED BY <1>0, <1>1, <1>9, <1>11, OneReads

\* The database or the clock moves on, the readers stand still.
LEMMA DatabaseMoves ==
  ASSUME part = "reads", ReadsInv, part' = part, reader' = reader, WritesOk', now <= now',
         cache' \in Seq(Entries),
         \A w \in Writes : committed'[w] = committed[w] \/ committed'[w] = now,
         \A w \in Writes : undone'[w] = undone[w] \/ undone'[w] = now,
         \A r \in Readers : InFlight(r) /\ reader[r].inTx => txOpen',
         \A r \in Readers : reader[r].pc = "arrived" => RowsOnTheWay(r)'
  PROVE  ReadsInv'
<1>1. now' \in Nat
  BY DEF WritesOk
<1>2. /\ Entries \subseteq Entries'
      /\ \A r \in Readers : reader[r] \in ReaderType /\ RowsGiven(r) /\ reader'[r] = reader[r] => RowsGiven(r)'
  BY <1>1, StillRecent DEF ReadsInv
<1>3. cache' \in Seq(Entries')
  BY <1>2
<1>4. ASSUME NEW r \in Readers PROVE ReaderOk(r)'
  <2>1. ReaderOk(r) /\ reader'[r] = reader[r]
    BY DEF ReadsInv
  <2>2. reader[r].pc = "answered" => RowsGiven(r)'
    BY <1>2, <2>1 DEF ReaderOk, Idle
  <2> QED BY <2>1, <2>2 DEF ReaderOk, InFlight
<1> QED BY <1>3, <1>4 DEF ReadsInv

LEMMA ReadsInvNext == ReadsInv /\ [Next]_vars => ReadsInv'
<1> SUFFICES ASSUME ReadsInv, [Next]_vars PROVE ReadsInv'
  OBVIOUS
<1>1. CASE UNCHANGED vars
  <2>1. UNCHANGED <<part, cache, now, committed, txOpen, txWrites, undone, reader>>
    BY <1>1 DEF vars, readsVars
  <2> QED BY <2>1 DEF ReadsInv, WritesOk, Entries, Recent, ReaderOk, InFlight, RowsOnTheWay, RowsGiven
<1>2. CASE part = "use" /\ UNCHANGED <<part, committed, txOpen, txWrites, undone, reader>>
  BY <1>2 DEF ReadsInv
<1>3. ASSUME part = "reads", ReadsNext, part' = part PROVE ReadsInv'
  <2>0. /\ WritesOk /\ cache \in Seq(Entries) /\ now \in Nat /\ now <= MaxTime /\ MaxTime \in Nat
        /\ now \in 0 .. Never /\ now # Never
        /\ \A r \in Readers : ReaderOk(r)
    BY <1>3, CachedReadsAssumption DEF ReadsInv, WritesOk, Never
  <2>a. \A r \in Readers : reader[r].pc = "arrived" =>
          RowsOnTheWay(r) /\ reader[r] \in ReaderType /\ reader[r].at \in Nat /\ reader[r].rows.writes \subseteq Writes
    <3>1. ASSUME NEW r \in Readers, reader[r].pc = "arrived"
          PROVE  RowsOnTheWay(r) /\ reader[r] \in ReaderType /\ reader[r].at \in Nat /\ reader[r].rows.writes \subseteq Writes
      <4>1. RowsOnTheWay(r) /\ reader[r] \in ReaderType
        BY <2>0, <3>1 DEF ReaderOk, Idle
      <4>2. reader[r].rows.writes \subseteq Writes
        BY <4>1 DEF RowsOnTheWay, Rows
      <4>3. reader[r].at \in Nat
        BY <4>1 DEF ReaderType
      <4> QED BY <4>1, <4>2, <4>3
    <3> QED BY <3>1
  <2>1. ASSUME NEW r \in Readers, ReadFails(r) PROVE ReadsInv'
    <3>1. /\ reader' = [reader EXCEPT ![r] = Idle] /\ cache' = cache
          /\ UNCHANGED <<now, committed, txOpen, txWrites, undone>>
      BY <2>1 DEF ReadFails
    <3>2. reader'[r] = Idle
      BY <3>1 DEF ReadsInv
    <3>3. ReaderOk(r)'
      BY <3>2 DEF ReaderOk, Idle, InFlight
    <3> QED BY <1>3, <2>0, <3>1, <3>3, OneReads
  <2>2. ASSUME NEW w \in Writes, Write(w) PROVE ReadsInv'
    <3>1. /\ committed[w] = Never /\ undone[w] = Never /\ w \notin txWrites
          /\ committed' = [committed EXCEPT ![w] = now]
          /\ UNCHANGED <<cache, now, txOpen, txWrites, undone, reader>>
      BY <2>2 DEF Write, Fresh
    <3>2. committed'[w] = now /\ \A v \in Writes \ {w} : committed'[v] = committed[v]
      BY <2>0, <3>1 DEF WritesOk
    <3>3. WritesOk'
      BY <2>0, <3>1, <3>2 DEF WritesOk
    <3>4. ASSUME NEW r \in Readers, reader[r].pc = "arrived" PROVE RowsOnTheWay(r)'
      BY <2>0, <2>a, <3>1, <3>2, <3>4 DEF RowsOnTheWay
    <3>5. now <= now' /\ \A r \in Readers : InFlight(r) /\ reader[r].inTx => txOpen'
      BY <2>0, <3>1 DEF ReaderOk
    <3> QED BY <1>3, <2>0, <3>1, <3>2, <3>3, <3>4, <3>5, DatabaseMoves
  <2>3. ASSUME NEW w \in Writes, TxWrite(w) PROVE ReadsInv'
    <3>1. /\ txOpen /\ committed[w] = Never /\ undone[w] = Never /\ txWrites' = txWrites \cup {w}
          /\ UNCHANGED <<cache, now, committed, txOpen, undone, reader>>
      BY <2>3 DEF TxWrite, Fresh
    <3>2. WritesOk'
      BY <2>0, <3>1 DEF WritesOk
    <3>3. \A r \in Readers : reader[r].pc = "arrived" => RowsOnTheWay(r)'
      BY <2>a, <3>1 DEF RowsOnTheWay
    <3>4. now <= now' /\ \A r \in Readers : InFlight(r) /\ reader[r].inTx => txOpen'
      BY <2>0, <3>1 DEF ReaderOk
    <3> QED BY <1>3, <2>0, <3>1, <3>2, <3>3, <3>4, DatabaseMoves
  <2>4. ASSUME TxBegin PROVE ReadsInv'
    <3>1. txOpen' = TRUE /\ UNCHANGED <<cache, now, committed, txWrites, undone, reader>>
      BY <2>4 DEF TxBegin
    <3>2. WritesOk'
      BY <2>0, <3>1 DEF WritesOk
    <3>3. \A r \in Readers : reader[r].pc = "arrived" => RowsOnTheWay(r)'
      BY <2>a, <3>1 DEF RowsOnTheWay
    <3>4. now <= now' /\ \A r \in Readers : InFlight(r) /\ reader[r].inTx => txOpen'
      BY <2>0, <3>1
    <3> QED BY <1>3, <2>0, <3>1, <3>2, <3>3, <3>4, DatabaseMoves
  <2>5. ASSUME TxEnds, txOpen' = FALSE, txWrites' = {}, UNCHANGED <<cache, now, reader>>,
               committed' \in [Writes -> 0 .. Never], undone' \in [Writes -> 0 .. Never],
               \A w \in Writes \ txWrites : committed'[w] = committed[w] /\ undone'[w] = undone[w],
               \A w \in txWrites : \/ committed'[w] = now /\ undone'[w] = undone[w]
                                   \/ committed'[w] = committed[w] /\ undone'[w] = now
        PROVE  ReadsInv'
    <3>1. WritesOk'
      <4>1. ASSUME NEW w \in Writes, committed'[w] # Never PROVE committed'[w] <= now /\ undone'[w] = Never
        <5>1. CASE w \in txWrites
          BY <2>0, <2>5, <4>1, <5>1 DEF WritesOk
        <5>2. CASE w \notin txWrites
          BY <2>0, <2>5, <4>1, <5>2 DEF WritesOk
        <5> QED BY <5>1, <5>2
      <4>2. now' = now /\ now \in 0 .. MaxTime /\ txOpen' \in BOOLEAN /\ txWrites' = {}
        BY <2>0, <2>5 DEF WritesOk
      <4> QED BY <2>5, <4>1, <4>2 DEF WritesOk
    <3>2. \A w \in Writes : /\ committed'[w] = committed[w] \/ committed'[w] = now
                            /\ undone'[w] = undone[w] \/ undone'[w] = now
      BY <2>5
    <3>3. ASSUME NEW r \in Readers, reader[r].pc = "arrived" PROVE RowsOnTheWay(r)'
      <4>1. /\ ~reader[r].inTx /\ reader'[r] = reader[r] /\ now' = now
            /\ RowsOnTheWay(r) /\ reader[r].at \in Nat /\ reader[r].rows.writes \subseteq Writes
        BY <2>5, <2>a, <3>3 DEF TxEnds, InFlight
      <4>2. \A w \in reader[r].rows.writes : w \notin txWrites
        BY <2>0, <4>1 DEF RowsOnTheWay, WritesOk
      <4>3. \A w \in reader[r].rows.writes : undone'[w] = Never /\ committed'[w] # Never
        BY <2>5, <4>1, <4>2 DEF RowsOnTheWay
      <4>4. \A w \in Writes : w \notin reader[r].rows.writes => committed'[w] >= reader[r].at
        BY <3>2, <4>1 DEF RowsOnTheWay
      <4> QED BY <4>1, <4>3, <4>4 DEF RowsOnTheWay
    <3>4. now <= now' /\ \A r \in Readers : InFlight(r) /\ reader[r].inTx => txOpen'
      BY <2>0, <2>5 DEF TxEnds
    <3> QED BY <1>3, <2>0, <2>5, <3>1, <3>2, <3>3, <3>4, DatabaseMoves
  <2>6. ASSUME TxCommit PROVE ReadsInv'
    <3>1. /\ TxEnds /\ txOpen' = FALSE /\ txWrites' = {} /\ UNCHANGED <<cache, now, undone, reader>>
          /\ committed' = [w \in Writes |-> IF w \in txWrites THEN now ELSE committed[w]]
      BY <2>6 DEF TxCommit
    <3>2. /\ committed' \in [Writes -> 0 .. Never] /\ undone' \in [Writes -> 0 .. Never] /\ txWrites \subseteq Writes
      BY <2>0, <3>1 DEF WritesOk
    <3> QED BY <2>5, <3>1, <3>2
  <2>7. ASSUME TxRollback PROVE ReadsInv'
    <3>1. /\ TxEnds /\ txOpen' = FALSE /\ txWrites' = {} /\ UNCHANGED <<cache, now, committed, reader>>
          /\ undone' = [w \in Writes |-> IF w \in txWrites THEN now ELSE undone[w]]
      BY <2>7 DEF TxRollback
    <3>2. /\ committed' \in [Writes -> 0 .. Never] /\ undone' \in [Writes -> 0 .. Never] /\ txWrites \subseteq Writes
      BY <2>0, <3>1 DEF WritesOk
    <3> QED BY <2>5, <3>1, <3>2
  <2>8. ASSUME ClearQueryCache PROVE ReadsInv'
    <3>1. cache' = <<>> /\ UNCHANGED <<now, committed, txOpen, txWrites, undone, reader>>
      BY <2>8 DEF ClearQueryCache
    <3>2. WritesOk' /\ cache' \in Seq(Entries)
      BY <2>0, <3>1 DEF WritesOk
    <3>3. \A r \in Readers : reader[r].pc = "arrived" => RowsOnTheWay(r)'
      BY <2>a, <3>1 DEF RowsOnTheWay
    <3>4. now <= now' /\ \A r \in Readers : InFlight(r) /\ reader[r].inTx => txOpen'
      BY <2>0, <3>1 DEF ReaderOk
    <3> QED BY <1>3, <3>1, <3>2, <3>3, <3>4, DatabaseMoves
  <2>9. ASSUME ReadsTick PROVE ReadsInv'
    <3>1. /\ now < MaxTime /\ now' = now + 1
          /\ \A r \in Readers : reader[r].pc = "arrived" => now < reader[r].at + Latency
          /\ UNCHANGED <<cache, committed, txOpen, txWrites, undone, reader>>
      BY <2>9 DEF ReadsTick
    <3>2. now' \in 0 .. MaxTime /\ now <= now'
      BY <2>0, <3>1
    <3>3. WritesOk'
      BY <2>0, <3>1, <3>2 DEF WritesOk
    <3>4. ASSUME NEW r \in Readers, reader[r].pc = "arrived" PROVE RowsOnTheWay(r)'
      <4>1. /\ RowsOnTheWay(r) /\ reader'[r] = reader[r] /\ reader[r].at \in Nat
            /\ now < reader[r].at + Latency
        BY <2>a, <3>1, <3>4
      <4>2. reader[r].at <= now' /\ now' <= reader[r].at + Latency
        BY <2>0, <3>1, <4>1, CachedReadsAssumption DEF RowsOnTheWay
      <4> QED BY <3>1, <4>1, <4>2 DEF RowsOnTheWay
    <3>5. \A r \in Readers : InFlight(r) /\ reader[r].inTx => txOpen'
      BY <2>0, <3>1 DEF ReaderOk
    <3> QED BY <1>3, <2>0, <3>1, <3>2, <3>3, <3>4, <3>5, DatabaseMoves
  <2> QED
    BY <1>3, <2>1, <2>2, <2>3, <2>4, <2>6, <2>7, <2>8, <2>9, ReadOk, EvaluateOk, StoreAndAnswerOk DEF ReadsNext
<1> QED BY <1>1, <1>2, <1>3 DEF Next

LEMMA ReadsInvariant == Spec => []ReadsInv
BY ReadsInvInit, ReadsInvNext, PTL DEF Spec

\* What a reader was given, in a behaviour about either part.
LEMMA AnswerGiven ==
  ASSUME ReadsInv, NEW r \in Readers, reader[r].pc = "answered"
  PROVE  RowsGiven(r) /\ reader[r].rows.writes \subseteq Writes
<1>1. ReaderOk(r)
  BY DEF ReadsInv, Idle
<1> QED BY <1>1 DEF ReaderOk, RowsGiven, Rows

\* Where a query prints as its text, an answer from the cache is the answer of the
\* query that was asked: the key separates all queries.
THEOREM EachGetsItsOwnRows ==
  ASSUME TextIsShown
  PROVE  Spec => []OwnRows
<1>1. ReadsInv => OwnRows
  BY AnswerGiven DEF OwnRows, Answered, RowsGiven
<1> QED BY <1>1, ReadsInvariant, PTL

\* However hits, misses, clears, evictions, writes and transactions interleave, an
\* answer misses no write older than the time to live and one delivery, and shows
\* work that was rolled back for one time to live at most.
THEOREM AnswersStayRecent == Spec => []AnswersAreRecent
<1>1. ReadsInv => AnswersAreRecent
  BY AnswerGiven DEF AnswersAreRecent, BoundedStaleness, PhantomsExpire, Answered, RowsGiven
<1> QED BY <1>1, ReadsInvariant, PTL

----------------------------------------------------------------------------
(* The cache under any calls.                                              *)

UseEntry == [key : CacheKeys, data : CacheKeys, expiresAt : Nat]

\* The entries stand in the order of their last use, and are filed as they were
\* last set.
Ordered(c) == \A i, j \in DOMAIN c : i < j => c[i].key \in colder[c[j].key]
AsSet(c) == \A i \in DOMAIN c : c[i].key \in uses /\ c[i].expiresAt = expiry[c[i].key]

UseInv ==
  part = "use" =>
    /\ now \in Nat /\ maxSize \in Nat /\ uses \subseteq CacheKeys
    /\ colder \in [CacheKeys -> SUBSET CacheKeys] /\ expiry \in [CacheKeys -> Int]
    /\ cache \in Seq(UseEntry) /\ Distinct(cache) /\ Ordered(cache) /\ AsSet(cache)
    /\ VictimsAreColdest
    /\ maxSize > 0 => Len(cache) <= maxSize

\* What holds of a cache holds of what is left of it.
LEMMA LeftIsAsGood ==
  ASSUME NEW c \in Seq(UseEntry), NEW d \in Seq(UseEntry), LeftOf(d, c)
  PROVE  /\ Distinct(c) => Distinct(d)
         /\ Ordered(c) => Ordered(d)
         /\ AsSet(c) => AsSet(d)
         /\ Keys(d) \subseteq Keys(c)
<1>1. PICK h \in [DOMAIN d -> DOMAIN c] :
        /\ \A i \in DOMAIN d : d[i] = c[h[i]]
        /\ \A i, j \in DOMAIN d : i < j => h[i] < h[j]
  BY DEF LeftOf
<1>2. ASSUME NEW i \in DOMAIN d, NEW j \in DOMAIN d, h[i] = h[j] PROVE i = j
  <2>1. i \in Nat /\ j \in Nat /\ h[i] \in Nat
    OBVIOUS
  <2>2. ~ (h[i] < h[j]) /\ ~ (h[j] < h[i])
    BY <1>2, <2>1
  <2>3. ~ (i < j) /\ ~ (j < i)
    BY <1>1, <2>2
  <2> QED BY <2>1, <2>3
<1>3. Distinct(c) => Distinct(d)
  BY <1>1, <1>2 DEF Distinct
<1>4. Ordered(c) => Ordered(d)
  BY <1>1 DEF Ordered
<1>5. AsSet(c) => AsSet(d)
  BY <1>1 DEF AsSet
<1>6. Keys(d) \subseteq Keys(c)
  BY <1>1 DEF Keys
<1> QED BY <1>3, <1>4, <1>5, <1>6

LEMMA AppendIs ==
  ASSUME NEW E, NEW c \in Seq(E), NEW e \in E
  PROVE  /\ Append(c, e) \in Seq(E) /\ Len(Append(c, e)) = Len(c) + 1
         /\ DOMAIN Append(c, e) = 1 .. Len(c) + 1 /\ DOMAIN c = 1 .. Len(c)
         /\ Append(c, e)[Len(c) + 1] = e /\ \A i \in 1 .. Len(c) : Append(c, e)[i] = c[i]
OBVIOUS

\* An entry is filed as the last used one.
LEMMA FiledLast ==
  ASSUME uses \subseteq CacheKeys, colder \in [CacheKeys -> SUBSET CacheKeys],
         NEW c \in Seq(UseEntry), Distinct(c), Ordered(c), AsSet(c),
         NEW e \in UseEntry, e.key \notin Keys(c), Used(e.key), cache' = Append(c, e),
         expiry' \in [CacheKeys -> Int], expiry'[e.key] = e.expiresAt,
         \A k \in CacheKeys \ {e.key} : expiry'[k] = expiry[k]
  PROVE  /\ uses' \subseteq CacheKeys /\ colder' \in [CacheKeys -> SUBSET CacheKeys]
         /\ cache' \in Seq(UseEntry) /\ Len(cache') = Len(c) + 1
         /\ Distinct(cache)' /\ Ordered(cache)' /\ AsSet(cache)'
         /\ Keys(cache)' = Keys(c) \cup {e.key}
<1> DEFINE k == e.key
           n == Len(c)
<1>1. /\ cache' \in Seq(UseEntry) /\ Len(cache') = n + 1 /\ DOMAIN cache' = 1 .. n + 1
      /\ DOMAIN c = 1 .. n /\ cache'[n + 1] = e /\ \A i \in 1 .. n : cache'[i] = c[i]
  BY AppendIs
<1>2. /\ n \in Nat /\ k \in CacheKeys /\ \A i \in 1 .. n : c[i].key # k /\ c[i].key \in uses /\ c[i].key \in CacheKeys
  BY DEF UseEntry, AsSet, Keys
<1>3. /\ uses' = uses \cup {k} /\ colder' \in [CacheKeys -> SUBSET CacheKeys]
      /\ colder'[k] = uses \ {k} /\ \A j \in CacheKeys : j # k => colder'[j] = colder[j] \ {k}
  BY <1>2 DEF Used
<1> HIDE DEF k, n
<1>4. Distinct(cache)'
  BY <1>1, <1>2 DEF Distinct, k
<1>5. ASSUME NEW i \in DOMAIN cache', NEW j \in DOMAIN cache', i < j PROVE cache'[i].key \in colder'[cache'[j].key]
  <2>1. i \in 1 .. n /\ cache'[i] = c[i]
    BY <1>1, <1>2, <1>5
  <2>2. CASE j = n + 1
    BY <1>1, <1>2, <1>3, <2>1, <2>2 DEF k
  <2>3. CASE j # n + 1
    <3>1. j \in 1 .. n /\ cache'[j] = c[j]
      BY <1>1, <1>2, <2>3
    <3> QED BY <1>1, <1>2, <1>3, <1>5, <2>1, <3>1 DEF Ordered
  <2> QED BY <2>2, <2>3
<1>6. AsSet(cache)'
  BY <1>1, <1>2, <1>3 DEF AsSet, k
<1>7. Keys(cache)' = Keys(c) \cup {k}
  <2>1. n + 1 \in 1 .. n + 1 /\ \A i \in 1 .. n + 1 : i \in 1 .. n \/ i = n + 1
    BY <1>2
  <2>2. \A i \in 1 .. n : i \in 1 .. n + 1
    BY <1>2
  <2> QED BY <1>1, <2>1, <2>2 DEF Keys, k
<1> QED BY <1>1, <1>2, <1>3, <1>4, <1>5, <1>6, <1>7 DEF Ordered, k, n

LEMMA UseInvInit == Init => UseInv
<1> SUFFICES ASSUME Init PROVE UseInv
  OBVIOUS
<1>1. /\ cache = <<>> /\ maxSize = DefaultSize /\ now = 0 /\ uses = {}
      /\ colder = [k \in CacheKeys |-> {}] /\ expiry = [k \in CacheKeys |-> -1]
  BY DEF Init, UseInit
<1>2. cache \in Seq(UseEntry) /\ Len(cache) = 0 /\ DOMAIN cache = {}
  BY <1>1
<1>3. Distinct(cache) /\ Ordered(cache) /\ AsSet(cache) /\ VictimsAreColdest
  BY <1>1, <1>2 DEF Distinct, Ordered, AsSet, VictimsAreColdest, Victims
<1> QED BY <1>1, <1>2, <1>3, QueryCachesAssumption DEF UseInv

LEMMA KeysAreKeys ==
  ASSUME NEW c \in Seq(UseEntry)
  PROVE  Keys(c) \subseteq CacheKeys
<1>1. ASSUME NEW i \in DOMAIN c PROVE c[i].key \in CacheKeys
  <2>1. c[i] \in UseEntry
    OBVIOUS
  <2> QED BY <2>1 DEF UseEntry
<1> QED BY <1>1 DEF Keys

\* get(k)
LEMMA GetOk ==
  ASSUME UseInv, part = "use", part' = part, NEW k \in CacheKeys, Get(k)
  PROVE  UseInv'
<1>0. /\ now \in Nat /\ maxSize \in Nat /\ uses \subseteq CacheKeys
      /\ colder \in [CacheKeys -> SUBSET CacheKeys] /\ expiry \in [CacheKeys -> Int]
      /\ cache \in Seq(UseEntry) /\ Distinct(cache) /\ Ordered(cache) /\ AsSet(cache)
      /\ VictimsAreColdest /\ (maxSize > 0 => Len(cache) <= maxSize)
      /\ maxSize' = maxSize /\ now' = now /\ expiry' = expiry
  BY DEF UseInv, Get
<1> DEFINE c == Without(cache, k)
<1>1. /\ c \in Seq(UseEntry) /\ LeftOf(c, cache) /\ k \notin Keys(c) /\ Len(c) <= Len(cache)
      /\ \A i \in DOMAIN cache : cache[i].key # k => Kept(cache, c, i)
  BY <1>0, WithoutIs
<1> HIDE DEF c
<1>2. Distinct(c) /\ Ordered(c) /\ AsSet(c) /\ Keys(c) \subseteq Keys(cache)
  BY <1>0, <1>1, LeftIsAsGood
<1>3. \A j \in Keys(cache) : j # k => j \in Keys(c)
  BY <1>1 DEF Keys, Kept
<1>4. CASE ~Live(cache, k, now)
  <2>1. cache' = c /\ uses' = uses /\ colder' = colder
    BY <1>4 DEF Get, AfterGet, c
  <2>2. ASSUME NEW v \in Victims' PROVE v \in Victims
    <3>1. v \in uses /\ v \notin Keys(c) /\ now <= expiry[v]
      BY <1>0, <2>1, <2>2 DEF Victims
    <3>2. CASE v \in Keys(cache)
      <4>1. v = k
        BY <1>3, <3>1, <3>2
      <4>2. Expired(Entry(cache, k), now)
        BY <1>4, <3>2, <4>1 DEF Live
      <4>3. Entry(cache, k).expiresAt = expiry[k]
        BY <1>0, <3>2, <4>1, PlaceOfKey DEF Entry, AsSet
      <4> QED BY <1>0, <3>1, <4>1, <4>2, <4>3 DEF Expired
    <3> QED BY <3>1, <3>2 DEF Victims
  <2>3. VictimsAreColdest'
    BY <1>0, <1>2, <2>1, <2>2 DEF VictimsAreColdest
  <2>4. Distinct(cache)' /\ Ordered(cache)' /\ AsSet(cache)'
    BY <1>0, <1>2, <2>1 DEF Distinct, Ordered, AsSet
  <2>5. maxSize > 0 => Len(cache') <= maxSize
    BY <1>0, <1>1, <2>1
  <2> QED BY <1>0, <1>1, <2>1, <2>3, <2>4, <2>5 DEF UseInv
<1>5. CASE Live(cache, k, now)
  <2> DEFINE e == Entry(cache, k)
  <2>1. cache' = Append(c, e) /\ Used(k) /\ k \in Keys(cache)
    BY <1>5 DEF Get, AfterGet, Live, c
  <2>2. e \in UseEntry /\ e.key = k /\ e.expiresAt = expiry[k] /\ k \in uses
    BY <1>0, <2>1, PlaceOfKey DEF Entry, AsSet
  <2> HIDE DEF e
  <2>3. /\ uses' \subseteq CacheKeys /\ colder' \in [CacheKeys -> SUBSET CacheKeys]
        /\ cache' \in Seq(UseEntry) /\ Len(cache') = Len(c) + 1
        /\ Distinct(cache)' /\ Ordered(cache)' /\ AsSet(cache)'
        /\ Keys(cache)' = Keys(c) \cup {k}
    BY <1>0, <1>1, <1>2, <2>1, <2>2, FiledLast
  <2>4. uses' = uses /\ \A j \in CacheKeys : colder'[j] = (IF j = k THEN uses ELSE colder[j]) \ {k}
    BY <2>1, <2>2 DEF Used
  <2>5. Keys(cache)' = Keys(cache)
    BY <1>2, <1>3, <2>1, <2>3
  <2>6. VictimsAreColdest'
    <3>1. ASSUME NEW v \in Victims', NEW x \in Keys(cache)' PROVE v \in colder'[x]
      <4>1. v \in uses /\ v \notin Keys(cache) /\ v \in Victims /\ v # k
        BY <1>0, <2>1, <2>4, <2>5 DEF Victims
      <4>2. x \in Keys(cache) /\ x \in CacheKeys
        <5>1. x \in Keys(cache)
          BY <2>5
        <5> QED BY <1>0, <5>1, KeysAreKeys
      <4>3. v \in colder[x]
        BY <1>0, <4>1, <4>2 DEF VictimsAreColdest
      <4> QED BY <2>4, <4>1, <4>2, <4>3
    <3> QED BY <3>1 DEF VictimsAreColdest
  <2>7. maxSize > 0 => Len(cache') <= maxSize
    <3>1. Len(c) < Len(cache)
      <4>1. c = RemoveAt(cache, Place(cache, k)) /\ Place(cache, k) \in DOMAIN cache
        BY <2>1, PlaceOfKey DEF Without, c
      <4>2. Len(c) = Len(cache) - 1
        BY <1>0, <4>1, RemoveAtIs
      <4> QED BY <1>0, <4>2
    <3> QED BY <1>0, <1>1, <2>3, <3>1
  <2> QED BY <1>0, <2>3, <2>6, <2>7 DEF UseInv
<1> QED BY <1>4, <1>5

\* set(k): what it gives up is what it makes room with.
LEMMA SetGivesUp ==
  ASSUME UseInv, part = "use", NEW k \in CacheKeys, NEW ttl \in Ttls, Set(k, ttl),
         NEW v \in Victims', v \notin Victims
  PROVE  /\ v # k /\ ~AnyExpired(Without(cache, k), now)
         /\ \A j \in Keys(MakeRoom(Without(cache, k), maxSize, now)) : v \in colder[j]
<1> DEFINE c == Without(cache, k)
           d == MakeRoom(c, maxSize, now)
           e == [key |-> k, data |-> k, expiresAt |-> now + ttl]
<1>0. /\ now \in Nat /\ maxSize \in Nat /\ uses \subseteq CacheKeys /\ expiry \in [CacheKeys -> Int]
      /\ cache \in Seq(UseEntry) /\ Distinct(cache) /\ Ordered(cache) /\ AsSet(cache)
      /\ now' = now
  BY DEF UseInv, Set
<1>1. /\ c \in Seq(UseEntry) /\ LeftOf(c, cache)
      /\ \A i \in DOMAIN cache : cache[i].key # k => Kept(cache, c, i)
  BY <1>0, WithoutIs
<1>2. Ordered(c) /\ AsSet(c)
  BY <1>0, <1>1, LeftIsAsGood
<1>3. /\ cache' = Append(d, e) /\ uses' = uses \cup {k} /\ expiry' = [expiry EXCEPT ![k] = now + ttl]
  BY DEF Set, AfterSet, Used
<1> HIDE DEF c
<1>4. /\ d \in Seq(UseEntry) /\ LeftOf(d, c)
      /\ \A i \in DOMAIN c : Kept(c, d, i) \/ Expired(c[i], now) \/ (~AnyExpired(c, now) /\ After(c, d, i))
  BY <1>0, <1>1, MakeRoomIs
<1> HIDE DEF d
<1>5. e \in UseEntry /\ e.key = k
  BY <1>0, QueryCachesAssumption DEF UseEntry
<1> HIDE DEF e
<1>6. Keys(cache)' = Keys(d) \cup {k}
  <2>1. /\ Append(d, e) \in Seq(UseEntry) /\ Len(d) \in Nat
        /\ DOMAIN Append(d, e) = 1 .. Len(d) + 1 /\ DOMAIN d = 1 .. Len(d)
        /\ Append(d, e)[Len(d) + 1] = e /\ \A i \in 1 .. Len(d) : Append(d, e)[i] = d[i]
    BY <1>4, <1>5, AppendIs
  <2>2. /\ Len(d) + 1 \in 1 .. Len(d) + 1
        /\ \A i \in 1 .. Len(d) + 1 : i \in 1 .. Len(d) \/ i = Len(d) + 1
        /\ \A i \in 1 .. Len(d) : i \in 1 .. Len(d) + 1
    BY <2>1
  <2> QED BY <1>3, <1>5, <2>1, <2>2 DEF Keys
<1>7. v # k /\ v \in uses /\ v \notin Keys(d) /\ now <= expiry[v]
  BY <1>0, <1>3, <1>6 DEF Victims
<1>8. v \in Keys(cache)
  BY <1>7 DEF Victims
<1>9. PICK i \in DOMAIN cache : cache[i].key = v
  BY <1>8 DEF Keys
<1>10. PICK m \in DOMAIN c : c[m] = cache[i]
  BY <1>1, <1>7, <1>9 DEF Kept
<1>11. ~Kept(c, d, m)
  BY <1>7, <1>9, <1>10 DEF Kept, Keys
<1>12. ~Expired(c[m], now)
  <2>1. c[m].expiresAt = expiry[v] /\ expiry[v] \in Int
    BY <1>0, <1>2, <1>7, <1>9, <1>10 DEF AsSet
  <2> QED BY <1>0, <1>7, <2>1 DEF Expired
<1>13. ~AnyExpired(c, now) /\ After(c, d, m)
  BY <1>4, <1>11, <1>12
<1>14. ASSUME NEW j \in Keys(d) PROVE v \in colder[j]
  <2>1. PICK n \in DOMAIN d : d[n].key = j
    BY <1>14 DEF Keys
  <2>2. PICK l \in DOMAIN c : m < l /\ d[n] = c[l]
    BY <1>13, <2>1 DEF After
  <2> QED BY <1>2, <1>9, <1>10, <2>1, <2>2 DEF Ordered
<1> QED BY <1>7, <1>13, <1>14 DEF c, d

LEMMA SetOk ==
  ASSUME UseInv, part = "use", part' = part, NEW k \in CacheKeys, NEW ttl \in Ttls, Set(k, ttl)
  PROVE  UseInv'
<1> DEFINE c == Without(cache, k)
           d == MakeRoom(c, maxSize, now)
           e == [key |-> k, data |-> k, expiresAt |-> now + ttl]
<1>0. /\ now \in Nat /\ maxSize \in Nat /\ uses \subseteq CacheKeys
      /\ colder \in [CacheKeys -> SUBSET CacheKeys] /\ expiry \in [CacheKeys -> Int]
      /\ cache \in Seq(UseEntry) /\ Distinct(cache) /\ Ordered(cache) /\ AsSet(cache)
      /\ VictimsAreColdest /\ (maxSize > 0 => Len(cache) <= maxSize)
      /\ maxSize' = maxSize /\ now' = now
  BY DEF UseInv, Set
<1>1. /\ c \in Seq(UseEntry) /\ LeftOf(c, cache) /\ k \notin Keys(c) /\ Len(c) <= Len(cache)
  BY <1>0, WithoutIs
<1>2. Distinct(c) /\ Ordered(c) /\ AsSet(c) /\ Keys(c) \subseteq Keys(cache)
  BY <1>0, <1>1, LeftIsAsGood
<1>3. /\ cache' = Append(d, e) /\ Used(k) /\ expiry' = [expiry EXCEPT ![k] = now + ttl]
  BY DEF Set, AfterSet
<1>g. ASSUME NEW v \in Victims', v \notin Victims PROVE v # k /\ \A j \in Keys(d) : v \in colder[j]
  BY <1>g, SetGivesUp
<1> HIDE DEF c
<1>4. /\ d \in Seq(UseEntry) /\ LeftOf(d, c)
      /\ Len(c) <= maxSize /\ maxSize > 0 => Len(d) < maxSize
  BY <1>0, <1>1, MakeRoomIs
<1> HIDE DEF d
<1>5. Distinct(d) /\ Ordered(d) /\ AsSet(d) /\ Keys(d) \subseteq Keys(cache) /\ k \notin Keys(d)
  BY <1>1, <1>2, <1>4, LeftIsAsGood
<1>6. e \in UseEntry /\ e.key = k /\ e.expiresAt = now + ttl /\ now + ttl \in Int
  BY <1>0, QueryCachesAssumption DEF UseEntry
<1> HIDE DEF e
<1>7. /\ expiry' \in [CacheKeys -> Int] /\ expiry'[k] = e.expiresAt
      /\ \A j \in CacheKeys \ {k} : expiry'[j] = expiry[j]
  BY <1>0, <1>3, <1>6
<1>8. /\ uses' \subseteq CacheKeys /\ colder' \in [CacheKeys -> SUBSET CacheKeys]
      /\ cache' \in Seq(UseEntry) /\ Len(cache') = Len(d) + 1
      /\ Distinct(cache)' /\ Ordered(cache)' /\ AsSet(cache)'
      /\ Keys(cache)' = Keys(d) \cup {k}
  BY <1>0, <1>3, <1>4, <1>5, <1>6, <1>7, FiledLast
<1>9. uses' = uses \cup {k} /\ \A j \in CacheKeys : colder'[j] = (IF j = k THEN uses ELSE colder[j]) \ {k}
  BY <1>3 DEF Used
<1>10. VictimsAreColdest'
  <2>1. ASSUME NEW v \in Victims', NEW x \in Keys(cache)' PROVE v \in colder'[x]
    <3>1. v # k /\ v \in uses
      BY <1>8, <1>9 DEF Victims
    <3>2. x = k \/ x \in Keys(d)
      BY <1>8
    <3>3. x \in CacheKeys
      <4>1. Keys(d) \subseteq CacheKeys
        BY <1>4, KeysAreKeys
      <4> QED BY <3>2, <4>1
    <3>4. ASSUME x \in Keys(d) PROVE v \in colder[x]
      <4>1. CASE v \in Victims
        BY <1>0, <1>5, <3>4, <4>1 DEF VictimsAreColdest
      <4>2. CASE v \notin Victims
        BY <1>g, <3>4, <4>2
      <4> QED BY <4>1, <4>2
    <3> QED BY <1>9, <3>1, <3>2, <3>3, <3>4
  <2> QED BY <2>1 DEF VictimsAreColdest
<1>11. maxSize > 0 => Len(cache') <= maxSize
  <2>1. Len(c) \in Nat /\ Len(d) \in Nat /\ Len(cache) \in Nat
    BY <1>0, <1>1, <1>4
  <2> QED BY <1>0, <1>1, <1>4, <1>8, <2>1
<1> QED BY <1>0, <1>7, <1>8, <1>10, <1>11 DEF UseInv

\* setMaxSize(size)
LEMMA SetMaxSizeOk ==
  ASSUME UseInv, part = "use", part' = part, NEW size \in Sizes, SetMaxSize(size)
  PROVE  UseInv'
<1> DEFINE d == Trimmed(cache, size)
<1>0. /\ now \in Nat /\ uses \subseteq CacheKeys /\ size \in Nat
      /\ colder \in [CacheKeys -> SUBSET CacheKeys] /\ expiry \in [CacheKeys -> Int]
      /\ cache \in Seq(UseEntry) /\ Distinct(cache) /\ Ordered(cache) /\ AsSet(cache)
      /\ VictimsAreColdest
      /\ maxSize' = size /\ UNCHANGED <<now, uses, colder, expiry>> /\ cache' = d
  BY QueryCachesAssumption DEF UseInv, SetMaxSize
<1>1. /\ d \in Seq(UseEntry) /\ LeftOf(d, cache) /\ Len(d) <= size
      /\ \A i \in DOMAIN cache : Kept(cache, d, i) \/ After(cache, d, i)
  BY <1>0, TrimmedIs
<1> HIDE DEF d
<1>2. Distinct(d) /\ Ordered(d) /\ AsSet(d) /\ Keys(d) \subseteq Keys(cache)
  BY <1>0, <1>1, LeftIsAsGood
<1>3. Distinct(cache)' /\ Ordered(cache)' /\ AsSet(cache)' /\ Keys(cache)' = Keys(d)
  BY <1>0, <1>2 DEF Distinct, Ordered, AsSet, Keys
<1>4. VictimsAreColdest'
  <2>1. ASSUME NEW v \in Victims', NEW x \in Keys(d) PROVE v \in colder[x]
    <3>1. v \in uses /\ v \notin Keys(d) /\ now <= expiry[v]
      BY <1>0, <1>3 DEF Victims
    <3>2. CASE v \notin Keys(cache)
      BY <1>0, <1>2, <3>1, <3>2 DEF VictimsAreColdest, Victims
    <3>3. CASE v \in Keys(cache)
      <4>1. PICK i \in DOMAIN cache : cache[i].key = v
        BY <3>3 DEF Keys
      <4>2. After(cache, d, i)
        BY <1>1, <3>1, <4>1 DEF Kept, Keys
      <4>3. PICK n \in DOMAIN d : d[n].key = x
        BY DEF Keys
      <4>4. PICK l \in DOMAIN cache : i < l /\ d[n] = cache[l]
        BY <4>2 DEF After
      <4> QED BY <1>0, <4>1, <4>3, <4>4 DEF Ordered
    <3> QED BY <3>2, <3>3
  <2> QED BY <1>0, <1>3, <2>1 DEF VictimsAreColdest
<1> QED BY <1>0, <1>1, <1>3, <1>4 DEF UseInv

LEMMA UseInvNext == UseInv /\ [Next]_vars => UseInv'
<1> SUFFICES ASSUME UseInv, [Next]_vars PROVE UseInv'
  OBVIOUS
<1>1. ASSUME UNCHANGED <<part, useVars>> PROVE UseInv'
  <2>1. UNCHANGED <<part, cache, maxSize, now, uses, colder, expiry>>
    BY <1>1 DEF useVars
  <2> QED BY <2>1 DEF UseInv, Distinct, Ordered, AsSet, VictimsAreColdest, Victims, Keys
<1>2. CASE part # "use" /\ part' = part
  BY <1>2 DEF UseInv
<1>3. ASSUME part = "use", part' = part, UseNext PROVE UseInv'
  <2>1. ASSUME ClearCache PROVE UseInv'
    <3>1. /\ cache' = <<>> /\ uses' = {} /\ colder' = [k \in CacheKeys |-> {}]
          /\ UNCHANGED <<maxSize, now, expiry>>
      BY <2>1 DEF ClearCache
    <3>2. cache' \in Seq(UseEntry) /\ Len(cache') = 0 /\ DOMAIN cache' = {}
      BY <3>1
    <3>3. Distinct(cache)' /\ Ordered(cache)' /\ AsSet(cache)' /\ VictimsAreColdest'
      BY <3>1, <3>2 DEF Distinct, Ordered, AsSet, VictimsAreColdest, Victims
    <3> QED BY <1>3, <3>1, <3>2, <3>3 DEF UseInv
  <2>2. ASSUME UseTick PROVE UseInv'
    <3>1. now' = now + 1 /\ now \in Nat /\ expiry \in [CacheKeys -> Int] /\ uses \subseteq CacheKeys
          /\ UNCHANGED <<cache, maxSize, uses, colder, expiry>>
      BY <1>3, <2>2 DEF UseTick, UseInv
    <3>2. \A k \in CacheKeys : expiry[k] \in Int /\ (now + 1 <= expiry[k] => now <= expiry[k])
      BY <3>1
    <3>3. Victims' \subseteq Victims /\ Keys(cache)' = Keys(cache)
      BY <3>1, <3>2 DEF Victims, Keys
    <3>4. VictimsAreColdest'
      BY <1>3, <3>1, <3>3 DEF VictimsAreColdest, UseInv
    <3>5. Distinct(cache)' /\ Ordered(cache)' /\ AsSet(cache)'
      BY <1>3, <3>1 DEF UseInv, Distinct, Ordered, AsSet
    <3> QED BY <1>3, <3>1, <3>4, <3>5 DEF UseInv
  <2> QED BY <1>3, <2>1, <2>2, GetOk, SetOk, SetMaxSizeOk DEF UseNext
<1> QED BY <1>1, <1>2, <1>3 DEF Next, vars

LEMMA UseInvariant == Spec => []UseInv
BY UseInvInit, UseInvNext, PTL DEF Spec

\* A cache has as many entries as keys.
LEMMA OneEntryEach ==
  ASSUME NEW c \in Seq(UseEntry), Distinct(c)
  PROVE  Len(c) = Cardinality(Keys(c))
<1> DEFINE n == Len(c)
           h == [i \in 1 .. n |-> c[i].key]
<1>1. n \in Nat /\ DOMAIN c = 1 .. n
  OBVIOUS
<1>2. /\ h \in [1 .. n -> Keys(c)]
      /\ \A i, j \in 1 .. n : h[i] = h[j] => i = j
      /\ \A k \in Keys(c) : \E i \in 1 .. n : h[i] = k
  BY <1>1 DEF Keys, Distinct
<1> HIDE DEF h, n
<1>3. h \in Bijection(1 .. n, Keys(c))
  BY <1>2 DEF Bijection, Injection, Surjection, IsInjective
<1>4. ExistsBijection(1 .. n, Keys(c))
  BY <1>3 DEF ExistsBijection
<1>5. IsFiniteSet(1 .. n) /\ Cardinality(1 .. n) = n
  BY <1>1, FS_Interval
<1>6. Cardinality(Keys(c)) = Cardinality(1 .. n)
  BY <1>4, <1>5, FS_Bijection
<1> QED BY <1>5, <1>6 DEF n

\* set() gives up a valid entry only when nothing expired is left in its place.
LEMMA ExpiredGo ==
  ASSUME UseInv, part = "use"
  PROVE  ExpiredGoFirst
<1> SUFFICES ASSUME NEW v \in Victims', v \notin Victims,
                    NEW k \in CacheKeys, NEW ttl \in Ttls, Set(k, ttl), NEW j \in Keys(cache) \ {k}
             PROVE  Live(cache, j, now)
  BY DEF ExpiredGoFirst
<1>1. ~AnyExpired(Without(cache, k), now)
  BY SetGivesUp
<1>2. \A i \in DOMAIN cache : cache[i].key # k => Kept(cache, Without(cache, k), i)
  BY WithoutIs DEF UseInv
<1>3. Place(cache, j) \in DOMAIN cache /\ cache[Place(cache, j)].key = j
  BY PlaceOfKey
<1>4. PICK m \in DOMAIN Without(cache, k) : Without(cache, k)[m] = cache[Place(cache, j)]
  BY <1>2, <1>3 DEF Kept
<1>5. ~Expired(cache[Place(cache, j)], now)
  BY <1>1, <1>4 DEF AnyExpired, ExpiredPlaces
<1> QED BY <1>5 DEF Live, Entry

\* Through any history of hits, re-sets, clears, caps lowered and raised and time
\* that passes: the cache holds no more than its cap, gives up expired entries
\* first, and of the valid ones those that were used longest ago.
THEOREM CacheEvictsFairly == Spec => EvictionIsFair
<1>1. UseInv => (part = "use" => VictimsAreColdest /\ StaysWithinCap)
  BY OneEntryEach DEF UseInv, StaysWithinCap
<1>2. UseInv => [part = "use" => ExpiredGoFirst]_vars
  BY ExpiredGo
<1> QED BY <1>1, <1>2, UseInvariant, PTL DEF EvictionIsFair
=============================================================================
