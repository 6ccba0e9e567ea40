----------------------------- MODULE QueryCaches -----------------------------
(***************************************************************************)
(* The process-wide QueryCache under any sequence of its own calls (get()   *)
(* and set() by cached selects, clearQueryCache(), setQueryCacheMaxSize(),  *)
(* the clock), and under cached selects that await their rows.  A behaviour *)
(* is about one of the two.                                                *)
(***************************************************************************)
EXTENDS CachedReads

CONSTANTS
  CacheKeys,    \* query texts with their parameters
  Ttls,         \* ttlMs of the cached selects
  Sizes,        \* arguments of setQueryCacheMaxSize
  DefaultSize   \* the field initialiser of maxSize (100 in the code)

ASSUME QueryCachesAssumption ==
  /\ Ttls \subseteq Nat /\ Sizes \subseteq Nat
  /\ DefaultSize \in Nat \ {0} /\ MaxTime \in Nat

VARIABLES
  maxSize,
  uses,      \* ghost: the keys used since the last clear
  colder,    \* ghost: colder[k]: those of them that were last used before k was
  expiry,    \* ghost: expiresAt of the last set of each key in uses
  part       \* what a behaviour is about: "use" or "reads"

useVars == <<cache, maxSize, now, uses, colder, expiry>>

UseInit ==
  /\ cache = <<>> /\ maxSize = DefaultSize /\ now = 0
  /\ uses = {} /\ colder = [k \in CacheKeys |-> {}] /\ expiry = [k \in CacheKeys |-> -1]

Used(k) ==
  /\ uses' = uses \cup {k}
  /\ colder' = [j \in CacheKeys |-> (IF j = k THEN uses ELSE colder[j]) \ {k}]

Get(k) ==
  /\ cache' = AfterGet(cache, k, now)
  /\ IF Live(cache, k, now) THEN Used(k) ELSE UNCHANGED <<uses, colder>>
  /\ UNCHANGED <<maxSize, now, expiry>>

Set(k, ttl) ==
  /\ cache' = AfterSet(cache, k, k, ttl, maxSize, now)
  /\ Used(k)
  /\ expiry' = [expiry EXCEPT ![k] = now + ttl]
  /\ UNCHANGED <<maxSize, now>>

ClearCache ==
  /\ cache' = <<>> /\ uses' = {} /\ colder' = [k \in CacheKeys |-> {}]
  /\ UNCHANGED <<maxSize, now, expiry>>

SetMaxSize(size) ==
  /\ maxSize' = size
  /\ cache' = Trimmed(cache, size)
  /\ UNCHANGED <<now, uses, colder, expiry>>

UseTick == now < MaxTime /\ now' = now + 1 /\ UNCHANGED <<cache, maxSize, uses, colder, expiry>>

UseNext ==
  \/ \E k \in CacheKeys : Get(k) \/ \E ttl \in Ttls : Set(k, ttl)
  \/ ClearCache
  \/ \E size \in Sizes : SetMaxSize(size)
  \/ UseTick

(* One or the other.                                                       *)

vars == <<part, useVars, readsVars>>

Init == part \in {"use", "reads"} /\ UseInit /\ ReadsInit

Next ==
  \/ part = "use" /\ UseNext /\ UNCHANGED <<part, committed, txOpen, txWrites, undone, reader>>
  \/ part = "reads" /\ ReadsNext /\ UNCHANGED <<part, maxSize, uses, colder, expiry>>

Spec == Init /\ [][Next]_vars

----------------------------------------------------------------------------
(* Properties.                                                             *)

\* The entries that were given up while still valid: used since the last
\* clear, not expired, not held any more.
Victims == {k \in uses \ Keys(cache) : now <= expiry[k]}

\* Eviction is least-recently-USED, through any history of hits, re-sets, caps
\* lowered and raised and expiries: whatever was given up while valid had been
\* used less recently than everything that is still held.
VictimsAreColdest ==
  \A v \in Victims : \A k \in Keys(cache) : v \in colder[k]

\* set() gives up a valid entry only when no expired one is left in its place.
ExpiredGoFirst ==
  Victims' \subseteq Victims \/
    \A k \in CacheKeys : (\E ttl \in Ttls : Set(k, ttl))
      => \A j \in Keys(cache) \ {k} : Live(cache, j, now)

\* The cap in force bounds the cache at once, after a cap was lowered too, and
\* a key has one entry.  (A cap of zero still keeps one entry: set() appends
\* without looking again.)
StaysWithinCap ==
  /\ maxSize > 0 => Len(cache) <= maxSize
  /\ Len(cache) = Cardinality(Keys(cache))

\* Through any history of hits, re-sets, caps and expiries the cache gives up
\* what has expired first and then what was used longest ago, and holds no
\* more than its cap.
EvictionIsFair ==
  /\ [](part = "use" => VictimsAreColdest /\ StaysWithinCap)
  /\ [][part = "use" => ExpiredGoFirst]_vars

----------------------------------------------------------------------------
(* For TLC: readers, and writes, are interchangeable.                        *)
Interchangeable == Permutations(Readers) \cup Permutations(Writes)
=============================================================================
