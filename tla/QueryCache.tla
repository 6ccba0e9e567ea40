----------------------------- MODULE QueryCache -----------------------------
(***************************************************************************)
(* The process-wide QueryCache of client.ts and the clock it reads.  Its Map *)
(* is the sequence of its entries in iteration order, least recently used    *)
(* first; its methods are operators on such a sequence.                      *)
(***************************************************************************)
EXTENDS Integers, Sequences, FiniteSets, FiniteSetsExt, SequencesExt

CONSTANT MaxTime    \* bound: how far the clock goes

VARIABLES
  cache,     \* the Map
  now        \* Date.now()

Keys(c) == {c[i].key : i \in DOMAIN c}

Place(c, k) == CHOOSE i \in DOMAIN c : c[i].key = k
Entry(c, k) == c[Place(c, k)]

Expired(e, time) == time > e.expiresAt

\* Map.delete(k)
Without(c, k) == IF k \in Keys(c) THEN RemoveAt(c, Place(c, k)) ELSE c

Live(c, k, time) == k \in Keys(c) /\ ~Expired(Entry(c, k), time)

\* What get(k) returns when it is a hit (Live) ...
Hit(c, k) == Entry(c, k).data

\* Mutant of AfterGet: a hit does not touch the entry (FIFO instead of LRU).
AfterGetFifo(c, k, time) == IF Live(c, k, time) THEN c ELSE Without(c, k)

\* ... and what get(k) leaves: a hit moves to the back, an expired entry goes.
AfterGet(c, k, time) ==
  IF Live(c, k, time) THEN Append(Without(c, k), Entry(c, k)) ELSE Without(c, k)

ExpiredPlaces(c, time) == {i \in DOMAIN c : Expired(c[i], time)}
AnyExpired(c, time) == ExpiredPlaces(c, time) # {}

\* The scan of set(): expired entries, oldest first, until there is room.
DropOne(c, cap, time) ==
  IF Len(c) >= cap /\ AnyExpired(c, time) THEN RemoveAt(c, Min(ExpiredPlaces(c, time))) ELSE c
DropExpired(c, cap, time) ==
  LET scanned[n \in 0 .. Len(c)] == IF n = 0 THEN c ELSE DropOne(scanned[n - 1], cap, time)
  IN  scanned[Len(c)]

MakeRoom(c, cap, time) ==
  IF Len(c) < cap \/ c = <<>> THEN c
  ELSE IF AnyExpired(c, time) THEN DropExpired(c, cap, time)
  ELSE Tail(c)

\* set(k, data, ttl)
AfterSet(c, k, data, ttl, cap, time) ==
  Append(MakeRoom(Without(c, k), cap, time),
         [key |-> k, data |-> data, expiresAt |-> time + ttl])

\* setMaxSize(cap): the least recently used entries above the cap go.
Trimmed(c, cap) == IF Len(c) > cap THEN SubSeq(c, Len(c) - cap + 1, Len(c)) ELSE c
=============================================================================
