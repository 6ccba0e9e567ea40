---------------------------- MODULE CachedReads ----------------------------
(***************************************************************************)
(* selectFrom(...).cache(ttl).get(): a look-up in the process-wide cache,   *)
(* the statement on a miss, and the store when the rows arrive, with other  *)
(* reads, writes, a transaction and clearQueryCache() in between.           *)
(***************************************************************************)
EXTENDS QueryCache

CONSTANTS
  Readers,     \* concurrent cached selects
  Texts,       \* query texts
  Params,      \* their bound parameters, serialised
  TextIsShown, \* String(query) is the SQL text (the SQLite wrapper), or is it
               \* "[object Promise]" whatever the query (Bun's own driver)
  Writes,      \* data changes, each visible to every query
  Cap,         \* the cache's maxSize
  Ttl,         \* cacheTtl
  NoRows,      \* not a result
  Latency      \* environment: ticks the rows take to reach the caller

ASSUME CachedReadsAssumption ==
  /\ TextIsShown \in BOOLEAN
  /\ Cap \in Nat \ {0} /\ Ttl \in Nat /\ Latency \in Nat /\ MaxTime \in Nat

VARIABLES
  committed,  \* committed[w]: when w became durable, or Never
  txOpen,     \* a transaction is open
  txWrites,   \* its writes so far
  undone,     \* ghost: undone[w]: when w was rolled back, or Never
  reader      \* what each reader is doing

readsVars == <<cache, now, committed, txOpen, txWrites, undone, reader>>

Never == MaxTime + 1

Committed == {w \in Writes : committed[w] <= now}

\* Rows are abstracted to the query they answer and the writes they reflect.
Queries == [text : Texts, params : Params]

Idle == [pc |-> "idle"]

ReadsInit ==
  /\ cache = <<>> /\ now = 0
  /\ committed = [w \in Writes |-> Never]
  /\ txOpen = FALSE /\ txWrites = {} /\ undone = [w \in Writes |-> Never]
  /\ reader = [r \in Readers |-> Idle]

\* Mutant of CacheKey: the key leaves the bound parameters out.
KeyWithoutParams(q) == [text |-> q.text, params |-> "[]"]

\* `${String(finalQuery)}\0${JSON.stringify(whereParams)}`
CacheKey(q) == [text |-> IF TextIsShown THEN q.text ELSE "[object Promise]", params |-> q.params]

InFlight(r) == reader[r].pc \in {"sent", "arrived"}

\* get() up to its first await: a hit is the answer, a miss sends the query.
Read(r, q, inTx) ==
  /\ ~InFlight(r) /\ (inTx => txOpen)
  /\ LET hit == Live(cache, CacheKey(q), now) IN
     reader' = [reader EXCEPT ![r] =
       [pc |-> IF hit THEN "answered" ELSE "sent",
        query |-> q, inTx |-> inTx, rows |-> IF hit THEN Hit(cache, CacheKey(q)) ELSE NoRows,
        at |-> now]]
  /\ cache' = AfterGet(cache, CacheKey(q), now)
  /\ UNCHANGED <<now, committed, txOpen, txWrites, undone>>

\* The database evaluates the statement on the reader's connection.
Evaluate(r) ==
  /\ reader[r].pc = "sent"
  /\ reader' = [reader EXCEPT ![r].pc = "arrived", ![r].at = now,
       ![r].rows = [query |-> reader[r].query,
                    writes |-> Committed \cup IF reader[r].inTx THEN txWrites ELSE {}]]
  /\ UNCHANGED <<cache, now, committed, txOpen, txWrites, undone>>

\* Mutant of StoreAndAnswer: the caller's ttl is replaced by the default one.
StoreForDefaultTtl(r) ==
  /\ reader[r].pc = "arrived"
  /\ cache' = AfterSet(cache, CacheKey(reader[r].query), reader[r].rows, Ttl + Latency + 1, Cap, now)
  /\ reader' = [reader EXCEPT ![r].pc = "answered", ![r].at = now]
  /\ UNCHANGED <<now, committed, txOpen, txWrites, undone>>

\* The rest of get(): queryCache.set(cacheKey, result, cacheTtl), return.
StoreAndAnswer(r) ==
  /\ reader[r].pc = "arrived"
  /\ cache' = AfterSet(cache, CacheKey(reader[r].query), reader[r].rows, Ttl, Cap, now)
  /\ reader' = [reader EXCEPT ![r].pc = "answered", ![r].at = now]
  /\ UNCHANGED <<now, committed, txOpen, txWrites, undone>>

\* runWithHooks throws (timeout, abort, driver error): nothing is stored.
ReadFails(r) ==
  /\ InFlight(r)
  /\ reader' = [reader EXCEPT ![r] = Idle]
  /\ UNCHANGED <<cache, now, committed, txOpen, txWrites, undone>>

Fresh(w) == committed[w] = Never /\ undone[w] = Never /\ w \notin txWrites

Write(w) ==
  /\ Fresh(w)
  /\ committed' = [committed EXCEPT ![w] = now]
  /\ UNCHANGED <<cache, now, txOpen, txWrites, undone, reader>>

TxBegin ==
  /\ ~txOpen /\ txOpen' = TRUE
  /\ UNCHANGED <<cache, now, committed, txWrites, undone, reader>>

TxWrite(w) ==
  /\ txOpen /\ Fresh(w)
  /\ txWrites' = txWrites \cup {w}
  /\ UNCHANGED <<cache, now, committed, txOpen, undone, reader>>

\* The transaction's callback has awaited its reads when it ends.
TxEnds == txOpen /\ \A r \in Readers : InFlight(r) => ~reader[r].inTx

TxCommit ==
  /\ TxEnds /\ txOpen' = FALSE /\ txWrites' = {}
  /\ committed' = [w \in Writes |-> IF w \in txWrites THEN now ELSE committed[w]]
  /\ UNCHANGED <<cache, now, undone, reader>>

TxRollback ==
  /\ TxEnds /\ txOpen' = FALSE /\ txWrites' = {}
  /\ undone' = [w \in Writes |-> IF w \in txWrites THEN now ELSE undone[w]]
  /\ UNCHANGED <<cache, now, committed, reader>>

\* clearQueryCache()
ClearQueryCache ==
  /\ cache' = <<>>
  /\ UNCHANGED <<now, committed, txOpen, txWrites, undone, reader>>

ReadsTick ==
  /\ now < MaxTime
  /\ \A r \in Readers : reader[r].pc = "arrived" => now < reader[r].at + Latency
  /\ now' = now + 1
  /\ UNCHANGED <<cache, committed, txOpen, txWrites, undone, reader>>

ReadsNext ==
  \/ \E r \in Readers :
       \/ \E q \in Queries, inTx \in BOOLEAN : Read(r, q, inTx)
       \/ Evaluate(r) \/ StoreAndAnswer(r) \/ ReadFails(r)
  \/ \E w \in Writes : Write(w) \/ TxWrite(w)
  \/ TxBegin \/ TxCommit \/ TxRollback \/ ClearQueryCache \/ ReadsTick

----------------------------------------------------------------------------
(* Properties.  reader[r].at is when the answer was given.                  *)

Answered(r) == reader[r].pc = "answered"

\* client.ts on the key: two queries must not share one entry ("otherwise ...
\* the second query would return the first's rows").
OwnRows == \A r \in Readers : Answered(r) => reader[r].rows.query = reader[r].query

\* However hits, concurrent misses, clears and evictions interleave, an answer
\* misses only writes committed within the last Ttl and one delivery.
BoundedStaleness ==
  \A r \in Readers : Answered(r) =>
    \A w \in Writes \ reader[r].rows.writes : committed[w] + Ttl + Latency >= reader[r].at

\* Rows read and cached inside a transaction outlive its rollback, but for no
\* longer than one Ttl: no later answer shows the work that was undone.
PhantomsExpire ==
  \A r \in Readers : Answered(r) =>
    \A w \in reader[r].rows.writes : undone[w] + Ttl >= reader[r].at

\* An answer from the cache is never older, nor more deluded by a transaction
\* that was rolled back, than the TTL allows.
AnswersAreRecent == BoundedStaleness /\ PhantomsExpire
=============================================================================
