------------------------------- MODULE RowWalk -------------------------------
(* Reading a table page by page while others write to it: paginate(), the     *)
(* offset walk of chunk(), the key walks of chunkById() and lazy().  A row is *)
(* its key; 0 is a key JavaScript takes for no cursor at all.                 *)
EXTENDS Integers, Sequences, FiniteSets, SequencesExt, FiniteSetsExt

CONSTANTS
  Keys,       \* the keys a row may have
  Sizes,      \* how many rows a page may have
  Walks,      \* which of the walks are started
  MaxWrites   \* rows inserted or deleted while one is under way

ASSUME WalkAssumption ==
  Keys \subseteq Nat /\ IsFiniteSet(Keys) /\ Sizes \subseteq Nat \ {0} /\ MaxWrites \in Nat

VARIABLES
  rows,      \* the keys in the table
  walk,      \* the call: how, its page size, where it is (pc), page, cursor, lastPage, data read
  given,     \* the keys handed to the handler, in order
  touched    \* ghost: keys inserted or deleted since the walk began

walkVars == <<rows, walk, given, touched>>

None == -1
Size == walk.size

\* In key order the i-th row has i - 1 before it.
Ordered(S) == [i \in 1 .. Cardinality(S) |-> CHOOSE k \in S : Cardinality({j \in S : j < k}) = i - 1]

MaxOf(m, n) == IF m > n THEN m ELSE n
MinOf(m, n) == IF m < n THEN m ELSE n

(* LIMIT n OFFSET o in key order, and the keys past a cursor.                 *)
Take(s, n) == SubSeq(s, 1, MinOf(n, Len(s)))
Slice(S, offset, n) == Take(SubSeq(Ordered(S), offset + 1, Cardinality(S)), n)
Past(S, cursor) == IF cursor = None THEN S ELSE {k \in S : k > cursor}

LastPage(total) == MaxOf(1, (total + Size - 1) \div Size)

WalkInit ==
  /\ rows \in SUBSET Keys
  /\ \E how \in Walks, size \in Sizes, page \in 1 .. 2 :
       /\ how = "paginateTx" \/ page = 1
       /\ walk = [how |-> how, size |-> size, pc |-> "start", page |-> page, cursor |-> None,
                  lastPage |-> 0, total |-> 0, data |-> <<>>]
  /\ given = <<>>
  /\ touched = {}

(* chunk() asks paginate() for its page: the count first.                      *)
CountRows ==
  /\ walk.pc = "start" /\ walk.how = "chunk"
  /\ LET n == Cardinality(rows)
     IN  walk' = [walk EXCEPT !.pc = "counted", !.total = n, !.lastPage = LastPage(n)]
  /\ UNCHANGED <<rows, given, touched>>

(* The page is the one asked for or the last there was when rows were counted. *)
Page(S, page, lastPage) ==
  LET p == MaxOf(1, MinOf(page, lastPage)) IN Slice(S, (p - 1) * Size, Size)

FetchPage ==
  /\ walk.pc = "counted"
  /\ walk' = [walk EXCEPT !.pc = "fetched", !.data = Page(rows, walk.page, walk.lastPage)]
  /\ UNCHANGED <<rows, given, touched>>

(* paginate(.., { tx }): both statements in the caller's transaction see one   *)
(* snapshot.                                                                  *)
PaginateInTransaction ==
  /\ walk.pc = "start" /\ walk.how = "paginateTx"
  /\ LET n == Cardinality(rows)
     IN  walk' = [walk EXCEPT !.pc = "done", !.total = n, !.lastPage = LastPage(n),
                              !.data = Page(rows, walk.page, LastPage(n))]
  /\ UNCHANGED <<rows, given, touched>>

(* The handler takes the page; chunk() stops at the last page of this count.   *)
NextChunk(w) ==
  IF w.data = <<>> \/ w.page >= w.lastPage THEN [w EXCEPT !.pc = "done"]
  ELSE [w EXCEPT !.pc = "start", !.page = @ + 1]

HandleChunk ==
  /\ walk.pc = "fetched"
  /\ given' = given \o walk.data
  /\ walk' = NextChunk(walk)
  /\ UNCHANGED <<rows, touched>>

(* cursorPaginate(): one row more than the page tells whether there are more,  *)
(* and the cursor is the last row of the page itself.                         *)
CursorOfProbe(found) ==
  [data |-> Take(found, Size), next |-> IF Len(found) > Size THEN Last(found) ELSE None]

CursorPage(found) ==
  LET data == Take(found, Size)
  IN  [data |-> data, next |-> IF Len(found) > Size THEN Last(data) ELSE None]

FetchAfterCursor ==
  /\ walk.pc = "start" /\ walk.how = "chunkById"
  /\ LET p == CursorPage(Slice(Past(rows, walk.cursor), 0, Size + 1))
     IN  walk' = [walk EXCEPT !.data = p.data, !.cursor = p.next,
                              !.pc = IF p.data = <<>> THEN "done" ELSE "keyed"]
  /\ UNCHANGED <<rows, given, touched>>

(* No cursor, and one that is falsy, end chunkById().                          *)
HandleKeyed ==
  /\ walk.pc = "keyed"
  /\ given' = given \o walk.data
  /\ walk' = [walk EXCEPT !.pc = IF walk.cursor \in {None, 0} THEN "done" ELSE "start"]
  /\ UNCHANGED <<rows, touched>>

(* lazy(): the last row of every page is the cursor, up to an empty page.      *)
FetchLazy ==
  /\ walk.pc = "start" /\ walk.how = "lazy"
  /\ LET data == Slice(Past(rows, walk.cursor), 0, Size)
     IN  /\ given' = given \o data
         /\ walk' = [walk EXCEPT !.data = data,
                                 !.cursor = IF data = <<>> THEN @ ELSE Last(data),
                                 !.pc = IF data = <<>> THEN "done" ELSE @]
  /\ UNCHANGED <<rows, touched>>

(* Another client inserts or deletes a row.                                   *)
Write(k) ==
  /\ walk.pc # "done"
  /\ Cardinality(touched) < MaxWrites
  /\ rows' = IF k \in rows THEN rows \ {k} ELSE rows \cup {k}
  /\ touched' = touched \cup {k}
  /\ UNCHANGED <<walk, given>>

WalkStep ==
  \/ CountRows \/ FetchPage \/ PaginateInTransaction \/ HandleChunk
  \/ FetchAfterCursor \/ HandleKeyed \/ FetchLazy

WalkNext == WalkStep \/ \E k \in Keys \ touched : Write(k)

----------------------------------------------------------------------------
Times(k) == Cardinality({i \in DOMAIN given : given[i] = k})

WalkTypes ==
  /\ rows \subseteq Keys /\ touched \subseteq Keys
  /\ given \in Seq(Keys)
  /\ walk.how \in Walks /\ Size \in Sizes /\ walk.pc \in {"start", "counted", "fetched", "keyed", "done"}

(* A walk by key hands over every row that was there all along exactly once,  *)
(* in key order, however many rows come and go between its pages; unless it    *)
(* stopped at a key that reads as false.                                      *)
KeyWalkIsComplete ==
  walk.how \in {"chunkById", "lazy"} =>
    /\ \A i, j \in DOMAIN given : i < j => given[i] < given[j]
    /\ (walk.pc = "done" /\ ~(walk.how = "chunkById" /\ walk.cursor = 0))
         => \A k \in rows \ touched : Times(k) = 1

(* chunk() goes by offset: it is complete while nobody writes, whatever the    *)
(* number of rows is to the size of a page.                                   *)
QuietChunkIsComplete ==
  (walk.how = "chunk" /\ touched = {} /\ walk.pc = "done") => given = Ordered(rows)

(* The rows an offset walk misses or repeats are no more than the rows that    *)
(* were written while it ran; it does not hand the last page over for ever.    *)
ChunkErrorIsBounded ==
  walk.how = "chunk" =>
    /\ walk.pc = "done" =>
         Cardinality({k \in rows \ touched : Times(k) = 0}) <= Cardinality(touched)
    /\ \A k \in Keys : Times(k) <= 1 + Cardinality(touched)

(* In a transaction the page and its totals describe the same rows, and a page  *)
(* past the end is the last one there is.                                     *)
SnapshotPageAgrees ==
  (walk.how = "paginateTx" /\ walk.pc = "done") =>
    LET p == MinOf(walk.page, walk.lastPage)
    IN  /\ Len(walk.data) = MinOf(Size, walk.total - (p - 1) * Size)
        /\ walk.total > 0 => walk.data # <<>>

(* Whatever comes and goes, a walk hands over what it owes: keys lose nothing,  *)
(* offsets no more than was written, a snapshot page agrees with its totals.   *)
WalksAccountForRows ==
  KeyWalkIsComplete /\ QuietChunkIsComplete /\ ChunkErrorIsBounded /\ SnapshotPageAgrees

(* A walk ends, once the others stop writing.                                  *)
WalkEnds == <>(walk.pc = "done")
============================================================================
