---------------------------- MODULE MCClientCalls ----------------------------
(* One outermost transaction() with two nested ones, each level with its own *)
(* retry budget; a query with a timeout, one with the signal, one with both;  *)
(* walks of five keys (size 1 meets the key 0 at the end of a page), and two   *)
(* callers of the other helpers.                                              *)
EXTENDS ClientCalls

CONSTANTS outer, inner, sibling, timed, abortable, both, c1, c2, p1, p2

MCCalls == {outer, inner, sibling}
MCParent == [c \in MCCalls |-> IF c = outer THEN NoCall ELSE outer]
MCRetries == [c \in MCCalls |-> IF c = outer THEN 2 ELSE IF c = inner THEN 1 ELSE 0]
MCQueries == {timed, abortable, both}
MCWithTimeout == {timed, both}
MCWithSignal == {abortable, both}
MCKeys == 0 .. 4
MCSizes == 1 .. 2
MCWalks == {"chunk", "chunkById", "lazy", "paginateTx"}
MCCallers == {c1, c2}
MCHelpers == {"firstOrCreate", "updateOrCreate", "updateOrInsert", "upsert", "insertOrIgnore"}
MCDialects == {"mysql", "other"}
MCPools == {{1}, {1, 2}}
MCRelated == 1 .. 2
MCSyncers == {p1, p2}
============================================================================
