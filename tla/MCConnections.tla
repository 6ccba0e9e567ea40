--------------------------- MODULE MCConnections ---------------------------
(* Two callers, two processes under the lock, two processes that run files: a  *)
(* table with its indexes, an authored data migration, a file that cannot be  *)
(* wrapped, a dropped column.  MySQL has no IF [NOT] EXISTS for indexes and    *)
(* columns.                                                                   *)
EXTENDS Connections

CONSTANTS u1, u2, r1, r2

Cfg(kind, where, other) == [dialect |-> kind, address |-> where, rest |-> other]

\* A server, with and without TLS, and a file of the same name.
MCConfigs ==
  {Cfg("postgres", "app", "tls"), Cfg("postgres", "app", "plain"), Cfg("sqlite", "app", "plain")}
MCUsers == {u1, u2}
MCRuns == {r1, r2}
MCPoolSizes == 1 .. 2

Stmt(op, obj) == [op |-> op, obj |-> obj]

MCScript(indexOp) ==
  <<<<Stmt("ensure", "table"), Stmt(indexOp, "index1"), Stmt(indexOp, "index2")>>,
    <<Stmt("data", "rows"), Stmt("create", "column")>>,
    <<Stmt("create", "index3")>>,
    <<Stmt("create", "column2"), Stmt("drop", "column")>>>>

MCScripts ==
  [d \in Dialects |-> MCScript(IF d = "mysql" THEN "create" ELSE "ensure")]
============================================================================
