------------------------- MODULE ConnectionManager -------------------------
(* The one cached connection of db.ts: created on first use, replaced when    *)
(* the configuration it was made from changes, closed on reset, injected by   *)
(* tests, and made anew by withFreshConnection when the server drops it.       *)
(* A configuration is its dialect, its `address` (all else that               *)
(* connectionSignature looks at: database, credentials, host, port, url, pool) *)
(* and the rest that createConnectionString reads all the same (ssl, the DB_*   *)
(* variables of the environment).                                            *)
EXTENDS Naturals, FiniteSets

CONSTANTS
  Configs,     \* what setConfig may select, as [dialect, address, rest]
  Users,       \* callers of withFreshConnection
  MaxConns,    \* connections opened
  MaxDrops,    \* connections the server drops
  MaxFailures  \* connections that cannot be opened

ASSUME ManagerAssumption ==
  MaxConns \in Nat \ {0} /\ MaxDrops \in Nat /\ MaxFailures \in Nat

VARIABLES
  config,      \* the configuration now
  instance,    \* _bunSqlInstance, or NoConn
  signature,   \* _currentSignature: what was compared of the configuration it was made from
  conns,       \* connection -> [cfg, memory, state]
  user,        \* caller -> its call: tries made, the connection it is on, how it went
  drops,
  failures,    \* openings that threw
  injected,    \* ghost: connections handed in by setSqlInstance
  replaced,    \* ghost: connections an injection pushed out
  hit          \* ghost: callers whose connection was closed under them by this module

managerVars == <<config, instance, signature, conns, user, drops, failures, injected, replaced, hit>>

NoConn == 0
NoSignature == [dialect |-> "none", address |-> "none"]
NoUser == [pc |-> "idle", tries |-> 0, conn |-> NoConn, want |-> "none"]

ManagerInit ==
  /\ config \in Configs
  /\ instance = NoConn
  /\ signature = NoSignature
  /\ conns = <<>>
  /\ user = [u \in Users |-> NoUser]
  /\ drops = 0 /\ failures = 0
  /\ injected = {} /\ replaced = {} /\ hit = {}

Opened == DOMAIN conns
With(c, cfg, memory, cs) ==
  [d \in DOMAIN cs \cup {c} |->
     IF d = c THEN [cfg |-> cfg, memory |-> memory, state |-> "open"] ELSE cs[d]]

(* The calls that closing c interrupts; what the server dropped is not there to close. *)
On(c) == {u \in Users : user[u].pc = "running" /\ user[u].conn = c /\ conns[c].state = "open"}

Closed(c) ==
  [d \in Opened |-> IF d = c /\ conns[d].state = "open"
                    THEN [conns[d] EXCEPT !.state = "closed"] ELSE conns[d]]

(* connectionSignature compares the dialect and the address.  Comparing less     *)
(* (the name of the database alone) makes two configurations look the same.     *)
ConnectionSignatureShort(cfg) == [dialect |-> "any", address |-> cfg.address]
ConnectionSignature(cfg) == [dialect |-> cfg.dialect, address |-> cfg.address]

(* getOrCreateBunSql(forceNew): the connection to use, and what becomes of the  *)
(* cached one, which is detached and closed before the new one is opened.       *)
Stale(forceNew) ==
  \/ forceNew \/ instance = NoConn
  \/ signature # ConnectionSignature(config)

Detached == IF instance = NoConn THEN conns ELSE Closed(instance)

OpenFresh(new, memory) ==
  /\ new = Cardinality(Opened) + 1 /\ new <= MaxConns
  /\ conns' = With(new, config, memory, Detached)
  /\ instance' = new
  /\ signature' = ConnectionSignature(config)

OpenNone(new) ==
  /\ new = NoConn
  /\ conns' = Detached
  /\ instance' = NoConn
  /\ signature' = NoSignature

(* getBunSql: an opening that throws leaves the network dialects without a       *)
(* connection, SQLite with an empty database in memory, cached as if it were    *)
(* the configured file.                                                      *)
GetOrCreate(forceNew, new) ==
  \/ ~Stale(forceNew) /\ new = instance /\ UNCHANGED <<instance, signature, conns, hit, failures>>
  \/ /\ Stale(forceNew)
     /\ hit' = hit \cup (IF instance = NoConn THEN {} ELSE On(instance))
     /\ \/ OpenFresh(new, FALSE) /\ UNCHANGED failures
        \/ /\ failures < MaxFailures /\ failures' = failures + 1
           /\ IF config.dialect = "sqlite" THEN OpenFresh(new, TRUE) ELSE OpenNone(new)

Settled(how) == [NoUser EXCEPT !.pc = how]

(* fn runs on the connection handed out; without one the call rejects.          *)
Run(u, tries, c) ==
  user' = [user EXCEPT ![u] =
             IF c = NoConn THEN Settled("rejected")
             ELSE [pc |-> "running", tries |-> tries, conn |-> c, want |-> config]]

SetConfig(cfg) ==
  /\ cfg # config
  /\ config' = cfg
  /\ UNCHANGED <<instance, signature, conns, user, drops, failures, injected, replaced, hit>>

(* resetConnection, closeConnection: detached first, then closed.              *)
DetachCachedConnection ==
  /\ instance # NoConn
  /\ conns' = Closed(instance)
  /\ hit' = hit \cup On(instance)
  /\ instance' = NoConn /\ signature' = NoSignature
  /\ UNCHANGED <<config, user, drops, failures, injected, replaced>>

(* setSqlInstance: taken as current for the configuration there is.            *)
SetSqlInstance ==
  /\ Cardinality(Opened) < MaxConns /\ injected = {}
  /\ LET new == Cardinality(Opened) + 1
     IN  /\ conns' = With(new, config, FALSE, conns)
         /\ instance' = new /\ injected' = injected \cup {new}
         /\ replaced' = replaced \cup ({instance} \ {NoConn})
         /\ signature' = ConnectionSignature(config)
  /\ UNCHANGED <<config, user, drops, failures, hit>>

(* withFreshConnection: fn runs on the current connection.                     *)
Use(u) ==
  /\ user[u].pc = "idle"
  /\ \E c \in 0 .. MaxConns : GetOrCreate(FALSE, c) /\ Run(u, 1, c)
  /\ UNCHANGED <<config, drops, injected, replaced>>

Finish(u) ==
  /\ user[u].pc = "running" /\ conns[user[u].conn].state = "open"
  /\ user' = [user EXCEPT ![u] = Settled("done")]
  /\ UNCHANGED <<config, instance, signature, conns, drops, failures, injected, replaced, hit>>

(* Only the network drivers say "Connection closed".                           *)
Retriable(u) == user[u].tries = 1 /\ conns[user[u].conn].cfg.dialect # "sqlite"

(* "Connection closed" the first time: a fresh connection, forced, and fn again.*)
RetryOnCached(u) ==
  /\ user[u].pc = "running" /\ conns[user[u].conn].state # "open" /\ Retriable(u)
  /\ \E c \in 0 .. MaxConns : GetOrCreate(FALSE, c) /\ Run(u, 2, c)
  /\ UNCHANGED <<config, drops, injected, replaced>>
RetryOnce(u) ==
  /\ user[u].pc = "running" /\ conns[user[u].conn].state # "open" /\ Retriable(u)
  /\ \E c \in 0 .. MaxConns : GetOrCreate(TRUE, c) /\ Run(u, 2, c)
  /\ UNCHANGED <<config, drops, injected, replaced>>

GiveUp(u) ==
  /\ user[u].pc = "running" /\ conns[user[u].conn].state # "open" /\ ~Retriable(u)
  /\ user' = [user EXCEPT ![u] = Settled("failed")]
  /\ UNCHANGED <<config, instance, signature, conns, drops, failures, injected, replaced, hit>>

(* The server ends a connection.                                              *)
Drop(c) ==
  /\ conns[c].state = "open" /\ conns[c].cfg.dialect # "sqlite" /\ drops < MaxDrops
  /\ conns' = [conns EXCEPT ![c].state = "dropped"]
  /\ drops' = drops + 1
  /\ UNCHANGED <<config, instance, signature, user, failures, injected, replaced, hit>>

UserStep(u) == Use(u) \/ Finish(u) \/ RetryOnce(u) \/ GiveUp(u)

ManagerNext ==
  \/ \E u \in Users : UserStep(u)
  \/ \E cfg \in Configs : SetConfig(cfg)
  \/ DetachCachedConnection \/ SetSqlInstance
  \/ \E c \in Opened : Drop(c)

----------------------------------------------------------------------------
ManagerTypes ==
  /\ config \in Configs /\ instance \in Opened \cup {NoConn}
  /\ \A c \in Opened : conns[c].cfg \in Configs /\ conns[c].state \in {"open", "closed", "dropped"}
  /\ \A u \in Users : user[u].tries \in 0 .. 2 /\ user[u].conn \in Opened \cup {NoConn}

(* A call works on the database that was configured when it took its           *)
(* connection, also after a setConfig in between, a reset, a retry or an opening *)
(* that failed; only where the SQLite file could not be opened it works on an   *)
(* empty database in memory instead.  Nothing is said of the rest of the          *)
(* configuration: ssl and DB_* are those of the time the connection was opened. *)
CallsReachTheConfiguredDatabase ==
  \A u \in Users : user[u].pc = "running" =>
    LET c == conns[user[u].conn] want == user[u].want
    IN  /\ c.cfg.dialect = want.dialect /\ c.cfg.address = want.address
        /\ c.memory => want.dialect = "sqlite" /\ failures > 0

(* No connection is forgotten open: all but the cached one were closed, by us    *)
(* or by the server, or were pushed out by an injected one.                   *)
NothingIsLeftOpen ==
  \A c \in Opened : conns[c].state = "open" => c = instance \/ c \in replaced

(* One dropped connection does not fail a call, unless this module closed the   *)
(* fresh one under it: another caller's retry, a reset or a new configuration; *)
(* and the ones it replaces are not left open.                                *)
OneDropIsSurvived ==
  /\ \A u \in Users : user[u].pc = "failed" => drops > 1 \/ u \in hit
  /\ NothingIsLeftOpen
============================================================================
