---------------------------- MODULE OrmExecutor ----------------------------
(* getExecutor of orm.ts: which database a model's statement goes to, as the   *)
(* program configures the library and hands it databases of its own, while     *)
(* methods of models are under way with the executor they began with.         *)
EXTENDS Naturals

CONSTANTS
  SqlDialects, Databases,  \* what setConfig may say
  Users,                   \* methods of models under way at once
  MaxConfigs,              \* bound: times the program configures something
  MaxRefusals              \* bound: databases that cannot be opened

ASSUME OrmExecutorAssumption == MaxConfigs \in Nat /\ MaxRefusals \in Nat

NoDb == 0
NoExecutor == [dialect |-> "none", handle |-> NoDb, database |-> ""]
NoMethod == [exec |-> NoExecutor]
NoStatement == [of |-> NoMethod]

VARIABLES
  config,    \* setConfig's dialect and database
  globalDb,  \* the Database configureOrm was given, by the order of opening
  executor,  \* _executor, with what it was made for
  key,       \* _executorForDb, _executorDialect and _executorDatabase
  opened,    \* Databases opened so far
  underway,      \* the executor a method began with; ghosts: the configuration of then
  reached,   \* ghost: the last statement, its method and where it went
  refused,   \* ghost: _executor stands in for a database that could not be opened
  configs, refusals

executorVars == <<config, globalDb, executor, key, opened, underway, reached, refused, configs, refusals>>

Configs == [dialect : SqlDialects, database : Databases]

ExecutorInit ==
  /\ config \in Configs
  /\ globalDb = NoDb /\ executor = NoExecutor /\ key = [forDb |-> NoDb, dialect |-> "none", database |-> ""]
  /\ opened = 0 /\ underway = [u \in Users |-> NoMethod] /\ reached = NoStatement
  /\ refused = FALSE /\ configs = 0 /\ refusals = 0

Configure == configs < MaxConfigs /\ configs' = configs + 1
Refuse == refusals < MaxRefusals /\ refusals' = refusals + 1

SetConfig ==
  /\ Configure
  /\ config' \in Configs
  /\ UNCHANGED <<globalDb, executor, key, opened, underway, reached, refused, refusals>>

(* A Database of the caller's, or a new one on a file or in memory.              *)
ConfigureOrm ==
  /\ Configure
  /\ opened' = opened + 1 /\ globalDb' = opened'
  /\ executor' = NoExecutor /\ key' = [key EXCEPT !.forDb = NoDb] /\ refused' = FALSE
  /\ UNCHANGED <<config, underway, reached, refusals>>

(* The new one cannot be opened, or its pragmas fail: then it is the one already. *)
ConfigureOrmThrows ==
  /\ Configure /\ Refuse
  /\ \/ UNCHANGED <<globalDb, opened>>
     \/ opened' = opened + 1 /\ globalDb' = opened'
  /\ UNCHANGED <<config, executor, key, underway, reached, refused>>

GlobalOnANewHandle == [dialect |-> "sqlite", handle |-> opened + 1, database |-> ""]
GlobalExecutor == [dialect |-> "sqlite", handle |-> globalDb, database |-> ""]
FitsDialect == executor # NoExecutor /\ key.forDb = NoDb /\ key.dialect = config.dialect
Fits == executor # NoExecutor /\ key.forDb = NoDb /\ key.dialect = config.dialect /\ key.database = config.database

(* getExecutor: the executor that fits, or a new one.                            *)
GetGlobal ==
  /\ globalDb # NoDb
  /\ IF executor # NoExecutor /\ key.forDb = globalDb THEN UNCHANGED <<executor, key>>
     ELSE executor' = GlobalExecutor /\ key' = [forDb |-> globalDb, dialect |-> "sqlite", database |-> ""]
  /\ refused' = FALSE /\ UNCHANGED opened

GetFitting ==
  /\ globalDb = NoDb /\ Fits
  /\ UNCHANGED <<executor, key, opened, refused>>

KeyOfConfig == [forDb |-> NoDb, dialect |-> config.dialect, database |-> config.database]
GetNew ==
  /\ globalDb = NoDb /\ ~Fits
  /\ key' = KeyOfConfig
  /\ opened' = IF config.dialect = "sqlite" THEN opened + 1 ELSE opened
  /\ executor' = [dialect |-> config.dialect, database |-> config.database,
                  handle |-> IF config.dialect = "sqlite" THEN opened + 1 ELSE NoDb]
  /\ refused' = FALSE

(* A method of a model begins: it keeps the executor for all its statements.     *)
Begin(u) ==
  /\ underway[u] = NoMethod
  /\ GetGlobal \/ GetFitting \/ GetNew
  /\ underway' = [underway EXCEPT ![u] = [exec |-> executor', global |-> globalDb, config |-> config, refused |-> refused']]
  /\ UNCHANGED <<config, globalDb, reached, configs, refusals>>

(* Opening the file, or its pragmas, throws: the method rejects, and the keys are *)
(* already those of the new configuration.                                     *)
BeginThrows(u) ==
  /\ underway[u] = NoMethod /\ Refuse
  /\ globalDb = NoDb /\ ~Fits /\ config.dialect = "sqlite"
  /\ key' = KeyOfConfig
  /\ refused' = (executor # NoExecutor)
  /\ UNCHANGED <<config, globalDb, executor, opened, underway, reached, configs>>

(* A statement of the method.  A Database is the one it was opened as; a driver's *)
(* executor takes the connection of now, for a text in the dialect of then.      *)
Statement(u) ==
  /\ underway[u] # NoMethod
  /\ LET exec == underway[u].exec
     IN  reached' = [of |-> underway[u], handle |-> exec.handle, text |-> exec.dialect, now |-> config,
                     at |-> IF exec.handle = NoDb THEN config ELSE [dialect |-> exec.dialect, database |-> exec.database]]
  /\ UNCHANGED <<config, globalDb, executor, key, opened, underway, refused, configs, refusals>>

End(u) ==
  /\ underway[u] # NoMethod /\ underway' = [underway EXCEPT ![u] = NoMethod]
  /\ UNCHANGED <<config, globalDb, executor, key, opened, reached, refused, configs, refusals>>

ExecutorNext ==
  \/ SetConfig \/ ConfigureOrm \/ ConfigureOrmThrows
  \/ \E u \in Users : Begin(u) \/ BeginThrows(u) \/ Statement(u) \/ End(u)
ExecutorSpec == ExecutorInit /\ [][ExecutorNext]_executorVars

----------------------------------------------------------------------------
ExecutorTypes ==
  /\ globalDb \in 0 .. opened /\ executor.handle \in 0 .. opened /\ key.forDb \in 0 .. opened
  /\ \A u \in Users : underway[u].exec.handle \in 0 .. opened
  /\ refused \in BOOLEAN /\ configs \in 0 .. MaxConfigs /\ refusals \in 0 .. MaxRefusals

(* A model's statement goes where the configuration said when its method began:   *)
(* to the database configureOrm was given, once there is one, and until then to   *)
(* the configured one, in its dialect; a driver's may go to the one configured    *)
(* meanwhile.  Not so for a method that began after the configured database could *)
(* not be opened: it goes on with the executor of before.                        *)
StatementsGoWhereConfigured ==
  reached # NoStatement =>
    LET began == reached.of
    IN  IF began.global # NoDb THEN reached.handle = began.global
        ELSE began.refused \/ /\ reached.text = began.config.dialect
                              /\ reached.at \in {began.config, reached.now}
============================================================================
