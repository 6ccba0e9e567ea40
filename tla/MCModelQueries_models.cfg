SPECIFICATION Spec
CONSTANTS
  Tables <- MCTables
  Conditions <- MCConditions
  MaxCalls = 4
  MaxOthers = 1
  Parents <- MCParents
  RelatedIds <- MCRelated
  MidIds <- MCMids
  Schemas <- MCSchemas
  Worlds <- MCWorlds
  MaxChanges = 2
  SqlDialects <- MCSqlDialects
  Databases <- MCDatabases
  Users = {u1, u2}
  MaxConfigs = 3
  MaxRefusals = 1
  Instances = {i1, i2}
  MethodCalls = {k1, k2}
  NoInstance = NoInstance
  name = name
  password = password
  Columns <- MCColumns
  DeletedAt = deleted_at
  Values = {0, 1}
  Setter <- MCSetter
  SoftDeletes = TRUE
  NoSnapshot = NoSnapshot
  NoRow = NoRow
  MaxInstanceCalls = 5
SYMMETRY MCSymmetry
INVARIANTS
  TypeOK
  StatementsMeanTheChain
  LoadedRowsAreRelated
  StatementsGoWhereConfigured
  UnsavedIsDirty
PROPERTY SavesKeepOthersColumns
CHECK_DEADLOCK FALSE
