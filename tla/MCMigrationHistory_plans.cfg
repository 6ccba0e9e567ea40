SPECIFICATION Spec
CONSTANTS
  Versions <- AllVersions
  DialectsUsed = {"sqlite", "postgres", "mysql"}
  HandTables = {"users"}
  MaxGenerates = 2
  MaxCommands = 4
  MaxCrashes = 1
INVARIANTS
  CorpusRebuildsTheModels
  MigratedMeansModels
  RollbackIsInverse
PROPERTY LossIsAnnounced
CHECK_DEADLOCK FALSE
