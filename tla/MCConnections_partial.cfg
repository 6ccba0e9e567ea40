SPECIFICATION Spec
CONSTANTS
  u1 = u1
  u2 = u2
  r1 = "r1"
  r2 = "r2"
  Configs <- MCConfigs
  Users <- MCUsers
  MaxConns = 3
  MaxDrops = 2
  MaxFailures = 1
  Runs <- MCRuns
  PoolSizes <- MCPoolSizes
  Sends = 2
  MaxCrashes = 1
  Processes = {p1, p2}
  Nobody = Nobody
  Dialects = {"mysql"}
  NumFiles = 4
  Scripts <- MCScripts
  Generated = {1, 4}
  Wrappable = {1, 2, 4}
  MaxMishaps = 1
INVARIANT RecordedMeansApplied
CHECK_DEADLOCK FALSE
