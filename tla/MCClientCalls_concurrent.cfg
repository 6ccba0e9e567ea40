\* Two callers that do not wait for each other.
SPECIFICATION Spec
CONSTANTS
  Tasks = {t1, t2}
  Statements = {s1, s2, s3}
  MaxNest = 3
  MaxOpens = 4
  Serialised = FALSE
  CommitMayFail = FALSE
  EngineMayAbort = FALSE
  outer = outer
  inner = inner
  sibling = sibling
  NoCall = NoCall
  Calls <- MCCalls
  Parent <- MCParent
  Retries <- MCRetries
  MayThrow = {"afterCommit", "onRetry"}
  timed = timed
  abortable = abortable
  both = both
  Queries <- MCQueries
  WithTimeout <- MCWithTimeout
  WithSignal <- MCWithSignal
  MayCancel = TRUE
  c1 = c1
  c2 = c2
  p1 = p1
  p2 = p2
  Keys <- MCKeys
  Sizes <- MCSizes
  Walks <- MCWalks
  MaxWrites = 2
  Callers <- MCCallers
  Helpers <- MCHelpers
  Dialects <- MCDialects
  Pools <- MCPools
  MaxDeletes = 1
  Related <- MCRelated
  Syncers <- MCSyncers
  MaxFailures = 1
  MaxSyncs = 1
INVARIANT RejectedLeavesNothing
CHECK_DEADLOCK FALSE
