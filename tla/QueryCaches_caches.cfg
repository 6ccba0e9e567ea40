SPECIFICATION Spec
CONSTANTS
  MaxTime = 3
  CacheKeys = {k1, k2, k3, k4}
  Ttls = {0, 2}
  Sizes = {0, 1, 2}
  DefaultSize = 3
  Readers = {r1, r2}
  Texts = {"users"}
  Params = {"[1]", "[2]"}
  TextIsShown = TRUE
  Writes = {w1, w2}
  Cap = 1
  Ttl = 1
  NoRows = NoRows
  Latency = 1
SYMMETRY Interchangeable
INVARIANTS OwnRows AnswersAreRecent
PROPERTY EvictionIsFair
CHECK_DEADLOCK FALSE
