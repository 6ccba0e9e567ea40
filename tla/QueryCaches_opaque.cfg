SPECIFICATION Spec
CONSTANTS
  MaxTime = 1
  CacheKeys = {k1, k2, k3, k4}
  Ttls = {0, 2}
  Sizes = {0, 1, 2}
  DefaultSize = 3
  Readers = {r1, r2}
  Texts = {"users", "posts"}
  Params = {"[1]"}
  TextIsShown = FALSE
  Writes = {w1, w2}
  Cap = 2
  Ttl = 1
  NoRows = NoRows
  Latency = 1
SYMMETRY Interchangeable
INVARIANT OwnRows
CHECK_DEADLOCK FALSE
