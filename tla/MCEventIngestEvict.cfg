\* A key that expires, comes back, and is the first to be evicted.
CONSTANTS
  Threads = {t1}
  k1 = k1  k2 = k2  k3 = k3  k4 = k4  k5 = k5
  Key <- MCKey
  Batches <- SingleBatches
  MaxEvents = 2
  Ttl = 2
  PruneEvery = 100
  MaxProcessedIds = 100
  MineThreshold = 100
  MineInterval = 100
  Failures = {{}}
  MaxPosts = 6
  MaxTime = 3
  MaxIOErrors = 0
  MaxRestarts = 0

SPECIFICATION Spec

PROPERTY EvictsOldest

CHECK_DEADLOCK FALSE
