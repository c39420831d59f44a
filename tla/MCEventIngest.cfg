\* Two handlers, batches that overlap, events sent again after their window.
CONSTANTS
  Threads = {t1, t2}
  k1 = k1  k2 = k2  k3 = k3  k4 = k4  k5 = k5
  Key <- MCKey
  Batches <- MCBatches
  MaxEvents = 2
  Ttl = 1
  PruneEvery = 2
  MaxProcessedIds = 3
  MineThreshold = 2
  MineInterval = 1
  Failures <- MCFailures
  MaxPosts = 3
  MaxTime = 1
  MaxIOErrors = 1
  MaxRestarts = 1

SYMMETRY Symmetry
SPECIFICATION Spec

INVARIANTS
  TypeOK
  RingIsTail
  SeenBounded
  AppliedOnce
  MiningExact

PROPERTY DedupWindow

\* the forwarder stops when the bounds are reached
CHECK_DEADLOCK FALSE
