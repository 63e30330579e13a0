SPECIFICATION Spec
CONSTANTS
  t1 = t1
  t2 = t2
  t3 = t3
  Threads = {t1, t2, t3}
  Workloads <- MCWorkloads
  PoolTarget = 2
INVARIANT
  SnapshotOfOwnImage
CHECK_DEADLOCK FALSE
