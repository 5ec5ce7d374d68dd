SPECIFICATION Spec
CONSTANTS
  Workers = {w1, w2}
  Sessions = {s1, s2}
  WorkerOf <- MCWorkerOf
  NoSession = NoSession
  NoVersion = NoVersion
  Deployments <- MCShipped
  MaxWrites = 2
  w1 = w1
  w2 = w2
  s1 = s1
  s2 = s2
INVARIANT SnapshotsCurrent
CHECK_DEADLOCK FALSE
