SPECIFICATION DataSpec
CONSTANTS
  e1 = e1
  e2 = e2
  e3 = e3
  w1 = w1
  w2 = w2
  h1 = h1
  Executions <- MixedExecutions
  Workers <- MixedWorkers
  Hosts = {h1}
  WorkerOf <- MixedWorkerOf
  HostOf <- OneHost
  NumPartitions = 2
  Keys <- FourKeys
  Hash <- SmallHash
  MaxInt <- MixedMaxInt
  SpillAt <- MixedSpillAt
  MaxDiskErrors = 1
  None = None
INVARIANTS TypeOK NoPartialReads PublishedIsServed KeysAreReducedOnce
CHECK_DEADLOCK FALSE
SYMMETRY Reruns
