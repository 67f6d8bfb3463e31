SPECIFICATION DataSpec
CONSTANTS
  e1 = e1
  e2 = e2
  e3 = e3
  w1 = w1
  w2 = w2
  h1 = h1
  Executions <- SpillingExecutions
  Workers <- MixedWorkers
  Hosts = {h1}
  WorkerOf <- SpillingWorkerOf
  HostOf <- OneHost
  NumPartitions = 2
  Keys <- FourKeys
  Hash <- SmallHash
  MaxInt <- MixedMaxInt
  SpillAt <- SpillingSpillAt
  MaxDiskErrors = 0
  None = None
INVARIANTS NoPartialReads
CHECK_DEADLOCK FALSE
