CHECK_DEADLOCK FALSE
SPECIFICATION ClusterSpec
CONSTANTS
  Jobs = {j1}
  Workers = {w1}
  NumMapTasks = 1
  NumReduceTasks = 1
  None = None
  QueueCap = 1
  Checkpointing = TRUE
  MaxFailures = 0
  MaxAttempts = 3
  MaxEvictions = 1
  MaxRestarts = 1
  MaxExits = 0
  MaxBadLoads = 0
  MaxSnapshots = 1
  UpdateCap = 1
  PromptStart = TRUE
  MaxGiveUps = 0
  MaxWorkerCrashes = 1
  MaxCancels = 1
  OutputPrefix <- OwnPrefix
INVARIANTS ClusterTypeOK
PROPERTIES ImplementsControl
