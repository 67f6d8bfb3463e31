SPECIFICATION ClusterSpec
CONSTANTS
  Jobs = {j1}
  Workers = {w1}
  NumMapTasks = 2
  NumReduceTasks = 1
  None = None
  QueueCap = 1
  Checkpointing = FALSE
  MaxFailures = 0
  MaxAttempts = 3
  MaxEvictions = 0
  MaxRestarts = 0
  MaxExits = 0
  MaxBadLoads = 0
  MaxSnapshots = 0
  UpdateCap = 1
  PromptStart = FALSE
  MaxGiveUps = 0
  MaxWorkerCrashes = 0
  MaxCancels = 0
  OutputPrefix <- OwnPrefix
SYMMETRY Symmetry
VIEW View
INVARIANTS OneTaskAtATime
