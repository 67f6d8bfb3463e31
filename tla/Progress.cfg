SPECIFICATION FairSpec
CONSTANTS
  Jobs = {j1}
  Workers = {w1,w2}
  NumMapTasks = 2
  NumReduceTasks = 1
  None = None
  QueueCap = 1
  Checkpointing = FALSE
  MaxFailures = 1
  MaxAttempts = 4
  MaxEvictions = 0
  MaxRestarts = 0
  MaxExits = 0
  MaxBadLoads = 0
  MaxSnapshots = 0
  UpdateCap = 1
  PromptStart = TRUE
  MaxGiveUps = 0
  MaxWorkerCrashes = 0
  MaxCancels = 0
  OutputPrefix <- OwnPrefix
VIEW View
PROPERTIES JobsEnd
