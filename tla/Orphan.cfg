SPECIFICATION Spec
CONSTANTS
  Jobs = {j1}
  Workers = {w1,w2}
  NumMapTasks = 1
  NumReduceTasks = 1
  None = None
  QueueCap = 1
  Checkpointing = FALSE
  MaxFailures = 0
  MaxAttempts = 3
  MaxEvictions = 1
  MaxRestarts = 0
  MaxExits = 0
  MaxBadLoads = 0
  MaxSnapshots = 0
SYMMETRY Symmetry
VIEW View
INVARIANTS NoOrphans
