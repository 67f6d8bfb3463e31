SPECIFICATION Spec
CONSTANTS
  Jobs = {j1,j2,j3}
  Workers = {w1}
  NumMapTasks = 1
  NumReduceTasks = 1
  None = None
  QueueCap = 2
  Checkpointing = FALSE
  MaxFailures = 0
  MaxAttempts = 3
  MaxEvictions = 1
  MaxRestarts = 0
  MaxExits = 0
  MaxBadLoads = 0
  MaxSnapshots = 0
SYMMETRY Symmetry
INVARIANTS QueuedIsWaiting PromotedIsWinner
PROPERTIES ImplementsService
