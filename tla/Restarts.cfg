SPECIFICATION Spec
CONSTANTS
  Jobs = {j1,j2}
  Workers = {w1}
  NumMapTasks = 1
  NumReduceTasks = 1
  None = None
  QueueCap = 2
  Checkpointing = TRUE
  MaxFailures = 0
  MaxAttempts = 3
  MaxEvictions = 0
  MaxRestarts = 1
  MaxExits = 1
  MaxBadLoads = 1
  MaxSnapshots = 1
SYMMETRY Symmetry
VIEW View
INVARIANTS TypeOK OneJobRuns CompletedWasPromoted QueueIsSound SubmissionsAreSound QueuedIsWaiting
PROPERTIES TerminalIsFinal CheckpointMovesForward
