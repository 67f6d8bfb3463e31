SPECIFICATION Spec
CONSTANTS
  Jobs = {j1}
  Workers = {w1,w2}
  NumMapTasks = 3
  NumReduceTasks = 1
  None = None
  QueueCap = 1
  Checkpointing = FALSE
  MaxFailures = 1
  MaxAttempts = 5
  MaxEvictions = 0
  MaxRestarts = 0
  MaxExits = 0
  MaxBadLoads = 0
  MaxSnapshots = 0
SYMMETRY Symmetry
VIEW View
INVARIANTS AttemptsMatchStatus PhaseIsPrompt ReducingMeansMapped
PROPERTIES CompletedStays
