------------------------------- MODULE Master -------------------------------
(***************************************************************************)
(* The master process, src/internal/master: its memory, the handlers that  *)
(* share it under m.mu, the timeout monitor and the checkpoint in S3.      *)
(*                                                                         *)
(* One action is one critical section of m.mu, or one step between two of  *)
(* them: a submission registers its job, enqueues it and, if the queue is  *)
(* full, deletes it in steps of their own, a checkpoint is marshalled      *)
(* under the lock and written after it.  Who sends which heartbeat is left *)
(* to the modules that extend this one.                                    *)
(***************************************************************************)
EXTENDS Scheduler, SequencesExt

CONSTANTS
  QueueCap,        \* capacity of the channel m.queue
  Checkpointing    \* whether checkpoint_s3_uri is configured

ASSUME QueueCapAssumption == QueueCap \in Nat \ {0}
ASSUME CheckpointingAssumption == Checkpointing \in BOOLEAN
ASSUME JobsAssumption == IsFiniteSet(Jobs)

VARIABLES
  jobs, active, queue,  \* m.jobs, m.activeJobID, m.queue
  nextAttempt,          \* the next attempt id that is still unused
  registered,           \* the keys of m.workers
  currentTask,          \* Worker.CurrentTask, the task of the last heartbeat
  pending,              \* submissions registered and not yet enqueued
  refused,              \* those of them that have met a full queue
  submitted,            \* every job id handleSubmit has drawn
  loaded,               \* loadCheckpoint has returned
  saving,               \* the snapshot on its way to S3, if there is one
  checkpoint,           \* the object latest.json, if there is one
  shutdown              \* how far a graceful shutdown has come

schedVars == <<jobs, active, queue, nextAttempt>>
workerVars == <<registered, currentTask>>
submitVars == <<pending, refused, submitted>>
checkpointVars == <<loaded, saving, checkpoint, shutdown>>
masterVars == <<schedVars, workerVars, submitVars, checkpointVars>>

\* The scheduler's view of the state, and a step to another such view.
Current == [jobs |-> jobs, active |-> active,
            queue |-> queue, next |-> nextAttempt]
Become(s) == /\ jobs' = s.jobs
             /\ active' = s.active
             /\ queue' = s.queue
             /\ nextAttempt' = s.next

TaskRefs == [job : Jobs, phase : {"map"}, task : MapTasks]
              \cup [job : Jobs, phase : {"reduce", "promotion"},
                    task : Partitions]
Snapshots == [jobs : [Jobs -> Job], active : Jobs \cup {None}]

\* Not asked for; ctx is cancelled; the loop has taken its last snapshot.
ShutdownStages == {"none", "signalled", "final"}

MasterTypeOK ==
  /\ Current \in State
  /\ registered \subseteq Workers
  /\ currentTask \in [Workers -> TaskRefs \cup {None}]
  /\ pending \subseteq submitted
  /\ refused \subseteq pending
  /\ submitted \subseteq Jobs
  /\ loaded \in BOOLEAN
  /\ saving \subseteq Snapshots
  /\ checkpoint \subseteq Snapshots
  /\ shutdown \in ShutdownStages

-----------------------------------------------------------------------------
\* The memory of a process that has just started, with the first unused id.
Fresh(next) == [jobs |-> [j \in Jobs |-> NoJob], active |-> None,
                queue |-> <<>>, next |-> next]

MasterInit == /\ jobs = Fresh(1).jobs
              /\ active = Fresh(1).active
              /\ queue = Fresh(1).queue
              /\ nextAttempt = Fresh(1).next
              /\ registered = {}
              /\ currentTask = [w \in Workers |-> None]
              /\ pending = {}
              /\ refused = {}
              /\ submitted = {}
              /\ loaded = ~Checkpointing
              /\ saving = {}
              /\ checkpoint = {}
              /\ shutdown = "none"

-----------------------------------------------------------------------------
(* Workers                                                                 *)

\* A worker registers when it starts, and again when a heartbeat of its is
\* answered NotFound.  Its last known task is forgotten.
RegisterWorker(w) ==
  /\ registered' = registered \cup {w}
  /\ currentTask' = [currentTask EXCEPT ![w] = None]
  /\ UNCHANGED <<schedVars, submitVars, checkpointVars>>

\* What a heartbeat of w does to the scheduling state: the result it carries
\* first, then an assignment when the worker says that it is idle.
Heard(w, idle, result, slow) ==
  LET processed == IF result = None THEN Current
                   ELSE ProcessResult(Current, w, result)
  IN IF idle THEN AssignTask(processed, w, slow) ELSE Nothing(processed)

Heartbeat(w, idle, task, result, slow) ==
  /\ w \in registered
  /\ Become(Heard(w, idle, result, slow).s)
  /\ currentTask' = [currentTask EXCEPT ![w] = task]
  /\ UNCHANGED <<registered, submitVars, checkpointVars>>

\* What the reply tells a worker that is on task, in the state after the
\* heartbeat: to abort; that all maps are complete; the partition URLs.
ReplyAborts(task) ==
  task # None /\ jobs'[task.job].status = "Aborted"
ReplyAllMaps(task) ==
  /\ task # None
  /\ task.phase = "reduce"
  /\ jobs'[task.job].status = "Reducing"
ReplyURLs(task) ==
  IF task # None /\ task.phase = "reduce"
    THEN CollectPartitionURLs(jobs', task.job, task.task) ELSE {}

\* The monitor finds w silent for longer than the timeout.  A tick that finds
\* several such workers takes several of these steps.  (A tick that is due when
\* ctx is cancelled may still be taken.)
Evict(w) ==
  /\ w \in registered
  /\ Become(ResetWorkerTasks(Current, w, currentTask[w]))
  /\ registered' = registered \ {w}
  /\ currentTask' = [currentTask EXCEPT ![w] = None]
  /\ UNCHANGED <<submitVars, checkpointVars>>

-----------------------------------------------------------------------------
(* Clients                                                                 *)

SubmitRegister(j) ==
  /\ j \notin submitted
  /\ jobs' = [jobs EXCEPT ![j] = NewJob]
  /\ submitted' = submitted \cup {j}
  /\ pending' = pending \cup {j}
  /\ UNCHANGED <<active, queue, nextAttempt, refused, workerVars,
                 checkpointVars>>

\* The channel send, outside the lock.  It does not wait for room: a full queue
\* refuses the job, which stays in m.jobs until the lock is taken again.
SubmitEnqueue(j) ==
  /\ j \in pending \ refused
  /\ IF Len(queue) < QueueCap
       THEN /\ queue' = Append(queue, j)
            /\ pending' = pending \ {j}
            /\ UNCHANGED refused
       ELSE /\ refused' = refused \cup {j}
            /\ UNCHANGED <<queue, pending>>
  /\ UNCHANGED <<jobs, active, nextAttempt, submitted, workerVars,
                 checkpointVars>>

\* Mutant of SubmitReject: a job that is rejected stays in m.jobs.
RejectOnly(j) ==
  /\ j \in refused
  /\ pending' = pending \ {j}
  /\ refused' = refused \ {j}
  /\ UNCHANGED <<schedVars, submitted, workerVars, checkpointVars>>

\* The job is deleted, also if the queue has room by now, and rejected (503).
SubmitReject(j) ==
  /\ j \in refused
  /\ jobs' = [jobs EXCEPT ![j] = NoJob]
  /\ pending' = pending \ {j}
  /\ refused' = refused \ {j}
  /\ UNCHANGED <<active, queue, nextAttempt, submitted, workerVars,
                 checkpointVars>>

\* Mutant of Delete: the slot of the active job is not freed.
DeleteOnly(j) ==
  /\ jobs[j].status \notin {"Absent", "Completed", "Aborted"}
  /\ jobs' = [jobs EXCEPT ![j].status = "Aborted"]
  /\ UNCHANGED <<active, queue, nextAttempt, workerVars, submitVars,
                 checkpointVars>>

\* handleDelete.  The job stays in the queue; the scheduler skips it there.
Delete(j) ==
  /\ jobs[j].status \notin {"Absent", "Completed", "Aborted"}
  /\ jobs' = [jobs EXCEPT ![j].status = "Aborted"]
  /\ active' = IF active = j THEN None ELSE active
  /\ UNCHANGED <<queue, nextAttempt, workerVars, submitVars, checkpointVars>>

-----------------------------------------------------------------------------
(* Checkpoints, crashes and restarts                                       *)

\* Mutant of Snapshot: the checkpoint loop does not wait for the load.
SnapshotBeforeLoad ==
  /\ Checkpointing
  /\ shutdown = "none"
  /\ saving = {}
  /\ saving' = {[jobs |-> jobs, active |-> active]}
  /\ UNCHANGED <<schedVars, workerVars, submitVars, loaded, checkpoint,
                 shutdown>>

\* saveCheckpoint marshals the jobs under the lock.  Neither the queue nor the
\* workers are part of the snapshot.  The loop starts after the load, and
\* takes no snapshot while another is being written.  (One that it takes after
\* ctx is cancelled is not written.)
Snapshot ==
  /\ Checkpointing
  /\ loaded
  /\ shutdown = "none"
  /\ saving = {}
  /\ saving' = {[jobs |-> jobs, active |-> active]}
  /\ UNCHANGED <<schedVars, workerVars, submitVars, loaded, checkpoint,
                 shutdown>>

\* The last thing the loop does.  Requests are still served meanwhile.
FinalSnapshot ==
  /\ Checkpointing
  /\ loaded
  /\ shutdown = "signalled"
  /\ saving = {}
  /\ saving' = {[jobs |-> jobs, active |-> active]}
  /\ shutdown' = "final"
  /\ UNCHANGED <<schedVars, workerVars, submitVars, loaded, checkpoint>>

\* PutObject replaces the old checkpoint, or fails and leaves it.
WriteCheckpoint ==
  /\ saving # {}
  /\ saving' = {}
  /\ \/ checkpoint' = saving
     \/ UNCHANGED checkpoint
  /\ UNCHANGED <<schedVars, workerVars, submitVars, loaded, shutdown>>

\* The process ends, and the next one listens before it loads the checkpoint.
\* Ids stay unique; submissions that were not answered are lost.
Crash ==
  /\ Become(Fresh(nextAttempt))
  /\ registered' = {}
  /\ currentTask' = [w \in Workers |-> None]
  /\ pending' = {}
  /\ refused' = {}
  /\ loaded' = ~Checkpointing
  /\ saving' = {}
  /\ shutdown' = "none"
  /\ UNCHANGED <<submitted, checkpoint>>

\* SIGINT or SIGTERM.  Both servers go on for now, to drain their requests.
Signal ==
  /\ shutdown = "none"
  /\ shutdown' = "signalled"
  /\ UNCHANGED <<schedVars, workerVars, submitVars, loaded, saving, checkpoint>>

\* Run returns when the requests are drained, and the process with it, wherever
\* the goroutine of the checkpoint loop is.
Exit ==
  /\ shutdown # "none"
  /\ loaded
  /\ pending = {}
  /\ Crash

\* Tasks that were in progress start over.
ResetTask(task) ==
  IF task.status = "InProgress" THEN DropAttempts(task, task.attempts)
                                ELSE task
Restored(job) ==
  [job EXCEPT !.maps = [m \in MapTasks |-> ResetTask(@[m])],
              !.reduces = [p \in Partitions |-> ResetTask(@[p])]]

\* Mutant of QueuedJobs: the job that was running is queued again as well.
UnfinishedJobs(js) == {j \in Jobs : js[j].status \in {"Queued", "Mapping"}}

\* Mutant of QueuedJobs: the queue is not rebuilt.
NoQueuedJobs(js) == {}

QueuedJobs(js) == {j \in Jobs : js[j].status = "Queued"}

\* The order of a Go map is arbitrary; what does not fit in the queue is
\* dropped with a warning.
LoadCheckpoint ==
  /\ ~loaded
  /\ loaded' = TRUE
  /\ \/ checkpoint = {} /\ UNCHANGED schedVars
     \/ \E saved \in checkpoint :
          /\ jobs' = [j \in Jobs |-> Restored(saved.jobs[j])]
          /\ active' = saved.active
          /\ \E order \in SetToSeqs(QueuedJobs(saved.jobs)) :
               LET room == Min({QueueCap - Len(queue), Len(order)}) IN
               queue' = queue \o SubSeq(order, 1, room)
          /\ UNCHANGED nextAttempt
  /\ UNCHANGED <<workerVars, submitVars, saving, checkpoint, shutdown>>

\* The read fails, also because ctx is cancelled, and the master starts fresh.
LoadFails ==
  /\ ~loaded
  /\ checkpoint # {}
  /\ loaded' = TRUE
  /\ UNCHANGED <<schedVars, workerVars, submitVars, saving, checkpoint, shutdown>>

=============================================================================
