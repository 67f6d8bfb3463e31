# gomr in TLA+

gomr is a MapReduce engine in Go: one master, any number of workers, and S3 for
input, output and checkpoints (`docs/design.md`). This directory models its
control plane and its data plane in TLA+, checks them with TLC on small
instances and proves the core with TLAPS for all instances. Line numbers below
are those of the files in `src/`.

    tlc -config Speculation.cfg MCControl     one of the runs, see "Runs"
    tlapm ControlProofs.tla                   one of the proofs, see "Proofs"

## 1. The system

| Component | Source | State | Operations | Module |
|---|---|---|---|---|
| Scheduler | `master/scheduler.go`, `types.go` | `m.jobs`, `m.activeJobID`, `m.queue` | `assignTask`, `processResult` and all they call | `Scheduler` |
| Control service | `master/control.go` | `m.workers` | `RegisterWorker`, `Heartbeat` | `Master`, `Control`, `Cluster` |
| Worker monitor | `master/master.go` 125-202 | `LastHeartbeat`, `CurrentTask` of a worker | eviction, `resetWorkerTasksLocked` | `Master`, `Control` |
| Job API | `master/handlers.go`, `helpers.go` | jobs and queue, shared | `handleSubmit`, `handleDelete` | `Master`, `Cluster`; for clients `JobService` |
| Checkpoints | `master/checkpoint.go` | `latest.json` in S3 | save, load, a load that fails, loop, final save | `Master` |
| Master process | `master/master.go` 20-122 | how far a shutdown is | start order, signal, exit, crash, restart | `Master` |
| Heartbeat loop | `worker/worker.go` | `State`, `CurrentTask`, `lastResult`, `cancelTask`, `reduceUpdates` | tick, reply, registration, `handleAssignment`, abort | `Worker` |
| Reduce, promotion | `worker/executor.go` 149-369 | the gather loop; objects in S3 | drain, download, take an update, upload; copy, remove | `Worker` |
| Map execution | `worker/executor.go` 28-141 | a partition store | read the child, publish | `PartitionStore`, `Worker` |
| Partition store | `worker/partition.go` | buffers, spill files, `spilled` | write, spill, serve, clean up | `PartitionStore` |
| Helpers of the data path | `partition.go` 80, `executor.go` 228-285, 400 | none | partition and key of a line, sorting, the reducer | `PartitionStore`, `DataPath` |

The components interact as follows. All state of the master is guarded by one
mutex, and every handler is one critical section, with three exceptions: a
submission registers its job under the lock, sends it to the channel after the
unlock and, if the channel is full, takes the lock again to delete it; a checkpoint is marshalled under the lock and written after it; and
the cleanup of a cancelled job runs in a goroutine. Workers pull: a heartbeat
carries the state of the worker, its current task and the result of its last
one, and the reply may carry an assignment, an order to abort, and partition
URLs for a reduce that started before all maps were done. Reduces fetch
partitions from map workers over HTTP, and write temporary objects to S3, which
another worker copies to their final name ("promotion").

What is hard about it:

* *Messages.* A heartbeat whose reply is lost is repeated with its result, and
  the assignment in the lost reply is gone. Results arrive late, after their
  sender was evicted and its task given to another worker.
* *Duplicates.* Speculation and eviction put two attempts on one task; a
  promotion is given to every idle worker until one reports it.
* *Crashes.* The master restarts from a checkpoint that is older than what the
  workers know, and it serves requests before it has loaded it. A graceful
  shutdown does not wait for its final checkpoint. Workers lose their map
  outputs when they end.
* *Shared files.* Spilled partitions live in a directory that is named after
  the job and the task only.
* *Ignored errors.* A line of a spilled partition and its newline are two writes,
  and the second may fail unnoticed.
* *Agreement.* Every worker computes for itself which partition a key is in, and
  the workers need not run the same build.
* *Waiting.* Early reduces hold a worker until all maps are done.

What makes each component correct: the scheduler runs one job at a time and
keeps attempts and statuses in step; the job API is a FIFO line; restarts start
no job twice and checkpoints never go back; a completed job has its whole output,
made of its own map outputs; a store serves whole partitions; each key is reduced
once; and every accepted job ends. The hazards at each line are listed in
`PROJECT.json`.

## 2. The modules

    Scheduler          operators of scheduler.go on a record of the state
      Master           variables of the master process, one action per handler
        Control        the master among workers that may report anything
          ControlService -> JobService       refinement: FIFO job service
      Worker           the worker process, its goroutines, and the S3 objects
        Cluster        Control + Worker: every heartbeat has a sender
          (ImplementsControl)                refinement: Cluster -> Control
    PartitionStore     executions of one map task, their stores and requests
      DataPath         what a reduce makes of the partitions it is served
    SchedulerProofs -> ControlProofs -> DurabilityProofs       TLAPS
    DurabilityProofs -> ServiceProofs -> PhaseProofs           TLAPS
    DurabilityProofs -> ClusterProofs                          TLAPS
    ClusterProofs, PhaseProofs -> OutputProofs                 TLAPS
    DataPathProofs                                             TLAPS
    MCControl, MCService, MCCluster, MCPartitionStore          for TLC

**Scheduler** translates `scheduler.go` function by function. Each operator
takes a state `[jobs, active, queue, next]` and returns the state the function
leaves, and the assignment where it has one. Abstractions: an attempt is its id
and worker; a URL is what its text names, the job, the map task, the partition
and the worker that serves it; a temporary object is the attempt that wrote it;
and time is gone: the caller chooses which running tasks are slower than 1.5
medians (`slow`), and of the completion times only their number up to two is
kept, which is what the code asks for before it speculates.

**Master** has one action per critical section: `RegisterWorker`, `Heartbeat`,
`Evict`, `SubmitRegister`, `SubmitEnqueue`, `SubmitReject`, `Delete`,
`Snapshot`, `WriteCheckpoint`, `Signal`, `FinalSnapshot`, `Exit`, `Crash`,
`LoadCheckpoint`, `LoadFails`. `Fresh` is a process that has just started. After a restart the
master listens (`loaded = FALSE`) before it loads, as `Run` does (84-101), and
what happens in between is overwritten by the load, except for registrations and
the channel. A load that fails leaves the fresh state, which the next checkpoint
then writes over the old one. `SubmitEnqueue` is the
channel send: it appends to the queue or, if that is full, puts the job in `refused`;
`SubmitReject` deletes it (503) once it has the lock, when the queue may have room
again and the job may have been cancelled. `LoadCheckpoint` puts queued jobs back in any order (Go map
iteration) and drops what does not fit. A shutdown has three steps: `Signal`
(ctx is cancelled), `FinalSnapshot` (the checkpoint goroutine marshals once more)
and `Exit`, which can come at any time after the first, also in the middle of the
last checkpoint, since `Run` waits for the servers only (113-121).

**Control** closes the system with workers that are not trusted: any registered
worker may say that it is idle or busy on any task it was ever given, and report
success or failure of any attempt it was given, late, repeatedly, or never.
Silence is simply the absence of a step, so lost messages and crashed workers
need no action. The only restrictions are that an attempt has one outcome (a
goroutine runs once) and the bounds. What holds here holds whatever workers do.

**Worker** is one worker process in detail: an action per critical section of
`w.mu`, per channel operation, per request, and per message of the heartbeat
loop. `runs[w]` holds the goroutines of `handleAssignment`; each goes through the
stages launched, busy (State is set), working (CurrentTask is set), then map
success, or gathering, or copied, and ends in an outcome that `Finish` puts in
`lastResult`. Objects in S3 are `temps` and `final`; the content of an object is
the set of URLs whose lines its reduce gathered, so a partition that is missing,
or there twice from two executions of a map task, or that belongs to another job,
can be seen. `updates` outlives the reduce it was meant for, as `reduceUpdates`
does.

**Cluster** puts the two together. `Answer` is the master's side of a heartbeat
that has arrived, `Receive` the worker's side of the reply. A heartbeat that its
sender gives up goes to `stray` and may be heard later (`HearStray`), and a reply
that nobody waits for is lost. `Cancel` is `handleDelete`, with `DeleteOutput` for
the goroutine it leaves behind. A worker that crashes stays dead, for a new
process has a new id.

**JobService** is what a client sees: jobs that wait, in the order in which they
were accepted (`before`, the pairs of waiting jobs of which the first came first),
one that runs, cancellation. `ControlService` maps the control plane to it: a
submission counts from its enqueue on, and aborted jobs that are still in the
channel are not in line.

**PartitionStore** has several executions of one map task on workers of several
hosts. Its state is the fields of the stores, the files in the spill directory
of each host, the published store of each worker, and HTTP requests between
the lookup of the store (under `w.mu`) and the reading of its data (under
`ps.mu`). A spill is one step per file. A line that is appended to a file and its
newline are two steps (`WriteToDisk`, `EndLine`), as they are two opens in the code.
Any open or write may fail (`DiskError`): a spill or a line that fails makes the map
fail, and a newline that fails goes unnoticed, so that the next line continues the
last one. A `Text` has the lines and the pairs that run together so (`joined`), and
the history variable `unended` the lines without their newline. `PartitionOf` is `int(h.Sum32()) % n` with the width of `int` that the worker's
build has, and a line whose partition is negative kills the process (`Die`).

**DataPath** goes on to the output: a reduce starts its child, the reducer of
`examples/`, on a response. The child reads line by line, and the next line is any
of those with the smallest key that are left, which gives every order that
`sort.Slice`, which is not stable, may leave. It counts runs of equal keys; what it
has printed by the end of its input is uploaded, and what one that fails has
printed is thrown away. Two lines that run together reach the child as one, with the
key of the first, and `int(value)` raises an error there: such a reduce fails, and
so does each retry as long as the map's output stays. Reduces share nothing, so one at a time is enough.

## 3. Runs

| Run | What it checks | Instance |
|---|---|---|
| Speculation | attempts fit the status; phases end at once; reducing means mapped; completed tasks stay completed | 1 job, 2 workers, 3 maps, 1 reduce, 5 attempts, 1 failure |
| Restarts | types; one job runs; completed jobs were promoted; the queue and submissions are sound; queued jobs are in the queue; finished stays finished; checkpoints move forward | 2 jobs, 1 worker, queue of 2, 3 attempts, 1 end of the master (crash or shutdown), 1 failed load, 1 checkpoint besides the final one |
| Service | the master implements JobService; queued jobs are in the queue; the promoted object is the winner's | 3 jobs, queue of 2, 1 worker, 3 attempts, 1 eviction |
| Store | types; whole partitions, published ones stay; each key is reduced once | 3 executions, 2 workers of one host with different widths of int, 4 lines, 2 partitions, one worker spills at its first line, 1 disk error |
| Cluster | completed jobs have their whole output; promotions can be made | 1 job, 2 workers, 2 maps, 1 reduce, 1 heartbeat given up |
| Recovery | types; Cluster implements Control | 1 worker, 1 map, 1 reduce, 1 eviction, 1 crash each of worker and master, 1 checkpoint, 1 cancellation |
| Progress | every accepted job ends | 2 workers, 2 maps, 1 reduce, 1 failure, fairness |
| Orphan | *violated*: no running task is left to dead workers | after 1 eviction |
| TwoTasks | *violated*: one task at a time | 1 worker, 2 maps, no `PromptStart` |
| Respill | *violated*: whole partitions | 2 executions that spill on one host, no disk error |
| LostPromotion | *violated*: promotions can be made | 1 worker crash |
| Starvation | *violated*: idle map tasks are reassigned | 1 worker crash, fairness |

**Bounds.** Actions that could go on for ever are bounded by constants whose
names start with `Max` (attempts, failures, evictions, ends of the master, exits
among them, failed loads, snapshots, heartbeats given up, worker crashes,
cancellations, disk errors); nothing else is cut off. Three maps are the fewest
with speculation (two must have completed, a third must be slow). Two maps are the
fewest with an early reduce that has to wait. One crash, one eviction or one
given-up heartbeat at any point already shows every pair of an old and a new
attempt, and MaxAttempts leaves room for both. Service has one job more than its
queue of 2, so that a submission can be rejected while others wait; in Restarts
everything fits, which is the condition of QueuedIsWaiting after a restart. The runs
of Cluster have one job: two of them with a heartbeat given up are out of TLC's reach,
and that no update, URL or object of one job ends in the output of another is left to
the proof of `OutputIsComplete`.
`UpdateCap` 1 (5 in the code) makes updates drop. Recovery does without shutdowns
of the master: to workers an exit is a crash after a checkpoint. In Store the hash
has three bits and the narrow `int` two, so that a key wraps around; its other
keys give the same partition on both workers. One disk error at any open or write
is enough to lose a newline, a line or a spill.

**Conditions of the properties.** Some properties hold under conditions, which
are in the formula or in the configuration of the run:

* `CompletedStays`, `ReducingMeansMapped` and `PromotedIsWinner` are proved for
  systems without restarts in which either no live worker is evicted or no task
  fails. The run Speculation checks the first two with a failure, the run Service the
  last with an eviction. With both, a late FAILED result can reset a
  Completed task (`scheduler.go:360`, 409), since it looks for remaining attempts and
  not at the status: slow worker A is evicted, B gets the task, A's late success
  completes it and the job may be reducing, and B's failure makes it Idle. That is
  against design.md:110, late results "are safely ignored".
* `PhaseIsPrompt` is proved for systems without restarts, with any failures and
  evictions: a task that is taken back leaves its phase with work to do.
* `TerminalIsFinal` is about one process. A finished job may disappear from `m.jobs`
  when its submission is rejected, and when the load replaces what was submitted
  before it; it may not change in any other way. A crash or exit ends the process,
  and an older checkpoint may know of the job as one that runs.
* `NoPartialReads` and `PublishedIsServed` ask for every line of a partition, each
  once, and allow lines to run together only after one whose newline was lost
  (`unended`), which `partition.go:97-101` does without telling anyone.
* `CheckpointMovesForward` is about masters that could read their checkpoint, and
  asks that no job disappears only where the queue has room for all.

**Symmetry and views.** Workers and jobs are interchangeable in the code. They
are declared symmetric, except in Progress and Starvation, where TLC could not
check liveness then, in Recovery, and in the runs of `MCPartitionStore`, whose
workers differ; in Store the two executions of one worker are interchangeable.
`MCControl!View` leaves `currentTask` out once no eviction is left: nothing else
reads it. `MCCluster!View` leaves out `issued` and `results`, which record what
happened and influence no action of Cluster; it is used only where no property
reads them.

**Deadlock** is checked except in three kinds of runs: Store, Respill, where the
stores are all cleaned up in the end; and Recovery, Starvation, LostPromotion,
where every worker, or the worker that matters, may be dead.

**Fairness** (`Cluster!Fairness`). Tickers fire, replies are read, goroutines and
child processes make progress, registration succeeds, the monitor notices dead
workers, and no request is under way for ever (the heartbeat has a deadline of
5 s, `worker.go:227`). The submission's send to the channel happens. No fairness
is assumed of clients, failures, slow workers or given-up heartbeats. Two
assumptions are part of the runs and not of the code: `Progress` gives up no
heartbeat, since an assignment in a lost reply leaves its task in progress for
ever (see Orphan), and no worker dies in it (see Starvation).

**PromptStart.** `handleAssignment` is started with `go` and sets the worker BUSY
when it is first scheduled. Nothing in the code keeps the next heartbeat from coming
first: the ticker stores a tick that came during a slow heartbeat, and the loop takes
it as soon as it has started the goroutine. `Tick`, the translation, has no such
guard. `Cluster!InTime` adds it where the constant `PromptStart` is TRUE, which is an
assumption about the scheduler and not about the code. All runs of MCCluster but
TwoTasks make it, and so do the theorems that say so in section 4. Without it the
worker says again that it is idle, is given a second task, and two goroutines share
`lastResult`, `cancelTask` and `reduceUpdates`: TwoTasks violates `OneTaskAtATime`.
`PromotionCanBeRetried` is then violated too, as the result of the second task
can replace that of a promotion before the master has it. For `OutputIsComplete` TLC
found no violation without the assumption, in a search that it did not finish.

### What the violations show

* **Orphan** (`master.go:156`). Eviction looks at the task named in the last
  heartbeat only. A worker that dies before it has sent one with its new task
  leaves the task InProgress. Design.md:106 promises a reset.
* **Respill** (`partition.go:121`). A second execution of a map task truncates
  files that the published store of the first still serves. Design.md:101 says
  there is no partial-read risk.
* **TwoTasks** (`worker.go:274`). See PromptStart above. The comment "only if we're
  idle" (`worker.go:272`) is what the master believes, and no check of the worker.
* **LostPromotion** (`executor.go:352`). Copy, remove, crash: the promotion is
  given out again for ever and its copy always fails. Scheduler.go:452 says
  that the temporary object is still there.
* **Starvation** (`scheduler.go:32`). Every live worker can be in an early
  reduce that waits for the map task of a dead one. Design.md:106 promises
  reassignment.

Seen while modelling, and not given a run: the late FAILED result above; the newline
of a spilled line, of which the comment at `partition.go:96` says that it is ensured,
while the errors of its open and its write are ignored (98-100), so that a map which
reports SUCCESS can serve two lines as one (with the example reducer no count is wrong
then, as KeysAreReducedOnce shows: the reduce fails each time it is tried); requests
are served before the checkpoint is loaded (`master.go:84-101`, against the
comment at `checkpoint.go:76`); the final checkpoint of a shutdown may be lost
(`master.go:113-121`, against design.md:111); a spill that fails in its middle
leaves files that `Cleanup` does not delete (`partition.go:197`); a checkpoint
that cannot be read is overwritten by the next one.

## 4. Proofs

| Module | Theorem | States | Assumes |
|---|---|---|---|
| ControlProofs | `TypeCorrect`, `OneJobRunsAlways`, `AttemptsMatchStatusAlways`, `QueueIsSoundAlways`, `SubmissionsAreSoundAlways`, `TerminalIsFinalAlways` | the property each is named after | |
| DurabilityProofs | `QueuedIsWaitingAlways`, `CheckpointMovesForwardAlways`, `CompletedWasPromotedAlways` | the property each is named after | |
| ServiceProofs | `ServiceIsImplemented` | `ImplementsService` | no restarts |
| PhaseProofs | `PhaseIsPromptAlways` | `PhaseIsPrompt` | no restarts |
| PhaseProofs | `CompletedStaysAlways`, `ReducingMeansMappedAlways`, `PromotedIsWinnerAlways` | the property each is named after | no restarts; no evictions or no failures |
| ClusterProofs | `ClusterIsOpen` | every behaviour of the cluster is one of `OpenSpec` | |
| ClusterProofs | `ClusterKeepsPromises` | `CompletedWasPromoted`, `QueuedIsWaiting`, `TerminalIsFinal` and `CheckpointMovesForward` of the cluster | |
| ClusterProofs | `ClusterTypeCorrect` | `ClusterTypeOK` | |
| ClusterProofs | `ClusterImplementsControl` | `ImplementsControl` | `PromptStart` |
| OutputProofs | `ClusterImplementsService` | `ImplementsService` of the cluster | no restarts |
| OutputProofs | `ClusterPhaseIsPrompt` | `PhaseIsPrompt` of the cluster | no restarts |
| OutputProofs | `ClusterCompletedStays`, `ClusterReducingMeansMapped`, `ClusterPromotedIsWinner` | the property each is named after, of the cluster | `PromptStart`; no live worker evicted, no restarts |
| OutputProofs | `OutputIsCompleteAlways` | `OutputIsComplete` | the same, and `OwnPrefixes` |
| OutputProofs | `PromotionCanBeRetriedAlways` | `PromotionCanBeRetried` | the same, and no worker crashes |
| DataPathProofs | `TypeCorrect`, `ReadsAreComplete`, `PublishedStaysServed` | `TypeOK`, `NoPartialReads`, `PublishedIsServed` | `NoSharing`, `BuildsAgree` |
| DataPathProofs | `KeysAreReducedOnceAlways` | `KeysAreReducedOnce` | `NoSharing`, `BuildsAgree` |
| DataPathProofs | `WideBuildsAgree` | `BuildsAgree` | 64-bit builds |

Besides what the last column says, they assume what the modules assume of their
constants: at least one map and one reduce task, finitely many jobs, positive
capacities, and that `None` is no job and no worker (`NoneAssumption`), no result
and no content of an object (`NothingAssumption`), and no key (`NoKeyAssumption`).
Those of Cluster also take finitely many workers and bounds that are natural
numbers (`WorkersAssumption`, `MishapsAssumption`). Each assumption has a name and
is checked by the runs. The theorems hold for all values of the bounds, and those
about Control for workers that report anything; where a bound has to be zero, the
last column says so.

**SchedulerProofs** states for every operator of `Scheduler` that it takes a
*sound* state to a sound state (`Sound`: typed, one job running, attempts that
match statuses, a queue of jobs not yet started) and that it *evolves*
(`Evolves`: forgets and invents no job, only shortens the queue, starts only jobs
of the queue, leaves terminal jobs alone). The two relations compose along the
call graph of `scheduler.go`.

**ControlProofs** proves the inductive invariant

    IInv == TypeOK /\ Sound(Current) /\ SnapshotsSound /\ SubmissionsAreSound

A snapshot must be sound because a load makes it the state. SubmissionsAreSound
is needed twice: a rejected submission deletes its job, which must not be the
one that runs; and a load replaces all jobs while registrations and the channel
survive, so that nothing that came before the load may be in the checkpoint. It is
also what keeps the load from changing a finished job into one that runs
(`LoadTerminal`): a job that is known before the load is not in the checkpoint, so
that all the load can do is to forget it.
`OpenSpec` is Control without its bounds on workers: any heartbeat about attempts
that its sender was given, any timeout. `SpecIsOpen` shows that Control is such a
system, and the lemmas `Open...` of this and the next two modules are about all of
them.

**DurabilityProofs** adds two invariants. `QueuedWait` is QueuedIsWaiting and
`FirstLoad`: before the load only submissions under way and the channel are new,
so that the load has room for all it restores, and with room for all no submission is
refused. `Ahead` says that the state of the
process, once loaded, and a snapshot that is being written are no further back
than the checkpoint, which is what makes the next checkpoint no further back.

Then it proves `BackedAll`: in the state, in each snapshot and in the
checkpoint, a completed reduce without an object to promote has a SUCCESS of its
promotion in `results`, a completed job has only such reduces, and an object that
waits for its promotion is that of an attempt with a SUCCESS. The snapshots
are part of it because a restart makes them the state. The last part, `OwnIds`,
says that the next id is larger than any that was handed out, across restarts.

**ServiceProofs** proves the refinement, from `IInv`, `QueuedWait` and `ServiceInv`:
as long as the master has not ended, the jobs that workers know of and that a
result or an eviction can touch have all been started. The steps are those of
`OpenSpec` (`OpenServes`), so that the cluster refines JobService too. Each operator of the
scheduler is shown to leave the client's view alone, to end the running job
(`Ends`) or to start the oldest waiting one (`Starts`). A heartbeat can do both,
since its result ends a job and its reply is about the next: that is JobService's
`Finish` with a successor. With restarts the refinement is false: a job whose
checkpoint is older goes back to waiting.

**PhaseProofs** is about all the interleavings of speculation, late or repeated
results, and either failures or evictions, while the master goes on. Its invariant
is `PhaseInv`. An attempt is still on its task until it is taken to have failed, and
a completed task has an attempt that is reported as successful (`Accounted`);
attempt ids are not used twice (`FreshIds`) and an attempt has one outcome
(`OneOutcome`), so that the failures cannot empty the list of a completed task.
What is taken to have failed (`Presumed`) is what was reported as failed, or, where
no failure is ever reported, every attempt: then an eviction, which takes attempts
off a task that runs, does not break `Accounted`, and no report comes that would
need it. Failures and evictions together do break it, as section 3 says. A
promotion names the object of the winner, and the object is kept until a promotion
of it is reported (`WinnerIsPromoted`). From these, a phase that has ended stays
ended. The lemmas about a heartbeat (`ExchangePhased`) ask of its
result only that a failure agrees with what was heard of the attempt before, and of
the set of results only that it includes those heard; OutputProofs uses them with
another one.

`PhaseIsPromptAlways` needs none of this. Its invariant `OpenPrompt` holds of every
`OpenSpec` without restarts, hence of the cluster too: no phase that a job is in is
without work, and nothing is promoted before the reduce phase (`Timely`); promotions
that were handed out are of jobs past their map phase (`Sent`). Failures and evictions
only put tasks back (`NothingDone`), so that the calls of `advanceJob` which do
something are those that follow a SUCCESS.

**ClusterProofs** is about the workers of the repository. With
`PromptStart`, `OneTask` says that a worker with a goroutine is BUSY or about to be,
and that neither the heartbeat under way nor its reply can bring an assignment; it is
a lemma of the proofs below and no result about the code, which does not give
`PromptStart`.
`ProcessInv` says that each goroutine, `CurrentTask`, `lastResult`, request, reply
and heartbeat that was given up is about attempts which the master gave to that
worker (`Informed`, `Mailbox`), next to the types of all of them. So every step of the cluster is a step of `OpenSpec` or leaves the master alone, and
the results about `OpenSpec` hold of the cluster.

`ClusterImplementsControl` says more: that the reports of an attempt agree, how many
failures there are and how many evictions. It holds with restarts and with evictions
of live workers, and its invariant is `Honest` and `Bounded`. `Honest` adds to the
above

* `Truthful`: of what workers hold, have sent or have delivered (`Said`), no two
  results are about one attempt of a map or reduce, unless they agree; and of an
  attempt that a worker is on, nothing was said yet. A new attempt has a new id
  (`OwnIds`), also after a restart. A promotion has the id of its object, and that
  no result of a map or reduce is about it needs `BackedAll`.
* `Candid`: a heartbeat that says that its sender is idle names no task.

`Bounded` counts evictions: besides `MaxEvictions` of live workers each worker can be
evicted once more, after its death. Failures are counted by name (`FailuresFit`):
an attempt that is reported as failed is one of `Nameable`, the triples of a task,
an id and a worker, so that with every failure that is heard there is one name fewer
to be used. `Control` is instantiated with these two bounds in place of its own. The
prover does not know that the operators of the instance are those of the
module, since two constants differ, so there is a lemma for each that the bounds
play no part in it (`SamePieces` to `SameInit`).

**OutputProofs** is about the cluster while the monitor evicts none but dead
workers (`MaxEvictions = 0` bounds `EvictSlow` only) and the master goes on.
Failures, crashes, lost, late and repeated heartbeats, cancellations and
duplicate attempts are all there. It starts from `Honest`, and the argument has
three more layers.

1. `Course`: the invariant `Phased` of PhaseProofs holds of `Settled`, the results
   that were heard and a FAILED for each attempt which is lost with a worker that
   was evicted. An eviction of a dead worker is then nothing but the news of its
   failures. It does not break `Accounted`, since a dead worker is given nothing
   again and its late heartbeats are refused. From it and `Truthful` follow the three
   theorems about completed tasks and winners.
2. `Gather` and `Kept`: what a reduce has gathered, is told and will be told are
   outputs of its own job for its own partition, and all of them once it is told so
   (`Fits`); this needs that completed map tasks stay at their worker
   (`KeepsDone`), that the channel is drained and that replies and updates go to the
   goroutine they are about (`Follow`). So each object is made of all that it should
   be made of (`MadeOf`), and the output of a partition is there as soon as a
   promotion has had its effect (`Effective`), unless the job was cancelled. A
   deletion is for a cancelled job, and with `OwnPrefixes` only for that job.
   `OutputIsComplete` follows.
3. `Delivers` and `Retry`: a worker that takes a task has delivered its last result
   before, so the news of a removed object stays with the worker until the master
   has heard it. Then the object of a reduce is there, or was promoted, or its
   promotion is about to be reported (`Available`), and `PromotionCanBeRetried`
   follows. The run LostPromotion shows that a crash breaks this.

`OwnPrefixes` says that no two jobs want their output at one place. The code does
not check it; without it a job can overwrite or delete the output of another, and
the property, which names one object for each partition of each job, is false.

**DataPathProofs** needs two hypotheses. `NoSharing`: no two executions
spill on one host. The run Respill shows that it is needed, and the code does not
establish it. `BuildsAgree`: all workers compute the same partition of each key,
and none a negative one. `WideBuildsAgree` proves it for builds whose `int` is
wider than 32 bits; on 32-bit platforms it is false as soon as a hash wraps
around to another partition. The invariant says that a store in use has each line
it took exactly once, in memory or on disk, partition by partition while it spills;
that a line follows another without a newline only if the newline of that one was lost
(`Sound`); and that no line is open but these and the one that is being ended. Disk
errors, at a newline too, are any number.

`KeysAreReducedOnceAlways` goes on with the child. What the reducer prints is a fold
over a sequence, and an induction over the sequence is out of the prover's reach;
but the child reads one line at a time, so that an invariant over its steps takes the
place of the induction. `ChildInv` says that the child has read all lines below the
key that it holds and none above, has counted those with its key, and has printed
each smaller key of the partition once with its number of lines (`CountInv`). A child
whose input has two lines run together never gets past the second one, so that it
uploads nothing. `BuildsAgree` is what
makes the lines of a key meet in one partition.

*Only model-checked*: liveness (`JobsEnd`), which the prover does not know. Of
`ReducingMeansMapped`, `CompletedStays` and `PromotedIsWinner` nothing is left to
TLC, but with both failures and evictions of live workers they are not proved, since
they are false. `OutputIsComplete` is neither checked nor proved
where live workers are evicted. `PromptStart` is an assumption of everything that
is proved about what the workers say. The five runs that end in a violation show
properties that are false.

## 5. Not modelled

* Generated gRPC code, configuration, the command line, child processes and
  compilation: I/O without state of its own. Their failures are modelled
  (`Fail`, `ChildFails`). A compile command that succeeds without writing its
  binary leaves the one of an earlier job (`executor.go:425`); that is up to the
  user's command.
* The validation and the S3 listing in `handleSubmit`, and `handleStatus`: they
  change nothing.
* `medianDuration` and the clock: which tasks are slow is a free choice, so that
  every outcome of the comparison with the median is among the behaviours.
* The 64 KB limit on a line of the scanners (`executor.go:84`, 390): both ends have
  it, and both return the error, which is one of the failures.
* A write that ends in its middle. A line is written or not, and so is a file of a
  spill; in the code a part of either may stay on disk, of a map that fails.
* S3 operations are atomic. A copy or upload that takes effect and reports an
  error is left out, and so is the order in which the deletion of a prefix takes
  its objects. Prefixes are equal or different; one that is the beginning of
  another (`helpers.go:33` compares text) is left out, and so is the parsing of
  URIs.
* The runs give each job an output prefix of its own.

## 6. Plan

Done: all modules of section 2, the runs of section 3, the proofs of section 4.
What would come next:

1. *Proofs*: `OutputIsComplete` where live workers are evicted and nothing fails,
   by the argument of `Presumed`.
2. *Runs* with two jobs that share an output prefix, once the code says what a
   cancelled or repeated job may leave there.
