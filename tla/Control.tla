------------------------------ MODULE Control ------------------------------
(***************************************************************************)
(* The master among clients and workers it cannot trust: the control plane *)
(* of the system.  A worker is what its heartbeats say.  It can fall       *)
(* silent for ever (a crash, a lost reply) or for longer than the timeout, *)
(* and every result can arrive late, again (a heartbeat whose reply is     *)
(* lost is repeated), after its sender was evicted, or never.              *)
(***************************************************************************)
EXTENDS Master

CONSTANTS
  MaxFailures,    \* bound on the attempts that fail
  MaxAttempts,    \* bound on the attempts that are started
  MaxEvictions,   \* bound on timeouts
  MaxRestarts,    \* bound on ends of the master, crashes and exits
  MaxExits,       \* bound on the exits among them
  MaxBadLoads,    \* bound on checkpoints it cannot read
  MaxSnapshots    \* bound on checkpoints it takes

VARIABLES
  issued,         \* the assignments handed out, with the worker they went to
  results,        \* the results that were reported
  evictions, crashes, exits, badLoads, snapshots  \* counters for the bounds

netVars == <<issued, results>>
bounds == <<evictions, crashes, exits, badLoads, snapshots>>
vars == <<masterVars, netVars, bounds>>

ControlTypeOK == /\ issued \subseteq Issues
                 /\ results \subseteq issued \X Outcomes
                 /\ evictions \in Nat
                 /\ crashes \in Nat
                 /\ exits \in Nat
                 /\ badLoads \in Nat
                 /\ snapshots \in Nat

TypeOK == MasterTypeOK /\ ControlTypeOK

Init == /\ MasterInit
        /\ issued = {}
        /\ results = {}
        /\ evictions = 0
        /\ crashes = 0
        /\ exits = 0
        /\ badLoads = 0
        /\ snapshots = 0

-----------------------------------------------------------------------------
Ref(i) == [job |-> i.job, phase |-> i.phase, task |-> i.task]
Result(i, outcome) == [job |-> i.job, phase |-> i.phase, task |-> i.task,
                       id |-> i.id, outcome |-> outcome]

\* An attempt has one result for good; a promotion can be tried again.
CanReport(i, outcome) ==
  /\ i.phase # "promotion" =>
       \A r \in results : r[1] = i => r[2] = outcome
  /\ outcome = "FAILED" =>
       \/ <<i, outcome>> \in results
       \/ Cardinality({r \in results : r[2] = outcome}) < MaxFailures

\* The sets of tasks that may count as slow: one at most is enough, for a
\* heartbeat hands out at most one attempt.
SlowChoices == {{}} \cup {{<<"map", m>>} : m \in MapTasks}
                    \cup {{<<"reduce", p>>} : p \in Partitions}

\* A heartbeat of w, on task i or on none, with the result of an attempt or
\* without one.  The assignment of its reply reaches w or is lost.
Exchange(w, idle, i, report, result, slow) ==
  /\ Heartbeat(w, idle, IF i = None THEN None ELSE Ref(i), result, slow)
  /\ nextAttempt' <= MaxAttempts + 1
  /\ issued' = issued \cup
       {Issue(a, w) : a \in Heard(w, idle, result, slow).given}
  /\ results' = results \cup report
  /\ UNCHANGED bounds

\* An idle worker is on no task.  A busy one is on any task that it was given,
\* also on one that has ended, for a heartbeat can be late, or on none yet.
Given(w) == {i \in issued : i.worker = w}

IdleHeartbeat(w) ==
  \E slow \in SlowChoices : Exchange(w, TRUE, None, {}, None, slow)

BusyHeartbeat(w) ==
  \E i \in Given(w) \cup {None} : Exchange(w, FALSE, i, {}, None, {})

\* The heartbeats after an attempt, which have its result on board.
IdleReport(w) ==
  \E k \in Given(w), outcome \in Outcomes, slow \in SlowChoices :
    /\ CanReport(k, outcome)
    /\ Exchange(w, TRUE, None, {<<k, outcome>>}, Result(k, outcome), slow)

BusyReport(w) ==
  \E k \in Given(w), outcome \in Outcomes, i \in Given(w) \cup {None} :
    /\ CanReport(k, outcome)
    /\ Exchange(w, FALSE, i, {<<k, outcome>>}, Result(k, outcome), {})

-----------------------------------------------------------------------------
Register(w) == RegisterWorker(w) /\ UNCHANGED <<netVars, bounds>>

Expire(w) == /\ Evict(w)
             /\ evictions' = evictions + 1
             /\ UNCHANGED <<netVars, crashes, exits, badLoads, snapshots>>
Timeout(w) == evictions < MaxEvictions /\ Expire(w)

Client == /\ \E j \in Jobs : \/ SubmitRegister(j)
                            \/ SubmitEnqueue(j)
                            \/ SubmitReject(j)
                            \/ Delete(j)
          /\ UNCHANGED <<netVars, bounds>>

TakeSnapshot == /\ snapshots < MaxSnapshots
                /\ Snapshot
                /\ snapshots' = snapshots + 1
                /\ UNCHANGED <<netVars, evictions, crashes, exits, badLoads>>

Storage == /\ WriteCheckpoint \/ LoadCheckpoint \/ FinalSnapshot
           /\ UNCHANGED <<netVars, bounds>>

BadLoad == /\ badLoads < MaxBadLoads
           /\ LoadFails
           /\ badLoads' = badLoads + 1
           /\ UNCHANGED <<netVars, evictions, crashes, exits, snapshots>>

Interrupt == /\ exits < MaxExits
             /\ crashes + exits < MaxRestarts
             /\ Signal
             /\ UNCHANGED <<netVars, bounds>>

Restart == /\ crashes + exits < MaxRestarts
           /\ \/ Crash /\ crashes' = crashes + 1 /\ UNCHANGED exits
              \/ Exit /\ exits' = exits + 1 /\ UNCHANGED crashes
           /\ UNCHANGED <<netVars, evictions, badLoads, snapshots>>

Next == \/ \E w \in Workers : \/ Register(w)
                              \/ IdleHeartbeat(w)
                              \/ BusyHeartbeat(w)
                              \/ IdleReport(w)
                              \/ BusyReport(w)
                              \/ Timeout(w)
        \/ Client
        \/ TakeSnapshot
        \/ Storage
        \/ BadLoad
        \/ Interrupt
        \/ Restart

Spec == Init /\ [][Next]_vars

-----------------------------------------------------------------------------
(* Properties that hold whatever workers, clients and S3 do                *)

\* The job that m.activeJobID names, and no other, is being mapped or reduced:
\* assignTask never meets its default case, and never a job that is not there.
OneJobRuns == OneRuns(jobs, active)

\* A running task has one or two attempts and an idle one none, so that
\* Attempts[0] exists where speculation reads it without a check and no task
\* gets a third attempt.
AttemptsMatchStatus == \A j \in Jobs : JobIsSound(jobs[j])

\* A job that is reported as Completed has the output of every partition: a
\* worker promoted it, before or after a crash of the master.
CompletedWasPromoted ==
  \A j \in Jobs : jobs[j].status = "Completed" =>
    \A p \in Partitions :
      /\ jobs[j].reduces[p].status = "Completed"
      /\ \E r \in results : /\ r[1].phase = "promotion"
                            /\ r[1].job = j
                            /\ r[1].task = p
                            /\ r[2] = "SUCCESS"

\* The queue names a job once, and never one that has been started: no job
\* can be activated a second time.
QueueIsSound == QueueSound(queue, jobs)

\* Job ids are used once, across restarts: a submission that is under way is
\* nowhere else, and nothing that came before the load is in the checkpoint
\* that is about to replace it.
Known(js) == {j \in Jobs : js[j].status # "Absent"}
SubmissionsAreSound ==
  /\ \A js \in {jobs} \cup {c.jobs : c \in saving \cup checkpoint} :
       Known(js) \subseteq submitted
  /\ Members(queue) \subseteq submitted
  /\ \A j \in pending : j \notin Members(queue) /\ NotStarted(jobs[j])
  /\ ~loaded => /\ saving = {}
                /\ \A c \in checkpoint :
                     Known(c.jobs) \cap
                       (Known(jobs) \cup pending \cup Members(queue)) = {}

\* While the process lives, nothing wakes a finished or cancelled job up: no
\* late result, no eviction, and not the checkpoint that is loaded while clients
\* are served.  All that can happen to it is that it disappears from m.jobs: when
\* its submission is rejected, or when it is of before the load, which replaces
\* m.jobs.
TerminalIsFinal ==
  [][\A j \in Jobs : jobs[j].status \in {"Completed", "Aborted"} =>
       \/ jobs'[j].status = jobs[j].status
       \/ /\ jobs'[j].status = "Absent"
          /\ j \in refused \/ loaded' # loaded
       \/ crashes' # crashes
       \/ exits' # exits]_vars

\* From one checkpoint to the next no job goes back, whatever was under way
\* when either was taken and however the master ended in between: nothing that
\* was started starts over, and what is finished is finished.  No job
\* disappears either, unless a full queue has rejected it.  This needs every
\* load to have succeeded: a master that starts fresh overwrites the checkpoint
\* it could not read.
EnoughRoom == Cardinality(Jobs) <= QueueCap
Later(status) ==
  CASE status = "Mapping" -> {"Mapping", "Reducing", "Completed", "Aborted"}
    [] status = "Reducing" -> {"Reducing", "Completed", "Aborted"}
    [] status = "Completed" -> {"Completed"}
    [] status = "Aborted" -> {"Aborted", "Absent"}
    [] OTHER -> JobStatus
Follows(new, old) == /\ \A j \in Jobs : new[j].status \in Later(old[j].status)
                     /\ EnoughRoom => Known(old) \subseteq Known(new)
CheckpointMovesForward ==
  [][\A old \in checkpoint, new \in checkpoint' :
       badLoads' = 0 => Follows(new.jobs, old.jobs)]_vars

\* A job that waits is in the queue, or its submission is still under way: the
\* load of a checkpoint puts every such job back, if the queue has the room.
QueuedIsWaiting ==
  EnoughRoom \/ crashes + exits = 0 =>
    \A j \in Jobs : jobs[j].status = "Queued" =>
      j \in pending \cup Members(queue)

-----------------------------------------------------------------------------
(* Properties that need some luck: no eviction, or no crash                *)

\* The phase changes with the result that ends it: a job never waits in a phase
\* that has no work left for the next idle worker to notice it.  (A master that
\* restored an old checkpoint can hear of promotions in the map phase; then the
\* call of advanceJob in assignReduceTask ends the job.)
PhaseIsPrompt ==
  \A j \in Jobs : /\ jobs[j].status = "Mapping" => ~AllMapped(jobs[j])
                  /\ jobs[j].status = "Reducing" => ~AllPromoted(jobs[j])

\* In the reduce phase every map task has its output: the URLs a reduce
\* collects once it knows that all maps are complete are all of them.
ReducingMeansMapped ==
  \A j \in Jobs : jobs[j].status = "Reducing" => AllMapped(jobs[j])

\* "Whichever worker completes the task first wins, and late results from
\* duplicate attempts are safely ignored" (docs/design.md:110): no result makes
\* a completed task run again.
CompletedStays ==
  [][\A j \in Jobs : UNCHANGED <<crashes, exits, loaded>> =>
       /\ \A m \in MapTasks : jobs[j].maps[m].status = "Completed"
            => jobs'[j].maps[m].status = "Completed"
       /\ \A p \in Partitions : jobs[j].reduces[p].status = "Completed"
            => jobs'[j].reduces[p].status = "Completed"]_vars

\* The object promoted to the final name is the one of the winning attempt.
PromotedIsWinner ==
  \A j \in Jobs : jobs[j].status = "Completed" =>
    \A p \in Partitions :
      \E r \in results : /\ r[1].phase = "promotion"
                         /\ r[1].job = j
                         /\ r[1].task = p
                         /\ r[1].id = jobs[j].reduces[p].winner
                         /\ r[2] = "SUCCESS"

-----------------------------------------------------------------------------
(* What the documentation promises and the code does not do                *)

\* "The worker is marked as dead.  Any in-progress tasks are reset to idle and
\* reassigned" (docs/design.md:106): no running task is left to workers that
\* are not registered any more.
NoOrphans ==
  \A j \in Jobs : Running(jobs[j]) =>
    \A task \in {jobs[j].maps[m] : m \in MapTasks}
                  \cup {jobs[j].reduces[p] : p \in Partitions} :
      task.status = "InProgress" =>
        \E a \in task.attempts : a.worker \in registered

=============================================================================
