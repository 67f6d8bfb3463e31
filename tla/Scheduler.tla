----------------------------- MODULE Scheduler -----------------------------
(***************************************************************************)
(* The master's scheduling code, src/internal/master/scheduler.go, as      *)
(* operators on the state it works on while m.mu is held:                  *)
(*    s.jobs    m.jobs; a job that is not in the map has status "Absent"   *)
(*    s.active  m.activeJobID, None when it is ""                          *)
(*    s.queue   the channel m.queue, oldest job first                      *)
(*    s.next    the next attempt id: uuid.NewString() never repeats one    *)
(*                                                                         *)
(* Data that no property tells apart is abstracted.  An attempt is its id  *)
(* and its worker.  A temporary object is the id of the attempt that       *)
(* wrote it (part-<p>-<attempt>.tmp) and NoObject is the empty string.     *)
(* The partition URLs of a map task are those of one worker, so a task     *)
(* keeps that worker (host), and a URL is what its path and its host name. *)
(* Of the completion times only their number matters, up to the two that   *)
(* speculation asks for; which running task is slower than 1.5 medians is  *)
(* the caller's choice (slow).                                             *)
(***************************************************************************)
EXTENDS Integers, Sequences, FiniteSetsExt

CONSTANTS
  Jobs,             \* job ids
  Workers,          \* worker ids
  NumMapTasks,      \* map tasks of a job, one per input object
  NumReduceTasks,   \* reduce tasks of a job, one per partition
  None              \* no job, no worker

ASSUME NumMapTasksAssumption == NumMapTasks \in Nat \ {0}
ASSUME NumReduceTasksAssumption == NumReduceTasks \in Nat \ {0}
ASSUME NoneAssumption == None \notin Jobs /\ None \notin Workers

MapTasks == 1 .. NumMapTasks
Partitions == 0 .. NumReduceTasks - 1

NoObject == 0
AttemptIds == Nat \ {NoObject}
Attempts == [id : AttemptIds, worker : Workers]

TaskStatus == {"Idle", "InProgress", "Completed"}
\* The output of a completed map task is at the worker that reported it.
MapTask == [status : {"Idle", "InProgress"}, attempts : SUBSET Attempts,
            host : Workers \cup {None}]
             \cup [status : {"Completed"}, attempts : SUBSET Attempts,
                   host : Workers]
ReduceTask == [status : TaskStatus, attempts : SUBSET Attempts,
               winner : Nat, temp : Nat]

JobStatus ==
  {"Absent", "Queued", "Mapping", "Reducing", "Completed", "Aborted"}
Job == [status : JobStatus,
        maps : [MapTasks -> MapTask], reduces : [Partitions -> ReduceTask],
        mapTimes : 0 .. 2, reduceTimes : 0 .. 2]

State == [jobs : [Jobs -> Job], active : Jobs \cup {None},
          queue : Seq(Jobs), next : AttemptIds]

\* A job as handleSubmit builds it, and the slot of a job m.jobs lacks.
NewJob ==
  [status |-> "Queued",
   maps |-> [m \in MapTasks |->
              [status |-> "Idle", attempts |-> {}, host |-> None]],
   reduces |-> [p \in Partitions |->
              [status |-> "Idle", attempts |-> {},
               winner |-> NoObject, temp |-> NoObject]],
   mapTimes |-> 0, reduceTimes |-> 0]
NoJob == [NewJob EXCEPT !.status = "Absent"]

-----------------------------------------------------------------------------
(* Attempts of a task                                                      *)

\* A new attempt on an idle task, or a speculative one on a running task.
StartAttempt(task, id, w) ==
  [task EXCEPT !.status = "InProgress",
               !.attempts = @ \cup {[id |-> id, worker |-> w]}]

\* Mutant of DropAttempts: a failure resets the task, whoever is still on it.
DropAttemptsAndReset(task, gone) ==
  [task EXCEPT !.attempts = @ \ gone, !.status = "Idle"]

\* The attempts in gone are over; a task none is left of is idle again.
DropAttempts(task, gone) ==
  [task EXCEPT !.attempts = @ \ gone,
               !.status = IF task.attempts \subseteq gone THEN "Idle" ELSE @]

AttemptsNamed(task, id) == {a \in task.attempts : a.id = id}
AttemptsOf(task, w) == {a \in task.attempts : a.worker = w}

\* len(Attempts) >= 2
Duplicated(task) == \E a, b \in task.attempts : a # b

\* Completion times are counted up to the two that speculation needs, and
\* only when the attempt that completed is still on the task.
CountCompletion(times, task, id) ==
  IF AttemptsNamed(task, id) # {} /\ times < 2 THEN times + 1 ELSE times

-----------------------------------------------------------------------------
(* Job phases                                                              *)

\* Mutant of AllMapped: no map task is left to hand out.
AllMappedOrRunning(job) == \A m \in MapTasks : job.maps[m].status # "Idle"

AllMapped(job) == \A m \in MapTasks : job.maps[m].status = "Completed"
\* Mutant of AllPromoted: the temporary objects are forgotten.
AllReduced(job) == \A p \in Partitions : job.reduces[p].status = "Completed"

AllPromoted(job) ==
  \A p \in Partitions : /\ job.reduces[p].status = "Completed"
                        /\ job.reduces[p].temp = NoObject

AdvanceJob(s, j) ==
  LET job == s.jobs[j] IN
  IF job.status = "Mapping" /\ AllMapped(job)
    THEN [s EXCEPT !.jobs[j].status = "Reducing"]
  ELSE IF job.status = "Reducing" /\ AllPromoted(job)
    THEN [s EXCEPT !.jobs[j].status = "Completed", !.active = None]
  ELSE s

\* Mutants of ActivateNextJob: aborted jobs are not skipped; the newest job
\* comes first.
ActivateEvenAborted(s) ==
  IF s.queue = <<>> THEN s
  ELSE [s EXCEPT !.queue = Tail(@),
                 !.jobs[Head(s.queue)].status = "Mapping",
                 !.active = Head(s.queue)]
ActivateNewestJob(s) ==
  LET runnable == {i \in 1 .. Len(s.queue) :
                     s.jobs[s.queue[i]].status \notin {"Absent", "Aborted"}}
      last == Max(runnable)
      j == s.queue[last]
  IN IF runnable = {} THEN [s EXCEPT !.queue = <<>>]
     ELSE [s EXCEPT !.queue = SubSeq(@, 1, last - 1),
                    !.jobs[j].status = "Mapping",
                    !.active = j]

\* Pops the queue up to the first job that is neither gone nor aborted.
ActivateNextJob(s) ==
  LET runnable == {i \in 1 .. Len(s.queue) :
                     s.jobs[s.queue[i]].status \notin {"Absent", "Aborted"}}
      first == Min(runnable)
      j == s.queue[first]
  IN IF runnable = {} THEN [s EXCEPT !.queue = <<>>]
     ELSE [s EXCEPT !.queue = SubSeq(@, first + 1, Len(@)),
                    !.jobs[j].status = "Mapping",
                    !.active = j]

-----------------------------------------------------------------------------
(* Assignments.  Each operator returns the state it leaves and the set     *)
(* given of assignments it hands out, which has at most one element.       *)

Nothing(s) == [s |-> s, given |-> {}]

\* What names an assignment: its task and attempt (for a promotion, the object
\* it promotes), and the worker it went to.  All of it ends up in one result.
Outcomes == {"SUCCESS", "FAILED"}
Issues == [phase : {"map"}, job : Jobs, task : MapTasks,
           id : AttemptIds, worker : Workers]
            \cup [phase : {"reduce", "promotion"}, job : Jobs,
                  task : Partitions, id : AttemptIds, worker : Workers]
Issue(a, w) == [phase |-> a.phase, job |-> a.job, task |-> a.task,
                id |-> a.id, worker |-> w]

\* The URL of partition p of what map task m of job j has left at worker w.
URLs == [job : Jobs, task : MapTasks, partition : Partitions, worker : Workers]
URL(j, m, p, w) == [job |-> j, task |-> m, partition |-> p, worker |-> w]

CollectPartitionURLs(js, j, p) ==
  {URL(j, m, p, js[j].maps[m].host) :
     m \in {t \in MapTasks : js[j].maps[t].status = "Completed"}}

\* slow is a set of the tasks that have run for longer than the threshold.
IdleMaps(job) == {m \in MapTasks : job.maps[m].status = "Idle"}
\* Mutant of SlowMaps: tasks that already have a second attempt are not left out.
SlowMapsEvenIfDuplicated(job, slow) ==
  {m \in MapTasks : /\ <<"map", m>> \in slow
                    /\ job.maps[m].status = "InProgress"
                    /\ job.mapTimes >= 2}

SlowMaps(job, slow) ==
  {m \in MapTasks : /\ <<"map", m>> \in slow
                    /\ job.maps[m].status = "InProgress"
                    /\ ~Duplicated(job.maps[m])
                    /\ job.mapTimes >= 2}

IdleReduces(job) == {p \in Partitions : job.reduces[p].status = "Idle"}
SlowReduces(job, slow) ==
  {p \in Partitions : /\ <<"reduce", p>> \in slow
                      /\ job.reduces[p].status = "InProgress"
                      /\ ~Duplicated(job.reduces[p])
                      /\ job.reduceTimes >= 2}

GiveMap(s, j, m, w) ==
  [s |-> [s EXCEPT !.jobs[j].maps[m] = StartAttempt(@, s.next, w),
                   !.next = @ + 1],
   given |-> {[phase |-> "map", job |-> j, task |-> m, id |-> s.next,
               urls |-> {}, allMaps |-> FALSE]}]

GiveReduce(s, j, p, w) ==
  [s |-> [s EXCEPT !.jobs[j].reduces[p] = StartAttempt(@, s.next, w),
                   !.next = @ + 1],
   given |-> {[phase |-> "reduce", job |-> j, task |-> p, id |-> s.next,
               urls |-> CollectPartitionURLs(s.jobs, j, p),
               allMaps |-> s.jobs[j].status = "Reducing"]}]

AssignReduceTask(s, j, w, slow) ==
  LET idle == IdleReduces(s.jobs[j])
      late == SlowReduces(s.jobs[j], slow)
  IN IF idle # {} THEN GiveReduce(s, j, Min(idle), w)
     ELSE IF late # {} THEN GiveReduce(s, j, Min(late), w)
     ELSE Nothing(AdvanceJob(s, j))

AssignMapTask(s, j, w, slow) ==
  LET idle == IdleMaps(s.jobs[j])
      late == SlowMaps(s.jobs[j], slow)
      advanced == AdvanceJob(s, j)
  IN IF idle # {} THEN GiveMap(s, j, Min(idle), w)
     ELSE IF late # {} THEN GiveMap(s, j, Min(late), w)
     ELSE IF advanced.jobs[j].status = "Reducing"
            THEN AssignReduceTask(advanced, j, w, slow)
     ELSE Nothing(advanced)

\* A promotion leaves no trace in the master until its result arrives: every
\* idle heartbeat is given the same one.  id is the object to promote.
\* Mutant of PromotableTasks: no look at whether there is an object to promote.
FinishedReduces(job) == {p \in Partitions : job.reduces[p].status = "Completed"}

PromotableTasks(job) ==
  {p \in Partitions : /\ job.reduces[p].status = "Completed"
                      /\ job.reduces[p].temp # NoObject}

AssignPromotionTask(s, j) ==
  LET p == Min(PromotableTasks(s.jobs[j])) IN
  [s |-> s,
   given |-> IF PromotableTasks(s.jobs[j]) = {} THEN {}
             ELSE {[phase |-> "promotion", job |-> j, task |-> p,
                    id |-> s.jobs[j].reduces[p].temp,
                    urls |-> {}, allMaps |-> FALSE]}]

AnyMapTaskCompleted(job) ==
  \E m \in MapTasks : job.maps[m].status = "Completed"

\* The switch of assignTask, for an active job j.
AssignFromJob(s, j, w, slow) ==
  LET mapping == AssignMapTask(s, j, w, slow)
      promotion == AssignPromotionTask(s, j)
  IN CASE s.jobs[j].status = "Mapping" ->
            IF mapping.given = {} /\ AnyMapTaskCompleted(s.jobs[j])
              THEN AssignReduceTask(mapping.s, j, w, slow)
              ELSE mapping
       [] s.jobs[j].status = "Reducing" ->
            IF promotion.given = {} THEN AssignReduceTask(s, j, w, slow)
                                    ELSE promotion
       [] OTHER -> Nothing([s EXCEPT !.active = None])

AssignTask(s, w, slow) ==
  LET ready == IF s.active = None THEN ActivateNextJob(s) ELSE s IN
  IF ready.active = None THEN Nothing(ready)
  ELSE AssignFromJob(ready, ready.active, w, slow)

-----------------------------------------------------------------------------
(* Results.  r names the task, the attempt (for a promotion the object it  *)
(* promoted) and the outcome; w is the worker that reports it.  No worker  *)
(* ever reports TASK_RESULT_STATE_ABORTED, which the master ignores.       *)

\* Mutant of ProcessMapResult: the phase is left for an idle worker to advance.
ProcessMapResultOnly(s, w, r) ==
  LET task == s.jobs[r.job].maps[r.task] IN
  IF r.outcome = "FAILED"
    THEN [s EXCEPT !.jobs[r.job].maps[r.task] =
                      DropAttempts(@, AttemptsNamed(@, r.id))]
  ELSE IF task.status = "Completed" THEN s
  ELSE [s EXCEPT !.jobs[r.job].maps[r.task] =
                    [@ EXCEPT !.status = "Completed", !.host = w],
                 !.jobs[r.job].mapTimes = CountCompletion(@, task, r.id)]

ProcessMapResult(s, w, r) ==
  LET task == s.jobs[r.job].maps[r.task] IN
  IF r.outcome = "FAILED"
    THEN [s EXCEPT !.jobs[r.job].maps[r.task] =
                      DropAttempts(@, AttemptsNamed(@, r.id))]
  ELSE IF task.status = "Completed" THEN s
  ELSE AdvanceJob(
         [s EXCEPT !.jobs[r.job].maps[r.task] =
                      [@ EXCEPT !.status = "Completed", !.host = w],
                   !.jobs[r.job].mapTimes = CountCompletion(@, task, r.id)],
         r.job)

\* Mutant of ProcessReduceResult: the last result wins, not the first.
LastReduceResultWins(s, r) ==
  IF r.outcome = "FAILED"
    THEN [s EXCEPT !.jobs[r.job].reduces[r.task] =
                      DropAttempts(@, AttemptsNamed(@, r.id))]
  ELSE AdvanceJob(
         [s EXCEPT !.jobs[r.job].reduces[r.task] =
                      [@ EXCEPT !.status = "Completed",
                                !.winner = r.id, !.temp = r.id]],
         r.job)

ProcessReduceResult(s, r) ==
  LET task == s.jobs[r.job].reduces[r.task] IN
  IF r.outcome = "FAILED"
    THEN [s EXCEPT !.jobs[r.job].reduces[r.task] =
                      DropAttempts(@, AttemptsNamed(@, r.id))]
  ELSE IF task.status = "Completed" THEN s
  ELSE AdvanceJob(
         [s EXCEPT !.jobs[r.job].reduces[r.task] =
                      [@ EXCEPT !.status = "Completed",
                                !.winner = r.id, !.temp = r.id],
                   !.jobs[r.job].reduceTimes = CountCompletion(@, task, r.id)],
         r.job)

\* A failed promotion changes nothing: the next idle worker is given it again.
ProcessPromotionResult(s, r) ==
  IF r.outcome = "FAILED" THEN s
  ELSE AdvanceJob([s EXCEPT !.jobs[r.job].reduces[r.task].temp = NoObject],
                  r.job)

ProcessResult(s, w, r) ==
  IF s.jobs[r.job].status \in {"Absent", "Aborted", "Completed"} THEN s
  ELSE CASE r.phase = "map" -> ProcessMapResult(s, w, r)
         [] r.phase = "reduce" -> ProcessReduceResult(s, r)
         [] r.phase = "promotion" -> ProcessPromotionResult(s, r)

-----------------------------------------------------------------------------
(* Eviction (resetWorkerTasksLocked): only the task named by the last      *)
(* heartbeat of w, ref, is looked at.                                      *)

ReleaseTask(task, w) ==
  IF task.status = "InProgress" /\ AttemptsOf(task, w) # {}
    THEN DropAttempts(task, AttemptsOf(task, w))
    ELSE task

ResetWorkerTasks(s, w, ref) ==
  IF \/ ref = None
     \/ s.jobs[ref.job].status \in {"Absent", "Aborted", "Completed"}
    THEN s
  ELSE CASE ref.phase = "map" ->
              [s EXCEPT !.jobs[ref.job].maps[ref.task] = ReleaseTask(@, w)]
         [] ref.phase = "reduce" ->
              [s EXCEPT !.jobs[ref.job].reduces[ref.task] = ReleaseTask(@, w)]
         [] OTHER -> s

-----------------------------------------------------------------------------
(* What the code relies on without checking it, stated of one task, of a   *)
(* queue and of a whole scheduling state                                   *)

\* A running task has one or two attempts and an idle one none.
TaskIsSound(task) ==
  /\ task.status = "Idle" => task.attempts = {}
  /\ task.status = "InProgress" => task.attempts # {}
  /\ \A a, b, c \in task.attempts : a = b \/ a = c \/ b = c

JobIsSound(job) == /\ \A m \in MapTasks : TaskIsSound(job.maps[m])
                   /\ \A p \in Partitions : TaskIsSound(job.reduces[p])

NotStarted(job) == job.status \in {"Absent", "Queued", "Aborted"}
Running(job) == job.status \in {"Mapping", "Reducing"}

OneRuns(js, a) == \A j \in Jobs : Running(js[j]) <=> a = j

\* The queue names a job once, and never one that was started.
QueueSound(q, js) ==
  /\ \A i, k \in 1 .. Len(q) : q[i] = q[k] => i = k
  /\ \A i \in 1 .. Len(q) : NotStarted(js[q[i]])

Members(q) == {q[i] : i \in 1 .. Len(q)}

=============================================================================
