---------------------------- MODULE ControlProofs ----------------------------
(***************************************************************************)
(* Proofs about Control, for all jobs, workers, task counts, capacities    *)
(* and bounds: its types, one job at a time, attempts that match the       *)
(* status of their task, and a queue without repetitions.                  *)
(***************************************************************************)
EXTENDS Control, SchedulerProofs

\* A snapshot must be as sound as the state it was taken from: it becomes the
\* state again when it is loaded.
SnapshotsSound ==
  \A c \in saving \cup checkpoint :
    OneRuns(c.jobs, c.active) /\ \A j \in Jobs : JobIsSound(c.jobs[j])

\* The inductive invariant.  Rejecting a submission removes its job, and a load
\* replaces every job: neither may touch the job that runs, which is what
\* SubmissionsAreSound is for.
IInv == TypeOK /\ Sound(Current) /\ SnapshotsSound /\ SubmissionsAreSound

LEMMA CurrentLemma ==
  ASSUME NEW t \in State, Become(t)
  PROVE  Current' = t
BY DEF Become, Current, State

LEMMA NewJobLemma ==
  /\ NewJob \in Job /\ JobIsSound(NewJob) /\ NewJob.status = "Queued"
  /\ NoJob \in Job /\ JobIsSound(NoJob) /\ NoJob.status = "Absent"
<1>1. NewJob \in Job
  BY DEF NewJob, Job, JobStatus, MapTask, ReduceTask, TaskStatus, NoObject
<1>2. JobIsSound(NewJob) /\ NewJob.status = "Queued"
  BY DEF NewJob, JobIsSound, TaskIsSound
<1>3. NoJob \in Job
  BY <1>1 DEF NoJob, Job, JobStatus
<1>4. JobIsSound(NoJob) /\ NoJob.status = "Absent"
  BY <1>1, <1>2 DEF NoJob, Job, JobIsSound
<1> QED BY <1>1, <1>2, <1>3, <1>4

LEMMA FreshLemma ==
  ASSUME NEW next \in AttemptIds
  PROVE  Sound(Fresh(next))
<1> DEFINE t == Fresh(next)
<1>1. t \in State
  <2>1. <<>> \in Seq(Jobs)
    OBVIOUS
  <2> QED BY <2>1, NewJobLemma DEF Fresh, State
<1>2. \A j \in Jobs : JobIsSound(t.jobs[j]) /\ t.jobs[j].status = "Absent"
  BY NewJobLemma DEF Fresh
<1>3. t.active = None /\ t.queue = <<>>
  BY DEF Fresh
<1>4. OneRuns(t.jobs, t.active)
  BY <1>2, <1>3, NoneAssumption DEF OneRuns, Running
<1>5. QueueSound(t.queue, t.jobs)
  BY <1>3 DEF QueueSound
<1> QED BY <1>1, <1>2, <1>4, <1>5 DEF Sound

-----------------------------------------------------------------------------
(* What the proofs need of a step: workers can say anything about what     *)
(* they were given, and be late as often as they like.                     *)

OpenHeartbeat(w) ==
  \E idle \in BOOLEAN, i \in Given(w) \cup {None}, slow \in SlowChoices :
    \/ Exchange(w, idle, i, {}, None, slow)
    \/ \E k \in Given(w), outcome \in Outcomes :
         Exchange(w, idle, i, {<<k, outcome>>}, Result(k, outcome), slow)

OpenNext == \/ \E w \in Workers : \/ Register(w)
                                  \/ OpenHeartbeat(w)
                                  \/ Expire(w)
            \/ Client
            \/ TakeSnapshot
            \/ Storage
            \/ BadLoad
            \/ Interrupt
            \/ Restart

OpenSpec == Init /\ [][OpenNext]_vars

LEMMA NextIsOpen == Next => OpenNext
<1>1. {} \in SlowChoices /\ TRUE \in BOOLEAN /\ FALSE \in BOOLEAN
  BY DEF SlowChoices
<1>2. ASSUME NEW w \in Workers,
             \/ IdleHeartbeat(w) \/ BusyHeartbeat(w)
             \/ IdleReport(w) \/ BusyReport(w)
      PROVE  OpenHeartbeat(w)
  <2>1. CASE IdleHeartbeat(w)
    BY <1>1, <2>1, Zenon DEF IdleHeartbeat, OpenHeartbeat
  <2>2. CASE BusyHeartbeat(w)
    BY <1>1, <2>2, Zenon DEF BusyHeartbeat, OpenHeartbeat
  <2>3. CASE IdleReport(w)
    BY <1>1, <2>3, Zenon DEF IdleReport, OpenHeartbeat
  <2>4. CASE BusyReport(w)
    BY <1>1, <2>4, Zenon DEF BusyReport, OpenHeartbeat
  <2> QED BY <1>2, <2>1, <2>2, <2>3, <2>4
<1> QED BY <1>2 DEF Next, OpenNext, Timeout

\* The theorems below are proved of OpenSpec first, which has none of the bounds
\* on workers: it also holds of the real ones (ClusterProofs), whose heartbeats
\* the handlers take as they come (control.go:76-123).
THEOREM SpecIsOpen == Spec => OpenSpec
BY NextIsOpen, PTL DEF Spec, OpenSpec

-----------------------------------------------------------------------------
(* Steps of the scheduler: heartbeats and evictions                        *)

LEMMA SchedulerStep ==
  ASSUME IInv, NEW t, Sound(t), Evolves(Current, t), Become(t),
         UNCHANGED <<submitVars, checkpointVars>>
  PROVE  /\ Current' \in State
         /\ Sound(Current)'
         /\ SnapshotsSound'
         /\ SubmissionsAreSound'
<1>1. Current' = t
  BY CurrentLemma DEF Sound
<1>2. Sound(Current)' /\ Current' \in State
  BY <1>1 DEF Sound
<1>3. UNCHANGED <<pending, submitted, loaded, saving, checkpoint>>
  BY DEF submitVars, checkpointVars
<1>4. SnapshotsSound'
  BY <1>3 DEF IInv, SnapshotsSound
<1>5. /\ \A j \in Jobs : jobs'[j].status = "Absent" <=> jobs[j].status = "Absent"
      /\ Members(queue') \subseteq Members(queue)
      /\ \A j \in Jobs : NotStarted(jobs[j]) =>
           NotStarted(jobs'[j]) \/ j \in Members(queue)
  BY DEF Evolves, Current, Become
<1>6. Known(jobs') = Known(jobs)
  BY <1>5 DEF Known
<1>7. pending \subseteq Jobs
  BY DEF IInv, TypeOK, MasterTypeOK
<1>8. SubmissionsAreSound'
  BY <1>3, <1>5, <1>6, <1>7 DEF IInv, SubmissionsAreSound
<1> QED BY <1>2, <1>4, <1>8

LEMMA HeardLemma ==
  ASSUME IInv, NEW w \in Workers, NEW idle \in BOOLEAN, NEW slow, NEW result,
         result = None \/ (NamesTask(result) /\ result.id \in AttemptIds)
  PROVE  LET h == Heard(w, idle, result, slow) IN
         /\ Sound(h.s) /\ Evolves(Current, h.s)
         /\ \A a \in h.given :
              /\ NamesTask(a) /\ a.id \in AttemptIds
              /\ a.urls \subseteq URLs
<1> DEFINE processed == IF result = None THEN Current
                        ELSE ProcessResult(Current, w, result)
<1>1. Sound(processed) /\ Evolves(Current, processed)
  BY ProcessResultSound, EvolvesReflexive DEF IInv
<1>2. Heard(w, idle, result, slow) =
        IF idle THEN AssignTask(processed, w, slow) ELSE Nothing(processed)
  BY DEF Heard
<1> HIDE DEF processed
<1>3. LET t == AssignTask(processed, w, slow).s IN
      Sound(t) /\ Evolves(Current, t)
  BY <1>1, AssignTaskSound, EvolvesTransitive
<1>4. CASE idle
  BY <1>1, <1>2, <1>3, <1>4, GivenNamesTask
<1>5. CASE ~idle
  BY <1>1, <1>2, <1>5 DEF Nothing
<1> QED BY <1>4, <1>5

LEMMA InitSound == Init => IInv
<1> SUFFICES ASSUME Init PROVE IInv
  OBVIOUS
<1>1. 1 \in AttemptIds
  BY DEF AttemptIds, NoObject
<1>2. Current = Fresh(1)
  BY DEF Init, MasterInit, Current, Fresh
<1>3. Sound(Current) /\ Current \in State
  BY <1>1, <1>2, FreshLemma DEF Sound
<1>4. /\ registered = {} /\ pending = {} /\ refused = {} /\ submitted = {}
      /\ saving = {} /\ checkpoint = {} /\ loaded = ~Checkpointing
      /\ currentTask = [w \in Workers |-> None]
      /\ issued = {} /\ results = {}
      /\ evictions = 0 /\ crashes = 0 /\ exits = 0
      /\ badLoads = 0 /\ snapshots = 0 /\ shutdown = "none"
  BY DEF Init, MasterInit
<1>5. TypeOK
  BY <1>3, <1>4, CheckpointingAssumption
     DEF TypeOK, MasterTypeOK, ControlTypeOK, ShutdownStages
<1>6. SnapshotsSound
  BY <1>4 DEF SnapshotsSound
<1>7. Known(jobs) = {} /\ Members(queue) = {}
  BY NewJobLemma DEF Init, MasterInit, Fresh, Known, Members
<1>8. SubmissionsAreSound
  BY <1>4, <1>7 DEF SubmissionsAreSound
<1> QED BY <1>3, <1>5, <1>6, <1>8 DEF IInv

-----------------------------------------------------------------------------
(* Workers                                                                 *)

\* What is issued can be named, and reported.
LEMMA IssuesLemma ==
  ASSUME NEW i \in Issues
  PROVE  /\ Ref(i) \in TaskRefs
         /\ i.id \in AttemptIds
         /\ \A o : NamesTask(Result(i, o)) /\ Result(i, o).id \in AttemptIds
BY DEF Issues, Ref, TaskRefs, Result, NamesTask

LEMMA NewIssuesLemma ==
  ASSUME NEW a, NamesTask(a), a.id \in AttemptIds, NEW w \in Workers
  PROVE  Issue(a, w) \in Issues
BY DEF Issues, Issue, NamesTask

LEMMA ExchangeSound ==
  ASSUME IInv, NEW w \in Workers, NEW idle \in BOOLEAN, NEW slow, NEW i,
         i = None \/ i \in issued,
         NEW report, NEW result,
         \/ report = {} /\ result = None
         \/ \E k \in issued, o \in Outcomes :
              report = {<<k, o>>} /\ result = Result(k, o),
         Exchange(w, idle, i, report, result, slow)
  PROVE  IInv'
<1> DEFINE h == Heard(w, idle, result, slow)
           ref == IF i = None THEN None ELSE Ref(i)
<1>1. /\ issued \subseteq Issues /\ results \subseteq issued \X Outcomes
      /\ evictions \in Nat /\ crashes \in Nat /\ exits \in Nat
      /\ badLoads \in Nat /\ snapshots \in Nat
      /\ registered \subseteq Workers
      /\ currentTask \in [Workers -> TaskRefs \cup {None}]
  BY DEF IInv, TypeOK, MasterTypeOK, ControlTypeOK
<1>2. result = None \/ (NamesTask(result) /\ result.id \in AttemptIds)
  <2>1. ASSUME NEW k \in issued, NEW o, result = Result(k, o)
        PROVE  NamesTask(result) /\ result.id \in AttemptIds
    <3>1. k \in Issues
      BY <1>1
    <3>2. NamesTask(Result(k, o)) /\ Result(k, o).id \in AttemptIds
      BY <3>1, IssuesLemma, Zenon
    <3> QED BY <2>1, <3>2, Zenon
  <2> QED BY <2>1
<1>3. /\ Sound(h.s) /\ Evolves(Current, h.s)
      /\ \A a \in h.given : NamesTask(a) /\ a.id \in AttemptIds
  BY <1>2, HeardLemma
<1> HIDE DEF h
<1>4. /\ Become(h.s)
      /\ currentTask' = [currentTask EXCEPT ![w] = ref]
      /\ UNCHANGED <<registered, submitVars, checkpointVars>>
      /\ issued' = issued \cup {Issue(a, w) : a \in h.given}
      /\ results' = results \cup report
      /\ UNCHANGED bounds
  BY DEF h, Exchange, Heartbeat
<1>5. /\ Current' \in State /\ Sound(Current)'
      /\ SnapshotsSound' /\ SubmissionsAreSound'
  BY <1>3, <1>4, SchedulerStep
<1>6. ref \in TaskRefs \cup {None}
  BY <1>1, IssuesLemma
<1>7. currentTask' \in [Workers -> TaskRefs \cup {None}]
  BY <1>1, <1>4, <1>6
<1>8. MasterTypeOK'
  BY <1>4, <1>5, <1>7 DEF IInv, TypeOK, MasterTypeOK, submitVars,
     checkpointVars
<1>9. issued' \subseteq Issues /\ issued \subseteq issued'
  BY <1>1, <1>3, <1>4, NewIssuesLemma
<1>10. results' \subseteq issued' \X Outcomes
  BY <1>1, <1>4, <1>9
<1>11. ControlTypeOK'
  BY <1>1, <1>4, <1>9, <1>10 DEF ControlTypeOK, bounds
<1> QED BY <1>5, <1>8, <1>11 DEF IInv, TypeOK

LEMMA HeartbeatSound ==
  ASSUME IInv, NEW w \in Workers, OpenHeartbeat(w)
  PROVE  IInv'
<1>1. PICK idle \in BOOLEAN, i \in issued \cup {None}, slow \in SlowChoices :
        \/ Exchange(w, idle, i, {}, None, slow)
        \/ \E k \in issued, o \in Outcomes :
             Exchange(w, idle, i, {<<k, o>>}, Result(k, o), slow)
  BY DEF OpenHeartbeat, Given
<1>2. CASE Exchange(w, idle, i, {}, None, slow)
  BY <1>2, ExchangeSound
<1>3. ASSUME NEW k \in issued, NEW o \in Outcomes,
             Exchange(w, idle, i, {<<k, o>>}, Result(k, o), slow)
      PROVE  IInv'
  BY <1>3, ExchangeSound
<1> QED BY <1>1, <1>2, <1>3

LEMMA RegisterSound ==
  ASSUME IInv, NEW w \in Workers, Register(w)
  PROVE  IInv'
<1>1. /\ registered' = registered \cup {w}
      /\ currentTask' = [currentTask EXCEPT ![w] = None]
      /\ UNCHANGED <<jobs, active, queue, nextAttempt, pending, refused,
                     submitted, loaded, saving, checkpoint, shutdown, netVars, bounds>>
  BY DEF Register, RegisterWorker, schedVars, submitVars, checkpointVars
<1>2. Current' = Current
  BY <1>1 DEF Current
<1>3. TypeOK'
  BY <1>1, <1>2 DEF IInv, TypeOK, MasterTypeOK, ControlTypeOK, netVars, bounds
<1>4. SnapshotsSound' /\ SubmissionsAreSound'
  BY <1>1 DEF IInv, SnapshotsSound, SubmissionsAreSound
<1> QED BY <1>2, <1>3, <1>4 DEF IInv

LEMMA ExpireSound ==
  ASSUME IInv, NEW w \in Workers, Expire(w)
  PROVE  IInv'
<1> DEFINE t == ResetWorkerTasks(Current, w, currentTask[w])
<1>1. /\ Become(t)
      /\ registered' = registered \ {w}
      /\ currentTask' = [currentTask EXCEPT ![w] = None]
      /\ UNCHANGED <<submitVars, checkpointVars>>
      /\ evictions' = evictions + 1
      /\ UNCHANGED <<netVars, crashes, exits, badLoads, snapshots>>
  BY DEF Expire, Evict
<1>2. currentTask[w] = None \/ NamesTask(currentTask[w])
  BY DEF IInv, TypeOK, MasterTypeOK, TaskRefs, NamesTask
<1>3. Sound(t) /\ Evolves(Current, t)
  BY <1>2, ResetWorkerTasksSound DEF IInv
<1> HIDE DEF t
<1>4. /\ Current' \in State /\ Sound(Current)'
      /\ SnapshotsSound' /\ SubmissionsAreSound'
  BY <1>1, <1>3, SchedulerStep
<1>5. TypeOK'
  BY <1>1, <1>4 DEF IInv, TypeOK, MasterTypeOK, ControlTypeOK, netVars,
     submitVars, checkpointVars
<1> QED BY <1>4, <1>5 DEF IInv

-----------------------------------------------------------------------------
(* Clients                                                                 *)

\* One job is replaced, the queue and the active job stay.
LEMMA ReplaceJobStep ==
  ASSUME IInv, NEW j \in Jobs, NEW job \in Job, JobIsSound(job),
         jobs' = [jobs EXCEPT ![j] = job],
         UNCHANGED <<queue, nextAttempt>>,
         \/ active' = active /\ ~Running(job) /\ ~Running(jobs[j])
         \/ active' = (IF active = j THEN None ELSE active) /\ ~Running(job),
         j \in Members(queue) => NotStarted(job)
  PROVE  Sound(Current)'
<1>1. Sound(Current) /\ jobs \in [Jobs -> Job] /\ active \in Jobs \cup {None}
        /\ queue \in Seq(Jobs) /\ nextAttempt \in AttemptIds
  BY DEF IInv, TypeOK, MasterTypeOK, Current, State
<1>2. OneRuns(jobs, active) /\ QueueSound(queue, jobs)
        /\ \A k \in Jobs : JobIsSound(jobs[k])
  BY <1>1 DEF Sound, Current
<1>3. \A k \in Jobs : jobs'[k] = IF k = j THEN job ELSE jobs[k]
  BY <1>1
<1>4. jobs' \in [Jobs -> Job] /\ active' \in Jobs \cup {None}
  BY <1>1
<1>5. Current' \in State
  BY <1>1, <1>4 DEF Current, State
<1>6. \A k \in Jobs : JobIsSound(jobs'[k])
  BY <1>2, <1>3
<1>7. OneRuns(jobs', active')
  BY <1>2, <1>3, NoneAssumption DEF OneRuns
<1>8. QueueSound(queue', jobs')
  <2>1. \A i \in 1 .. Len(queue) : queue[i] \in Jobs
    BY <1>1
  <2> QED BY <1>2, <1>3, <2>1 DEF QueueSound, Members
<1> QED BY <1>5, <1>6, <1>7, <1>8 DEF Sound, Current

LEMMA SubmitRegisterSound ==
  ASSUME IInv, NEW j \in Jobs, SubmitRegister(j), UNCHANGED <<netVars, bounds>>
  PROVE  IInv'
<1>1. /\ j \notin submitted
      /\ jobs' = [jobs EXCEPT ![j] = NewJob]
      /\ submitted' = submitted \cup {j}
      /\ pending' = pending \cup {j}
      /\ UNCHANGED <<active, queue, nextAttempt, registered, currentTask,
                     refused, loaded, saving, checkpoint, shutdown>>
  BY DEF SubmitRegister, workerVars, checkpointVars
<1>2. /\ jobs \in [Jobs -> Job] /\ submitted \subseteq Jobs
      /\ pending \subseteq submitted /\ SubmissionsAreSound
  BY DEF IInv, TypeOK, MasterTypeOK, Current, State
<1>3. jobs[j].status = "Absent" /\ j \notin Members(queue)
  BY <1>1, <1>2 DEF SubmissionsAreSound, Known
<1>4. Sound(Current)'
  BY <1>1, <1>3, NewJobLemma, ReplaceJobStep DEF Running
<1>5. Current' \in State
  BY <1>4 DEF Sound
<1>6. TypeOK'
  BY <1>1, <1>5 DEF IInv, TypeOK, MasterTypeOK, ControlTypeOK, netVars, bounds
<1>7. SnapshotsSound'
  BY <1>1 DEF IInv, SnapshotsSound
<1>8. SubmissionsAreSound'
  <2>1. \A k \in Jobs : jobs'[k] = IF k = j THEN NewJob ELSE jobs[k]
    BY <1>1, <1>2
  <2>2. Known(jobs') \subseteq submitted'
    BY <1>1, <1>2, <2>1 DEF SubmissionsAreSound, Known
  <2>3. /\ \A c \in saving \cup checkpoint : Known(c.jobs) \subseteq submitted
        /\ Members(queue) \subseteq submitted
        /\ ~loaded => /\ saving = {}
                      /\ \A c \in checkpoint :
                           Known(c.jobs) \cap
                             (Known(jobs) \cup pending \cup Members(queue)) = {}
    BY <1>2 DEF SubmissionsAreSound
  <2>4. \A k \in pending' : k \notin Members(queue) /\ NotStarted(jobs'[k])
    BY <1>1, <1>2, <1>3, <2>1, NewJobLemma DEF SubmissionsAreSound, NotStarted
  <2>5. ~loaded => \A c \in checkpoint :
          Known(c.jobs) \cap
            (Known(jobs') \cup pending' \cup Members(queue)) = {}
    <3>1. Known(jobs') \subseteq Known(jobs) \cup {j}
      BY <2>1 DEF Known
    <3> QED BY <1>1, <2>3, <3>1
  <2>6. \A c \in saving \cup checkpoint : Known(c.jobs) \subseteq submitted'
    BY <1>1, <2>3
  <2> QED BY <1>1, <2>2, <2>3, <2>4, <2>5, <2>6 DEF SubmissionsAreSound
<1> QED BY <1>4, <1>6, <1>7, <1>8 DEF IInv

LEMMA DeleteSound ==
  ASSUME IInv, NEW j \in Jobs, Delete(j), UNCHANGED <<netVars, bounds>>
  PROVE  IInv'
<1> DEFINE job == [jobs[j] EXCEPT !.status = "Aborted"]
<1>1. /\ jobs[j].status \notin {"Absent", "Completed", "Aborted"}
      /\ jobs' = [jobs EXCEPT ![j] = job]
      /\ active' = IF active = j THEN None ELSE active
      /\ UNCHANGED <<queue, nextAttempt, registered, currentTask, pending,
                     refused, submitted, loaded, saving, checkpoint, shutdown>>
  BY DEF Delete, workerVars, submitVars, checkpointVars
<1>2. /\ jobs \in [Jobs -> Job] /\ submitted \subseteq Jobs
      /\ pending \subseteq submitted /\ SubmissionsAreSound
  BY DEF IInv, TypeOK, MasterTypeOK, Current, State
<1>3. job \in Job /\ JobIsSound(job) /\ job.status = "Aborted"
  <2>1. jobs[j] \in Job /\ JobIsSound(jobs[j])
    BY <1>2 DEF IInv, Sound, Current
  <2> QED BY <2>1 DEF Job, JobStatus, JobIsSound
<1> HIDE DEF job
<1>4. Sound(Current)'
  BY <1>1, <1>3, ReplaceJobStep DEF Running, NotStarted
<1>5. Current' \in State
  BY <1>4 DEF Sound
<1>6. TypeOK'
  BY <1>1, <1>5 DEF IInv, TypeOK, MasterTypeOK, ControlTypeOK, netVars, bounds
<1>7. SnapshotsSound'
  BY <1>1 DEF IInv, SnapshotsSound
<1>8. SubmissionsAreSound'
  <2>1. \A k \in Jobs : jobs'[k] = IF k = j THEN job ELSE jobs[k]
    BY <1>1, <1>2
  <2>2. Known(jobs') = Known(jobs)
    BY <1>1, <1>3, <2>1 DEF Known
  <2>3. \A k \in pending : NotStarted(jobs'[k])
    BY <1>2, <1>3, <2>1 DEF SubmissionsAreSound, NotStarted
  <2> QED BY <1>1, <1>2, <2>2, <2>3 DEF SubmissionsAreSound
<1> QED BY <1>4, <1>6, <1>7, <1>8 DEF IInv

\* The channel takes the job, or it is full.
LEMMA SubmitEnqueueSound ==
  ASSUME IInv, NEW j \in Jobs, SubmitEnqueue(j), UNCHANGED <<netVars, bounds>>
  PROVE  IInv'
<1>1. /\ j \in pending
      /\ UNCHANGED <<jobs, active, nextAttempt, submitted, registered,
                     currentTask, loaded, saving, checkpoint, shutdown>>
  BY DEF SubmitEnqueue, workerVars, checkpointVars
<1>2. /\ jobs \in [Jobs -> Job] /\ queue \in Seq(Jobs)
      /\ submitted \subseteq Jobs /\ pending \subseteq submitted
      /\ refused \subseteq pending /\ SubmissionsAreSound
  BY DEF IInv, TypeOK, MasterTypeOK, Current, State
<1>3. j \notin Members(queue) /\ NotStarted(jobs[j])
  BY <1>1, <1>2 DEF SubmissionsAreSound
<1>4. SnapshotsSound'
  BY <1>1 DEF IInv, SnapshotsSound
<1>5. ASSUME Sound(Current)',
             refused' \subseteq pending', pending' \subseteq pending
      PROVE  TypeOK'
  <2>1. Current' \in State
    BY <1>5 DEF Sound
  <2> QED BY <1>1, <1>2, <1>5, <2>1
          DEF IInv, TypeOK, MasterTypeOK, ControlTypeOK, netVars, bounds
<1>6. CASE queue' = Append(queue, j) /\ pending' = pending \ {j}
             /\ refused' = refused /\ j \notin refused
  <2>1. /\ queue' \in Seq(Jobs) /\ Len(queue') = Len(queue) + 1
        /\ \A i \in 1 .. Len(queue) : queue'[i] = queue[i]
        /\ queue'[Len(queue) + 1] = j
        /\ Len(queue) \in Nat
    BY <1>2, <1>6
  <2>2. Members(queue') = Members(queue) \cup {j}
    BY <2>1 DEF Members
  <2>3. QueueSound(queue', jobs)
    <3>1. QueueSound(queue, jobs)
      BY DEF IInv, Sound, Current
    <3> QED BY <1>3, <2>1, <3>1 DEF QueueSound, Members
  <2>4. Sound(Current)'
    BY <1>1, <2>1, <2>3 DEF IInv, Sound, Current, State
  <2>5. SubmissionsAreSound'
    BY <1>1, <1>2, <1>6, <2>2 DEF SubmissionsAreSound
  <2>6. TypeOK'
    BY <1>2, <1>5, <1>6, <2>4
  <2> QED BY <1>4, <2>4, <2>5, <2>6 DEF IInv
<1>7. CASE refused' = refused \cup {j} /\ UNCHANGED <<queue, pending>>
  <2>1. Sound(Current)'
    BY <1>1, <1>7 DEF IInv, Current
  <2>2. TypeOK'
    BY <1>1, <1>2, <1>5, <1>7, <2>1
  <2>3. SubmissionsAreSound'
    BY <1>1, <1>2, <1>7 DEF SubmissionsAreSound
  <2> QED BY <1>4, <2>1, <2>2, <2>3 DEF IInv
<1> QED BY <1>6, <1>7 DEF SubmitEnqueue

LEMMA SubmitRejectSound ==
  ASSUME IInv, NEW j \in Jobs, SubmitReject(j), UNCHANGED <<netVars, bounds>>
  PROVE  IInv'
<1>1. /\ j \in refused
      /\ jobs' = [jobs EXCEPT ![j] = NoJob]
      /\ pending' = pending \ {j} /\ refused' = refused \ {j}
      /\ UNCHANGED <<active, queue, nextAttempt, submitted, registered,
                     currentTask, loaded, saving, checkpoint, shutdown>>
  BY DEF SubmitReject, workerVars, checkpointVars
<1>2. /\ jobs \in [Jobs -> Job]
      /\ submitted \subseteq Jobs /\ pending \subseteq submitted
      /\ refused \subseteq pending /\ SubmissionsAreSound
  BY DEF IInv, TypeOK, MasterTypeOK, Current, State
<1>3. j \notin Members(queue) /\ NotStarted(jobs[j])
  BY <1>1, <1>2 DEF SubmissionsAreSound
<1>4. Sound(Current)'
  BY <1>1, <1>3, NewJobLemma, ReplaceJobStep DEF Running, NotStarted
<1>5. Current' \in State
  BY <1>4 DEF Sound
<1>6. TypeOK'
  BY <1>1, <1>2, <1>5 DEF IInv, TypeOK, MasterTypeOK, ControlTypeOK, netVars,
     bounds
<1>7. SnapshotsSound'
  BY <1>1 DEF IInv, SnapshotsSound
<1>8. \A k \in Jobs : jobs'[k] = IF k = j THEN NoJob ELSE jobs[k]
  BY <1>1, <1>2
<1>9. Known(jobs') \subseteq Known(jobs)
  BY <1>8, NewJobLemma DEF Known
<1>10. \A k \in pending' : NotStarted(jobs'[k])
  BY <1>1, <1>2, <1>8, NewJobLemma DEF SubmissionsAreSound, NotStarted
<1>11. SubmissionsAreSound'
  BY <1>1, <1>2, <1>9, <1>10 DEF SubmissionsAreSound
<1> QED BY <1>4, <1>6, <1>7, <1>11 DEF IInv

LEMMA ClientSound ==
  ASSUME IInv, Client
  PROVE  IInv'
BY SubmitRegisterSound, SubmitEnqueueSound, SubmitRejectSound, DeleteSound
DEF Client

-----------------------------------------------------------------------------
(* Checkpoints, crashes and restarts                                       *)

\* The periodic snapshot, and the last one.
LEMMA SnapshotSound ==
  ASSUME IInv, Snapshot \/ FinalSnapshot, ControlTypeOK'
  PROVE  IInv'
<1>1. /\ loaded
      /\ saving' = {[jobs |-> jobs, active |-> active]}
      /\ UNCHANGED <<jobs, active, queue, nextAttempt, registered, currentTask,
                     pending, refused, submitted, loaded, checkpoint>>
      /\ shutdown' = shutdown \/ shutdown' = "final"
  BY DEF Snapshot, FinalSnapshot, schedVars, workerVars, submitVars
<1>2. Current' = Current
  BY <1>1 DEF Current
<1>3. saving' \subseteq Snapshots
  BY <1>1 DEF IInv, TypeOK, MasterTypeOK, Current, State, Snapshots
<1>4. shutdown' \in ShutdownStages
  BY <1>1 DEF IInv, TypeOK, MasterTypeOK, ShutdownStages
<1>5. TypeOK'
  BY <1>1, <1>2, <1>3, <1>4 DEF IInv, TypeOK, MasterTypeOK
<1>6. SnapshotsSound'
  BY <1>1 DEF IInv, SnapshotsSound, Sound, Current
<1>7. SubmissionsAreSound'
  BY <1>1 DEF IInv, SubmissionsAreSound
<1> QED BY <1>2, <1>5, <1>6, <1>7 DEF IInv

\* A signal, and a checkpoint that cannot be read, leave the jobs alone.
LEMMA SignalSound ==
  ASSUME IInv, Signal \/ LoadFails, ControlTypeOK'
  PROVE  IInv'
<1>1. /\ UNCHANGED <<jobs, active, queue, nextAttempt, registered, currentTask,
                     pending, refused, submitted, saving, checkpoint>>
      /\ loaded' = loaded \/ loaded' = TRUE
      /\ shutdown' = shutdown \/ shutdown' = "signalled"
  BY DEF Signal, LoadFails, schedVars, workerVars, submitVars
<1>2. Current' = Current
  BY <1>1 DEF Current
<1>3. TypeOK'
  BY <1>1, <1>2 DEF IInv, TypeOK, MasterTypeOK, ShutdownStages
<1>4. SnapshotsSound' /\ SubmissionsAreSound'
  BY <1>1 DEF IInv, SnapshotsSound, SubmissionsAreSound
<1> QED BY <1>2, <1>3, <1>4 DEF IInv

LEMMA WriteCheckpointSound ==
  ASSUME IInv, WriteCheckpoint, UNCHANGED <<netVars, bounds>>
  PROVE  IInv'
<1>1. /\ saving # {}
      /\ saving' = {}
      /\ checkpoint' = saving \/ checkpoint' = checkpoint
      /\ UNCHANGED <<jobs, active, queue, nextAttempt, registered, currentTask,
                     pending, refused, submitted, loaded, shutdown>>
  BY DEF WriteCheckpoint, schedVars, workerVars, submitVars
<1>2. Current' = Current
  BY <1>1 DEF Current
<1>3. TypeOK'
  BY <1>1, <1>2 DEF IInv, TypeOK, MasterTypeOK, ControlTypeOK, netVars, bounds
<1>4. SnapshotsSound'
  BY <1>1 DEF IInv, SnapshotsSound
<1>5. SubmissionsAreSound'
  BY <1>1 DEF IInv, SubmissionsAreSound
<1> QED BY <1>2, <1>3, <1>4, <1>5 DEF IInv

LEMMA RestartSound ==
  ASSUME IInv, Restart
  PROVE  IInv'
<1>1. /\ Become(Fresh(nextAttempt))
      /\ registered' = {}
      /\ currentTask' = [w \in Workers |-> None]
      /\ pending' = {} /\ refused' = {}
      /\ loaded' = ~Checkpointing
      /\ saving' = {}
      /\ shutdown' = "none"
      /\ UNCHANGED <<submitted, checkpoint>>
      /\ crashes' \in {crashes, crashes + 1} /\ exits' \in {exits, exits + 1}
      /\ UNCHANGED <<netVars, evictions, badLoads, snapshots>>
  BY DEF Restart, Exit, Crash
<1>2. nextAttempt \in AttemptIds
  BY DEF IInv, TypeOK, MasterTypeOK, Current, State
<1>3. Sound(Fresh(nextAttempt))
  BY <1>2, FreshLemma
<1>4. Current' = Fresh(nextAttempt)
  BY <1>1, <1>3, CurrentLemma DEF Sound
<1>5. Sound(Current)' /\ Current' \in State
  BY <1>3, <1>4 DEF Sound
<1>6. TypeOK'
  BY <1>1, <1>5, CheckpointingAssumption
     DEF IInv, TypeOK, MasterTypeOK, ControlTypeOK, ShutdownStages, netVars
<1>7. SnapshotsSound'
  BY <1>1 DEF IInv, SnapshotsSound
<1>8. Known(jobs') = {} /\ Members(queue') = {}
  BY <1>1, NewJobLemma DEF Become, Fresh, Known, Members
<1>9. SubmissionsAreSound'
  BY <1>1, <1>8 DEF IInv, SubmissionsAreSound
<1> QED BY <1>5, <1>6, <1>7, <1>9 DEF IInv

\* What a restored job has in common with the saved one.
LEMMA RestoredSound ==
  ASSUME NEW job \in Job, JobIsSound(job)
  PROVE  /\ Restored(job) \in Job
         /\ JobIsSound(Restored(job))
         /\ Restored(job).status = job.status
<1>1. ASSUME NEW m \in MapTasks
      PROVE  /\ ResetTask(job.maps[m]) \in MapTask
             /\ TaskIsSound(ResetTask(job.maps[m]))
  <2>1. job.maps[m] \in MapTask /\ TaskIsSound(job.maps[m])
    BY DEF Job, JobIsSound
  <2> QED BY <2>1, DropAttemptsSound DEF ResetTask
<1>2. ASSUME NEW p \in Partitions
      PROVE  /\ ResetTask(job.reduces[p]) \in ReduceTask
             /\ TaskIsSound(ResetTask(job.reduces[p]))
  <2>1. job.reduces[p] \in ReduceTask /\ TaskIsSound(job.reduces[p])
    BY DEF Job, JobIsSound
  <2> QED BY <2>1, DropAttemptsSound DEF ResetTask
<1>3. /\ Restored(job).maps = [m \in MapTasks |-> ResetTask(job.maps[m])]
      /\ Restored(job).reduces =
           [p \in Partitions |-> ResetTask(job.reduces[p])]
      /\ Restored(job).status = job.status
  BY DEF Restored, Job
<1>4. JobIsSound(Restored(job))
  BY <1>1, <1>2, <1>3 DEF JobIsSound
<1>5. Restored(job) \in Job
  BY <1>1, <1>2 DEF Restored, Job
<1> QED BY <1>3, <1>4, <1>5

LEMMA MinOfTwo ==
  ASSUME NEW a \in Int, NEW b \in Int
  PROVE  Min({a, b}) \in {a, b} /\ Min({a, b}) <= b
<1> DEFINE P(x) == \A y \in {a, b} : x <= y
<1>1. \E x \in {a, b} : P(x)
  <2>1. CASE a <= b
    <3>1. P(a)
      BY <2>1
    <3> QED BY <3>1
  <2>2. CASE b <= a
    <3>1. P(b)
      BY <2>2
    <3> QED BY <3>1
  <2> QED BY <2>1, <2>2
<1>2. Min({a, b}) = CHOOSE x \in {a, b} : P(x)
  BY DEF Min
<1>3. Min({a, b}) \in {a, b} /\ P(Min({a, b}))
  BY <1>1, <1>2, Zenon
<1> QED BY <1>3

\* A queue, followed by the beginning of an ordering of other jobs.
LEMMA RequeueSound ==
  ASSUME NEW S \in SUBSET Jobs, NEW order \in SetToSeqs(S),
         NEW n \in Int, n <= Len(order),
         NEW q \in Seq(Jobs), \A i, k \in 1 .. Len(q) : q[i] = q[k] => i = k,
         Members(q) \cap S = {}
  PROVE  LET r == q \o SubSeq(order, 1, n) IN
         /\ r \in Seq(Jobs)
         /\ Members(r) \subseteq Members(q) \cup S
         /\ \A i, k \in 1 .. Len(r) : r[i] = r[k] => i = k
<1> DEFINE tail == SubSeq(order, 1, n)
           r == q \o tail
           size == IF n > 0 THEN n ELSE 0
<1>1. Cardinality(S) \in Nat
  BY JobsAssumption, FS_Subset, FS_CardinalityType
<1>2. /\ order \in [1 .. Cardinality(S) -> S]
      /\ \A i, k \in 1 .. Cardinality(S) : i # k => order[i] # order[k]
  BY DEF SetToSeqs
<1>3. order \in Seq(S) /\ Len(order) = Cardinality(S)
  BY <1>1, <1>2
<1>4. \A i, k \in 1 .. Len(order) : i # k => order[i] # order[k]
  BY <1>2, <1>3
<1>5. /\ tail \in Seq(S) /\ Len(tail) = size
      /\ \A i \in 1 .. size : i \in 1 .. Len(order) /\ tail[i] = order[i]
  BY <1>3
<1> HIDE DEF tail, size
<1>6. size \in Nat /\ Len(q) \in Nat
  BY DEF size
<1>7. /\ r \in Seq(Jobs) /\ Len(r) = Len(q) + size
      /\ \A i \in 1 .. Len(q) : r[i] = q[i]
      /\ \A i \in 1 .. Len(r) : i > Len(q) =>
           i - Len(q) \in 1 .. size /\ r[i] = tail[i - Len(q)]
  BY <1>5, <1>6
<1>8. ASSUME NEW i \in 1 .. Len(r)
      PROVE  /\ i <= Len(q) => r[i] \in Members(q) /\ r[i] \notin S
             /\ i > Len(q) => r[i] \in S
  <2>1. CASE i <= Len(q)
    <3>1. i \in 1 .. Len(q)
      BY <1>6, <2>1
    <3> QED BY <1>7, <2>1, <3>1 DEF Members
  <2>2. CASE i > Len(q)
    BY <1>5, <1>6, <1>7, <2>2
  <2> QED BY <1>6, <1>7, <2>1, <2>2
<1>9. Members(r) \subseteq Members(q) \cup S
  BY <1>6, <1>7, <1>8 DEF Members
<1>10. ASSUME NEW i \in 1 .. Len(r), NEW k \in 1 .. Len(r), r[i] = r[k]
       PROVE  i = k
  <2>1. CASE i <= Len(q) /\ k <= Len(q)
    <3>1. i \in 1 .. Len(q) /\ k \in 1 .. Len(q)
      BY <1>6, <2>1
    <3> QED BY <1>7, <1>10, <3>1
  <2>2. CASE i > Len(q) /\ k > Len(q)
    <3>1. /\ i - Len(q) \in 1 .. size /\ k - Len(q) \in 1 .. size
          /\ tail[i - Len(q)] = tail[k - Len(q)]
      BY <1>7, <1>10, <2>2
    <3>2. i - Len(q) = k - Len(q)
      BY <1>4, <1>5, <3>1
    <3> QED BY <1>6, <1>7, <3>2
  <2> QED BY <1>6, <1>7, <1>8, <1>10, <2>1, <2>2
<1> QED BY <1>7, <1>9, <1>10 DEF tail

LEMMA LoadCheckpointSound ==
  ASSUME IInv, LoadCheckpoint, UNCHANGED <<netVars, bounds>>
  PROVE  IInv'
<1>1. /\ ~loaded /\ loaded' = TRUE
      /\ UNCHANGED <<registered, currentTask, pending, refused, submitted,
                     saving, checkpoint, shutdown>>
  BY DEF LoadCheckpoint, workerVars, submitVars
<1>2. SnapshotsSound'
  BY <1>1 DEF IInv, SnapshotsSound
<1>3. ASSUME Sound(Current)'
      PROVE  TypeOK'
  <2>1. Current' \in State
    BY <1>3 DEF Sound
  <2> QED BY <1>1, <2>1 DEF IInv, TypeOK, MasterTypeOK, ControlTypeOK,
             netVars, bounds
<1>4. CASE UNCHANGED schedVars
  <2>1. Current' = Current
    BY <1>4 DEF Current, schedVars
  <2>2. SubmissionsAreSound'
    BY <1>1, <1>4 DEF IInv, SubmissionsAreSound, schedVars
  <2> QED BY <1>2, <1>3, <2>1, <2>2 DEF IInv
<1>5. CASE ~ UNCHANGED schedVars
  <2>1. PICK saved \in checkpoint :
          /\ jobs' = [j \in Jobs |-> Restored(saved.jobs[j])]
          /\ active' = saved.active
          /\ \E order \in SetToSeqs(QueuedJobs(saved.jobs)) :
               LET room == Min({QueueCap - Len(queue), Len(order)}) IN
               queue' = queue \o SubSeq(order, 1, room)
          /\ UNCHANGED nextAttempt
    BY <1>5 DEF LoadCheckpoint
  <2>2. PICK order \in SetToSeqs(QueuedJobs(saved.jobs)) :
          LET room == Min({QueueCap - Len(queue), Len(order)}) IN
          queue' = queue \o SubSeq(order, 1, room)
    BY <2>1
  <2> DEFINE S == QueuedJobs(saved.jobs)
             room == Min({QueueCap - Len(queue), Len(order)})
  <2>3. /\ saved \in Snapshots
        /\ queue \in Seq(Jobs) /\ nextAttempt \in AttemptIds
        /\ pending \subseteq Jobs
    BY DEF IInv, TypeOK, MasterTypeOK, Current, State
  <2>4. /\ saved.jobs \in [Jobs -> Job] /\ saved.active \in Jobs \cup {None}
        /\ OneRuns(saved.jobs, saved.active)
        /\ \A j \in Jobs : JobIsSound(saved.jobs[j])
    BY <2>3 DEF Snapshots, IInv, SnapshotsSound
  <2>5. \A j \in Jobs : /\ jobs'[j] \in Job
                        /\ JobIsSound(jobs'[j])
                        /\ jobs'[j].status = saved.jobs[j].status
    BY <2>1, <2>4, RestoredSound
  <2>6. jobs' \in [Jobs -> Job]
    BY <2>1, <2>5
  <2>7. /\ Known(saved.jobs) \subseteq submitted
        /\ Known(saved.jobs) \cap (pending \cup Members(queue)) = {}
        /\ Members(queue) \subseteq submitted
        /\ \A j \in pending : j \notin Members(queue)
    BY <1>1 DEF IInv, SubmissionsAreSound
  <2>8. S \subseteq Known(saved.jobs) /\ S \in SUBSET Jobs
          /\ Members(queue) \cap S = {}
    BY <2>7 DEF QueuedJobs, Known
  <2>9. \A i, k \in 1 .. Len(queue) : queue[i] = queue[k] => i = k
    BY DEF IInv, Sound, Current, QueueSound
  <2> HIDE DEF S
  <2>10. room \in Int /\ room <= Len(order)
    <3>1. Cardinality(S) \in Nat
      BY <2>8, JobsAssumption, FS_Subset, FS_CardinalityType
    <3>2. order \in [1 .. Cardinality(S) -> S]
      BY <2>2 DEF SetToSeqs, S
    <3>3. Len(order) \in Int
      BY <3>1, <3>2
    <3>4. QueueCap - Len(queue) \in Int
      BY <2>3, QueueCapAssumption
    <3> QED BY <3>3, <3>4, MinOfTwo
  <2>11. queue' = queue \o SubSeq(order, 1, room) /\ order \in SetToSeqs(S)
    BY <2>2 DEF S
  <2> HIDE DEF room
  <2>12. /\ queue' \in Seq(Jobs)
         /\ Members(queue') \subseteq Members(queue) \cup S
         /\ \A i, k \in 1 .. Len(queue') : queue'[i] = queue'[k] => i = k
    BY <2>3, <2>8, <2>9, <2>10, <2>11, RequeueSound
  <2>13. \A j \in Members(queue') : j \in Jobs => NotStarted(jobs'[j])
    <3> SUFFICES ASSUME NEW j \in Members(queue'), j \in Jobs
                 PROVE  NotStarted(jobs'[j])
      OBVIOUS
    <3>1. CASE j \in Members(queue)
      BY <2>5, <2>7, <3>1 DEF Known, NotStarted
    <3>2. CASE j \in S
      BY <2>5, <3>2 DEF S, QueuedJobs, NotStarted
    <3> QED BY <2>12, <3>1, <3>2
  <2>14. QueueSound(queue', jobs')
    <3>1. \A i \in 1 .. Len(queue') :
            queue'[i] \in Jobs /\ queue'[i] \in Members(queue')
      BY <2>12 DEF Members
    <3> QED BY <2>12, <2>13, <3>1 DEF QueueSound
  <2>15. OneRuns(jobs', active')
    BY <2>1, <2>4, <2>5 DEF OneRuns, Running
  <2>16. Sound(Current)'
    BY <2>1, <2>3, <2>4, <2>5, <2>6, <2>12, <2>14, <2>15
       DEF Sound, Current, State
  <2>17. Known(jobs') = Known(saved.jobs)
    BY <2>5 DEF Known
  <2>18. \A j \in pending : j \notin Members(queue') /\ NotStarted(jobs'[j])
    BY <2>3, <2>5, <2>7, <2>8, <2>12 DEF Known, NotStarted
  <2>19. Members(queue') \subseteq submitted
    BY <2>7, <2>8, <2>12
  <2>20. \A c \in saving \cup checkpoint : Known(c.jobs) \subseteq submitted
    BY DEF IInv, SubmissionsAreSound
  <2>21. SubmissionsAreSound'
    BY <1>1, <2>7, <2>17, <2>18, <2>19, <2>20 DEF SubmissionsAreSound
  <2> QED BY <1>2, <1>3, <2>16, <2>21 DEF IInv
<1> QED BY <1>4, <1>5

-----------------------------------------------------------------------------
(* The invariant, and what it implies                                      *)

LEMMA NextSound == IInv /\ [OpenNext]_vars => IInv'
<1> SUFFICES ASSUME IInv, [OpenNext]_vars PROVE IInv'
  OBVIOUS
<1>1. CASE \E w \in Workers : Register(w)
  BY <1>1, RegisterSound
<1>2. CASE \E w \in Workers : OpenHeartbeat(w)
  BY <1>2, HeartbeatSound
<1>3. CASE \E w \in Workers : Expire(w)
  BY <1>3, ExpireSound
<1>4. CASE Client
  BY <1>4, ClientSound
<1>5. CASE TakeSnapshot
  <2>1. ControlTypeOK'
    BY <1>5 DEF TakeSnapshot, IInv, TypeOK, ControlTypeOK, netVars
  <2> QED BY <1>5, <2>1, SnapshotSound DEF TakeSnapshot
<1>6. CASE Storage
  <2>1. ControlTypeOK'
    BY <1>6 DEF Storage, IInv, TypeOK, ControlTypeOK, netVars, bounds
  <2> QED BY <1>6, <2>1, WriteCheckpointSound, LoadCheckpointSound,
             SnapshotSound DEF Storage
<1>7. CASE Restart
  BY <1>7, RestartSound
<1>9. CASE BadLoad \/ Interrupt
  <2>1. ControlTypeOK'
    BY <1>9 DEF BadLoad, Interrupt, IInv, TypeOK, ControlTypeOK, netVars, bounds
  <2> QED BY <1>9, <2>1, SignalSound DEF BadLoad, Interrupt
<1>8. CASE UNCHANGED vars
  <2>1. UNCHANGED <<jobs, active, queue, nextAttempt, registered, currentTask,
                    pending, refused, submitted, loaded, saving, checkpoint,
                    shutdown, issued, results, evictions, crashes, exits, badLoads,
                    snapshots>>
    BY <1>8 DEF vars, masterVars, schedVars, workerVars, submitVars,
       checkpointVars, netVars, bounds
  <2>2. Current' = Current
    BY <2>1 DEF Current
  <2>3. TypeOK'
    BY <2>1, <2>2 DEF IInv, TypeOK, MasterTypeOK, ControlTypeOK
  <2>4. SnapshotsSound' /\ SubmissionsAreSound'
    BY <2>1 DEF IInv, SnapshotsSound, SubmissionsAreSound
  <2> QED BY <2>2, <2>3, <2>4 DEF IInv
<1> QED BY <1>1, <1>2, <1>3, <1>4, <1>5, <1>6, <1>7, <1>8, <1>9 DEF OpenNext

LEMMA OpenInvariant == OpenSpec => []IInv
BY InitSound, NextSound, PTL DEF OpenSpec

\* Whatever clients, workers and S3 do, the invariant holds.
THEOREM Invariant == Spec => []IInv
BY OpenInvariant, SpecIsOpen, PTL

\* Every variable keeps its type, whatever arrives in heartbeats.
THEOREM TypeCorrect == Spec => []TypeOK
<1>1. IInv => TypeOK
  BY DEF IInv
<1> QED BY <1>1, Invariant, PTL

\* assignTask (scheduler.go:24-48) always finds the active job in the job map,
\* in one of the two phases it has a case for; no other job runs.
THEOREM OneJobRunsAlways == Spec => []OneJobRuns
<1>1. IInv => OneJobRuns
  BY DEF IInv, Sound, Current, OneJobRuns
<1> QED BY <1>1, Invariant, PTL

\* Attempts[0] of a running task exists (scheduler.go:102 and 202 do not check
\* it), an idle task has no attempt left, and no task has three.
THEOREM AttemptsMatchStatusAlways == Spec => []AttemptsMatchStatus
<1>1. IInv => AttemptsMatchStatus
  BY DEF IInv, Sound, Current, AttemptsMatchStatus
<1> QED BY <1>1, Invariant, PTL

\* activateNextJob (scheduler.go:488-512) activates no job twice: what it finds
\* in the queue is there once and was never started, in this process or the
\* one whose checkpoint was loaded.
THEOREM QueueIsSoundAlways == Spec => []QueueIsSound
<1>1. IInv => QueueIsSound
  BY DEF IInv, Sound, Current, QueueIsSound
<1> QED BY <1>1, Invariant, PTL

\* Between registration and the channel send (handlers.go:110-123) nobody else
\* starts or enqueues the job, so that a rejected submission deletes no job
\* that runs.
THEOREM SubmissionsAreSoundAlways == Spec => []SubmissionsAreSound
<1>1. IInv => SubmissionsAreSound
  BY DEF IInv
<1> QED BY <1>1, Invariant, PTL

-----------------------------------------------------------------------------
(* What the steps of the scheduler do to jobs and queue                    *)

\* A heartbeat or an eviction: the scheduler goes on, and that is all.
Schedules == /\ \E t \in State : Sound(t) /\ Evolves(Current, t) /\ Become(t)
             /\ UNCHANGED <<submitVars, checkpointVars, crashes, exits, badLoads>>

LEMMA ExchangeSchedules ==
  ASSUME IInv, NEW w \in Workers, NEW idle \in BOOLEAN, NEW slow, NEW i,
         NEW report, NEW result,
         \/ report = {} /\ result = None
         \/ \E k \in issued, o \in Outcomes :
              report = {<<k, o>>} /\ result = Result(k, o),
         Exchange(w, idle, i, report, result, slow)
  PROVE  Schedules
<1> DEFINE t == Heard(w, idle, result, slow).s
<1>1. issued \subseteq Issues
  BY DEF IInv, TypeOK, ControlTypeOK
<1>2. result = None \/ (NamesTask(result) /\ result.id \in AttemptIds)
  <2>1. ASSUME NEW k \in issued, NEW o, result = Result(k, o)
        PROVE  NamesTask(result) /\ result.id \in AttemptIds
    <3>1. NamesTask(Result(k, o)) /\ Result(k, o).id \in AttemptIds
      BY <1>1, IssuesLemma
    <3> QED BY <2>1, <3>1, Zenon
  <2> QED BY <2>1
<1>3. Sound(t) /\ Evolves(Current, t)
  BY <1>2, HeardLemma
<1>4. /\ Become(t)
      /\ UNCHANGED <<submitVars, checkpointVars, crashes, exits, badLoads>>
  BY DEF Exchange, Heartbeat, bounds
<1> HIDE DEF t
<1> QED BY <1>3, <1>4 DEF Schedules, Sound

LEMMA HeartbeatSchedules ==
  ASSUME IInv, NEW w \in Workers, OpenHeartbeat(w)
  PROVE  Schedules
<1>1. PICK idle \in BOOLEAN, i \in issued \cup {None}, slow \in SlowChoices :
        \/ Exchange(w, idle, i, {}, None, slow)
        \/ \E k \in issued, o \in Outcomes :
             Exchange(w, idle, i, {<<k, o>>}, Result(k, o), slow)
  BY DEF OpenHeartbeat, Given
<1>2. CASE Exchange(w, idle, i, {}, None, slow)
  BY <1>2, ExchangeSchedules
<1>3. ASSUME NEW k \in issued, NEW o \in Outcomes,
             Exchange(w, idle, i, {<<k, o>>}, Result(k, o), slow)
      PROVE  Schedules
  BY <1>3, ExchangeSchedules
<1> QED BY <1>1, <1>2, <1>3

LEMMA ExpireSchedules ==
  ASSUME IInv, NEW w \in Workers, Expire(w)
  PROVE  Schedules
<1> DEFINE t == ResetWorkerTasks(Current, w, currentTask[w])
<1>1. Become(t)
  BY DEF Expire, Evict
<1>2. currentTask[w] = None \/ NamesTask(currentTask[w])
  BY DEF IInv, TypeOK, MasterTypeOK, TaskRefs, NamesTask
<1>3. Sound(t) /\ Evolves(Current, t)
  BY <1>2, ResetWorkerTasksSound DEF IInv
<1>4. UNCHANGED <<submitVars, checkpointVars, crashes, exits, badLoads>>
  BY DEF Expire, Evict
<1> HIDE DEF t
<1> QED BY <1>1, <1>3, <1>4 DEF Schedules, Sound

\* So there are few kinds of steps.  Those of the last kind leave jobs and queue
\* alone.
LEMMA NextKinds ==
  ASSUME IInv, [OpenNext]_vars
  PROVE  \/ Schedules
         \/ Client
         \/ Restart
         \/ Storage
         \/ /\ \/ TakeSnapshot \/ BadLoad \/ Interrupt \/ UNCHANGED vars
               \/ \E w \in Workers : Register(w)
            /\ UNCHANGED schedVars
<1>1. ASSUME \/ TakeSnapshot \/ BadLoad \/ Interrupt \/ UNCHANGED vars
             \/ \E w \in Workers : Register(w)
      PROVE  UNCHANGED schedVars
  BY <1>1 DEF TakeSnapshot, Snapshot, BadLoad, LoadFails, Interrupt, Signal,
     Register, RegisterWorker, vars, masterVars
<1> QED BY <1>1, HeartbeatSchedules, ExpireSchedules DEF OpenNext

-----------------------------------------------------------------------------
(* Finished and cancelled jobs                                             *)

\* What TerminalIsFinal says of one step of a master that does not end.
StaysTerminal ==
  \A j \in Jobs : jobs[j].status \in {"Completed", "Aborted"} =>
    \/ jobs'[j].status = jobs[j].status
    \/ jobs'[j].status = "Absent" /\ (j \in refused \/ loaded' # loaded)

\* The checkpoint knows no job that the master knows before it is loaded.
LEMMA LoadTerminal ==
  ASSUME IInv, LoadCheckpoint
  PROVE  StaysTerminal
<1>1. ~loaded /\ loaded' = TRUE
  BY DEF LoadCheckpoint
<1>2. CASE UNCHANGED schedVars
  BY <1>2 DEF schedVars, StaysTerminal
<1>3. CASE ~ UNCHANGED schedVars
  <2>1. PICK saved \in checkpoint :
          jobs' = [j \in Jobs |-> Restored(saved.jobs[j])]
    BY <1>3 DEF LoadCheckpoint
  <2>2. Known(saved.jobs) \cap Known(jobs) = {}
    BY <1>1 DEF IInv, SubmissionsAreSound
  <2>3. saved \in Snapshots /\ \A j \in Jobs : JobIsSound(saved.jobs[j])
    BY DEF IInv, TypeOK, MasterTypeOK, SnapshotsSound
  <2>4. \A j \in Jobs : saved.jobs[j] \in Job
    BY <2>3 DEF Snapshots
  <2>5. \A j \in Jobs : jobs'[j].status = saved.jobs[j].status
    BY <2>1, <2>3, <2>4, RestoredSound
  <2>6. \A j \in Jobs : jobs[j].status # "Absent" => jobs'[j].status = "Absent"
    BY <2>2, <2>5 DEF Known
  <2> QED BY <1>1, <2>6 DEF StaysTerminal
<1> QED BY <1>2, <1>3

LEMMA NextTerminal ==
  ASSUME IInv, [OpenNext]_vars
  PROVE  StaysTerminal \/ crashes' # crashes \/ exits' # exits
<1>1. CASE Schedules
  <2>1. PICK t \in State : Evolves(Current, t) /\ Become(t)
    BY <1>1 DEF Schedules
  <2> QED BY <2>1 DEF Evolves, Current, Become, StaysTerminal
<1>2. CASE Client
  <2>1. jobs \in [Jobs -> Job] /\ SubmissionsAreSound
    BY DEF IInv, TypeOK, MasterTypeOK, Current, State
  <2>2. PICK j \in Jobs : \/ SubmitRegister(j) \/ SubmitEnqueue(j)
                          \/ SubmitReject(j) \/ Delete(j)
    BY <1>2 DEF Client
  <2>3. CASE SubmitRegister(j)
    <3>1. jobs[j].status = "Absent" /\ jobs' = [jobs EXCEPT ![j] = NewJob]
      BY <2>1, <2>3 DEF SubmitRegister, SubmissionsAreSound, Known
    <3> QED BY <2>1, <3>1 DEF StaysTerminal
  <2>4. CASE SubmitEnqueue(j)
    BY <2>4 DEF SubmitEnqueue, StaysTerminal
  <2>5. CASE SubmitReject(j)
    BY <2>1, <2>5, NewJobLemma DEF SubmitReject, StaysTerminal
  <2>6. CASE Delete(j)
    BY <2>1, <2>6 DEF Delete, StaysTerminal
  <2> QED BY <2>2, <2>3, <2>4, <2>5, <2>6
<1>3. CASE Restart
  BY <1>3 DEF Restart, IInv, TypeOK, ControlTypeOK
<1>4. CASE UNCHANGED schedVars
  BY <1>4 DEF schedVars, StaysTerminal
<1>5. CASE Storage
  <2>1. CASE LoadCheckpoint
    BY <2>1, LoadTerminal
  <2>2. CASE WriteCheckpoint \/ FinalSnapshot
    BY <1>4, <2>2 DEF WriteCheckpoint, FinalSnapshot
  <2> QED BY <1>5, <2>1, <2>2 DEF Storage
<1> QED BY <1>1, <1>2, <1>3, <1>4, <1>5, NextKinds

LEMMA OpenTerminal == OpenSpec => TerminalIsFinal
<1>1. IInv /\ [OpenNext]_vars =>
        [\A j \in Jobs : jobs[j].status \in {"Completed", "Aborted"} =>
           \/ jobs'[j].status = jobs[j].status
           \/ /\ jobs'[j].status = "Absent"
              /\ j \in refused \/ loaded' # loaded
           \/ crashes' # crashes
           \/ exits' # exits]_vars
  BY NextTerminal DEF StaysTerminal
<1> QED BY <1>1, OpenInvariant, PTL DEF OpenSpec, TerminalIsFinal

\* No late result, no eviction and no load of a checkpoint wakes up a job that
\* /status shows as finished (scheduler.go:315, master.go:163) or a DELETE
\* cancelled; only the end of the process can.
THEOREM TerminalIsFinalAlways == Spec => TerminalIsFinal
BY OpenTerminal, SpecIsOpen, PTL

=============================================================================
