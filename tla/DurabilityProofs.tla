-------------------------- MODULE DurabilityProofs --------------------------
(***************************************************************************)
(* Proofs about what survives an end of the master, for all jobs, workers, *)
(* task counts, capacities and bounds: that jobs which wait are in the     *)
(* queue; that checkpoints only move forward; and that a job is only       *)
(* reported as Completed when the output of every partition was promoted.  *)
(***************************************************************************)
EXTENDS ControlProofs

\* The part of IInv that the proofs below use, without its abbreviations.
LEMMA Facts ==
  ASSUME IInv
  PROVE  /\ jobs \in [Jobs -> Job]
         /\ queue \in Seq(Jobs)
         /\ \A i, k \in 1 .. Len(queue) : queue[i] = queue[k] => i = k
         /\ pending \subseteq submitted /\ submitted \subseteq Jobs
         /\ loaded \in BOOLEAN
         /\ saving \subseteq Snapshots /\ checkpoint \subseteq Snapshots
         /\ crashes \in Nat /\ exits \in Nat /\ badLoads \in Nat
<1>1. /\ Current \in State /\ pending \subseteq submitted
      /\ submitted \subseteq Jobs /\ loaded \in BOOLEAN
      /\ saving \subseteq Snapshots /\ checkpoint \subseteq Snapshots
      /\ crashes \in Nat /\ exits \in Nat /\ badLoads \in Nat
  BY DEF IInv, TypeOK, MasterTypeOK, ControlTypeOK
<1>2. \A i, k \in 1 .. Len(queue) : queue[i] = queue[k] => i = k
  BY DEF IInv, Sound, Current, QueueSound
<1> QED BY <1>1, <1>2 DEF Current, State

\* A sequence without repetitions is no longer than there are jobs.
LEMMA NoRepetitionFits ==
  ASSUME NEW q \in Seq(Jobs), \A i, k \in 1 .. Len(q) : q[i] = q[k] => i = k
  PROVE  Len(q) \in Nat /\ Len(q) <= Cardinality(Jobs)
<1>1. Len(q) \in Nat /\ q \in [1 .. Len(q) -> Jobs]
  OBVIOUS
<1>2. q \in Injection(1 .. Len(q), Jobs)
  BY <1>1 DEF Injection, IsInjective
<1>3. Cardinality(1 .. Len(q)) <= Cardinality(Jobs)
  BY <1>2, JobsAssumption, FS_Injection
<1>4. Cardinality(1 .. Len(q)) = Len(q)
  BY <1>1, FS_Interval
<1> QED BY <1>1, <1>3, <1>4

\* With a queue as long as there are jobs no submission is ever rejected.
LEMMA QueueHasRoom ==
  ASSUME IInv, EnoughRoom, NEW j \in pending
  PROVE  Len(queue) < QueueCap
<1> DEFINE q == Append(queue, j)
<1>1. j \in Jobs /\ j \notin Members(queue)
  BY Facts DEF IInv, SubmissionsAreSound
<1>2. /\ q \in Seq(Jobs) /\ Len(q) = Len(queue) + 1 /\ Len(queue) \in Nat
      /\ \A i \in 1 .. Len(q) : q[i] = IF i <= Len(queue) THEN queue[i] ELSE j
  BY <1>1, Facts
<1> HIDE DEF q
<1>3. \A i \in 1 .. Len(queue) : queue[i] # j
  BY <1>1 DEF Members
<1>4. \A i, k \in 1 .. Len(q) : q[i] = q[k] => i = k
  BY <1>2, <1>3, Facts
<1>5. Len(q) <= Cardinality(Jobs)
  BY <1>2, <1>4, NoRepetitionFits
<1>6. Cardinality(Jobs) \in Nat
  BY JobsAssumption, FS_CardinalityType
<1> QED BY <1>2, <1>5, <1>6, QueueCapAssumption DEF EnoughRoom

-----------------------------------------------------------------------------
(* Jobs that wait are in the queue                                         *)

\* The first load finds no checkpoint, for nothing is saved before it.
FirstLoad == ~loaded /\ crashes + exits = 0 => checkpoint = {}
QueuedWait == QueuedIsWaiting /\ FirstLoad

\* A step that leaves every waiting job where it can be found.
LEMMA WaitingJobs ==
  ASSUME QueuedIsWaiting, UNCHANGED <<crashes, exits>>,
         \A j \in Jobs : jobs'[j].status = "Queued" =>
           \/ j \in pending'
           \/ /\ jobs[j].status = "Queued"
              /\ j \in pending \cup Members(queue)
                   => j \in pending' \cup Members(queue')
  PROVE  QueuedIsWaiting'
<1> SUFFICES ASSUME EnoughRoom \/ crashes + exits = 0,
                    NEW j \in Jobs, jobs'[j].status = "Queued"
             PROVE  j \in pending' \cup Members(queue')
  BY DEF QueuedIsWaiting, EnoughRoom
<1> QED BY DEF QueuedIsWaiting

LEMMA SchedulesWaiting ==
  ASSUME QueuedWait, Schedules
  PROVE  QueuedWait'
<1>1. PICK t : Evolves(Current, t) /\ Become(t)
  BY DEF Schedules
<1>2. UNCHANGED <<pending, loaded, checkpoint, crashes, exits>>
  BY DEF Schedules, submitVars, checkpointVars
<1>3. \A j \in Jobs : jobs'[j].status = "Queued" =>
        /\ jobs[j].status = "Queued"
        /\ j \in Members(queue) => j \in Members(queue')
  BY <1>1 DEF Evolves, Current, Become
<1>4. QueuedIsWaiting'
  BY <1>2, <1>3, WaitingJobs DEF QueuedWait
<1> QED BY <1>2, <1>4 DEF QueuedWait, FirstLoad

LEMMA ClientWaiting ==
  ASSUME IInv, QueuedWait, Client
  PROVE  QueuedWait'
<1>1. UNCHANGED <<loaded, checkpoint, crashes, exits>>
  BY DEF Client, SubmitRegister, SubmitEnqueue, SubmitReject, Delete,
     checkpointVars, bounds
<1>2. PICK j \in Jobs : \/ SubmitRegister(j) \/ SubmitEnqueue(j)
                        \/ SubmitReject(j) \/ Delete(j)
  BY DEF Client
<1>3. jobs \in [Jobs -> Job] /\ queue \in Seq(Jobs)
  BY Facts
<1>4. CASE SubmitRegister(j)
  <2>1. /\ jobs' = [jobs EXCEPT ![j] = NewJob]
        /\ pending' = pending \cup {j} /\ UNCHANGED queue
    BY <1>4 DEF SubmitRegister
  <2>2. QueuedIsWaiting'
    BY <1>1, <1>3, <2>1, WaitingJobs DEF QueuedWait
  <2> QED BY <1>1, <2>2 DEF QueuedWait, FirstLoad
<1>5. CASE SubmitEnqueue(j)
  <2>1. UNCHANGED jobs
    BY <1>5 DEF SubmitEnqueue
  <2>2. CASE Len(queue) < QueueCap
    <3>1. queue' = Append(queue, j) /\ pending' = pending \ {j}
      BY <1>5, <2>2 DEF SubmitEnqueue
    <3>2. Members(queue) \cup {j} \subseteq Members(queue')
      <4>1. /\ Len(queue') = Len(queue) + 1 /\ Len(queue) \in Nat
            /\ queue'[Len(queue) + 1] = j
            /\ \A i \in 1 .. Len(queue) : queue'[i] = queue[i]
        BY <1>3, <3>1
      <4> QED BY <4>1 DEF Members
    <3>3. QueuedIsWaiting'
      BY <1>1, <2>1, <3>1, <3>2, WaitingJobs DEF QueuedWait
    <3> QED BY <1>1, <3>3 DEF QueuedWait, FirstLoad
  <2>3. CASE ~(Len(queue) < QueueCap)
    <3>1. UNCHANGED <<pending, queue>>
      BY <1>5, <2>3 DEF SubmitEnqueue
    <3>2. QueuedIsWaiting'
      BY <1>1, <2>1, <3>1, WaitingJobs DEF QueuedWait
    <3> QED BY <1>1, <3>2 DEF QueuedWait, FirstLoad
  <2> QED BY <2>2, <2>3
<1>7. CASE SubmitReject(j)
  <2>1. /\ jobs' = [jobs EXCEPT ![j] = NoJob]
        /\ pending' = pending \ {j} /\ UNCHANGED queue
    BY <1>7 DEF SubmitReject
  <2>2. \A k \in Jobs : jobs'[k].status = "Queued" =>
          k # j /\ jobs[k].status = "Queued"
    BY <1>3, <2>1, NewJobLemma
  <2>3. QueuedIsWaiting'
    BY <1>1, <2>1, <2>2, WaitingJobs DEF QueuedWait
  <2> QED BY <1>1, <2>3 DEF QueuedWait, FirstLoad
<1>6. CASE Delete(j)
  <2>1. /\ jobs' = [jobs EXCEPT ![j].status = "Aborted"]
        /\ UNCHANGED <<pending, queue>>
    BY <1>6 DEF Delete, submitVars
  <2>2. \A k \in Jobs : jobs'[k].status = "Queued" =>
          jobs[k].status = "Queued"
    BY <1>3, <2>1 DEF Job
  <2>3. QueuedIsWaiting'
    BY <1>1, <2>1, <2>2, WaitingJobs DEF QueuedWait
  <2> QED BY <1>1, <2>3 DEF QueuedWait, FirstLoad
<1> QED BY <1>2, <1>4, <1>5, <1>6, <1>7

\* A process that has just started knows no job.
LEMMA RestartWaiting ==
  ASSUME IInv, Restart
  PROVE  QueuedWait'
<1>1. jobs' = [j \in Jobs |-> NoJob]
  BY DEF Restart, Exit, Crash, Become, Fresh
<1>2. QueuedIsWaiting'
  BY <1>1, NewJobLemma DEF QueuedIsWaiting
<1>3. (crashes + exits # 0)'
  BY Facts DEF Restart
<1> QED BY <1>2, <1>3 DEF QueuedWait, FirstLoad

\* If there is room for all of an ordering of S, all of S is in the queue after.
LEMMA RequeueAll ==
  ASSUME NEW S \in SUBSET Jobs, NEW order \in SetToSeqs(S),
         NEW q \in Seq(Jobs), \A i, k \in 1 .. Len(q) : q[i] = q[k] => i = k,
         Members(q) \cap S = {}, EnoughRoom
  PROVE  LET room == Min({QueueCap - Len(q), Len(order)})
             r == q \o SubSeq(order, 1, room)
         IN Members(r) = Members(q) \cup S
<1> DEFINE n == Cardinality(S)
           r == q \o SubSeq(order, 1, n)
<1>1. IsFiniteSet(S) /\ n \in Nat /\ Cardinality(Jobs) \in Nat
  BY JobsAssumption, FS_Subset, FS_CardinalityType
<1>2. order \in Injection(1 .. n, S)
  BY DEF SetToSeqs, Injection, IsInjective
<1>3. order \in Surjection(1 .. n, S)
  <2>1. Cardinality(1 .. n) = n
    BY <1>1, FS_Interval
  <2> HIDE DEF n
  <2> QED BY <1>1, <1>2, <2>1, FS_Injection DEF n
<1>4. /\ order \in [1 .. n -> S] /\ order \in Seq(S) /\ Len(order) = n
      /\ \A x \in S : \E i \in 1 .. n : order[i] = x
  BY <1>1, <1>3 DEF Surjection
<1> HIDE DEF n
<1>5. /\ Len(q) \in Nat /\ Len(r) = Len(q) + n
      /\ \A i \in 1 .. Len(q) : r[i] = q[i]
      /\ \A i \in 1 .. n : r[Len(q) + i] = order[i]
  BY <1>1, <1>4
<1>6. /\ r \in Seq(Jobs)
      /\ Members(r) \subseteq Members(q) \cup S
      /\ \A i, k \in 1 .. Len(r) : r[i] = r[k] => i = k
  <2>1. n \in Int /\ n <= Len(order)
    BY <1>1, <1>4
  <2> QED BY <2>1, RequeueSound
<1> HIDE DEF r
<1>7. Len(r) <= Cardinality(Jobs)
  BY <1>6, NoRepetitionFits
<1>8. n <= QueueCap - Len(q)
  BY <1>1, <1>5, <1>7, QueueCapAssumption DEF EnoughRoom
<1>9. Min({QueueCap - Len(q), Len(order)}) = n
  <2> DEFINE a == QueueCap - Len(q)
  <2>1. a \in Int /\ n \in Int /\ n <= a
    BY <1>1, <1>5, <1>8, QueueCapAssumption
  <2> HIDE DEF a
  <2>2. Min({a, n}) \in {a, n} /\ Min({a, n}) <= n
    BY <2>1, MinOfTwo
  <2>3. Min({a, n}) = n
    BY <2>1, <2>2
  <2> QED BY <1>4, <2>3 DEF a
<1>10. Members(q) \subseteq Members(r)
  <2> SUFFICES ASSUME NEW i \in 1 .. Len(q) PROVE q[i] \in Members(r)
    BY DEF Members
  <2>1. i \in 1 .. Len(r)
    BY <1>1, <1>5
  <2> QED BY <1>5, <2>1 DEF Members
<1>11. S \subseteq Members(r)
  <2> SUFFICES ASSUME NEW x \in S PROVE x \in Members(r)
    OBVIOUS
  <2>1. PICK i \in 1 .. n : order[i] = x
    BY <1>4
  <2>2. Len(q) + i \in 1 .. Len(r) /\ r[Len(q) + i] = x
    BY <1>1, <1>5, <2>1
  <2> QED BY <2>2 DEF Members
<1> QED BY <1>6, <1>9, <1>10, <1>11 DEF r

\* What a load changes, if it has found a checkpoint.
LEMMA LoadFacts ==
  ASSUME IInv, LoadCheckpoint, checkpoint # {}
  PROVE  \E saved \in checkpoint :
           /\ saved.jobs \in [Jobs -> Job] /\ jobs' \in [Jobs -> Job]
           /\ \A j \in Jobs : jobs'[j].status = saved.jobs[j].status
           /\ EnoughRoom =>
                Members(queue') = Members(queue) \cup QueuedJobs(saved.jobs)
<1>1. PICK saved \in checkpoint :
        /\ jobs' = [j \in Jobs |-> Restored(saved.jobs[j])]
        /\ \E order \in SetToSeqs(QueuedJobs(saved.jobs)) :
             LET room == Min({QueueCap - Len(queue), Len(order)}) IN
             queue' = queue \o SubSeq(order, 1, room)
  BY DEF LoadCheckpoint
<1>2. /\ saved \in Snapshots /\ ~loaded
      /\ \A j \in Jobs : JobIsSound(saved.jobs[j])
  BY Facts DEF LoadCheckpoint, IInv, SnapshotsSound
<1>3. saved.jobs \in [Jobs -> Job]
  BY <1>2 DEF Snapshots
<1>4. /\ jobs' \in [Jobs -> Job]
      /\ \A j \in Jobs : jobs'[j].status = saved.jobs[j].status
  BY <1>1, <1>2, <1>3, RestoredSound
<1>5. /\ QueuedJobs(saved.jobs) \in SUBSET Jobs
      /\ Members(queue) \cap QueuedJobs(saved.jobs) = {}
  BY <1>2 DEF IInv, SubmissionsAreSound, QueuedJobs, Known
<1>6. EnoughRoom => Members(queue') = Members(queue) \cup QueuedJobs(saved.jobs)
  BY <1>1, <1>5, Facts, RequeueAll
<1> QED BY <1>3, <1>4, <1>6

LEMMA StorageWaiting ==
  ASSUME IInv, QueuedWait, Storage
  PROVE  QueuedWait'
<1>1. UNCHANGED <<crashes, exits>>
  BY DEF Storage, bounds
<1>2. CASE WriteCheckpoint
  <2>1. UNCHANGED <<jobs, queue, pending, loaded>> /\ loaded
    BY <1>2 DEF WriteCheckpoint, schedVars, submitVars, IInv,
       SubmissionsAreSound
  <2> QED BY <1>1, <2>1, WaitingJobs DEF QueuedWait, FirstLoad
<1>3. CASE FinalSnapshot
  <2>1. UNCHANGED <<jobs, queue, pending, loaded, checkpoint>>
    BY <1>3 DEF FinalSnapshot, schedVars, submitVars
  <2> QED BY <1>1, <2>1, WaitingJobs DEF QueuedWait, FirstLoad
<1>4. CASE LoadCheckpoint
  <2>1. loaded' = TRUE /\ ~loaded /\ UNCHANGED <<pending, checkpoint>>
    BY <1>4 DEF LoadCheckpoint, submitVars
  <2>2. CASE checkpoint = {}
    <3>1. UNCHANGED <<jobs, queue>>
      BY <1>4, <2>2 DEF LoadCheckpoint, schedVars
    <3> QED BY <1>1, <2>1, <3>1, WaitingJobs DEF QueuedWait, FirstLoad
  <2>3. CASE checkpoint # {}
    <3>1. crashes + exits # 0
      BY <2>1, <2>3 DEF QueuedWait, FirstLoad
    <3>2. PICK saved \in checkpoint :
            /\ \A j \in Jobs : jobs'[j].status = saved.jobs[j].status
            /\ EnoughRoom =>
                 Members(queue') = Members(queue) \cup QueuedJobs(saved.jobs)
      BY <1>4, <2>3, LoadFacts
    <3>3. QueuedIsWaiting'
      BY <1>1, <3>1, <3>2 DEF QueuedIsWaiting, EnoughRoom, QueuedJobs
    <3> QED BY <2>1, <3>3 DEF QueuedWait, FirstLoad
  <2> QED BY <2>2, <2>3
<1> QED BY <1>2, <1>3, <1>4 DEF Storage

LEMMA WaitingStep == IInv /\ QueuedWait /\ [OpenNext]_vars => QueuedWait'
<1> SUFFICES ASSUME IInv, QueuedWait, [OpenNext]_vars PROVE QueuedWait'
  OBVIOUS
<1>1. ASSUME \/ TakeSnapshot \/ BadLoad \/ Interrupt \/ UNCHANGED vars
             \/ \E w \in Workers : Register(w),
             UNCHANGED schedVars
      PROVE  QueuedWait'
  <2>1. /\ UNCHANGED <<jobs, queue, pending, checkpoint, crashes, exits>>
        /\ loaded' = loaded \/ loaded' = TRUE
    BY <1>1 DEF TakeSnapshot, Snapshot, BadLoad, LoadFails, Interrupt, Signal,
       Register, RegisterWorker, schedVars, submitVars, checkpointVars, netVars,
       bounds, vars, masterVars
  <2> QED BY <2>1, WaitingJobs DEF QueuedWait, FirstLoad
<1> QED BY <1>1, NextKinds, SchedulesWaiting, ClientWaiting, RestartWaiting,
       StorageWaiting

LEMMA OpenQueued == OpenSpec => []QueuedIsWaiting
<1>1. Init => QueuedWait
  <2>1. Init => checkpoint = {} /\ \A j \in Jobs : jobs[j].status = "Absent"
    BY NewJobLemma DEF Init, MasterInit, Fresh
  <2> QED BY <2>1 DEF QueuedWait, QueuedIsWaiting, FirstLoad
<1>2. QueuedWait => QueuedIsWaiting
  BY DEF QueuedWait
<1> QED BY <1>1, <1>2, WaitingStep, OpenInvariant, PTL DEF OpenSpec

\* Every job that /status shows as Queued will be found by activateNextJob, also
\* after restarts (checkpoint.go:134-141), unless more jobs are restored than the
\* channel has room for.
THEOREM QueuedIsWaitingAlways == Spec => []QueuedIsWaiting
BY OpenQueued, SpecIsOpen, PTL

-----------------------------------------------------------------------------
(* Checkpoints move forward                                                *)

LEMMA LaterMeans ==
  ASSUME NEW old \in JobStatus, NEW new \in JobStatus
  PROVE  new \in Later(old) <=>
           /\ old = "Mapping" => new \notin {"Absent", "Queued"}
           /\ old = "Reducing" => new \in {"Reducing", "Completed", "Aborted"}
           /\ old = "Completed" => new = "Completed"
           /\ old = "Aborted" => new \in {"Aborted", "Absent"}
<1>1. CASE old \in {"Absent", "Queued"}
  BY <1>1 DEF Later, JobStatus
<1>2. CASE old = "Mapping"
  BY <1>2 DEF Later, JobStatus
<1>3. CASE old = "Reducing"
  BY <1>3 DEF Later
<1>4. CASE old = "Completed"
  BY <1>4 DEF Later
<1>5. CASE old = "Aborted"
  BY <1>5 DEF Later
<1> QED BY <1>1, <1>2, <1>3, <1>4, <1>5 DEF JobStatus

\* The jobs of a state or of a checkpoint, of which Follows compares two.
Table == [Jobs -> Job]

\* Two tables with the same statuses follow each other.
LEMMA SameFollows ==
  ASSUME NEW new \in Table, NEW old \in Table,
         \A j \in Jobs : new[j].status = old[j].status
  PROVE  Follows(new, old)
<1>1. \A j \in Jobs : old[j].status \in JobStatus
  BY DEF Table, Job
<1>2. \A j \in Jobs : new[j].status \in Later(old[j].status)
  BY <1>1, LaterMeans
<1> QED BY <1>2 DEF Follows, Known

\* What is written is later than what it replaces, and the jobs of a master that
\* has loaded its checkpoint are later than both.  A snapshot with a submission
\* under way must not show it as started: the job can still be rejected, unless
\* the queue has room for all jobs.
Ahead ==
  /\ \A a, b \in checkpoint : a = b
  /\ \A a, b \in saving : a = b
  /\ ~Checkpointing => saving = {} /\ checkpoint = {}
  /\ \A c \in saving \cup checkpoint : \A j \in pending : NotStarted(c.jobs[j])
  /\ EnoughRoom => refused = {}
  /\ badLoads = 0 =>
       /\ \A new \in saving, old \in checkpoint : Follows(new.jobs, old.jobs)
       /\ loaded => \A c \in saving \cup checkpoint : Follows(jobs, c.jobs)

\* A step of the jobs that keeps them later than any table they are later than.
Onward ==
  \A old \in {c.jobs : c \in saving \cup checkpoint} :
    Follows(jobs, old) => Follows(jobs', old)

\* Such a step goes on from what was written.
LEMMA OnwardAhead ==
  ASSUME Ahead, Onward,
         UNCHANGED <<loaded, saving, checkpoint, badLoads>>,
         \A c \in saving \cup checkpoint : \A j \in pending' \ pending :
           NotStarted(c.jobs[j]),
         EnoughRoom => refused' = {}
  PROVE  Ahead'
BY DEF Ahead, Onward, EnoughRoom

LEMMA SchedulesOnward ==
  ASSUME IInv, Schedules
  PROVE  Onward
<1> SUFFICES ASSUME NEW old \in {c.jobs : c \in saving \cup checkpoint},
                    Follows(jobs, old)
             PROVE  Follows(jobs', old)
  BY DEF Onward
<1>1. PICK t \in State : Evolves(Current, t) /\ Become(t)
  BY DEF Schedules
<1>2. old \in Table /\ jobs \in Table /\ jobs' \in Table
  BY <1>1, Facts DEF Snapshots, State, Become, Table
<1>3. ASSUME NEW j \in Jobs PROVE jobs'[j].status \in Later(old[j].status)
  <2>1. /\ jobs'[j].status = "Absent" <=> jobs[j].status = "Absent"
        /\ jobs'[j].status = "Queued" => jobs[j].status = "Queued"
        /\ jobs[j].status = "Reducing" =>
             jobs'[j].status \in {"Reducing", "Completed"}
        /\ jobs[j].status \in {"Completed", "Aborted"} =>
             jobs'[j].status = jobs[j].status
    BY <1>1 DEF Evolves, Current, Become
  <2>2. /\ old[j].status \in JobStatus /\ jobs[j].status \in JobStatus
        /\ jobs'[j].status \in JobStatus
    BY <1>2 DEF Table, Job
  <2>3. jobs[j].status \in Later(old[j].status)
    BY DEF Follows
  <2> QED BY <2>1, <2>2, <2>3, LaterMeans
<1>4. Known(jobs') = Known(jobs)
  BY <1>1 DEF Evolves, Current, Become, Known
<1> QED BY <1>3, <1>4 DEF Follows

LEMMA ClientOnward ==
  ASSUME IInv, Ahead, Client
  PROVE  /\ Onward
         /\ \A c \in saving \cup checkpoint : \A j \in pending' \ pending :
              NotStarted(c.jobs[j])
         /\ EnoughRoom => refused' = {}
<1>1. PICK j \in Jobs : \/ SubmitRegister(j) \/ SubmitEnqueue(j)
                        \/ SubmitReject(j) \/ Delete(j)
  BY DEF Client
<1>2. /\ jobs \in Table /\ pending \subseteq Jobs
      /\ \A c \in saving \cup checkpoint :
           /\ c.jobs \in Table
           /\ Known(c.jobs) \subseteq submitted
           /\ \A k \in pending : NotStarted(c.jobs[k])
  BY Facts DEF Snapshots, Table, IInv, SubmissionsAreSound, Ahead
\* What a replaced job must satisfy, for every table the jobs are later than.
<1> DEFINE Fits(old, job) ==
             /\ job.status \in Later(old[j].status)
             /\ EnoughRoom /\ old[j].status # "Absent" => job.status # "Absent"
<1>3. ASSUME NEW job, jobs' = [jobs EXCEPT ![j] = job],
             \A c \in saving \cup checkpoint :
               Follows(jobs, c.jobs) => Fits(c.jobs, job)
      PROVE  Onward
  <2> SUFFICES ASSUME NEW c \in saving \cup checkpoint, Follows(jobs, c.jobs)
               PROVE  Follows(jobs', c.jobs)
    BY DEF Onward
  <2>1. Fits(c.jobs, job)
    BY <1>3
  <2>2. \A k \in Jobs : jobs'[k] = IF k = j THEN job ELSE jobs[k]
    BY <1>2, <1>3 DEF Table
  <2> QED BY <2>1, <2>2 DEF Follows, Known
<1>4. \A c \in saving \cup checkpoint :
        c.jobs[j].status \in JobStatus /\ jobs[j].status \in JobStatus
  BY <1>2 DEF Table, Job
<1>5. CASE SubmitRegister(j)
  <2>1. /\ j \notin submitted /\ jobs' = [jobs EXCEPT ![j] = NewJob]
        /\ pending' = pending \cup {j}
    BY <1>5 DEF SubmitRegister
  <2>2. \A c \in saving \cup checkpoint : c.jobs[j].status = "Absent"
    BY <1>2, <2>1 DEF Known
  <2>3. \A c \in saving \cup checkpoint : Fits(c.jobs, NewJob)
    <3>1. NewJob.status \in JobStatus
      BY NewJobLemma DEF JobStatus
    <3> QED BY <1>4, <2>2, <3>1, LaterMeans
  <2>4. Onward
    BY <1>3, <2>1, <2>3
  <2>5. EnoughRoom => refused' = {}
    BY <1>5 DEF SubmitRegister, Ahead
  <2> QED BY <2>1, <2>2, <2>4, <2>5 DEF NotStarted
<1>6. CASE SubmitEnqueue(j)
  <2>1. j \in pending /\ UNCHANGED jobs /\ pending' \subseteq pending
    BY <1>6 DEF SubmitEnqueue
  <2>2. EnoughRoom => refused' = {}
    BY <1>6, <2>1, QueueHasRoom DEF SubmitEnqueue, Ahead
  <2> QED BY <2>1, <2>2 DEF Onward
<1>8. CASE SubmitReject(j)
  <2>1. /\ j \in pending /\ j \in refused
        /\ jobs' = [jobs EXCEPT ![j] = NoJob]
        /\ pending' = pending \ {j} /\ refused' = refused \ {j}
    BY <1>8 DEF SubmitReject, IInv, TypeOK, MasterTypeOK
  <2>2. ~EnoughRoom
    BY <2>1 DEF Ahead
  <2>3. \A c \in saving \cup checkpoint : Fits(c.jobs, NoJob)
    <3>1. NoJob.status \in JobStatus /\ NoJob.status = "Absent"
      BY NewJobLemma DEF JobStatus
    <3>2. \A c \in saving \cup checkpoint :
            c.jobs[j].status \in {"Absent", "Queued", "Aborted"}
      BY <1>2, <2>1 DEF NotStarted
    <3> QED BY <1>4, <2>2, <3>1, <3>2, LaterMeans
  <2> QED BY <1>3, <2>1, <2>2, <2>3
<1>7. CASE Delete(j)
  <2> DEFINE job == [jobs[j] EXCEPT !.status = "Aborted"]
  <2>1. /\ jobs[j].status \notin {"Absent", "Completed", "Aborted"}
        /\ jobs' = [jobs EXCEPT ![j] = job]
        /\ UNCHANGED <<pending, refused>>
    BY <1>1, <1>2, <1>7 DEF Delete, submitVars
  <2>2. job.status = "Aborted" /\ job.status \in JobStatus
    BY <1>2 DEF Table, Job, JobStatus
  <2> HIDE DEF job
  <2>3. ASSUME NEW c \in saving \cup checkpoint, Follows(jobs, c.jobs)
        PROVE  Fits(c.jobs, job)
    <3>1. jobs[j].status \in Later(c.jobs[j].status)
      BY <2>3 DEF Follows
    <3> QED BY <1>4, <2>1, <2>2, <3>1, LaterMeans
  <2> QED BY <1>3, <2>1, <2>3 DEF Ahead
<1> QED BY <1>1, <1>5, <1>6, <1>7, <1>8

\* A snapshot is as late as the jobs it shows.
LEMMA TakenAhead ==
  ASSUME IInv, Ahead, Checkpointing, loaded,
         saving' = {[jobs |-> jobs, active |-> active]},
         UNCHANGED <<jobs, pending, refused, loaded, checkpoint, badLoads>>
  PROVE  Ahead'
<1>1. jobs \in Table /\ \A j \in pending : NotStarted(jobs[j])
  BY Facts DEF Table, IInv, SubmissionsAreSound
<1>2. Follows(jobs, jobs)
  BY <1>1, SameFollows
<1> QED BY <1>1, <1>2 DEF Ahead, EnoughRoom

LEMMA StorageAhead ==
  ASSUME IInv, Ahead, Storage
  PROVE  Ahead'
<1>1. UNCHANGED badLoads
  BY DEF Storage, bounds
<1>2. /\ jobs \in Table
      /\ \A j \in pending : NotStarted(jobs[j])
      /\ ~loaded => saving = {}
  BY Facts DEF Table, IInv, SubmissionsAreSound
<1>3. CASE WriteCheckpoint
  <2>1. /\ saving' = {} /\ checkpoint' \in {saving, checkpoint}
        /\ UNCHANGED <<jobs, pending, refused, loaded>>
    BY <1>3 DEF WriteCheckpoint, schedVars, submitVars
  <2> QED BY <1>1, <2>1 DEF Ahead, EnoughRoom
<1>4. CASE FinalSnapshot
  BY <1>1, <1>2, <1>4, TakenAhead DEF FinalSnapshot, schedVars, submitVars
<1>5. CASE LoadCheckpoint
  <2>1. /\ ~loaded /\ UNCHANGED <<pending, refused, saving, checkpoint>>
    BY <1>5 DEF LoadCheckpoint, submitVars
  <2>2. ASSUME NEW c \in checkpoint PROVE Follows(jobs', c.jobs)
    <3>1. PICK saved \in checkpoint :
            /\ saved.jobs \in Table /\ jobs' \in Table
            /\ \A j \in Jobs : jobs'[j].status = saved.jobs[j].status
      BY <1>5, LoadFacts DEF Table
    <3>2. saved = c
      BY DEF Ahead
    <3> QED BY <3>1, <3>2, SameFollows
  <2> QED BY <1>1, <1>2, <2>1, <2>2 DEF Ahead, EnoughRoom
<1> QED BY <1>3, <1>4, <1>5 DEF Storage

LEMMA RestartAhead ==
  ASSUME IInv, Ahead, Restart
  PROVE  Ahead'
BY DEF Restart, Exit, Crash, Ahead, EnoughRoom

LEMMA AheadStep == IInv /\ Ahead /\ [OpenNext]_vars => Ahead'
<1> SUFFICES ASSUME IInv, Ahead, [OpenNext]_vars PROVE Ahead'
  OBVIOUS
<1>1. CASE Schedules
  BY <1>1, SchedulesOnward, OnwardAhead
     DEF Schedules, submitVars, checkpointVars, Ahead
<1>2. CASE Client
  BY <1>2, ClientOnward, OnwardAhead DEF Client, SubmitRegister, SubmitEnqueue,
     SubmitReject, Delete, checkpointVars, bounds
<1>3. CASE BadLoad
  BY <1>3, Facts DEF BadLoad, LoadFails, submitVars, Ahead, EnoughRoom
<1>4. CASE TakeSnapshot
  BY <1>4, TakenAhead DEF TakeSnapshot, Snapshot, schedVars, submitVars
<1>5. ASSUME \/ Interrupt \/ UNCHANGED vars
             \/ \E w \in Workers : Register(w)
      PROVE  Ahead'
  <2>1. UNCHANGED <<jobs, pending, refused, loaded, saving, checkpoint, badLoads>>
    BY <1>5 DEF Interrupt, Signal, Register, RegisterWorker, schedVars,
       submitVars, checkpointVars, bounds, vars, masterVars
  <2> QED BY <2>1 DEF Ahead, EnoughRoom
<1> QED BY <1>1, <1>2, <1>3, <1>4, <1>5, NextKinds, StorageAhead, RestartAhead

\* A checkpoint is only written over one that it goes on from, and only
\* WriteCheckpoint writes one.
LEMMA NextForward ==
  ASSUME IInv, Ahead, [OpenNext]_vars,
         NEW old \in checkpoint, NEW new \in checkpoint', badLoads' = 0
  PROVE  Follows(new.jobs, old.jobs)
<1>1. old.jobs \in Table
  BY Facts DEF Snapshots, Table
<1>2. badLoads' \in {badLoads, badLoads + 1} /\ badLoads \in Nat
  BY Facts, NextKinds DEF Schedules, Client, Restart, Storage, TakeSnapshot,
     BadLoad, Interrupt, Register, vars, bounds
<1>3. CASE UNCHANGED checkpoint
  <2>1. new = old
    BY <1>3 DEF Ahead
  <2> QED BY <1>1, <2>1, SameFollows
<1>4. CASE WriteCheckpoint
  <2>1. checkpoint' \in {saving, checkpoint}
    BY <1>4 DEF WriteCheckpoint
  <2> QED BY <1>2, <1>3, <2>1 DEF Ahead
<1>5. WriteCheckpoint \/ UNCHANGED checkpoint
  BY NextKinds DEF Schedules, Client, SubmitRegister, SubmitEnqueue,
     SubmitReject, Delete, Restart, Exit, Crash, Storage, LoadCheckpoint, FinalSnapshot, TakeSnapshot,
     Snapshot, BadLoad, LoadFails, Interrupt, Signal, Register, RegisterWorker,
     checkpointVars, vars, masterVars
<1> QED BY <1>3, <1>4, <1>5

LEMMA OpenForward == OpenSpec => CheckpointMovesForward
<1>1. Init => Ahead
  BY DEF Init, MasterInit, Ahead
<1>2. IInv /\ Ahead /\ [OpenNext]_vars =>
        [\A old \in checkpoint, new \in checkpoint' :
           badLoads' = 0 => Follows(new.jobs, old.jobs)]_vars
  BY NextForward
<1> QED BY <1>1, <1>2, AheadStep, OpenInvariant, PTL
       DEF OpenSpec, CheckpointMovesForward

\* Whatever is in flight when a snapshot is marshalled and when the process ends
\* (checkpoint.go:35-57, 103-144), latest.json never takes a job back, as long
\* as every load could read it.
THEOREM CheckpointMovesForwardAlways == Spec => CheckpointMovesForward
BY OpenForward, SpecIsOpen, PTL

-----------------------------------------------------------------------------
(* Completed jobs have their output: the object to promote outlives all    *)
(* that happens to a task in between, speculation, evictions, failures,    *)
(* checkpoints and restarts                                                *)

\* The reduce task believes that its object was promoted.
Promoted(task) == task.status = "Completed" /\ task.temp = NoObject

\* It was, and an object that is left to promote was written: done is what was
\* reported, <<j, p>> for a promotion and <<j, p, id>> for the reduce that has put
\* the object id.
TaskIsBacked(task, j, p, done) ==
  /\ Promoted(task) => <<j, p>> \in done
  /\ task.temp # NoObject => <<j, p, task.temp>> \in done
JobIsBacked(job, j, done) ==
  /\ job.status = "Completed" => AllPromoted(job)
  /\ \A p \in Partitions : TaskIsBacked(job.reduces[p], j, p, done)
Backed(js, done) == \A j \in Jobs : JobIsBacked(js[j], j, done)

-----------------------------------------------------------------------------
(* The operators of the scheduler                                          *)

LEMMA ReplaceBacked ==
  ASSUME NEW s \in State, NEW done, Backed(s.jobs, done),
         NEW j \in Jobs, NEW job \in Job, JobIsBacked(job, j, done),
         NEW id \in AttemptIds
  PROVE  LET t == [s EXCEPT !.jobs[j] = job, !.next = id]
             u == [s EXCEPT !.jobs[j] = job]
         IN /\ t \in State /\ Backed(t.jobs, done)
            /\ u \in State /\ Backed(u.jobs, done)
<1> DEFINE js == [s.jobs EXCEPT ![j] = job]
<1>1. /\ js \in [Jobs -> Job]
      /\ \A k \in Jobs : js[k] = IF k = j THEN job ELSE s.jobs[k]
  BY DEF State
<1> HIDE DEF js
<1>2. Backed(js, done)
  BY <1>1 DEF Backed
<1>3. LET t == [s EXCEPT !.jobs = js, !.next = id] IN
      t \in State /\ t.jobs = js
  BY <1>1 DEF State
<1>4. LET u == [s EXCEPT !.jobs = js] IN
      u \in State /\ u.jobs = js
  BY <1>1 DEF State
<1> QED BY <1>2, <1>3, <1>4 DEF js

\* A step that replaces a map task and its job's completion times.
LEMMA MapBacked ==
  ASSUME NEW s \in State, NEW done, Backed(s.jobs, done),
         NEW j \in Jobs, NEW m \in MapTasks, NEW task \in MapTask,
         NEW n \in 0 .. 2, NEW id \in AttemptIds, NEW new,
         new = [s.jobs[j] EXCEPT !.maps[m] = task, !.mapTimes = n]
  PROVE  LET t == [s EXCEPT !.jobs[j] = new, !.next = id]
             u == [s EXCEPT !.jobs[j] = new]
         IN /\ t \in State /\ Backed(t.jobs, done)
            /\ u \in State /\ Backed(u.jobs, done)
<1>1. s.jobs[j] \in Job /\ JobIsBacked(s.jobs[j], j, done)
  BY DEF State, Backed
<1>2. /\ new \in Job /\ new.status = s.jobs[j].status
      /\ new.reduces = s.jobs[j].reduces
  BY <1>1 DEF Job
<1>3. JobIsBacked(new, j, done)
  BY <1>1, <1>2 DEF JobIsBacked, AllPromoted
<1> QED BY <1>2, <1>3, ReplaceBacked

\* A step that replaces a reduce task of a job that has not completed.
LEMMA ReduceBacked ==
  ASSUME NEW s \in State, NEW done, Backed(s.jobs, done),
         NEW j \in Jobs, s.jobs[j].status # "Completed",
         NEW p \in Partitions, NEW task \in ReduceTask,
         TaskIsBacked(task, j, p, done),
         NEW n \in 0 .. 2, NEW id \in AttemptIds, NEW new,
         new = [s.jobs[j] EXCEPT !.reduces[p] = task, !.reduceTimes = n]
  PROVE  LET t == [s EXCEPT !.jobs[j] = new, !.next = id]
             u == [s EXCEPT !.jobs[j] = new]
         IN /\ t \in State /\ Backed(t.jobs, done)
            /\ u \in State /\ Backed(u.jobs, done)
<1>1. s.jobs[j] \in Job /\ JobIsBacked(s.jobs[j], j, done)
  BY DEF State, Backed
<1>2. /\ new \in Job /\ new.status = s.jobs[j].status
      /\ \A q \in Partitions :
           new.reduces[q] = IF q = p THEN task ELSE s.jobs[j].reduces[q]
  BY <1>1 DEF Job
<1>3. JobIsBacked(new, j, done)
  BY <1>1, <1>2 DEF JobIsBacked
<1> QED BY <1>2, <1>3, ReplaceBacked

LEMMA AdvanceJobBacked ==
  ASSUME NEW s \in State, NEW done, Backed(s.jobs, done), NEW j \in Jobs
  PROVE  Backed(AdvanceJob(s, j).jobs, done)
<1> DEFINE t == AdvanceJob(s, j)
<1>1. s.jobs[j] \in Job /\ s.jobs \in [Jobs -> Job]
  BY DEF State
<1>2. ASSUME NEW status, status # "Completed" \/ AllPromoted(s.jobs[j]),
             t.jobs = [s.jobs EXCEPT ![j].status = status]
      PROVE  Backed(t.jobs, done)
  <2> DEFINE job == [s.jobs[j] EXCEPT !.status = status]
  <2>1. job.status = status /\ job.reduces = s.jobs[j].reduces
    BY <1>1 DEF Job
  <2>2. \A k \in Jobs : t.jobs[k] = IF k = j THEN job ELSE s.jobs[k]
    BY <1>1, <1>2
  <2> HIDE DEF job, t
  <2>3. JobIsBacked(job, j, done)
    BY <1>2, <2>1 DEF Backed, JobIsBacked, AllPromoted
  <2> QED BY <2>2, <2>3 DEF Backed
<1>3. CASE s.jobs[j].status = "Mapping" /\ AllMapped(s.jobs[j])
  <2>1. t.jobs = [s.jobs EXCEPT ![j].status = "Reducing"]
    BY <1>3 DEF AdvanceJob, State
  <2> QED BY <1>2, <2>1
<1>4. CASE s.jobs[j].status = "Reducing" /\ AllPromoted(s.jobs[j])
  <2>1. t.jobs = [s.jobs EXCEPT ![j].status = "Completed"]
    BY <1>4 DEF AdvanceJob, State
  <2> QED BY <1>2, <1>4, <2>1
<1>5. CASE t = s
  BY <1>5
<1> QED BY <1>3, <1>4, <1>5 DEF AdvanceJob

LEMMA ActivateNextJobBacked ==
  ASSUME NEW s \in State, NEW done, Backed(s.jobs, done)
  PROVE  Backed(ActivateNextJob(s).jobs, done)
<1> DEFINE t == ActivateNextJob(s)
<1>1. s.jobs \in [Jobs -> Job]
  BY DEF State
<1>2. ASSUME NEW j, t.jobs = [s.jobs EXCEPT ![j].status = "Mapping"]
      PROVE  Backed(t.jobs, done)
  <2>1. \A k \in Jobs :
          /\ t.jobs[k].status = IF k = j THEN "Mapping" ELSE s.jobs[k].status
          /\ t.jobs[k].reduces = s.jobs[k].reduces
    BY <1>1, <1>2 DEF Job
  <2> HIDE DEF t
  <2> QED BY <2>1 DEF Backed, JobIsBacked, AllPromoted
<1>3. t.jobs = s.jobs \/ \E j : t.jobs = [s.jobs EXCEPT ![j].status = "Mapping"]
  <2> DEFINE runnable == {i \in 1 .. Len(s.queue) :
                     s.jobs[s.queue[i]].status \notin {"Absent", "Aborted"}}
             j == s.queue[Min(runnable)]
             rest == SubSeq(s.queue, Min(runnable) + 1, Len(s.queue))
  <2>1. t = IF runnable = {} THEN [s EXCEPT !.queue = <<>>]
            ELSE [s EXCEPT !.queue = rest, !.jobs[j].status = "Mapping",
                           !.active = j]
    BY DEF ActivateNextJob, State
  <2> HIDE DEF runnable, j, rest, t
  <2> QED BY <2>1 DEF State
<1> QED BY <1>2, <1>3

-----------------------------------------------------------------------------
(* Assignments                                                             *)

LEMMA GiveMapBacked ==
  ASSUME NEW s, Sound(s), NEW done, Backed(s.jobs, done),
         NEW j \in Jobs, NEW m \in MapTasks, NEW w \in Workers,
         ~Duplicated(s.jobs[j].maps[m])
  PROVE  Backed(GiveMap(s, j, m, w).s.jobs, done)
<1> DEFINE task == StartAttempt(s.jobs[j].maps[m], s.next, w)
           n == s.jobs[j].mapTimes
           new == [s.jobs[j] EXCEPT !.maps[m] = task, !.mapTimes = n]
<1>1. s \in State /\ s.jobs[j] \in Job
  BY DEF Sound, State
<1>2. task \in MapTask /\ s.next + 1 \in AttemptIds /\ n \in 0 .. 2
  BY TasksOf, StartAttemptSound
<1>3. new = [s.jobs[j] EXCEPT !.maps[m] = task]
  <2> HIDE DEF task
  <2> QED BY <1>1 DEF Job
<1>4. GiveMap(s, j, m, w).s = [s EXCEPT !.jobs[j] = new, !.next = s.next + 1]
  BY <1>3 DEF GiveMap
<1> HIDE DEF task, new, n
<1>5. Backed([s EXCEPT !.jobs[j] = new, !.next = s.next + 1].jobs, done)
  BY <1>1, <1>2, MapBacked DEF new
<1> QED BY <1>4, <1>5

\* A task that is handed out is not completed, and so its job is not either.
LEMMA GiveReduceBacked ==
  ASSUME NEW s, Sound(s), NEW done, Backed(s.jobs, done),
         NEW j \in Jobs, NEW p \in Partitions, NEW w \in Workers,
         ~Duplicated(s.jobs[j].reduces[p]),
         s.jobs[j].reduces[p].status # "Completed"
  PROVE  Backed(GiveReduce(s, j, p, w).s.jobs, done)
<1> DEFINE task == StartAttempt(s.jobs[j].reduces[p], s.next, w)
           n == s.jobs[j].reduceTimes
           new == [s.jobs[j] EXCEPT !.reduces[p] = task, !.reduceTimes = n]
<1>1. s \in State /\ s.jobs[j] \in Job
  BY DEF Sound, State
<1>2. task \in ReduceTask /\ s.next + 1 \in AttemptIds /\ n \in 0 .. 2
  BY TasksOf, StartAttemptSound
<1>3. new = [s.jobs[j] EXCEPT !.reduces[p] = task]
  <2> HIDE DEF task
  <2> QED BY <1>1 DEF Job
<1>4. GiveReduce(s, j, p, w).s = [s EXCEPT !.jobs[j] = new, !.next = s.next + 1]
  BY <1>3 DEF GiveReduce
<1>5. TaskIsBacked(task, j, p, done)
  <2>1. ~Promoted(task) /\ task.temp = s.jobs[j].reduces[p].temp
    BY <1>1 DEF StartAttempt, Promoted, Job, ReduceTask
  <2>2. TaskIsBacked(s.jobs[j].reduces[p], j, p, done)
    BY DEF Backed, JobIsBacked
  <2> QED BY <2>1, <2>2 DEF TaskIsBacked
<1>6. s.jobs[j].status # "Completed"
  BY DEF Backed, JobIsBacked, AllPromoted
<1> HIDE DEF task, new, n
<1>7. Backed([s EXCEPT !.jobs[j] = new, !.next = s.next + 1].jobs, done)
  BY <1>1, <1>2, <1>5, <1>6, ReduceBacked DEF new
<1> QED BY <1>4, <1>7

LEMMA AssignReduceTaskBacked ==
  ASSUME NEW s, Sound(s), NEW done, Backed(s.jobs, done),
         NEW j \in Jobs, NEW w \in Workers, NEW slow
  PROVE  Backed(AssignReduceTask(s, j, w, slow).s.jobs, done)
<1> DEFINE idle == IdleReduces(s.jobs[j])
           late == SlowReduces(s.jobs[j], slow)
<1>1. ASSUME NEW S \in {idle, late}, S # {}
      PROVE  Backed(GiveReduce(s, j, Min(S), w).s.jobs, done)
  <2>1. S \in SUBSET Nat /\ \A p \in S : s.jobs[j].reduces[p].status # "Completed"
    <3>1. Partitions \subseteq Nat
      BY NumReduceTasksAssumption DEF Partitions
    <3>2. S \in SUBSET Partitions
      BY DEF IdleReduces, SlowReduces
    <3>3. \A p \in S : s.jobs[j].reduces[p].status \in {"Idle", "InProgress"}
      BY Zenon DEF IdleReduces, SlowReduces
    <3> QED BY <3>1, <3>2, <3>3
  <2>2. Min(S) \in S
    BY <1>1, <2>1, MinLemma
  <2>3. Min(S) \in Partitions /\ ~Duplicated(s.jobs[j].reduces[Min(S)])
    BY <1>1, CandidatesLemma
  <2> QED BY <2>1, <2>2, <2>3, GiveReduceBacked
<1>2. Backed(AdvanceJob(s, j).jobs, done)
  BY AdvanceJobBacked DEF Sound
<1> QED BY <1>1, <1>2 DEF AssignReduceTask, Nothing

LEMMA AssignMapTaskBacked ==
  ASSUME NEW s, Sound(s), NEW done, Backed(s.jobs, done),
         NEW j \in Jobs, NEW w \in Workers, NEW slow
  PROVE  Backed(AssignMapTask(s, j, w, slow).s.jobs, done)
<1> DEFINE idle == IdleMaps(s.jobs[j])
           late == SlowMaps(s.jobs[j], slow)
           advanced == AdvanceJob(s, j)
<1>1. ASSUME NEW S \in {idle, late}, S # {}
      PROVE  Backed(GiveMap(s, j, Min(S), w).s.jobs, done)
  BY <1>1, CandidatesLemma, GiveMapBacked
<1>2. Sound(advanced) /\ Backed(advanced.jobs, done)
  BY AdvanceJobSound, AdvanceJobBacked DEF Sound
<1>3. Backed(AssignReduceTask(advanced, j, w, slow).s.jobs, done)
  BY <1>2, AssignReduceTaskBacked
<1> QED BY <1>1, <1>2, <1>3 DEF AssignMapTask, Nothing

LEMMA AssignTaskBacked ==
  ASSUME NEW s, Sound(s), NEW done, Backed(s.jobs, done),
         NEW w \in Workers, NEW slow
  PROVE  Backed(AssignTask(s, w, slow).s.jobs, done)
<1> DEFINE ready == IF s.active = None THEN ActivateNextJob(s) ELSE s
           j == ready.active
           mapping == AssignMapTask(ready, j, w, slow)
           promotion == AssignPromotionTask(ready, j)
<1>1. Sound(ready) /\ Backed(ready.jobs, done)
  BY ActivateNextJobSound, ActivateNextJobBacked DEF Sound
<1>2. AssignTask(s, w, slow) =
        IF j = None THEN Nothing(ready) ELSE AssignFromJob(ready, j, w, slow)
  BY DEF AssignTask
<1> HIDE DEF ready
<1>3. CASE j = None
  BY <1>1, <1>2, <1>3 DEF Nothing
<1>4. CASE j # None
  <2>1. j \in Jobs /\ Running(ready.jobs[j])
    BY <1>1, <1>4 DEF Sound, State, OneRuns
  <2>2. Sound(mapping.s) /\ Backed(mapping.s.jobs, done)
    BY <1>1, <2>1, AssignMapTaskSound, AssignMapTaskBacked
  <2>3. promotion.s = ready
    BY DEF AssignPromotionTask
  <2>4. Backed(AssignReduceTask(ready, j, w, slow).s.jobs, done)
    BY <1>1, <2>1, AssignReduceTaskBacked
  <2>5. Backed(AssignReduceTask(mapping.s, j, w, slow).s.jobs, done)
    BY <2>1, <2>2, AssignReduceTaskBacked
  <2> HIDE DEF mapping, promotion
  <2>6. CASE ready.jobs[j].status = "Mapping"
    <3>1. AssignFromJob(ready, j, w, slow) =
            IF mapping.given = {} /\ AnyMapTaskCompleted(ready.jobs[j])
              THEN AssignReduceTask(mapping.s, j, w, slow)
              ELSE mapping
      BY <2>6 DEF AssignFromJob, mapping
    <3> QED BY <1>2, <1>4, <2>2, <2>5, <3>1
  <2>7. CASE ready.jobs[j].status = "Reducing"
    <3>1. AssignFromJob(ready, j, w, slow) =
            IF promotion.given = {} THEN AssignReduceTask(ready, j, w, slow)
                                    ELSE promotion
      BY <2>7 DEF AssignFromJob, promotion
    <3> QED BY <1>1, <1>2, <1>4, <2>3, <2>4, <3>1
  <2> QED BY <2>1, <2>6, <2>7 DEF Running
<1> QED BY <1>3, <1>4

-----------------------------------------------------------------------------
(* Results and evictions                                                   *)

LEMMA ProcessMapResultBacked ==
  ASSUME NEW s, Sound(s), NEW done, Backed(s.jobs, done), NEW w \in Workers,
         NEW r, r.job \in Jobs, r.task \in MapTasks, r.id \in AttemptIds
  PROVE  Backed(ProcessMapResult(s, w, r).jobs, done)
<1> DEFINE j == r.job
           k == r.task
           task == s.jobs[j].maps[k]
           n == s.jobs[j].mapTimes
<1>1. /\ task \in MapTask /\ TaskIsSound(task)
      /\ n \in 0 .. 2 /\ s.next \in AttemptIds
      /\ s.jobs[j] \in Job /\ s \in State
  BY TasksOf DEF Sound, State
<1>2. CASE r.outcome = "FAILED"
  <2> DEFINE dropped == DropAttempts(task, AttemptsNamed(task, r.id))
             new == [s.jobs[j] EXCEPT !.maps[k] = dropped, !.mapTimes = n]
  <2>1. dropped \in MapTask
    BY <1>1, DropAttemptsSound
  <2>2. new = [s.jobs[j] EXCEPT !.maps[k] = dropped]
    <3> HIDE DEF dropped
    <3> QED BY <1>1 DEF Job
  <2>3. ProcessMapResult(s, w, r) = [s EXCEPT !.jobs[j] = new]
    BY <1>2, <2>2 DEF ProcessMapResult
  <2> HIDE DEF dropped, new
  <2>4. Backed([s EXCEPT !.jobs[j] = new].jobs, done)
    BY <1>1, <2>1, MapBacked DEF new
  <2> QED BY <2>3, <2>4
<1>3. CASE r.outcome # "FAILED" /\ task.status = "Completed"
  BY <1>3 DEF ProcessMapResult
<1>4. CASE r.outcome # "FAILED" /\ task.status # "Completed"
  <2> DEFINE complete == [task EXCEPT !.status = "Completed", !.host = w]
             count == CountCompletion(n, task, r.id)
             new == [s.jobs[j] EXCEPT !.maps[k] = complete, !.mapTimes = count]
             t == [s EXCEPT !.jobs[j] = new]
             u == [s EXCEPT !.jobs[j].maps[k] = complete,
                            !.jobs[j].mapTimes = count]
  <2>1. complete \in MapTask /\ count \in 0 .. 2
    <3>1. complete \in MapTask
      BY <1>1 DEF MapTask, TaskStatus
    <3>2. count \in 0 .. 2
      BY <1>1 DEF CountCompletion
    <3> QED BY <3>1, <3>2
  <2>2. ProcessMapResult(s, w, r) = AdvanceJob(u, j)
    BY <1>4 DEF ProcessMapResult
  <2> HIDE DEF complete, count
  <2>3. u = t
    BY <1>1 DEF Sound, State, Job
  <2> HIDE DEF new, t, u
  <2>4. t \in State /\ Backed(t.jobs, done)
    BY <1>1, <2>1, MapBacked DEF new, t
  <2> QED BY <2>2, <2>3, <2>4, AdvanceJobBacked
<1> QED BY <1>2, <1>3, <1>4

\* A task that completes has an object to promote.
LEMMA ProcessReduceResultBacked ==
  ASSUME NEW s, Sound(s), NEW done, Backed(s.jobs, done),
         NEW r, r.job \in Jobs, r.task \in Partitions, r.id \in AttemptIds,
         s.jobs[r.job].status # "Completed",
         r.outcome # "FAILED" => <<r.job, r.task, r.id>> \in done
  PROVE  Backed(ProcessReduceResult(s, r).jobs, done)
<1> DEFINE j == r.job
           k == r.task
           task == s.jobs[j].reduces[k]
           n == s.jobs[j].reduceTimes
<1>1. /\ task \in ReduceTask /\ TaskIsSound(task)
      /\ n \in 0 .. 2 /\ s.next \in AttemptIds
      /\ s.jobs[j] \in Job /\ s \in State
      /\ TaskIsBacked(task, j, k, done)
  BY TasksOf DEF Sound, State, Backed, JobIsBacked
<1>2. CASE r.outcome = "FAILED"
  <2> DEFINE dropped == DropAttempts(task, AttemptsNamed(task, r.id))
             new == [s.jobs[j] EXCEPT !.reduces[k] = dropped, !.reduceTimes = n]
  <2>1. dropped \in ReduceTask
    BY <1>1, DropAttemptsSound
  <2>2. new = [s.jobs[j] EXCEPT !.reduces[k] = dropped]
    <3> HIDE DEF dropped
    <3> QED BY <1>1 DEF Job
  <2>3. ProcessReduceResult(s, r) = [s EXCEPT !.jobs[j] = new]
    BY <1>2, <2>2 DEF ProcessReduceResult
  <2>4. TaskIsBacked(dropped, j, k, done)
    BY <1>1 DEF DropAttempts, Promoted, ReduceTask, TaskIsBacked
  <2> HIDE DEF dropped, new, task
  <2>5. Backed([s EXCEPT !.jobs[j] = new].jobs, done)
    BY <1>1, <2>1, <2>4, ReduceBacked DEF new
  <2> QED BY <2>3, <2>5
<1>3. CASE r.outcome # "FAILED" /\ task.status = "Completed"
  BY <1>3 DEF ProcessReduceResult
<1>4. CASE r.outcome # "FAILED" /\ task.status # "Completed"
  <2> DEFINE complete == [task EXCEPT !.status = "Completed",
                                      !.winner = r.id, !.temp = r.id]
             count == CountCompletion(n, task, r.id)
             new == [s.jobs[j] EXCEPT !.reduces[k] = complete,
                                      !.reduceTimes = count]
             t == [s EXCEPT !.jobs[j] = new]
             u == [s EXCEPT !.jobs[j].reduces[k] = complete,
                            !.jobs[j].reduceTimes = count]
  <2>1. complete \in ReduceTask /\ TaskIsBacked(complete, j, k, done)
    <3>1. r.id \in Nat /\ r.id # NoObject /\ task \in ReduceTask
      BY <1>1 DEF AttemptIds
    <3> HIDE DEF task
    <3>2. /\ complete \in ReduceTask /\ ~Promoted(complete)
          /\ complete.temp = r.id
      BY <3>1 DEF ReduceTask, TaskStatus, Promoted
    <3> QED BY <1>4, <3>2 DEF TaskIsBacked
  <2>2. count \in 0 .. 2
    BY <1>1 DEF CountCompletion
  <2>3. ProcessReduceResult(s, r) = AdvanceJob(u, j)
    BY <1>4 DEF ProcessReduceResult
  <2> HIDE DEF complete, count
  <2>4. u = t
    BY <1>1 DEF Sound, State, Job
  <2> HIDE DEF new, t, u
  <2>5. t \in State /\ Backed(t.jobs, done)
    BY <1>1, <2>1, <2>2, ReduceBacked DEF new, t
  <2> QED BY <2>3, <2>4, <2>5, AdvanceJobBacked
<1> QED BY <1>2, <1>3, <1>4

\* The only step that forgets an object, and it has a successful promotion.
LEMMA ProcessPromotionResultBacked ==
  ASSUME NEW s, Sound(s), NEW done, Backed(s.jobs, done),
         NEW r, r.job \in Jobs, r.task \in Partitions,
         s.jobs[r.job].status # "Completed",
         r.outcome # "FAILED" => <<r.job, r.task>> \in done
  PROVE  Backed(ProcessPromotionResult(s, r).jobs, done)
<1> DEFINE j == r.job
           k == r.task
           task == s.jobs[j].reduces[k]
           n == s.jobs[j].reduceTimes
           complete == [task EXCEPT !.temp = NoObject]
           new == [s.jobs[j] EXCEPT !.reduces[k] = complete, !.reduceTimes = n]
           t == [s EXCEPT !.jobs[j] = new]
           u == [s EXCEPT !.jobs[j].reduces[k].temp = NoObject]
<1>1. /\ task \in ReduceTask /\ n \in 0 .. 2 /\ s.next \in AttemptIds
      /\ s.jobs[j] \in Job /\ s \in State
  BY TasksOf DEF Sound, State
<1>2. /\ complete \in ReduceTask
      /\ r.outcome # "FAILED" => TaskIsBacked(complete, j, k, done)
  <2> HIDE DEF task
  <2>1. complete \in ReduceTask /\ complete.temp = NoObject
    BY <1>1 DEF ReduceTask, NoObject
  <2> QED BY <2>1 DEF TaskIsBacked
<1>3. ProcessPromotionResult(s, r) = IF r.outcome = "FAILED" THEN s
                                                           ELSE AdvanceJob(u, j)
  BY DEF ProcessPromotionResult
<1>4. u = t
  <2>1. new = [s.jobs[j] EXCEPT !.reduces[k].temp = NoObject]
    BY <1>1 DEF Job
  <2> QED BY <2>1
<1> HIDE DEF complete, new, t, u
<1>5. CASE r.outcome # "FAILED"
  <2>1. t \in State /\ Backed(t.jobs, done)
    BY <1>1, <1>2, <1>5, ReduceBacked DEF new, t
  <2> QED BY <1>3, <1>4, <1>5, <2>1, AdvanceJobBacked
<1> QED BY <1>3, <1>5

LEMMA ProcessResultBacked ==
  ASSUME NEW s, Sound(s), NEW done, Backed(s.jobs, done), NEW w \in Workers,
         NEW r, NamesTask(r), r.id \in AttemptIds,
         r.phase = "promotion" /\ r.outcome # "FAILED" =>
           <<r.job, r.task>> \in done,
         r.phase = "reduce" /\ r.outcome # "FAILED" =>
           <<r.job, r.task, r.id>> \in done
  PROVE  Backed(ProcessResult(s, w, r).jobs, done)
<1>1. CASE s.jobs[r.job].status \in {"Absent", "Aborted", "Completed"}
  BY <1>1 DEF ProcessResult
<1>2. CASE s.jobs[r.job].status \notin {"Absent", "Aborted", "Completed"}
  <2>1. CASE r.phase = "map"
    BY <1>2, <2>1, ProcessMapResultBacked DEF ProcessResult, NamesTask
  <2>2. CASE r.phase = "reduce"
    BY <1>2, <2>2, ProcessReduceResultBacked DEF ProcessResult, NamesTask
  <2>3. CASE r.phase = "promotion"
    BY <1>2, <2>3, ProcessPromotionResultBacked DEF ProcessResult, NamesTask
  <2> QED BY <2>1, <2>2, <2>3 DEF NamesTask
<1> QED BY <1>1, <1>2

LEMMA ResetWorkerTasksBacked ==
  ASSUME NEW s, Sound(s), NEW done, Backed(s.jobs, done), NEW w \in Workers,
         NEW ref, ref = None \/ NamesTask(ref)
  PROVE  Backed(ResetWorkerTasks(s, w, ref).jobs, done)
<1> DEFINE j == ref.job
           k == ref.task
           before == s.jobs[j].status
           t == ResetWorkerTasks(s, w, ref)
<1>1. ref # None => j \in Jobs
  BY DEF NamesTask
<1>2. CASE ref # None /\ before \notin {"Absent", "Aborted", "Completed"}
            /\ ref.phase = "map"
  <2> DEFINE task == s.jobs[j].maps[k]
             n == s.jobs[j].mapTimes
             released == ReleaseTask(task, w)
             new == [s.jobs[j] EXCEPT !.maps[k] = released, !.mapTimes = n]
  <2>1. /\ k \in MapTasks /\ task \in MapTask /\ TaskIsSound(task)
        /\ n \in 0 .. 2 /\ s.next \in AttemptIds
        /\ s.jobs[j] \in Job /\ s \in State
    BY <1>1, <1>2, TasksOf DEF Sound, State, NamesTask
  <2>2. released \in MapTask
    BY <2>1, DropAttemptsSound DEF ReleaseTask
  <2>3. t = [s EXCEPT !.jobs[j].maps[k] = released]
    BY <1>2 DEF ResetWorkerTasks
  <2> HIDE DEF t, released, task
  <2>4. new = [s.jobs[j] EXCEPT !.maps[k] = released]
    BY <2>1 DEF Job
  <2>5. t = [s EXCEPT !.jobs[j] = new]
    BY <2>3, <2>4
  <2> HIDE DEF new
  <2>6. Backed([s EXCEPT !.jobs[j] = new].jobs, done)
    BY <1>1, <1>2, <2>1, <2>2, MapBacked DEF new
  <2> QED BY <2>5, <2>6 DEF t
<1>3. CASE ref # None /\ before \notin {"Absent", "Aborted", "Completed"}
            /\ ref.phase = "reduce"
  <2> DEFINE task == s.jobs[j].reduces[k]
             n == s.jobs[j].reduceTimes
             released == ReleaseTask(task, w)
             new == [s.jobs[j] EXCEPT !.reduces[k] = released, !.reduceTimes = n]
  <2>1. /\ k \in Partitions /\ task \in ReduceTask /\ TaskIsSound(task)
        /\ n \in 0 .. 2 /\ s.next \in AttemptIds
        /\ s.jobs[j] \in Job /\ s \in State
        /\ TaskIsBacked(task, j, k, done)
    BY <1>1, <1>3, TasksOf DEF Sound, State, NamesTask, Backed, JobIsBacked
  <2>2. released \in ReduceTask
    BY <2>1, DropAttemptsSound DEF ReleaseTask
  <2>3. t = [s EXCEPT !.jobs[j].reduces[k] = released]
    BY <1>3 DEF ResetWorkerTasks
  <2>4. TaskIsBacked(released, j, k, done)
    BY <2>1 DEF ReleaseTask, DropAttempts, Promoted, ReduceTask, TaskIsBacked
  <2> HIDE DEF t, released, task
  <2>5. new = [s.jobs[j] EXCEPT !.reduces[k] = released]
    BY <2>1 DEF Job
  <2>6. t = [s EXCEPT !.jobs[j] = new]
    BY <2>3, <2>5
  <2> HIDE DEF new
  <2>7. Backed([s EXCEPT !.jobs[j] = new].jobs, done)
    BY <1>1, <1>3, <2>1, <2>2, <2>4, ReduceBacked DEF new
  <2> QED BY <2>6, <2>7 DEF t
<1>4. CASE t = s
  BY <1>4
<1> QED BY <1>2, <1>3, <1>4 DEF ResetWorkerTasks, NamesTask

-----------------------------------------------------------------------------
(* The steps of the system                                                 *)

\* The partitions that a worker has reported the promotion of, and the objects
\* that it has reported to have put.
Successes(phase) == {r \in results : r[1].phase = phase /\ r[2] = "SUCCESS"}
Done == {<<r[1].job, r[1].task>> : r \in Successes("promotion")}
          \cup {<<r[1].job, r[1].task, r[1].id>> : r \in Successes("reduce")}

\* What is believed of promotions is true, also in the checkpoints that can
\* become the state again.
BackedAll == /\ Backed(jobs, Done)
             /\ \A c \in saving \cup checkpoint : Backed(c.jobs, Done)

LEMMA BackedMonotone ==
  ASSUME NEW js, NEW done, NEW more, Backed(js, done), done \subseteq more
  PROVE  Backed(js, more)
BY DEF Backed, JobIsBacked, TaskIsBacked

\* The state in which the scheduler looks for an assignment.
Processed(w, result) == IF result = None THEN Current
                        ELSE ProcessResult(Current, w, result)
Reported(report, result) ==
  \/ report = {} /\ result = None
  \/ \E k \in issued, o \in Outcomes :
       report = {<<k, o>>} /\ result = Result(k, o)

LEMMA ProcessedBacked ==
  ASSUME IInv, BackedAll, NEW w \in Workers, NEW report, NEW result,
         Reported(report, result), results' = results \cup report
  PROVE  LET processed == Processed(w, result) IN
         Sound(processed) /\ Backed(processed.jobs, Done')
<1> DEFINE processed == Processed(w, result)
<1>2. Done \subseteq Done'
  BY DEF Done, Successes
<1>3. Backed(jobs, Done')
  BY <1>2, BackedMonotone DEF BackedAll
<1>4. Sound(Current) /\ Backed(Current.jobs, Done')
  BY <1>3 DEF IInv, Current
<1>5. Sound(processed) /\ Backed(processed.jobs, Done')
  <2>1. CASE result = None
    BY <1>4, <2>1 DEF Processed
  <2>2. CASE result # None
    <3>1. PICK k \in issued, o \in Outcomes :
            report = {<<k, o>>} /\ result = Result(k, o)
      BY <2>2 DEF Reported
    <3>2. NamesTask(result) /\ result.id \in AttemptIds
      <4>1. k \in Issues
        BY DEF IInv, TypeOK, ControlTypeOK
      <4>2. NamesTask(Result(k, o)) /\ Result(k, o).id \in AttemptIds
        BY <4>1, IssuesLemma, Zenon
      <4> QED BY <3>1, <4>2, Zenon
    <3>3. /\ result.phase = "promotion" /\ result.outcome # "FAILED" =>
               <<result.job, result.task>> \in Done'
          /\ result.phase = "reduce" /\ result.outcome # "FAILED" =>
               <<result.job, result.task, result.id>> \in Done'
      <4>1. /\ result.phase = k.phase /\ result.outcome = o /\ result.id = k.id
            /\ result.job = k.job /\ result.task = k.task
        BY <3>1 DEF Result
      <4>2. <<k, o>> \in results'
        BY <3>1
      <4>3. /\ k.phase = "promotion" /\ o = "SUCCESS" =>
                 <<k.job, k.task>> \in Done'
            /\ k.phase = "reduce" /\ o = "SUCCESS" =>
                 <<k.job, k.task, k.id>> \in Done'
        BY <4>2 DEF Done, Successes
      <4> QED BY <4>1, <4>3 DEF Outcomes
    <3>4. Sound(ProcessResult(Current, w, result))
      BY <1>4, <3>2, ProcessResultSound
    <3>5. Backed(ProcessResult(Current, w, result).jobs, Done')
      BY <1>4, <3>2, <3>3, ProcessResultBacked
    <3> QED BY <2>2, <3>4, <3>5 DEF Processed
  <2> QED BY <2>1, <2>2
<1> QED BY <1>5

LEMMA ExchangeBacked ==
  ASSUME IInv, BackedAll, NEW w \in Workers, NEW idle \in BOOLEAN, NEW slow,
         NEW i, NEW report, NEW result,
         Reported(report, result), Exchange(w, idle, i, report, result, slow)
  PROVE  BackedAll'
<1> DEFINE processed == Processed(w, result)
           t == Heard(w, idle, result, slow).s
<1>1. /\ Become(t) /\ results' = results \cup report
      /\ UNCHANGED <<saving, checkpoint>>
  BY DEF Exchange, Heartbeat, checkpointVars
<1>2. Done \subseteq Done'
  BY <1>1 DEF Done, Successes
<1>3. \A c \in saving \cup checkpoint : Backed(c.jobs, Done')
  BY <1>2, BackedMonotone DEF BackedAll
<1>5. Sound(processed) /\ Backed(processed.jobs, Done')
  BY <1>1, ProcessedBacked
<1>6. Backed(t.jobs, Done')
  <2>1. t = IF idle THEN AssignTask(processed, w, slow).s ELSE processed
    BY DEF Heard, Nothing, Processed
  <2> HIDE DEF processed, t
  <2> QED BY <1>5, <2>1, AssignTaskBacked
<1>7. jobs' = t.jobs
  BY <1>1 DEF Become
<1> HIDE DEF t
<1> QED BY <1>1, <1>3, <1>6, <1>7 DEF BackedAll

LEMMA HeartbeatBacked ==
  ASSUME IInv, BackedAll, NEW w \in Workers, OpenHeartbeat(w)
  PROVE  BackedAll'
<1>1. PICK idle \in BOOLEAN, i \in issued \cup {None}, slow \in SlowChoices :
        \/ Exchange(w, idle, i, {}, None, slow)
        \/ \E k \in issued, o \in Outcomes :
             Exchange(w, idle, i, {<<k, o>>}, Result(k, o), slow)
  BY DEF OpenHeartbeat, Given
<1>2. CASE Exchange(w, idle, i, {}, None, slow)
  BY <1>2, ExchangeBacked DEF Reported
<1>3. ASSUME NEW k \in issued, NEW o \in Outcomes,
             Exchange(w, idle, i, {<<k, o>>}, Result(k, o), slow)
      PROVE  BackedAll'
  BY <1>3, ExchangeBacked DEF Reported
<1> QED BY <1>1, <1>2, <1>3

LEMMA ExpireBacked ==
  ASSUME IInv, BackedAll, NEW w \in Workers, Expire(w)
  PROVE  BackedAll'
<1> DEFINE t == ResetWorkerTasks(Current, w, currentTask[w])
<1>1. Become(t) /\ UNCHANGED <<saving, checkpoint, results>>
  BY DEF Expire, Evict, checkpointVars, netVars
<1>2. currentTask[w] = None \/ NamesTask(currentTask[w])
  BY DEF IInv, TypeOK, MasterTypeOK, TaskRefs, NamesTask
<1>3. Sound(Current) /\ Backed(Current.jobs, Done)
  BY DEF IInv, BackedAll, Current
<1>4. Backed(t.jobs, Done)
  BY <1>2, <1>3, ResetWorkerTasksBacked
<1> HIDE DEF t
<1>5. jobs' = t.jobs
  BY <1>1 DEF Become
<1> QED BY <1>1, <1>4, <1>5 DEF BackedAll, Done, Successes

\* A job that has not begun believes nothing.
LEMMA NewJobBacked ==
  ASSUME NEW j, NEW done
  PROVE  JobIsBacked(NewJob, j, done) /\ JobIsBacked(NoJob, j, done)
BY DEF JobIsBacked, TaskIsBacked, Promoted, NewJob, NoJob

LEMMA ClientBacked ==
  ASSUME IInv, BackedAll, Client
  PROVE  BackedAll'
<1>1. UNCHANGED <<saving, checkpoint, results>>
  BY DEF Client, SubmitRegister, SubmitEnqueue, SubmitReject, Delete,
     checkpointVars, netVars
<1>2. PICK j \in Jobs : \/ SubmitRegister(j) \/ SubmitEnqueue(j)
                        \/ SubmitReject(j) \/ Delete(j)
  BY DEF Client
<1>3. jobs \in [Jobs -> Job] /\ Backed(jobs, Done)
  BY DEF IInv, TypeOK, MasterTypeOK, Current, State, BackedAll
<1>4. ASSUME NEW job, jobs' = [jobs EXCEPT ![j] = job],
             JobIsBacked(job, j, Done)
      PROVE  BackedAll'
  <2>1. \A k \in Jobs : jobs'[k] = IF k = j THEN job ELSE jobs[k]
    BY <1>3, <1>4
  <2>2. Backed(jobs', Done)
    BY <1>3, <1>4, <2>1 DEF Backed
  <2> QED BY <1>1, <2>2 DEF BackedAll, Done, Successes
<1>5. CASE SubmitRegister(j)
  BY <1>4, <1>5, NewJobBacked DEF SubmitRegister
<1>6. CASE SubmitEnqueue(j)
  BY <1>1, <1>6 DEF SubmitEnqueue, BackedAll, Done, Successes
<1>8. CASE SubmitReject(j)
  BY <1>4, <1>8, NewJobBacked DEF SubmitReject
<1>7. CASE Delete(j)
  <2>1. /\ jobs' = [jobs EXCEPT ![j].status = "Aborted"]
        /\ jobs[j].status # "Completed"
    BY <1>7 DEF Delete
  <2> DEFINE job == [jobs[j] EXCEPT !.status = "Aborted"]
  <2>2. job.status = "Aborted" /\ job.reduces = jobs[j].reduces
    BY <1>3 DEF Job
  <2>3. jobs' = [jobs EXCEPT ![j] = job]
    BY <2>1
  <2> HIDE DEF job
  <2>4. JobIsBacked(job, j, Done)
    BY <1>3, <2>2 DEF Backed, JobIsBacked
  <2> QED BY <1>4, <2>3, <2>4
<1> QED BY <1>2, <1>5, <1>6, <1>7, <1>8

\* A restored task is completed only if it was, and keeps its object.
LEMMA RestoredBacked ==
  ASSUME NEW job \in Job, NEW j, NEW done, JobIsBacked(job, j, done)
  PROVE  JobIsBacked(Restored(job), j, done)
<1>1. /\ Restored(job).status = job.status
      /\ Restored(job).reduces =
           [p \in Partitions |-> ResetTask(job.reduces[p])]
  BY DEF Restored, Job
<1>2. ASSUME NEW p \in Partitions
      PROVE  LET old == job.reduces[p]
                 new == Restored(job).reduces[p]
             IN /\ new.status = "Completed" <=> old.status = "Completed"
                /\ new.temp = old.temp
  <2>1. job.reduces[p] \in ReduceTask
    BY DEF Job
  <2>2. Restored(job).reduces[p] = ResetTask(job.reduces[p])
    BY <1>1
  <2> QED BY <2>1, <2>2 DEF ResetTask, DropAttempts, ReduceTask
<1> QED BY <1>1, <1>2 DEF JobIsBacked, TaskIsBacked, AllPromoted, Promoted

LEMMA StorageBacked ==
  ASSUME IInv, BackedAll, Storage
  PROVE  BackedAll'
<1>1. UNCHANGED results
  BY DEF Storage, netVars
<1>2. CASE WriteCheckpoint
  BY <1>1, <1>2 DEF WriteCheckpoint, schedVars, BackedAll, Done, Successes
<1>3. CASE FinalSnapshot
  <2>1. /\ saving' = {[jobs |-> jobs, active |-> active]}
        /\ UNCHANGED <<jobs, checkpoint>>
    BY <1>3 DEF FinalSnapshot, schedVars
  <2>2. Done' = Done
    BY <1>1 DEF Done, Successes
  <2> QED BY <2>1, <2>2 DEF BackedAll
<1>4. CASE LoadCheckpoint
  <2>1. UNCHANGED <<saving, checkpoint>>
    BY <1>4 DEF LoadCheckpoint
  <2>2. CASE UNCHANGED jobs
    BY <1>1, <2>1, <2>2 DEF BackedAll, Done, Successes
  <2>3. CASE ~ UNCHANGED jobs
    <3>1. PICK saved \in checkpoint :
            jobs' = [j \in Jobs |-> Restored(saved.jobs[j])]
      BY <1>4, <2>3 DEF LoadCheckpoint, schedVars
    <3>2. saved.jobs \in [Jobs -> Job] /\ Backed(saved.jobs, Done)
      BY DEF IInv, TypeOK, MasterTypeOK, Snapshots, BackedAll
    <3>3. Backed(jobs', Done)
      BY <3>1, <3>2, RestoredBacked DEF Backed
    <3> QED BY <1>1, <2>1, <3>3 DEF BackedAll, Done, Successes
  <2> QED BY <2>2, <2>3
<1> QED BY <1>2, <1>3, <1>4 DEF Storage

LEMMA BackedStep == IInv /\ BackedAll /\ [OpenNext]_vars => BackedAll'
<1> SUFFICES ASSUME IInv, BackedAll, [OpenNext]_vars PROVE BackedAll'
  OBVIOUS
<1>1. CASE TakeSnapshot
  <2>1. /\ saving' = {[jobs |-> jobs, active |-> active]}
        /\ UNCHANGED <<jobs, checkpoint, results>>
    BY <1>1 DEF TakeSnapshot, Snapshot, schedVars, netVars
  <2>2. Done' = Done
    BY <2>1 DEF Done, Successes
  <2> QED BY <2>1, <2>2 DEF BackedAll
<1>2. CASE Restart
  <2>1. /\ jobs' = [j \in Jobs |-> NoJob]
        /\ saving' = {} /\ UNCHANGED <<checkpoint, results>>
    BY <1>2 DEF Restart, Exit, Crash, Become, Fresh, netVars
  <2>2. Backed(jobs', Done)
    BY <2>1, NewJobBacked DEF Backed
  <2> QED BY <2>1, <2>2 DEF BackedAll, Done, Successes
<1>3. ASSUME \/ BadLoad \/ Interrupt \/ UNCHANGED vars
             \/ \E w \in Workers : Register(w)
      PROVE  BackedAll'
  <2>1. UNCHANGED <<jobs, saving, checkpoint, results>>
    BY <1>3 DEF BadLoad, LoadFails, Interrupt, Signal, Register,
       RegisterWorker, schedVars, checkpointVars, netVars, vars, masterVars
  <2> QED BY <2>1 DEF BackedAll, Done, Successes
<1> QED BY <1>1, <1>2, <1>3, HeartbeatBacked, ExpireBacked, ClientBacked,
           StorageBacked DEF OpenNext

LEMMA OpenPromoted == OpenSpec => []CompletedWasPromoted
<1>1. Init => BackedAll
  <2> SUFFICES ASSUME Init PROVE BackedAll
    OBVIOUS
  <2>1. jobs = [j \in Jobs |-> NoJob] /\ saving = {} /\ checkpoint = {}
    BY DEF Init, MasterInit, Fresh
  <2> QED BY <2>1, NewJobBacked DEF BackedAll, Backed
<1>2. BackedAll => CompletedWasPromoted
  <2> SUFFICES ASSUME BackedAll, NEW j \in Jobs, jobs[j].status = "Completed",
                      NEW p \in Partitions
               PROVE  /\ jobs[j].reduces[p].status = "Completed"
                      /\ \E r \in results : /\ r[1].phase = "promotion"
                                            /\ r[1].job = j
                                            /\ r[1].task = p
                                            /\ r[2] = "SUCCESS"
    BY DEF CompletedWasPromoted
  <2>1. Promoted(jobs[j].reduces[p]) /\ <<j, p>> \in Done
    BY DEF BackedAll, Backed, JobIsBacked, TaskIsBacked, AllPromoted, Promoted
  <2>2. <<j, p>> \in {<<r[1].job, r[1].task>> : r \in Successes("promotion")}
    BY <2>1 DEF Done, Successes
  <2> QED BY <2>1, <2>2 DEF Promoted, Successes
<1> QED BY <1>1, <1>2, BackedStep, OpenInvariant, PTL DEF OpenSpec

\* A job that /status shows as Completed has the output of every partition under
\* its final name: the object of a task is only forgotten when a worker reports
\* that it was promoted (scheduler.go:443), whatever else happened to the task.
THEOREM CompletedWasPromotedAlways == Spec => []CompletedWasPromoted
BY OpenPromoted, SpecIsOpen, PTL

-----------------------------------------------------------------------------
(* Attempt ids are used once, through restarts and the load of checkpoints,  *)
(* and a promotion names the object of a reduce                              *)

FreshIds(I, next) ==
  /\ \A i \in I : i.phase # "promotion" => i.id < next
  /\ \A i, k \in I :
       i.phase # "promotion" /\ k.phase # "promotion" /\ i.id = k.id => i = k

\* An attempt has one outcome.
OneOutcome(R) == \A r, q \in R : r[1] = q[1] /\ r[1].phase # "promotion"
                                   => r[2] = q[2]

LEMMA FreshIssue ==
  ASSUME NEW I \in SUBSET Issues, NEW next \in AttemptIds, FreshIds(I, next),
         NEW i, i.id = next
  PROVE  FreshIds(I \cup {i}, next + 1)
<1>1. \A k \in I : k.id \in Nat
  BY DEF Issues, AttemptIds
<1>2. \A k \in I \cup {i} : k.phase # "promotion" => k.id < next + 1
  BY <1>1 DEF FreshIds, AttemptIds
<1>3. \A k \in I : k.phase # "promotion" => k.id # i.id
  BY <1>1 DEF FreshIds, AttemptIds
<1> QED BY <1>2, <1>3 DEF FreshIds

\* What is handed out is a promotion of an object that was put, or takes the
\* next id.
Promotes(x, done) == x.phase = "promotion" /\ <<x.job, x.task, x.id>> \in done
Draws(s, a, done) ==
  \/ a.s.next = s.next /\ \A x \in a.given : Promotes(x, done)
  \/ /\ a.s.next = s.next + 1 /\ a.given # {}
     /\ \A x \in a.given : x.phase # "promotion" /\ x.id = s.next

LEMMA NextStays ==
  ASSUME NEW s \in State, NEW j
  PROVE  /\ AdvanceJob(s, j).next = s.next
         /\ ActivateNextJob(s).next = s.next
<1>1. AdvanceJob(s, j).next = s.next
  BY DEF AdvanceJob, State
<1>2. ActivateNextJob(s).next = s.next
  <2> DEFINE runnable == {i \in 1 .. Len(s.queue) :
                     s.jobs[s.queue[i]].status \notin {"Absent", "Aborted"}}
             k == s.queue[Min(runnable)]
             rest == SubSeq(s.queue, Min(runnable) + 1, Len(s.queue))
  <2>1. ActivateNextJob(s) =
          IF runnable = {} THEN [s EXCEPT !.queue = <<>>]
          ELSE [s EXCEPT !.queue = rest, !.jobs[k].status = "Mapping",
                         !.active = k]
    BY DEF ActivateNextJob, State
  <2> HIDE DEF runnable, k, rest
  <2> QED BY <2>1 DEF State
<1> QED BY <1>1, <1>2

LEMMA GiveDraws ==
  ASSUME NEW s \in State, NEW j, NEW t, NEW w, NEW done
  PROVE  Draws(s, GiveMap(s, j, t, w), done) /\ Draws(s, GiveReduce(s, j, t, w), done)
<1>1. Draws(s, GiveMap(s, j, t, w), done)
  <2> DEFINE x == [phase |-> "map", job |-> j, task |-> t, id |-> s.next,
                   urls |-> {}, allMaps |-> FALSE]
  <2>1. GiveMap(s, j, t, w).s.next = s.next + 1
    BY DEF GiveMap, State
  <2>2. GiveMap(s, j, t, w).given = {x}
    BY GivenByGiveMap, Zenon
  <2>3. x.phase # "promotion" /\ x.id = s.next
    BY Zenon
  <2> HIDE DEF x
  <2> QED BY <2>1, <2>2, <2>3 DEF Draws
<1>2. Draws(s, GiveReduce(s, j, t, w), done)
  <2> DEFINE x == [phase |-> "reduce", job |-> j, task |-> t, id |-> s.next,
                   urls |-> CollectPartitionURLs(s.jobs, j, t),
                   allMaps |-> s.jobs[j].status = "Reducing"]
  <2>1. GiveReduce(s, j, t, w).s.next = s.next + 1
    BY DEF GiveReduce, State
  <2>2. GiveReduce(s, j, t, w).given = {x}
    BY GivenByGiveReduce, Zenon
  <2>3. x.phase # "promotion" /\ x.id = s.next
    BY Zenon
  <2> HIDE DEF x
  <2> QED BY <2>1, <2>2, <2>3 DEF Draws
<1> QED BY <1>1, <1>2

LEMMA AssignTaskDraws ==
  ASSUME NEW s, Sound(s), NEW done, Backed(s.jobs, done),
         NEW w \in Workers, NEW slow
  PROVE  Draws(s, AssignTask(s, w, slow), done)
<1>1. ASSUME NEW u, NEW v, NEW a, u.next = v.next, Draws(u, a, done)
      PROVE  Draws(v, a, done)
  BY <1>1 DEF Draws
<1>2. ASSUME NEW u, NEW v, u.next = v.next PROVE Draws(v, Nothing(u), done)
  BY <1>2 DEF Draws, Nothing
<1>3. ASSUME NEW u, Sound(u), NEW j \in Jobs
      PROVE  Draws(u, AssignReduceTask(u, j, w, slow), done)
  <2>1. u \in State
    BY <1>3 DEF Sound
  <2> QED BY <1>2, <2>1, GiveDraws, NextStays DEF AssignReduceTask
<1>4. ASSUME NEW u, Sound(u), NEW j \in Jobs
      PROVE  Draws(u, AssignMapTask(u, j, w, slow), done)
  <2> DEFINE v == AdvanceJob(u, j)
  <2>1. u \in State /\ Sound(v) /\ v.next = u.next
    BY <1>4, AdvanceJobSound, NextStays DEF Sound
  <2>2. Draws(v, AssignReduceTask(v, j, w, slow), done)
    BY <1>3, <1>4, <2>1
  <2>3. Draws(u, AssignReduceTask(v, j, w, slow), done)
    BY <1>1, <2>1, <2>2
  <2> QED BY <1>2, <2>1, <2>3, GiveDraws DEF AssignMapTask
<1>5. ASSUME NEW u, Sound(u), Backed(u.jobs, done), NEW j \in Jobs
      PROVE  Draws(u, AssignPromotionTask(u, j), done)
  <2> DEFINE S == PromotableTasks(u.jobs[j])
             p == Min(S)
             x == [phase |-> "promotion", job |-> j, task |-> p,
                   id |-> u.jobs[j].reduces[p].temp,
                   urls |-> {}, allMaps |-> FALSE]
  <2>1. CASE S = {}
    BY <2>1 DEF AssignPromotionTask, Draws
  <2>2. CASE S # {}
    <3>1. S \in SUBSET Nat
      BY NumReduceTasksAssumption DEF PromotableTasks, Partitions
    <3>2. p \in S
      BY <2>2, <3>1, MinLemma
    <3>3. p \in Partitions /\ u.jobs[j].reduces[p].temp # NoObject
      BY <3>2 DEF PromotableTasks
    <3>4. <<j, p, u.jobs[j].reduces[p].temp>> \in done
      BY <1>5, <3>3 DEF Backed, JobIsBacked, TaskIsBacked
    <3>5. Promotes(x, done)
      BY <3>4 DEF Promotes
    <3>6. AssignPromotionTask(u, j) = [s |-> u, given |-> {x}]
      BY <2>2, Zenon DEF AssignPromotionTask
    <3> HIDE DEF x
    <3> QED BY <3>5, <3>6 DEF Draws
  <2> QED BY <2>1, <2>2
<1>6. ASSUME NEW u, Sound(u), Backed(u.jobs, done), NEW j \in Jobs,
             Running(u.jobs[j])
      PROVE  Draws(u, AssignFromJob(u, j, w, slow), done)
  <2> DEFINE m == AssignMapTask(u, j, w, slow)
  <2>1. Draws(u, m, done) /\ Sound(m.s)
    BY <1>4, <1>6, AssignMapTaskSound
  <2>2. Draws(m.s, AssignReduceTask(m.s, j, w, slow), done)
    BY <1>3, <1>6, <2>1
  <2>3. m.given = {} => Draws(u, AssignReduceTask(m.s, j, w, slow), done)
    <3> HIDE DEF m
    <3>1. m.given = {} => m.s.next = u.next
      BY <2>1 DEF Draws
    <3> QED BY <1>1, <2>2, <3>1
  <2>4. /\ Draws(u, AssignReduceTask(u, j, w, slow), done)
        /\ Draws(u, AssignPromotionTask(u, j), done)
    BY <1>3, <1>5, <1>6
  <2> QED BY <1>6, <2>1, <2>3, <2>4 DEF AssignFromJob, Running
<1> DEFINE ready == IF s.active = None THEN ActivateNextJob(s) ELSE s
<1>7. Sound(ready) /\ Backed(ready.jobs, done) /\ ready.next = s.next
  BY ActivateNextJobSound, ActivateNextJobBacked, NextStays DEF Sound
<1>8. AssignTask(s, w, slow) =
        IF ready.active = None THEN Nothing(ready)
        ELSE AssignFromJob(ready, ready.active, w, slow)
  BY DEF AssignTask
<1> HIDE DEF ready
<1>9. ready.active # None =>
        ready.active \in Jobs /\ Running(ready.jobs[ready.active])
  BY <1>7 DEF Sound, State, OneRuns
<1>10. CASE ready.active = None
  BY <1>2, <1>7, <1>8, <1>10
<1>11. CASE ready.active # None
  <2>1. Draws(ready, AssignTask(s, w, slow), done)
    BY <1>6, <1>7, <1>8, <1>9, <1>11
  <2> QED BY <1>1, <1>7, <2>1
<1> QED BY <1>10, <1>11

\* The same of a state in which the record of a job has just been replaced.
Fielded(s) == s \in [jobs : {s.jobs}, active : {s.active},
                     queue : {s.queue}, next : {s.next}]

LEMMA AdvanceNext ==
  ASSUME NEW t, Fielded(t), NEW j
  PROVE  AdvanceJob(t, j).next = t.next
BY DEF AdvanceJob, Fielded

LEMMA ProcessResultNext ==
  ASSUME NEW s \in State, NEW w, NEW r, NamesTask(r)
  PROVE  ProcessResult(s, w, r).next = s.next
<1> DEFINE j == r.job
           k == r.task
<1>1. ProcessMapResult(s, w, r).next = s.next
  <2> DEFINE task == s.jobs[j].maps[k]
             dropped == DropAttempts(task, AttemptsNamed(task, r.id))
             done == [task EXCEPT !.status = "Completed", !.host = w]
             n == CountCompletion(s.jobs[j].mapTimes, task, r.id)
             t == [s EXCEPT !.jobs[j].maps[k] = dropped]
             u == [s EXCEPT !.jobs[j].maps[k] = done, !.jobs[j].mapTimes = n]
  <2>1. ProcessMapResult(s, w, r) \in {t, s, AdvanceJob(u, j)}
    BY DEF ProcessMapResult
  <2>2. t.next = s.next /\ Fielded(u) /\ u.next = s.next
    <3> HIDE DEF dropped, done, n
    <3> QED BY DEF State, Fielded
  <2> HIDE DEF t, u
  <2> QED BY <2>1, <2>2, AdvanceNext
<1>2. ProcessReduceResult(s, r).next = s.next
  <2> DEFINE task == s.jobs[j].reduces[k]
             dropped == DropAttempts(task, AttemptsNamed(task, r.id))
             done == [task EXCEPT !.status = "Completed",
                                  !.winner = r.id, !.temp = r.id]
             n == CountCompletion(s.jobs[j].reduceTimes, task, r.id)
             t == [s EXCEPT !.jobs[j].reduces[k] = dropped]
             u == [s EXCEPT !.jobs[j].reduces[k] = done,
                            !.jobs[j].reduceTimes = n]
  <2>1. ProcessReduceResult(s, r) \in {t, s, AdvanceJob(u, j)}
    BY DEF ProcessReduceResult
  <2>2. t.next = s.next /\ Fielded(u) /\ u.next = s.next
    <3> HIDE DEF dropped, done, n
    <3> QED BY DEF State, Fielded
  <2> HIDE DEF t, u
  <2> QED BY <2>1, <2>2, AdvanceNext
<1>3. ProcessPromotionResult(s, r).next = s.next
  <2> DEFINE u == [s EXCEPT !.jobs[j].reduces[k].temp = NoObject]
  <2>1. ProcessPromotionResult(s, r) \in {s, AdvanceJob(u, j)}
    BY DEF ProcessPromotionResult
  <2>2. Fielded(u) /\ u.next = s.next
    BY DEF State, Fielded
  <2> HIDE DEF u
  <2> QED BY <2>1, <2>2, AdvanceNext
<1> QED BY <1>1, <1>2, <1>3 DEF ProcessResult, NamesTask

LEMMA ResetWorkerTasksNext ==
  ASSUME NEW s \in State, NEW w, NEW ref
  PROVE  ResetWorkerTasks(s, w, ref).next = s.next
BY DEF ResetWorkerTasks, State

AtMostOne(S) == \A a, b \in S : a = b

\* What the scheduler hands out in one go: at most one assignment.
Offer(S) == AtMostOne(S) /\ \A a \in S : a.allMaps \in BOOLEAN

LEMMA OneAssignment ==
  ASSUME NEW s, NEW w, NEW slow
  PROVE  Offer(AssignTask(s, w, slow).given)
<1>1. \A x : Offer(Nothing(x).given)
  BY DEF Nothing, Offer, AtMostOne
<1>2. ASSUME NEW x, NEW j, NEW t, NEW v
      PROVE  Offer(GiveMap(x, j, t, v).given)
  <2> DEFINE a == [phase |-> "map", job |-> j, task |-> t, id |-> x.next,
                   urls |-> {}, allMaps |-> FALSE]
  <2>1. GiveMap(x, j, t, v).given = {a}
    BY GivenByGiveMap, Zenon
  <2>2. a.allMaps \in BOOLEAN
    BY Zenon
  <2> HIDE DEF a
  <2> QED BY <2>1, <2>2 DEF Offer, AtMostOne
<1>3. ASSUME NEW x, NEW j, NEW t, NEW v
      PROVE  Offer(GiveReduce(x, j, t, v).given)
  <2> DEFINE a == [phase |-> "reduce", job |-> j, task |-> t, id |-> x.next,
                   urls |-> CollectPartitionURLs(x.jobs, j, t),
                   allMaps |-> x.jobs[j].status = "Reducing"]
  <2>1. GiveReduce(x, j, t, v).given = {a}
    BY GivenByGiveReduce, Zenon
  <2>2. a.allMaps \in BOOLEAN
    BY Zenon
  <2> HIDE DEF a
  <2> QED BY <2>1, <2>2 DEF Offer, AtMostOne
<1>4. \A x, j, v, l : Offer(AssignReduceTask(x, j, v, l).given)
  BY <1>1, <1>3 DEF AssignReduceTask
<1>5. \A x, j, v, l : Offer(AssignMapTask(x, j, v, l).given)
  BY <1>1, <1>2, <1>4 DEF AssignMapTask
<1>6. ASSUME NEW x, NEW j PROVE Offer(AssignPromotionTask(x, j).given)
  <2> DEFINE p == Min(PromotableTasks(x.jobs[j]))
             a == [phase |-> "promotion", job |-> j, task |-> p,
                   id |-> x.jobs[j].reduces[p].temp,
                   urls |-> {}, allMaps |-> FALSE]
  <2>1. AssignPromotionTask(x, j).given = {}
          \/ AssignPromotionTask(x, j).given = {a}
    BY Zenon DEF AssignPromotionTask
  <2>2. a.allMaps \in BOOLEAN
    BY Zenon
  <2> HIDE DEF a
  <2> QED BY <2>1, <2>2 DEF Offer, AtMostOne
<1>7. \A x, j, v, l : Offer(AssignFromJob(x, j, v, l).given)
  BY <1>1, <1>4, <1>5, <1>6 DEF AssignFromJob
<1> QED BY <1>1, <1>7 DEF AssignTask

LEMMA HeardOffer ==
  ASSUME NEW w, NEW idle, NEW result, NEW slow
  PROVE  Offer(Heard(w, idle, result, slow).given)
BY OneAssignment DEF Heard, Nothing, Offer, AtMostOne

\* No id is used twice: what is handed out next was never handed out before.
OwnIds == /\ FreshIds(issued, nextAttempt)
          /\ \A k \in issued : k.id < nextAttempt

\* What the scheduler hands out after it has heard a result.
LEMMA HeardDraws ==
  ASSUME IInv, BackedAll, NEW w \in Workers, NEW idle \in BOOLEAN, NEW slow,
         NEW report, NEW result, Reported(report, result),
         results' = results \cup report
  PROVE  Draws(Current, Heard(w, idle, result, slow), Done')
<1> DEFINE processed == Processed(w, result)
<1>1. Sound(processed) /\ Backed(processed.jobs, Done')
  BY ProcessedBacked
<1>2. processed.next = Current.next
  <2>1. Current \in State
    BY DEF IInv, Sound
  <2>2. result # None => NamesTask(result)
    <3>1. ASSUME NEW k \in issued, NEW o \in Outcomes
          PROVE  NamesTask(Result(k, o))
      BY IssuesLemma DEF IInv, TypeOK, ControlTypeOK
    <3> QED BY <3>1 DEF Reported
  <2> QED BY <2>1, <2>2, ProcessResultNext DEF Processed
<1>3. Heard(w, idle, result, slow) =
        IF idle THEN AssignTask(processed, w, slow) ELSE Nothing(processed)
  BY DEF Heard, Processed
<1> HIDE DEF processed
<1>4. Draws(processed, AssignTask(processed, w, slow), Done')
  BY <1>1, AssignTaskDraws
<1>5. Draws(processed, Nothing(processed), Done')
  BY DEF Draws, Nothing
<1> QED BY <1>2, <1>3, <1>4, <1>5 DEF Draws

LEMMA ExchangeIds ==
  ASSUME IInv, BackedAll, OwnIds, NEW w \in Workers, NEW idle \in BOOLEAN,
         NEW slow, NEW i, NEW report, NEW result,
         Reported(report, result), Exchange(w, idle, i, report, result, slow)
  PROVE  /\ OwnIds'
         /\ \A a \in Heard(w, idle, result, slow).given :
              a.phase # "promotion" => a.id = nextAttempt
<1> DEFINE h == Heard(w, idle, result, slow)
<1>1. /\ Become(h.s) /\ results' = results \cup report
      /\ issued' = issued \cup {Issue(a, w) : a \in h.given}
  BY Zenon DEF Exchange, Heartbeat
<1>2. Draws(Current, h, Done') /\ AtMostOne(h.given)
  BY <1>1, HeardDraws, HeardOffer DEF Offer
<1>3. nextAttempt' = h.s.next /\ Current.next = nextAttempt
  BY <1>1 DEF Become, Current
<1>4. /\ nextAttempt \in AttemptIds /\ issued \subseteq Issues
      /\ results \subseteq issued \X Outcomes
  BY DEF IInv, Sound, Current, State, TypeOK, ControlTypeOK
<1>5. \A d \in Done' : \A j, p, id : d = <<j, p, id>> => id < nextAttempt
  <2>1. \A r \in results' : r[1] \in issued
    BY <1>1, <1>4 DEF Reported
  <2>2. ASSUME NEW j, NEW p, NEW id, <<j, p, id>> \in Done'
        PROVE  \E k \in issued : k.id = id
    BY <2>1, <2>2 DEF Done, Successes
  <2> QED BY <2>2 DEF OwnIds
<1> HIDE DEF h
<1>6. \A a : /\ Issue(a, w).id = a.id /\ Issue(a, w).phase = a.phase
  BY DEF Issue
<1>7. CASE /\ nextAttempt' = nextAttempt
           /\ \A x \in h.given : Promotes(x, Done')
  <2>1. \A x \in h.given : x.phase = "promotion" /\ x.id < nextAttempt
    BY <1>5, <1>7 DEF Promotes
  <2>2. \A k \in issued' \ issued :
          k.phase = "promotion" /\ k.id < nextAttempt
    BY <1>1, <1>6, <2>1
  <2>3. OwnIds'
    BY <1>7, <2>2 DEF OwnIds, FreshIds
  <2> QED BY <2>1, <2>3 DEF h
<1>8. CASE /\ nextAttempt' = nextAttempt + 1 /\ h.given # {}
           /\ \A x \in h.given : x.phase # "promotion" /\ x.id = nextAttempt
  <2>1. PICK a : h.given = {a}
    BY <1>2, <1>8 DEF AtMostOne
  <2>2. issued' = issued \cup {Issue(a, w)} /\ Issue(a, w).id = nextAttempt
    BY <1>1, <1>6, <1>8, <2>1
  <2>3. FreshIds(issued, nextAttempt)'
    BY <1>4, <1>8, <2>2, FreshIssue DEF OwnIds
  <2>4. \A k \in issued' : k.id < nextAttempt'
    <3>1. \A k \in issued : k.id \in Nat
      BY <1>4 DEF Issues, AttemptIds
    <3> QED BY <1>4, <1>8, <2>2, <3>1 DEF OwnIds, AttemptIds
  <2> QED BY <1>8, <2>3, <2>4 DEF OwnIds, h
<1> QED BY <1>2, <1>3, <1>7, <1>8 DEF Draws

\* Neither clients nor the end of the master (a new one draws new ids) nor the
\* load of a checkpoint brings an id back.
LEMMA OwnIdsStep == IInv /\ BackedAll /\ OwnIds /\ [OpenNext]_vars => OwnIds'
<1> SUFFICES ASSUME IInv, BackedAll, OwnIds, [OpenNext]_vars PROVE OwnIds'
  OBVIOUS
<1>1. ASSUME UNCHANGED <<nextAttempt, issued>> PROVE OwnIds'
  BY <1>1 DEF OwnIds
<1>2. ASSUME NEW w \in Workers, OpenHeartbeat(w) PROVE OwnIds'
  <2>1. PICK idle \in BOOLEAN, i \in issued \cup {None}, slow \in SlowChoices :
          \/ Exchange(w, idle, i, {}, None, slow)
          \/ \E k \in issued, o \in Outcomes :
               Exchange(w, idle, i, {<<k, o>>}, Result(k, o), slow)
    BY <1>2 DEF OpenHeartbeat, Given
  <2> QED BY <2>1, ExchangeIds DEF Reported
<1>3. ASSUME NEW w \in Workers, Expire(w) PROVE OwnIds'
  <2>1. Current \in State /\ Current.next = nextAttempt
    BY DEF IInv, Sound, Current
  <2>2. nextAttempt' = ResetWorkerTasks(Current, w, currentTask[w]).next
        /\ UNCHANGED issued
    BY <1>3 DEF Expire, Evict, Become, netVars
  <2> QED BY <1>1, <2>1, <2>2, ResetWorkerTasksNext
<1>4. ASSUME NEW w \in Workers, Register(w) PROVE OwnIds'
  BY <1>1, <1>4 DEF Register, RegisterWorker, schedVars, netVars
<1>5. CASE Client
  BY <1>1, <1>5 DEF Client, SubmitRegister, SubmitEnqueue, SubmitReject, Delete,
     netVars
<1>6. CASE Storage
  BY <1>1, <1>6 DEF Storage, WriteCheckpoint, LoadCheckpoint, FinalSnapshot,
     schedVars, netVars
<1>7. CASE Restart
  <2>1. nextAttempt' = Fresh(nextAttempt).next /\ UNCHANGED issued
    BY <1>7 DEF Restart, Crash, Exit, Become, netVars
  <2> QED BY <1>1, <2>1 DEF Fresh
<1>8. CASE TakeSnapshot \/ BadLoad \/ Interrupt \/ UNCHANGED vars
  BY <1>1, <1>8 DEF TakeSnapshot, Snapshot, BadLoad, LoadFails, Interrupt,
     Signal, schedVars, netVars, vars, masterVars
<1> QED BY <1>2, <1>3, <1>4, <1>5, <1>6, <1>7, <1>8 DEF OpenNext

=============================================================================
