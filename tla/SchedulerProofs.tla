--------------------------- MODULE SchedulerProofs ---------------------------
(***************************************************************************)
(* Every operator of Scheduler keeps a scheduling state sound: well typed, *)
(* with one job running, tasks whose attempts match their status, and a    *)
(* queue of jobs that were not started.                                    *)
(***************************************************************************)
EXTENDS Scheduler, FiniteSetTheorems, TLAPS

\* The sound states, and how far an operator may go: it forgets and invents
\* no job, only shortens the queue, starts only jobs of the queue, drops no job
\* from it that still waits, takes no job back to an earlier phase, and leaves a
\* finished or cancelled job alone.
Sound(s) == /\ s \in State
            /\ \A j \in Jobs : JobIsSound(s.jobs[j])
            /\ OneRuns(s.jobs, s.active)
            /\ QueueSound(s.queue, s.jobs)

Evolves(s, t) ==
  /\ \A j \in Jobs : t.jobs[j].status = "Absent" <=> s.jobs[j].status = "Absent"
  /\ Members(t.queue) \subseteq Members(s.queue)
  /\ \A j \in Jobs : NotStarted(s.jobs[j]) =>
       NotStarted(t.jobs[j]) \/ j \in Members(s.queue)
  /\ \A j \in Jobs : t.jobs[j].status = "Queued" =>
       /\ s.jobs[j].status = "Queued"
       /\ j \in Members(s.queue) => j \in Members(t.queue)
  /\ \A j \in Jobs : s.jobs[j].status = "Reducing" =>
       t.jobs[j].status \in {"Reducing", "Completed"}
  /\ \A j \in Jobs : s.jobs[j].status \in {"Completed", "Aborted"} =>
       t.jobs[j].status = s.jobs[j].status

\* A non-empty set of indices has a least one (FiniteSetsExt!Min): of the
\* intervals 0 .. x, one is minimal with respect to inclusion.
LEMMA MinLemma ==
  ASSUME NEW S \in SUBSET Nat, S # {}
  PROVE  Min(S) \in S /\ \A x \in S : Min(S) <= x
<1> DEFINE R == StrictSubsetOrdering(Nat)
           T == {0 .. x : x \in S}
           P(x) == \A y \in S : x <= y
<1>1. IsWellFoundedOn(R, FiniteSubsetsOf(Nat))
  BY FS_StrictSubsetOrderingWellFounded
<1>2. T \subseteq FiniteSubsetsOf(Nat)
  <2> SUFFICES ASSUME NEW x \in S PROVE 0 .. x \in FiniteSubsetsOf(Nat)
    OBVIOUS
  <2>1. IsFiniteSet(0 .. x)
    BY FS_Interval
  <2> QED BY <2>1 DEF FiniteSubsetsOf
<1>3. T # {}
  OBVIOUS
<1> HIDE DEF R, T
<1>4. PICK t \in T : \A u \in T : ~ (<<u, t>> \in R)
  BY <1>1, <1>2, <1>3, WFMin
<1> USE DEF T
<1>5. PICK n \in S : t = 0 .. n
  OBVIOUS
<1>6. P(n)
  <2> SUFFICES ASSUME NEW y \in S, ~(n <= y) PROVE FALSE
    OBVIOUS
  <2>1. 0 .. y \subseteq 0 .. n /\ 0 .. y # 0 .. n
    BY SMT
  <2>2. 0 .. y \in SUBSET Nat /\ 0 .. n \in SUBSET Nat
    OBVIOUS
  <2>3. <<0 .. y, 0 .. n>> \in R
    BY <2>1, <2>2, Zenon DEF R, StrictSubsetOrdering
  <2> QED BY <1>4, <1>5, <2>3
<1>7. Min(S) = CHOOSE x \in S : P(x)
  BY DEF Min
<1>8. Min(S) \in S /\ P(Min(S))
  BY <1>6, <1>7, Zenon
<1> QED BY <1>8

LEMMA EvolvesReflexive == ASSUME NEW s PROVE Evolves(s, s)
BY DEF Evolves

LEMMA EvolvesTransitive ==
  ASSUME NEW s, NEW t, NEW u, Evolves(s, t), Evolves(t, u)
  PROVE  Evolves(s, u)
BY DEF Evolves

-----------------------------------------------------------------------------
(* Tasks                                                                   *)

\* A new attempt leaves a task sound that is idle or has a single attempt.
LEMMA StartAttemptSound ==
  ASSUME NEW task, NEW id \in AttemptIds, NEW w \in Workers,
         task \in MapTask \/ task \in ReduceTask,
         TaskIsSound(task), ~Duplicated(task)
  PROVE  /\ task \in MapTask => StartAttempt(task, id, w) \in MapTask
         /\ task \in ReduceTask => StartAttempt(task, id, w) \in ReduceTask
         /\ TaskIsSound(StartAttempt(task, id, w))
<1> DEFINE new == StartAttempt(task, id, w)
<1> DEFINE a0 == [id |-> id, worker |-> w]
<1>1. a0 \in Attempts
  BY DEF Attempts
<1>2. /\ new.status = "InProgress"
      /\ new.attempts = task.attempts \cup {a0}
  BY DEF StartAttempt, MapTask, ReduceTask
<1>3. TaskIsSound(new)
  BY <1>2 DEF TaskIsSound, Duplicated
<1>4. /\ task \in MapTask => new \in MapTask
      /\ task \in ReduceTask => new \in ReduceTask
  BY <1>1 DEF StartAttempt, MapTask, ReduceTask, TaskStatus
<1> QED BY <1>3, <1>4

\* So does the end of any set of attempts, whatever the status was.
LEMMA DropAttemptsSound ==
  ASSUME NEW task, NEW gone,
         task \in MapTask \/ task \in ReduceTask, TaskIsSound(task)
  PROVE  /\ task \in MapTask => DropAttempts(task, gone) \in MapTask
         /\ task \in ReduceTask => DropAttempts(task, gone) \in ReduceTask
         /\ TaskIsSound(DropAttempts(task, gone))
<1> DEFINE new == DropAttempts(task, gone)
<1>1. /\ new.status = IF task.attempts \subseteq gone THEN "Idle"
                                                     ELSE task.status
      /\ new.attempts = task.attempts \ gone
  BY DEF DropAttempts, MapTask, ReduceTask
<1>2. TaskIsSound(new)
  BY <1>1 DEF TaskIsSound
<1>3. /\ task \in MapTask => new \in MapTask
      /\ task \in ReduceTask => new \in ReduceTask
  BY DEF DropAttempts, MapTask, ReduceTask, TaskStatus
<1> QED BY <1>2, <1>3

-----------------------------------------------------------------------------
(* Steps that replace one job, and keep its status                         *)

LEMMA ReplaceJobSound ==
  ASSUME NEW s, Sound(s), NEW j \in Jobs, NEW job \in Job,
         JobIsSound(job), job.status = s.jobs[j].status,
         NEW id \in AttemptIds
  PROVE  LET t == [s EXCEPT !.jobs[j] = job, !.next = id]
             u == [s EXCEPT !.jobs[j] = job]
         IN /\ Sound(t) /\ Evolves(s, t)
            /\ Sound(u) /\ Evolves(s, u)
<1> DEFINE js == [s.jobs EXCEPT ![j] = job]
<1>1. js \in [Jobs -> Job] /\ \A k \in Jobs : js[k].status = s.jobs[k].status
  BY DEF Sound, State
<1>2. \A k \in Jobs : JobIsSound(js[k])
  BY DEF Sound, State
<1> HIDE DEF js
<1>3. \A i \in 1 .. Len(s.queue) : s.queue[i] \in Jobs
  BY DEF Sound, State
<1>4. OneRuns(js, s.active)
  BY <1>1 DEF Sound, OneRuns, Running
<1>5. QueueSound(s.queue, js)
  BY <1>1, <1>3 DEF Sound, QueueSound, NotStarted
<1>6. ASSUME NEW t \in State, t.jobs = js, t.active = s.active,
             t.queue = s.queue
      PROVE  Sound(t) /\ Evolves(s, t)
  BY <1>1, <1>2, <1>4, <1>5, <1>6 DEF Sound, Evolves, Running, NotStarted
<1>7. LET t == [s EXCEPT !.jobs = js, !.next = id] IN
      t \in State /\ t.jobs = js /\ t.active = s.active /\ t.queue = s.queue
  BY <1>1 DEF Sound, State
<1>8. LET u == [s EXCEPT !.jobs = js] IN
      u \in State /\ u.jobs = js /\ u.active = s.active /\ u.queue = s.queue
  BY <1>1 DEF Sound, State
<1> QED BY <1>6, <1>7, <1>8 DEF js

-----------------------------------------------------------------------------
(* Job phases                                                              *)

LEMMA AdvanceJobSound ==
  ASSUME NEW s, Sound(s), NEW j \in Jobs
  PROVE  Sound(AdvanceJob(s, j)) /\ Evolves(s, AdvanceJob(s, j))
<1> DEFINE t == AdvanceJob(s, j)
<1>1. s.jobs[j] \in Job
  BY DEF Sound, State
<1>2. CASE s.jobs[j].status = "Mapping" /\ AllMapped(s.jobs[j])
  <2>1. t = [s EXCEPT !.jobs[j].status = "Reducing"]
    BY <1>2 DEF AdvanceJob
  <2>2. t \in State
    <3>1. [s.jobs[j] EXCEPT !.status = "Reducing"] \in Job
      BY <1>1 DEF Job, JobStatus
    <3>2. t.jobs = [s.jobs EXCEPT ![j] = [s.jobs[j] EXCEPT !.status = "Reducing"]]
      BY <2>1 DEF Sound, State
    <3> QED BY <2>1, <3>1, <3>2 DEF Sound, State
  <2>3. \A k \in Jobs : t.jobs[k].status =
          IF k = j THEN "Reducing" ELSE s.jobs[k].status
    BY <1>1, <2>1 DEF Sound, State, Job
  <2>4. \A k \in Jobs : JobIsSound(t.jobs[k])
    BY <2>1 DEF Sound, State, Job, JobIsSound
  <2>5. t.active = s.active /\ t.queue = s.queue
    BY <2>1 DEF Sound, State
  <2>6. OneRuns(t.jobs, t.active)
    BY <1>2, <2>3, <2>5 DEF Sound, OneRuns, Running
  <2>7. QueueSound(t.queue, t.jobs)
    BY <1>2, <2>3, <2>5 DEF Sound, State, QueueSound, NotStarted
  <2>8. Evolves(s, t)
    BY <1>2, <2>3, <2>5 DEF Evolves, NotStarted
  <2> QED BY <2>2, <2>4, <2>6, <2>7, <2>8 DEF Sound
<1>3. CASE s.jobs[j].status = "Reducing" /\ AllPromoted(s.jobs[j])
  <2>1. t = [s EXCEPT !.jobs[j].status = "Completed", !.active = None]
    BY <1>3 DEF AdvanceJob
  <2>2. t \in State
    <3>1. [s.jobs[j] EXCEPT !.status = "Completed"] \in Job
      BY <1>1 DEF Job, JobStatus
    <3>2. t.jobs = [s.jobs EXCEPT ![j] = [s.jobs[j] EXCEPT !.status = "Completed"]]
      BY <2>1 DEF Sound, State
    <3> QED BY <2>1, <3>1, <3>2 DEF Sound, State
  <2>3. \A k \in Jobs : t.jobs[k].status =
          IF k = j THEN "Completed" ELSE s.jobs[k].status
    BY <1>1, <2>1 DEF Sound, State, Job
  <2>4. \A k \in Jobs : JobIsSound(t.jobs[k])
    BY <2>1 DEF Sound, State, Job, JobIsSound
  <2>5. t.active = None /\ t.queue = s.queue /\ s.active = j
    BY <1>3, <2>1 DEF Sound, State, OneRuns, Running
  <2>6. OneRuns(t.jobs, t.active)
    BY <1>3, <2>3, <2>5, NoneAssumption DEF Sound, OneRuns, Running
  <2>7. QueueSound(t.queue, t.jobs)
    BY <1>3, <2>3, <2>5 DEF Sound, State, QueueSound, NotStarted
  <2>8. Evolves(s, t)
    BY <1>3, <2>3, <2>5 DEF Evolves, NotStarted
  <2> QED BY <2>2, <2>4, <2>6, <2>7, <2>8 DEF Sound
<1>4. CASE t = s
  BY <1>4, EvolvesReflexive
<1> QED BY <1>2, <1>3, <1>4 DEF AdvanceJob

\* Popping the queue: the job that starts leaves the queue for good, and so
\* do the aborted ones before it.
LEMMA ActivateNextJobSound ==
  ASSUME NEW s, Sound(s), s.active = None
  PROVE  Sound(ActivateNextJob(s)) /\ Evolves(s, ActivateNextJob(s))
<1> DEFINE q == s.queue
           t == ActivateNextJob(s)
           runnable == {i \in 1 .. Len(q) :
                          s.jobs[q[i]].status \notin {"Absent", "Aborted"}}
<1>1. q \in Seq(Jobs) /\ Len(q) \in Nat /\ \A i \in 1 .. Len(q) : q[i] \in Jobs
  BY DEF Sound, State
<1>2. CASE runnable = {}
  <2>1. t = [s EXCEPT !.queue = <<>>]
    BY <1>2 DEF ActivateNextJob
  <2>2. /\ t \in State
        /\ t.jobs = s.jobs
        /\ t.active = s.active
        /\ t.queue = <<>>
    <3>1. <<>> \in Seq(Jobs)
      OBVIOUS
    <3> QED BY <2>1, <3>1 DEF Sound, State
  <2>3. Members(t.queue) = {} /\ QueueSound(t.queue, t.jobs)
    BY <2>2 DEF Members, QueueSound, NotStarted
  <2>4. \A k \in Members(q) : s.jobs[k].status # "Queued"
    BY <1>1, <1>2 DEF Members
  <2>5. Evolves(s, t)
    <3> HIDE DEF t, q, runnable
    <3> QED BY <2>2, <2>3, <2>4 DEF Evolves, q
  <2> QED BY <2>2, <2>3, <2>5 DEF Sound
<1>3. CASE runnable # {}
  <2> DEFINE first == Min(runnable)
             j == q[first]
             rest == SubSeq(q, first + 1, Len(q))
  <2>1. /\ first \in 1 .. Len(q) /\ s.jobs[j].status \notin {"Absent", "Aborted"}
        /\ \A i \in 1 .. Len(q) :
             i < first => s.jobs[q[i]].status \in {"Absent", "Aborted"}
    <3>1. runnable \in SUBSET Nat
      BY <1>1
    <3> HIDE DEF runnable
    <3>2. first \in runnable /\ \A i \in runnable : first <= i
      BY <1>3, <3>1, MinLemma
    <3> HIDE DEF first, t
    <3>3. ASSUME NEW i \in 1 .. Len(q), i < first
          PROVE  s.jobs[q[i]].status \in {"Absent", "Aborted"}
      <4>1. i \notin runnable
        BY <1>1, <3>1, <3>2, <3>3
      <4> QED BY <4>1 DEF runnable
    <3>4. first \in 1 .. Len(q) /\ s.jobs[j].status \notin {"Absent", "Aborted"}
      BY <3>2 DEF runnable
    <3> HIDE DEF j
    <3> QED BY <3>3, <3>4
  <2>2. j \in Jobs /\ s.jobs[j] \in Job
    BY <1>1, <2>1 DEF Sound, State
  <2>3. t = [s EXCEPT !.queue = rest, !.jobs[j].status = "Mapping",
                      !.active = j]
    BY <1>3 DEF ActivateNextJob, Sound, State
  <2> HIDE DEF first
  <2>4. /\ rest \in Seq(Jobs)
        /\ Len(rest) = Len(q) - first
        /\ \A i \in 1 .. Len(rest) : rest[i] = q[first + i]
    BY <1>1, <2>1
  <2>5. /\ t \in State
        /\ t.active = j
        /\ t.queue = rest
        /\ \A k \in Jobs : t.jobs[k].status =
             IF k = j THEN "Mapping" ELSE s.jobs[k].status
        /\ \A k \in Jobs : JobIsSound(t.jobs[k])
    <3> HIDE DEF rest, j, t
    <3>1. t \in State
      BY <2>2, <2>3, <2>4 DEF Sound, State, Job, JobStatus
    <3>2. t.active = j /\ t.queue = rest
      BY <2>3 DEF Sound, State
    <3>3. \A k \in Jobs : t.jobs[k].status =
             IF k = j THEN "Mapping" ELSE s.jobs[k].status
      BY <2>2, <2>3 DEF Sound, State, Job
    <3>4. \A k \in Jobs : JobIsSound(t.jobs[k])
      BY <2>2, <2>3 DEF Sound, State, Job, JobIsSound
    <3> QED BY <3>1, <3>2, <3>3, <3>4
  <2>6. OneRuns(t.jobs, t.active)
    BY <2>2, <2>5, NoneAssumption DEF Sound, OneRuns, Running
  <2>7. \A i \in 1 .. Len(rest) : rest[i] # j /\ rest[i] \in Jobs
    BY <1>1, <2>1, <2>4 DEF Sound, QueueSound, NotStarted
  <2>8. QueueSound(rest, t.jobs)
    <3> HIDE DEF rest, t
    <3>1. ASSUME NEW i \in 1 .. Len(rest), NEW k \in 1 .. Len(rest),
                 rest[i] = rest[k]
          PROVE  i = k
      <4>1. /\ first + i \in 1 .. Len(q)
            /\ first + k \in 1 .. Len(q)
            /\ q[first + i] = q[first + k]
        BY <1>1, <2>1, <2>4, <3>1
      <4>2. first + i = first + k
        BY <4>1 DEF Sound, QueueSound, NotStarted
      <4> QED BY <2>1, <4>2
    <3>2. ASSUME NEW i \in 1 .. Len(rest)
          PROVE  NotStarted(t.jobs[rest[i]])
      <4>1. first + i \in 1 .. Len(q)
        BY <1>1, <2>1, <2>4
      <4>2. NotStarted(s.jobs[rest[i]])
        BY <2>4, <4>1 DEF Sound, QueueSound, NotStarted
      <4> QED BY <2>5, <2>7, <4>2 DEF NotStarted
    <3> QED BY <3>1, <3>2 DEF QueueSound, NotStarted
  <2>9. Members(rest) \subseteq Members(q) /\ j \in Members(q)
    <3>1. j \in Members(q)
      BY <2>1 DEF Members
    <3> HIDE DEF rest
    <3>2. ASSUME NEW i \in 1 .. Len(rest)
          PROVE  rest[i] \in Members(q)
      <4>1. first + i \in 1 .. Len(q)
        BY <1>1, <2>1, <2>4
      <4> QED BY <2>4, <4>1 DEF Members
    <3> QED BY <3>1, <3>2 DEF Members
  <2>10. s.jobs[j].status = "Queued"
    BY <2>1 DEF Sound, QueueSound, NotStarted
  <2>11. ASSUME NEW k \in Members(q), t.jobs[k].status = "Queued"
         PROVE  k \in Members(rest)
    <3>1. PICK i \in 1 .. Len(q) : q[i] = k
      BY DEF Members
    <3> HIDE DEF rest, t, j
    <3>2. k # j /\ s.jobs[k].status = "Queued"
      BY <1>1, <2>5, <2>11, <3>1
    <3>3. i > first
      BY <1>1, <2>1, <3>1, <3>2 DEF j
    <3>4. i - first \in 1 .. Len(rest) /\ rest[i - first] = k
      BY <1>1, <2>1, <2>4, <3>1, <3>3
    <3> QED BY <3>4 DEF Members
  <2>12. Evolves(s, t)
    <3> HIDE DEF rest, t, j, q
    <3> QED BY <2>5, <2>9, <2>10, <2>11 DEF Evolves, NotStarted, q
  <2> QED BY <2>5, <2>6, <2>8, <2>12 DEF Sound
<1> QED BY <1>2, <1>3

-----------------------------------------------------------------------------
(* Assignments                                                             *)

\* A step that replaces a map task and its job's completion times, and perhaps
\* draws an attempt id, as assignments, results and evictions do.
LEMMA MapStepSound ==
  ASSUME NEW s, Sound(s), NEW j \in Jobs, NEW m \in MapTasks,
         NEW task \in MapTask, TaskIsSound(task),
         NEW n \in 0 .. 2, NEW id \in AttemptIds, NEW new,
         new = [s.jobs[j] EXCEPT !.maps[m] = task, !.mapTimes = n]
  PROVE  LET t == [s EXCEPT !.jobs[j] = new, !.next = id]
             u == [s EXCEPT !.jobs[j] = new]
         IN /\ Sound(t) /\ Evolves(s, t)
            /\ Sound(u) /\ Evolves(s, u)
<1>1. s.jobs[j] \in Job /\ JobIsSound(s.jobs[j])
  BY DEF Sound, State
<1>2. new \in Job /\ JobIsSound(new) /\ new.status = s.jobs[j].status
  BY <1>1 DEF Job, JobIsSound
<1> QED BY <1>2, ReplaceJobSound

\* The same for a reduce task.
LEMMA ReduceStepSound ==
  ASSUME NEW s, Sound(s), NEW j \in Jobs, NEW p \in Partitions,
         NEW task \in ReduceTask, TaskIsSound(task),
         NEW n \in 0 .. 2, NEW id \in AttemptIds, NEW new,
         new = [s.jobs[j] EXCEPT !.reduces[p] = task, !.reduceTimes = n]
  PROVE  LET t == [s EXCEPT !.jobs[j] = new, !.next = id]
             u == [s EXCEPT !.jobs[j] = new]
         IN /\ Sound(t) /\ Evolves(s, t)
            /\ Sound(u) /\ Evolves(s, u)
<1>1. s.jobs[j] \in Job /\ JobIsSound(s.jobs[j])
  BY DEF Sound, State
<1>2. new \in Job /\ JobIsSound(new) /\ new.status = s.jobs[j].status
  BY <1>1 DEF Job, JobIsSound
<1> QED BY <1>2, ReplaceJobSound

\* The tasks of a sound state are typed and sound.
LEMMA TasksOf ==
  ASSUME NEW s, Sound(s), NEW j \in Jobs
  PROVE  /\ s.next \in AttemptIds /\ s.next + 1 \in AttemptIds
         /\ s.jobs[j].mapTimes \in 0 .. 2
         /\ s.jobs[j].reduceTimes \in 0 .. 2
         /\ \A m \in MapTasks : s.jobs[j].maps[m] \in MapTask
                                  /\ TaskIsSound(s.jobs[j].maps[m])
         /\ \A p \in Partitions : s.jobs[j].reduces[p] \in ReduceTask
                                    /\ TaskIsSound(s.jobs[j].reduces[p])
BY DEF Sound, State, Job, JobIsSound, AttemptIds, NoObject

\* Handing out a map task that has no second attempt yet, and a reduce task.
LEMMA GiveMapSound ==
  ASSUME NEW s, Sound(s), NEW j \in Jobs, NEW m \in MapTasks,
         NEW w \in Workers, ~Duplicated(s.jobs[j].maps[m])
  PROVE  /\ Sound(GiveMap(s, j, m, w).s)
         /\ Evolves(s, GiveMap(s, j, m, w).s)
<1> DEFINE task == StartAttempt(s.jobs[j].maps[m], s.next, w)
           n == s.jobs[j].mapTimes
           new == [s.jobs[j] EXCEPT !.maps[m] = task, !.mapTimes = n]
<1>1. task \in MapTask /\ TaskIsSound(task)
  BY TasksOf, StartAttemptSound
<1>2. s.next + 1 \in AttemptIds /\ n \in 0 .. 2
  BY TasksOf
<1>3. new = [s.jobs[j] EXCEPT !.maps[m] = task]
  <2> HIDE DEF task
  <2>1. s.jobs[j] \in Job
    BY DEF Sound, State
  <2> QED BY <2>1 DEF Job
<1>4. GiveMap(s, j, m, w).s = [s EXCEPT !.jobs[j] = new, !.next = s.next + 1]
  BY <1>3 DEF GiveMap
<1> HIDE DEF task, new, n
<1>5. Sound([s EXCEPT !.jobs[j] = new, !.next = s.next + 1])
        /\ Evolves(s, [s EXCEPT !.jobs[j] = new, !.next = s.next + 1])
  BY <1>1, <1>2, MapStepSound DEF new
<1> QED BY <1>4, <1>5

LEMMA GiveReduceSound ==
  ASSUME NEW s, Sound(s), NEW j \in Jobs, NEW p \in Partitions,
         NEW w \in Workers, ~Duplicated(s.jobs[j].reduces[p])
  PROVE  /\ Sound(GiveReduce(s, j, p, w).s)
         /\ Evolves(s, GiveReduce(s, j, p, w).s)
<1> DEFINE task == StartAttempt(s.jobs[j].reduces[p], s.next, w)
           n == s.jobs[j].reduceTimes
           new == [s.jobs[j] EXCEPT !.reduces[p] = task, !.reduceTimes = n]
<1>1. task \in ReduceTask /\ TaskIsSound(task)
  BY TasksOf, StartAttemptSound
<1>2. s.next + 1 \in AttemptIds /\ n \in 0 .. 2
  BY TasksOf
<1>3. new = [s.jobs[j] EXCEPT !.reduces[p] = task]
  <2> HIDE DEF task
  <2>1. s.jobs[j] \in Job
    BY DEF Sound, State
  <2> QED BY <2>1 DEF Job
<1>4. GiveReduce(s, j, p, w).s = [s EXCEPT !.jobs[j] = new, !.next = s.next + 1]
  BY <1>3 DEF GiveReduce
<1> HIDE DEF task, new, n
<1>5. Sound([s EXCEPT !.jobs[j] = new, !.next = s.next + 1])
        /\ Evolves(s, [s EXCEPT !.jobs[j] = new, !.next = s.next + 1])
  BY <1>1, <1>2, ReduceStepSound DEF new
<1> QED BY <1>4, <1>5

\* The candidates for an assignment have no second attempt, and the least of
\* them is a task of the job.
LEMMA CandidatesLemma ==
  ASSUME NEW s, Sound(s), NEW j \in Jobs, NEW slow
  PROVE  LET job == s.jobs[j] IN
         /\ \A S \in {IdleMaps(job), SlowMaps(job, slow)} : S # {} =>
              Min(S) \in MapTasks /\ ~Duplicated(job.maps[Min(S)])
         /\ \A S \in {IdleReduces(job), SlowReduces(job, slow)} : S # {} =>
              Min(S) \in Partitions /\ ~Duplicated(job.reduces[Min(S)])
<1> DEFINE job == s.jobs[j]
<1>1. MapTasks \subseteq Nat /\ Partitions \subseteq Nat
  BY NumMapTasksAssumption, NumReduceTasksAssumption DEF MapTasks, Partitions
<1>2. ASSUME NEW S \in {IdleMaps(job), SlowMaps(job, slow)}, S # {}
      PROVE  Min(S) \in MapTasks /\ ~Duplicated(job.maps[Min(S)])
  <2>1. S \in SUBSET MapTasks /\ \A m \in S : ~Duplicated(job.maps[m])
    BY TasksOf DEF IdleMaps, SlowMaps, Duplicated, TaskIsSound
  <2>2. Min(S) \in S
    BY <1>1, <1>2, <2>1, MinLemma
  <2> QED BY <2>1, <2>2
<1>3. ASSUME NEW S \in {IdleReduces(job), SlowReduces(job, slow)}, S # {}
      PROVE  Min(S) \in Partitions /\ ~Duplicated(job.reduces[Min(S)])
  <2>1. S \in SUBSET Partitions /\ \A p \in S : ~Duplicated(job.reduces[p])
    BY TasksOf DEF IdleReduces, SlowReduces, Duplicated, TaskIsSound
  <2>2. Min(S) \in S
    BY <1>1, <1>3, <2>1, MinLemma
  <2> QED BY <2>1, <2>2
<1> QED BY <1>2, <1>3

LEMMA AssignReduceTaskSound ==
  ASSUME NEW s, Sound(s), NEW j \in Jobs, NEW w \in Workers, NEW slow
  PROVE  LET t == AssignReduceTask(s, j, w, slow).s IN
         Sound(t) /\ Evolves(s, t)
<1> DEFINE idle == IdleReduces(s.jobs[j])
           late == SlowReduces(s.jobs[j], slow)
<1>1. CASE idle # {}
  <2>1. Min(idle) \in Partitions /\ ~Duplicated(s.jobs[j].reduces[Min(idle)])
    BY <1>1, CandidatesLemma
  <2> QED BY <1>1, <2>1, GiveReduceSound DEF AssignReduceTask
<1>2. CASE idle = {} /\ late # {}
  <2>1. Min(late) \in Partitions /\ ~Duplicated(s.jobs[j].reduces[Min(late)])
    BY <1>2, CandidatesLemma
  <2> QED BY <1>2, <2>1, GiveReduceSound DEF AssignReduceTask
<1>3. CASE idle = {} /\ late = {}
  BY <1>3, AdvanceJobSound DEF AssignReduceTask, Nothing
<1> QED BY <1>1, <1>2, <1>3

LEMMA AssignMapTaskSound ==
  ASSUME NEW s, Sound(s), NEW j \in Jobs, NEW w \in Workers, NEW slow
  PROVE  LET t == AssignMapTask(s, j, w, slow).s IN
         Sound(t) /\ Evolves(s, t)
<1> DEFINE idle == IdleMaps(s.jobs[j])
           late == SlowMaps(s.jobs[j], slow)
           advanced == AdvanceJob(s, j)
<1>1. CASE idle # {}
  <2>1. Min(idle) \in MapTasks /\ ~Duplicated(s.jobs[j].maps[Min(idle)])
    BY <1>1, CandidatesLemma
  <2> QED BY <1>1, <2>1, GiveMapSound DEF AssignMapTask
<1>2. CASE idle = {} /\ late # {}
  <2>1. Min(late) \in MapTasks /\ ~Duplicated(s.jobs[j].maps[Min(late)])
    BY <1>2, CandidatesLemma
  <2> QED BY <1>2, <2>1, GiveMapSound DEF AssignMapTask
<1>3. CASE idle = {} /\ late = {}
  <2>1. Sound(advanced) /\ Evolves(s, advanced)
    BY AdvanceJobSound
  <2>2. LET t == AssignReduceTask(advanced, j, w, slow).s IN
        Sound(t) /\ Evolves(s, t)
    BY <2>1, AssignReduceTaskSound, EvolvesTransitive
  <2> QED BY <1>3, <2>1, <2>2 DEF AssignMapTask, Nothing
<1> QED BY <1>1, <1>2, <1>3

\* In a sound state the active job is in one of the two phases: the default
\* case of assignTask is never taken.
LEMMA AssignTaskSound ==
  ASSUME NEW s, Sound(s), NEW w \in Workers, NEW slow
  PROVE  LET t == AssignTask(s, w, slow).s IN
         Sound(t) /\ Evolves(s, t)
<1> DEFINE ready == IF s.active = None THEN ActivateNextJob(s) ELSE s
           j == ready.active
           mapping == AssignMapTask(ready, j, w, slow)
           promotion == AssignPromotionTask(ready, j)
<1>1. Sound(ready) /\ Evolves(s, ready)
  BY ActivateNextJobSound, EvolvesReflexive
<1>2. AssignTask(s, w, slow) =
        IF j = None THEN Nothing(ready) ELSE AssignFromJob(ready, j, w, slow)
  BY DEF AssignTask
<1> HIDE DEF ready
<1>3. CASE j = None
  BY <1>1, <1>2, <1>3 DEF Nothing
<1>4. CASE j # None
  <2>1. j \in Jobs /\ Running(ready.jobs[j])
    BY <1>1, <1>4 DEF Sound, State, OneRuns
  <2>2. Sound(mapping.s) /\ Evolves(ready, mapping.s)
    BY <1>1, <2>1, AssignMapTaskSound
  <2>3. promotion.s = ready
    BY DEF AssignPromotionTask
  <2>4. LET t == AssignReduceTask(ready, j, w, slow).s IN
        Sound(t) /\ Evolves(ready, t)
    BY <1>1, <2>1, AssignReduceTaskSound
  <2>5. LET t == AssignReduceTask(mapping.s, j, w, slow).s IN
        Sound(t) /\ Evolves(ready, t)
    BY <2>1, <2>2, AssignReduceTaskSound, EvolvesTransitive
  <2> HIDE DEF mapping, promotion
  <2>6. LET t == AssignFromJob(ready, j, w, slow).s IN
        Sound(t) /\ Evolves(ready, t)
    <3>1. CASE ready.jobs[j].status = "Mapping"
      <4>1. AssignFromJob(ready, j, w, slow) =
              IF mapping.given = {} /\ AnyMapTaskCompleted(ready.jobs[j])
                THEN AssignReduceTask(mapping.s, j, w, slow)
                ELSE mapping
        BY <3>1 DEF AssignFromJob, mapping
      <4> QED BY <2>2, <2>5, <4>1
    <3>2. CASE ready.jobs[j].status = "Reducing"
      <4>1. AssignFromJob(ready, j, w, slow) =
              IF promotion.given = {} THEN AssignReduceTask(ready, j, w, slow)
                                      ELSE promotion
        BY <3>2 DEF AssignFromJob, promotion
      <4> QED BY <1>1, <2>3, <2>4, <4>1, EvolvesReflexive
    <3> QED BY <2>1, <3>1, <3>2 DEF Running
  <2> QED BY <1>1, <1>2, <1>4, <2>6, EvolvesTransitive
<1> QED BY <1>3, <1>4

\* What identifies a task and an attempt, as results and heartbeats do.
NamesTask(r) == /\ r.job \in Jobs
                /\ \/ r.phase = "map" /\ r.task \in MapTasks
                   \/ r.phase \in {"reduce", "promotion"}
                        /\ r.task \in Partitions

\* The one assignment that each of the operators hands out.
LEMMA GivenByGiveMap ==
  ASSUME NEW s, NEW j, NEW m, NEW w
  PROVE  GiveMap(s, j, m, w).given =
           {[phase |-> "map", job |-> j, task |-> m, id |-> s.next,
             urls |-> {}, allMaps |-> FALSE]}
<1> DEFINE t == [s EXCEPT !.jobs[j].maps[m] = StartAttempt(@, s.next, w),
                          !.next = @ + 1]
           a == [phase |-> "map", job |-> j, task |-> m, id |-> s.next,
                 urls |-> {}, allMaps |-> FALSE]
<1>1. GiveMap(s, j, m, w) = [s |-> t, given |-> {a}]
  BY Zenon DEF GiveMap
<1> HIDE DEF t, a
<1>2. GiveMap(s, j, m, w).given = {a}
  BY <1>1
<1> QED BY <1>2 DEF a

LEMMA GivenByGiveReduce ==
  ASSUME NEW s, NEW j, NEW p, NEW w
  PROVE  GiveReduce(s, j, p, w).given =
           {[phase |-> "reduce", job |-> j, task |-> p, id |-> s.next,
             urls |-> CollectPartitionURLs(s.jobs, j, p),
             allMaps |-> s.jobs[j].status = "Reducing"]}
<1> DEFINE t == [s EXCEPT !.jobs[j].reduces[p] = StartAttempt(@, s.next, w),
                          !.next = @ + 1]
           a == [phase |-> "reduce", job |-> j, task |-> p, id |-> s.next,
                 urls |-> CollectPartitionURLs(s.jobs, j, p),
                 allMaps |-> s.jobs[j].status = "Reducing"]
<1>1. GiveReduce(s, j, p, w) = [s |-> t, given |-> {a}]
  BY Zenon DEF GiveReduce
<1> HIDE DEF t, a
<1>2. GiveReduce(s, j, p, w).given = {a}
  BY <1>1
<1> QED BY <1>2 DEF a

\* The URLs of completed map tasks have a host.
LEMMA CollectedURLs ==
  ASSUME NEW s, Sound(s), NEW j \in Jobs, NEW p \in Partitions
  PROVE  CollectPartitionURLs(s.jobs, j, p) \subseteq URLs
<1> SUFFICES ASSUME NEW m \in MapTasks, s.jobs[j].maps[m].status = "Completed"
             PROVE  URL(j, m, p, s.jobs[j].maps[m].host) \in URLs
  BY DEF CollectPartitionURLs
<1>1. s.jobs[j].maps[m] \in MapTask
  BY TasksOf
<1>2. s.jobs[j].maps[m].host \in Workers
  BY <1>1 DEF MapTask
<1> QED BY <1>2 DEF URL, URLs

\* What is handed out names a task, has an attempt id, and sources.
LEMMA GivenNamesTask ==
  ASSUME NEW s, Sound(s), NEW w \in Workers, NEW slow
  PROVE  \A a \in AssignTask(s, w, slow).given :
           /\ NamesTask(a) /\ a.id \in AttemptIds
           /\ a.urls \subseteq URLs
<1> DEFINE Good(given) == \A a \in given :
             /\ NamesTask(a) /\ a.id \in AttemptIds
             /\ a.urls \subseteq URLs
<1>1. ASSUME NEW u, Sound(u), NEW j \in Jobs
      PROVE  Good(AssignReduceTask(u, j, w, slow).given)
  <2> DEFINE idle == IdleReduces(u.jobs[j])
             late == SlowReduces(u.jobs[j], slow)
  <2>1. ASSUME NEW p \in Partitions PROVE Good(GiveReduce(u, j, p, w).given)
    <3>1. /\ u.next \in AttemptIds
          /\ CollectPartitionURLs(u.jobs, j, p) \subseteq URLs
      BY <1>1, <2>1, TasksOf, CollectedURLs
    <3> QED BY <2>1, <3>1, GivenByGiveReduce DEF NamesTask
  <2>2. /\ idle # {} => Min(idle) \in Partitions
        /\ late # {} => Min(late) \in Partitions
    BY <1>1, CandidatesLemma
  <2> QED BY <2>1, <2>2 DEF AssignReduceTask, Nothing
<1>2. ASSUME NEW u, Sound(u), NEW j \in Jobs
      PROVE  Good(AssignMapTask(u, j, w, slow).given)
  <2> DEFINE idle == IdleMaps(u.jobs[j])
             late == SlowMaps(u.jobs[j], slow)
  <2>1. ASSUME NEW m \in MapTasks PROVE Good(GiveMap(u, j, m, w).given)
    <3>1. u.next \in AttemptIds
      BY <1>2, TasksOf
    <3> QED BY <2>1, <3>1, GivenByGiveMap DEF NamesTask
  <2>2. /\ idle # {} => Min(idle) \in MapTasks
        /\ late # {} => Min(late) \in MapTasks
    BY <1>2, CandidatesLemma
  <2>3. Good(AssignReduceTask(AdvanceJob(u, j), j, w, slow).given)
    BY <1>1, <1>2, AdvanceJobSound
  <2> QED BY <2>1, <2>2, <2>3 DEF AssignMapTask, Nothing
<1>3. ASSUME NEW u, Sound(u), NEW j \in Jobs
      PROVE  Good(AssignPromotionTask(u, j).given)
  <2> DEFINE S == PromotableTasks(u.jobs[j])
  <2>1. CASE S = {}
    BY <2>1 DEF AssignPromotionTask
  <2>2. CASE S # {}
    <3>1. S \in SUBSET Nat
      BY NumReduceTasksAssumption DEF PromotableTasks, Partitions
    <3>2. Min(S) \in S
      BY <2>2, <3>1, MinLemma
    <3>3. Min(S) \in Partitions /\ u.jobs[j].reduces[Min(S)].temp \in AttemptIds
      BY <1>3, <3>2, TasksOf DEF PromotableTasks, ReduceTask, AttemptIds
    <3>4. AssignPromotionTask(u, j).given =
            {[phase |-> "promotion", job |-> j, task |-> Min(S),
              id |-> u.jobs[j].reduces[Min(S)].temp,
              urls |-> {}, allMaps |-> FALSE]}
      BY <2>2 DEF AssignPromotionTask
    <3> HIDE DEF S
    <3> QED BY <1>3, <3>3, <3>4 DEF NamesTask
  <2> QED BY <2>1, <2>2
<1>4. ASSUME NEW u, Sound(u), NEW j \in Jobs
      PROVE  Good(AssignFromJob(u, j, w, slow).given)
  <2>1. LET t == AssignMapTask(u, j, w, slow).s IN
        Good(AssignReduceTask(t, j, w, slow).given)
    BY <1>1, <1>4, AssignMapTaskSound
  <2> HIDE DEF Good
  <2>2. Good({})
    BY DEF Good
  <2> QED BY <1>1, <1>2, <1>3, <1>4, <2>1, <2>2 DEF AssignFromJob, Nothing
<1>5. Good({})
  OBVIOUS
<1> DEFINE ready == IF s.active = None THEN ActivateNextJob(s) ELSE s
<1>6. Sound(ready)
  BY ActivateNextJobSound
<1>7. ready.active # None => ready.active \in Jobs
  BY <1>6 DEF Sound, State
<1> HIDE DEF Good
<1>8. Good(AssignTask(s, w, slow).given)
  BY <1>4, <1>5, <1>6, <1>7 DEF AssignTask, Nothing
<1> QED BY <1>8 DEF Good

-----------------------------------------------------------------------------
(* Results and evictions                                                   *)

\* A completed task keeps its attempts; nothing is asked of them any more.
LEMMA ProcessMapResultSound ==
  ASSUME NEW s, Sound(s), NEW w \in Workers, NEW r, r.job \in Jobs,
         r.task \in MapTasks, r.id \in AttemptIds
  PROVE  LET t == ProcessMapResult(s, w, r) IN
         Sound(t) /\ Evolves(s, t)
<1> DEFINE j == r.job
           k == r.task
           task == s.jobs[j].maps[k]
           n == s.jobs[j].mapTimes
<1>1. /\ task \in MapTask /\ TaskIsSound(task)
      /\ n \in 0 .. 2 /\ s.next \in AttemptIds
      /\ s.jobs[j] \in Job
  BY TasksOf DEF Sound, State
<1>2. CASE r.outcome = "FAILED"
  <2> DEFINE dropped == DropAttempts(task, AttemptsNamed(task, r.id))
             new == [s.jobs[j] EXCEPT !.maps[k] = dropped, !.mapTimes = n]
  <2>1. dropped \in MapTask /\ TaskIsSound(dropped)
    BY <1>1, DropAttemptsSound
  <2>2. new = [s.jobs[j] EXCEPT !.maps[k] = dropped]
    <3> HIDE DEF dropped
    <3> QED BY <1>1 DEF Job
  <2>3. ProcessMapResult(s, w, r) = [s EXCEPT !.jobs[j] = new]
    BY <1>2, <2>2 DEF ProcessMapResult
  <2> HIDE DEF dropped, new
  <2>4. Sound([s EXCEPT !.jobs[j] = new])
          /\ Evolves(s, [s EXCEPT !.jobs[j] = new])
    BY <1>1, <2>1, MapStepSound DEF new
  <2> QED BY <2>3, <2>4
<1>3. CASE r.outcome # "FAILED" /\ task.status = "Completed"
  BY <1>3, EvolvesReflexive DEF ProcessMapResult
<1>4. CASE r.outcome # "FAILED" /\ task.status # "Completed"
  <2> DEFINE done == [task EXCEPT !.status = "Completed", !.host = w]
             count == CountCompletion(n, task, r.id)
             new == [s.jobs[j] EXCEPT !.maps[k] = done, !.mapTimes = count]
             t == [s EXCEPT !.jobs[j] = new]
             u == [s EXCEPT !.jobs[j].maps[k] = done,
                            !.jobs[j].mapTimes = count]
  <2>1. done \in MapTask /\ TaskIsSound(done)
    BY <1>1 DEF MapTask, TaskStatus, TaskIsSound, AttemptIds
  <2>2. count \in 0 .. 2
    BY <1>1 DEF CountCompletion
  <2>3. ProcessMapResult(s, w, r) = AdvanceJob(u, j)
    BY <1>4 DEF ProcessMapResult
  <2> HIDE DEF done, count
  <2>4. u = t
    BY <1>1 DEF Sound, State, Job
  <2> HIDE DEF new, t, u
  <2>5. Sound(t) /\ Evolves(s, t)
    BY <1>1, <2>1, <2>2, MapStepSound DEF new, t
  <2> QED BY <2>3, <2>4, <2>5, AdvanceJobSound, EvolvesTransitive
<1> QED BY <1>2, <1>3, <1>4

LEMMA ProcessReduceResultSound ==
  ASSUME NEW s, Sound(s), NEW r, r.job \in Jobs,
         r.task \in Partitions, r.id \in AttemptIds
  PROVE  LET t == ProcessReduceResult(s, r) IN
         Sound(t) /\ Evolves(s, t)
<1> DEFINE j == r.job
           k == r.task
           task == s.jobs[j].reduces[k]
           n == s.jobs[j].reduceTimes
<1>1. /\ task \in ReduceTask /\ TaskIsSound(task)
      /\ n \in 0 .. 2 /\ s.next \in AttemptIds
      /\ s.jobs[j] \in Job
  BY TasksOf DEF Sound, State
<1>2. CASE r.outcome = "FAILED"
  <2> DEFINE dropped == DropAttempts(task, AttemptsNamed(task, r.id))
             new == [s.jobs[j] EXCEPT !.reduces[k] = dropped, !.reduceTimes = n]
  <2>1. dropped \in ReduceTask /\ TaskIsSound(dropped)
    BY <1>1, DropAttemptsSound
  <2>2. new = [s.jobs[j] EXCEPT !.reduces[k] = dropped]
    <3> HIDE DEF dropped
    <3> QED BY <1>1 DEF Job
  <2>3. ProcessReduceResult(s, r) = [s EXCEPT !.jobs[j] = new]
    BY <1>2, <2>2 DEF ProcessReduceResult
  <2> HIDE DEF dropped, new
  <2>4. Sound([s EXCEPT !.jobs[j] = new])
          /\ Evolves(s, [s EXCEPT !.jobs[j] = new])
    BY <1>1, <2>1, ReduceStepSound DEF new
  <2> QED BY <2>3, <2>4
<1>3. CASE r.outcome # "FAILED" /\ task.status = "Completed"
  BY <1>3, EvolvesReflexive DEF ProcessReduceResult
<1>4. CASE r.outcome # "FAILED" /\ task.status # "Completed"
  <2> DEFINE done == [task EXCEPT !.status = "Completed",
                                   !.winner = r.id, !.temp = r.id]
             count == CountCompletion(n, task, r.id)
             new == [s.jobs[j] EXCEPT !.reduces[k] = done, !.reduceTimes = count]
             t == [s EXCEPT !.jobs[j] = new]
             u == [s EXCEPT !.jobs[j].reduces[k] = done,
                            !.jobs[j].reduceTimes = count]
  <2>1. done \in ReduceTask /\ TaskIsSound(done)
    <3>1. r.id \in Nat /\ task \in ReduceTask
      BY <1>1 DEF AttemptIds
    <3> HIDE DEF task
    <3>2. done \in ReduceTask
      BY <3>1 DEF ReduceTask, TaskStatus
    <3>3. done.status = "Completed" /\ done.attempts = task.attempts
      BY <3>1 DEF ReduceTask
    <3> QED BY <1>1, <3>2, <3>3 DEF TaskIsSound
  <2>2. count \in 0 .. 2
    BY <1>1 DEF CountCompletion
  <2>3. ProcessReduceResult(s, r) = AdvanceJob(u, j)
    BY <1>4 DEF ProcessReduceResult
  <2> HIDE DEF done, count
  <2>4. u = t
    BY <1>1 DEF Sound, State, Job
  <2> HIDE DEF new, t, u
  <2>5. Sound(t) /\ Evolves(s, t)
    BY <1>1, <2>1, <2>2, ReduceStepSound DEF new, t
  <2> QED BY <2>3, <2>4, <2>5, AdvanceJobSound, EvolvesTransitive
<1> QED BY <1>2, <1>3, <1>4

LEMMA ProcessPromotionResultSound ==
  ASSUME NEW s, Sound(s), NEW r, r.job \in Jobs, r.task \in Partitions
  PROVE  LET t == ProcessPromotionResult(s, r) IN
         Sound(t) /\ Evolves(s, t)
<1> DEFINE j == r.job
           k == r.task
           task == s.jobs[j].reduces[k]
           n == s.jobs[j].reduceTimes
           done == [task EXCEPT !.temp = NoObject]
           new == [s.jobs[j] EXCEPT !.reduces[k] = done, !.reduceTimes = n]
           t == [s EXCEPT !.jobs[j] = new]
           u == [s EXCEPT !.jobs[j].reduces[k].temp = NoObject]
<1>1. /\ task \in ReduceTask /\ TaskIsSound(task)
      /\ n \in 0 .. 2 /\ s.next \in AttemptIds
      /\ s.jobs[j] \in Job
  BY TasksOf DEF Sound, State
<1>2. done \in ReduceTask /\ TaskIsSound(done)
  BY <1>1 DEF ReduceTask, TaskIsSound, NoObject
<1>3. ProcessPromotionResult(s, r) = IF r.outcome = "FAILED" THEN s
                                                           ELSE AdvanceJob(u, j)
  BY DEF ProcessPromotionResult
<1>4. new = [s.jobs[j] EXCEPT !.reduces[k].temp = NoObject]
  BY <1>1 DEF Job
<1>5. u = t
  BY <1>4
<1> HIDE DEF done, new, t, u
<1>6. Sound(t) /\ Evolves(s, t)
  BY <1>1, <1>2, ReduceStepSound DEF new, t
<1> QED BY <1>3, <1>5, <1>6, AdvanceJobSound, EvolvesReflexive,
           EvolvesTransitive

LEMMA ProcessResultSound ==
  ASSUME NEW s, Sound(s), NEW w \in Workers, NEW r, NamesTask(r),
         r.id \in AttemptIds
  PROVE  LET t == ProcessResult(s, w, r) IN
         Sound(t) /\ Evolves(s, t)
<1>1. CASE s.jobs[r.job].status \in {"Absent", "Aborted", "Completed"}
  BY <1>1, EvolvesReflexive DEF ProcessResult
<1>2. CASE s.jobs[r.job].status \notin {"Absent", "Aborted", "Completed"}
  <2>1. CASE r.phase = "map"
    BY <1>2, <2>1, ProcessMapResultSound DEF ProcessResult, NamesTask
  <2>2. CASE r.phase = "reduce"
    BY <1>2, <2>2, ProcessReduceResultSound DEF ProcessResult, NamesTask
  <2>3. CASE r.phase = "promotion"
    BY <1>2, <2>3, ProcessPromotionResultSound DEF ProcessResult, NamesTask
  <2> QED BY <2>1, <2>2, <2>3 DEF NamesTask
<1> QED BY <1>1, <1>2

LEMMA ResetWorkerTasksSound ==
  ASSUME NEW s, Sound(s), NEW w \in Workers, NEW ref,
         ref = None \/ NamesTask(ref)
  PROVE  LET t == ResetWorkerTasks(s, w, ref) IN
         Sound(t) /\ Evolves(s, t)
<1> DEFINE j == ref.job
           k == ref.task
           before == s.jobs[j].status
           t == ResetWorkerTasks(s, w, ref)
<1>1. ref # None => j \in Jobs
  BY DEF NamesTask
<1>2. CASE ref # None /\ before \notin {"Absent", "Aborted", "Completed"}
            /\ ref.phase = "map"
  <2> DEFINE task == s.jobs[j].maps[k]
             n == s.jobs[j].mapTimes
             released == ReleaseTask(task, w)
             new == [s.jobs[j] EXCEPT !.maps[k] = released, !.mapTimes = n]
  <2>1. /\ k \in MapTasks /\ task \in MapTask /\ TaskIsSound(task)
        /\ n \in 0 .. 2 /\ s.next \in AttemptIds
        /\ s.jobs[j] \in Job
    BY <1>1, <1>2, TasksOf DEF Sound, State, NamesTask
  <2>2. released \in MapTask /\ TaskIsSound(released)
    BY <2>1, DropAttemptsSound DEF ReleaseTask
  <2>3. t = [s EXCEPT !.jobs[j].maps[k] = released]
    BY <1>2 DEF ResetWorkerTasks
  <2> HIDE DEF t, released, task
  <2>4. new = [s.jobs[j] EXCEPT !.maps[k] = released]
    BY <2>1 DEF Job
  <2>5. t = [s EXCEPT !.jobs[j] = new]
    BY <2>3, <2>4
  <2> HIDE DEF new
  <2>6. Sound([s EXCEPT !.jobs[j] = new])
          /\ Evolves(s, [s EXCEPT !.jobs[j] = new])
    BY <1>1, <1>2, <2>1, <2>2, MapStepSound DEF new
  <2> QED BY <2>5, <2>6 DEF t
<1>3. CASE ref # None /\ before \notin {"Absent", "Aborted", "Completed"}
            /\ ref.phase = "reduce"
  <2> DEFINE task == s.jobs[j].reduces[k]
             n == s.jobs[j].reduceTimes
             released == ReleaseTask(task, w)
             new == [s.jobs[j] EXCEPT !.reduces[k] = released, !.reduceTimes = n]
  <2>1. /\ k \in Partitions /\ task \in ReduceTask /\ TaskIsSound(task)
        /\ n \in 0 .. 2 /\ s.next \in AttemptIds
        /\ s.jobs[j] \in Job
    BY <1>1, <1>3, TasksOf DEF Sound, State, NamesTask
  <2>2. released \in ReduceTask /\ TaskIsSound(released)
    BY <2>1, DropAttemptsSound DEF ReleaseTask
  <2>3. t = [s EXCEPT !.jobs[j].reduces[k] = released]
    BY <1>3 DEF ResetWorkerTasks
  <2> HIDE DEF t, released, task
  <2>4. new = [s.jobs[j] EXCEPT !.reduces[k] = released]
    BY <2>1 DEF Job
  <2>5. t = [s EXCEPT !.jobs[j] = new]
    BY <2>3, <2>4
  <2> HIDE DEF new
  <2>6. Sound([s EXCEPT !.jobs[j] = new])
          /\ Evolves(s, [s EXCEPT !.jobs[j] = new])
    BY <1>1, <1>3, <2>1, <2>2, ReduceStepSound DEF new
  <2> QED BY <2>5, <2>6 DEF t
<1>4. CASE t = s
  BY <1>4, EvolvesReflexive
<1> QED BY <1>2, <1>3, <1>4 DEF ResetWorkerTasks, NamesTask

=============================================================================
