---------------------------- MODULE OutputProofs ----------------------------
(***************************************************************************)
(* Proof about Cluster while no live worker is evicted and no master ends: *)
(* whatever workers crash, a job that is reported as Completed has left    *)
(* each partition's object, made from every output it is made of; and      *)
(* while none crashes, a promotion that is due can be carried out.  The    *)
(* phases of a job are what PhaseProofs shows of the master that hears any *)
(* results, although workers crash here and are evicted.                   *)
(***************************************************************************)
EXTENDS ClusterProofs, PhaseProofs

-----------------------------------------------------------------------------
(* The jobs, while workers crash and are evicted                           *)

\* The attempts of workers that were evicted are as good as failed, unless they
\* have succeeded before.
Lost == {k \in issued : /\ k.worker \notin registered
                        /\ <<k, "SUCCESS">> \notin results}
Settled == results \cup (Lost \X {"FAILED"})

\* Only dead workers are evicted, and a result that was heard has had its effect.
Course == /\ FreshIds(issued, nextAttempt)
          /\ Phased(jobs, issued, Settled)
          /\ \A k \in issued : k.worker \in registered \/ k.worker \notin alive
          /\ \A k \in issued :
               /\ <<k, "SUCCESS">> \in results /\ Running(jobs[k.job])
               => Credited(jobs, k)

\* A job that is done for, whatever happens.
Gone(j) == j \in submitted /\ jobs[j].status \in {"Aborted", "Absent"}

\* A job that has an attempt runs on or ends; and it stays gone.
LEMMA JobsEnded ==
  ASSUME MaxRestarts = 0, IInv, QueuedWait, ServiceInv, [OpenNext]_vars
  PROVE  /\ \A k \in issued : Running(jobs'[k.job]) => Running(jobs[k.job])
         /\ \A j \in Jobs : Gone(j) => Gone(j)'
<1>1. ~Restart
  BY Facts DEF Restart, ServiceInv
<1>2. \A k \in issued : /\ k.job \in Jobs /\ k.job \notin pending
                        /\ jobs[k.job].status \notin {"Absent", "Queued"}
  BY DEF ServiceInv, Started
<1>3. jobs \in [Jobs -> Job]
  BY Facts
<1>4. CASE Schedules
  <2>1. PICK t \in State : Evolves(Current, t) /\ Become(t)
    BY <1>4 DEF Schedules
  <2>2. /\ \A j \in Jobs : jobs'[j].status = "Absent" <=> jobs[j].status = "Absent"
        /\ \A j \in Jobs : jobs[j].status \in {"Completed", "Aborted"} =>
             jobs'[j].status = jobs[j].status
    BY <2>1 DEF Evolves, Current, Become
  <2>3. UNCHANGED submitted
    BY <1>4 DEF Schedules, submitVars
  <2>4. \A j \in Jobs : jobs[j].status \in JobStatus
    BY <1>3 DEF Job
  <2> QED BY <1>2, <2>2, <2>3, <2>4 DEF Gone, Running, JobStatus
<1>5. CASE Client
  <2>1. PICK j \in Jobs : \/ SubmitRegister(j) \/ SubmitEnqueue(j)
                         \/ SubmitReject(j) \/ Delete(j)
    BY <1>5 DEF Client
  <2>2. NewJob.status = "Queued" /\ NoJob.status = "Absent"
    BY DEF NewJob, NoJob
  <2>3. CASE SubmitRegister(j)
    <3>1. /\ jobs' = [jobs EXCEPT ![j] = NewJob] /\ j \notin submitted
          /\ submitted' = submitted \cup {j}
      BY <2>3 DEF SubmitRegister
    <3> QED BY <1>3, <2>2, <3>1 DEF Gone, Running
  <2>4. CASE SubmitEnqueue(j)
    BY <2>4 DEF SubmitEnqueue, Gone
  <2>6. CASE SubmitReject(j)
    <3>1. /\ j \in pending /\ UNCHANGED submitted
          /\ jobs' = [jobs EXCEPT ![j] = NoJob]
      BY <2>6 DEF SubmitReject, IInv, TypeOK, MasterTypeOK
    <3>2. /\ jobs'[j].status = "Absent"
          /\ \A i \in Jobs \ {j} : jobs'[i] = jobs[i]
      BY <1>3, <2>2, <3>1
    <3> QED BY <1>2, <3>1, <3>2 DEF Gone, Running
  <2>5. CASE Delete(j)
    <3>1. jobs' = [jobs EXCEPT ![j].status = "Aborted"] /\ UNCHANGED submitted
      BY <2>5 DEF Delete, submitVars
    <3>2. /\ jobs'[j].status = "Aborted"
          /\ \A i \in Jobs \ {j} : jobs'[i] = jobs[i]
      BY <1>3, <3>1 DEF Job
    <3> QED BY <1>2, <3>1, <3>2 DEF Gone, Running
  <2> QED BY <2>1, <2>3, <2>4, <2>5, <2>6
<1>6. CASE Storage
  <2>1. UNCHANGED jobs
    BY <1>6, StorageIdles DEF schedVars
  <2>2. UNCHANGED submitted
    BY <1>6 DEF Storage, WriteCheckpoint, LoadCheckpoint, FinalSnapshot, submitVars
  <2> QED BY <2>1, <2>2 DEF Gone
<1>7. CASE /\ \/ TakeSnapshot \/ BadLoad \/ Interrupt \/ UNCHANGED vars
              \/ \E w \in Workers : Register(w)
           /\ UNCHANGED schedVars
  <2>1. UNCHANGED submitted
    BY <1>7 DEF TakeSnapshot, Snapshot, BadLoad, LoadFails, Interrupt, Signal,
       Register, RegisterWorker, submitVars, vars, masterVars
  <2> QED BY <1>7, <2>1 DEF Gone, schedVars
<1> QED BY <1>1, <1>4, <1>5, <1>6, <1>7, NextKinds

\* A heartbeat of a registered worker is heard, with a result that was said.
LEMMA HearCourse ==
  ASSUME MaxRestarts = 0, IInv, QueuedWait, ServiceInv, ProcessInv,
         Truthful, Course,
         NEW w \in Workers, w \in registered, NEW q \in KnownRequests(w),
         q.result = None \/ q.result \in Said,
         NEW slow \in SlowFor(q), Hear(w, q, slow), UNCHANGED alive
  PROVE  /\ Course' /\ KeepsDone(jobs, jobs') /\ results' \subseteq Said
         /\ \A x \in Heard(w, q.idle, ResultIn(q), slow).given :
              OffersWell(x, nextAttempt, jobs')
<1> DEFINE report == IF q.result = None THEN {} ELSE {q.result}
           i == q.task
           given == Heard(w, q.idle, ResultIn(q), slow).given
<1>1. /\ q.idle \in BOOLEAN
      /\ q.result = None \/ q.result \in Given(w) \X Outcomes
  BY DEF KnownRequests
<1>2. issued \subseteq Issues
  BY DEF IInv, TypeOK, ControlTypeOK
<1>3. \/ report = {} /\ ResultIn(q) = None
      \/ /\ ResultIn(q) # None
         /\ \E k \in issued, o \in Outcomes :
              k.worker = w /\ report = {<<k, o>>} /\ ResultIn(q) = Result(k, o)
  BY ReportOf DEF Given
<1>4. Exchange(w, q.idle, i, report, ResultIn(q), slow)
  BY DEF Hear
<1>5. /\ issued' = issued \cup {Issue(a, w) : a \in given}
      /\ results' = results \cup report
      /\ UNCHANGED registered
  BY <1>4, Zenon DEF Exchange, Heartbeat
<1> HIDE DEF given
<1>6. report \subseteq Said /\ results \subseteq Said /\ Said \subseteq issued \X Outcomes
  BY SaidFacts
<1> HIDE DEF report
<1>7. \A k \in issued' : k \in issued \/ k.worker = w
  BY <1>5 DEF Issue
<1>8. OneOutcome(Settled \cup report)
  <2>1. ASSUME NEW r \in Settled, NEW p \in report, r[1] = p[1],
               r[1].phase # "promotion"
        PROVE  r[2] = p[2]
    <3>1. p \in Said /\ p[1].worker = w
      BY <1>3, <1>6, <2>1
    <3>2. r \in results
      BY <2>1, <3>1 DEF Settled, Lost
    <3> QED BY <1>6, <2>1, <3>1, <3>2 DEF Truthful, OneOutcome
  <2>2. ASSUME NEW r \in report, NEW p \in report PROVE r = p
    BY <1>3, <2>2
  <2>3. ASSUME NEW r \in Settled, NEW p \in Settled, r[1] = p[1],
               r[1].phase # "promotion"
        PROVE  r[2] = p[2]
    <3>1. ASSUME NEW a \in results, NEW b \in results, a[1] = b[1],
                 a[1].phase # "promotion"
          PROVE  a[2] = b[2]
      BY <1>6, <3>1 DEF Truthful, OneOutcome
    <3>2. ASSUME NEW a \in results, NEW b \in Lost \X {"FAILED"}, a[1] = b[1]
          PROVE  a[2] = b[2]
      <4>1. a = <<a[1], a[2]>> /\ a[2] \in {"SUCCESS", "FAILED"}
        BY <1>6, <3>2 DEF Outcomes
      <4> QED BY <3>2, <4>1 DEF Lost
    <3>3. ASSUME NEW a \in Lost \X {"FAILED"}, NEW b \in Lost \X {"FAILED"}
          PROVE  a[2] = b[2]
      BY <3>3
    <3> QED BY <2>3, <3>1, <3>2, <3>3 DEF Settled
  <2> QED BY <2>1, <2>2, <2>3 DEF OneOutcome
<1>9. /\ FreshIds(issued', nextAttempt')
      /\ Phased(jobs', issued', Settled \cup report)
      /\ KeepsDone(jobs, jobs')
      /\ \A x \in given : OffersWell(x, nextAttempt, jobs')
      /\ \A k \in issued :
           /\ report = {<<k, "SUCCESS">>} /\ ResultIn(q) # None
           /\ Running(jobs[k.job])
           => Credited(jobs', k)
  BY <1>1, <1>3, <1>4, <1>8, ExchangePhased DEF Course, given
<1>10. Settled' = Settled \cup report
  <2>1. Lost' = Lost
    <3>1. \A k \in Lost' : k \in Lost
      BY <1>5, <1>7 DEF Lost
    <3>2. \A k \in Lost : k \in Lost'
      BY <1>3, <1>5 DEF Lost
    <3> QED BY <3>1, <3>2
  <2> QED BY <1>5, <2>1 DEF Settled
<1>11. \A k \in issued : Running(jobs'[k.job]) => Running(jobs[k.job])
  <2>1. OpenNext
    BY HearIsOpen DEF OpenNext
  <2> QED BY <2>1, JobsEnded
<1>12. ASSUME NEW k \in issued', <<k, "SUCCESS">> \in results',
              Running(jobs'[k.job])
       PROVE  Credited(jobs', k)
  <2>1. k \in issued /\ k \in Issues
    BY <1>2, <1>5, <1>6, <1>12
  <2>2. Running(jobs[k.job])
    BY <1>11, <1>12, <2>1
  <2>3. CASE <<k, "SUCCESS">> \in results
    BY <1>9, <2>1, <2>2, <2>3, CreditStays DEF Course
  <2>4. CASE <<k, "SUCCESS">> \in report
    BY <1>3, <1>9, <2>1, <2>2, <2>4
  <2> QED BY <1>5, <1>12, <2>3, <2>4
<1>13. Course'
  <2>1. \A k \in issued' : k.worker \in registered' \/ k.worker \notin alive'
    BY <1>5, <1>7 DEF Course
  <2>2. Phased(jobs', issued', Settled')
    BY <1>9, <1>10
  <2> QED BY <1>9, <1>12, <2>1, <2>2 DEF Course
<1> QED BY <1>5, <1>6, <1>9, <1>13 DEF given

\* A step at which nobody is heard.
LEMMA CourseStep ==
  ASSUME IInv, Course, UNCHANGED <<issued, results, nextAttempt>>,
         StepKeeps(jobs', Settled'),
         \A k \in issued : k.worker \in registered' \/ k.worker \notin alive',
         \A k \in issued : Running(jobs'[k.job]) => Running(jobs[k.job])
  PROVE  Course' /\ KeepsDone(jobs, jobs')
<1>1. issued \subseteq Issues
  BY DEF IInv, TypeOK, ControlTypeOK
<1>2. Phased(jobs', issued', Settled') /\ KeepsDone(jobs, jobs')
  BY DEF StepKeeps
<1>3. ASSUME NEW k \in issued, <<k, "SUCCESS">> \in results,
             Running(jobs'[k.job])
      PROVE  Credited(jobs', k)
  <2>1. Running(jobs[k.job])
    BY <1>3
  <2>2. Credited(jobs, k)
    BY <1>3, <2>1 DEF Course
  <2> QED BY <1>1, <1>2, <2>2, CreditStays
<1> QED BY <1>2, <1>3 DEF Course

LEMMA EvictCourse ==
  ASSUME MaxRestarts = 0, IInv, QueuedWait, ServiceInv, Course,
         NEW w \in Workers, w \notin alive, Expire(w), UNCHANGED alive
  PROVE  Course' /\ KeepsDone(jobs, jobs')
<1> DEFINE ref == currentTask[w]
<1>1. /\ jobs' = ResetWorkerTasks(Current, w, ref).jobs
      /\ nextAttempt' = ResetWorkerTasks(Current, w, ref).next
      /\ registered' = registered \ {w}
      /\ UNCHANGED <<issued, results>>
  BY DEF Expire, Evict, Become, netVars
<1>2. nextAttempt' = nextAttempt
  <2>1. Current \in State /\ Current.next = nextAttempt
    BY DEF IInv, Sound, Current
  <2>2. ResetWorkerTasks(Current, w, ref).next = Current.next
    BY <2>1 DEF ResetWorkerTasks, State
  <2> QED BY <1>1, <2>1, <2>2
<1>3. issued \subseteq Issues
  BY DEF IInv, TypeOK, ControlTypeOK
<1>4. ref = None \/ NamesTask(ref)
  BY DEF IInv, TypeOK, MasterTypeOK, TaskRefs, NamesTask
<1>5. ref # None => jobs[ref.job].status # "Queued"
  BY DEF ServiceInv, Started
<1>6. Settled \subseteq Settled'
  BY <1>1 DEF Settled, Lost
<1>7. Phased(jobs, issued, Settled')
  BY <1>6, MoreResults DEF Course
<1>8. ASSUME NEW k \in issued, k.worker = w, Running(jobs[k.job]),
             ~Credited(jobs, k)
      PROVE  <<k, "FAILED">> \in Settled'
  <2>1. <<k, "SUCCESS">> \notin results
    BY <1>8 DEF Course
  <2>2. k \in Lost'
    BY <1>1, <1>8, <2>1 DEF Lost
  <2> QED BY <2>2 DEF Settled
<1>9. StepKeeps(ResetWorkerTasks(Current, w, ref).jobs, Settled')
  BY <1>4, <1>5, <1>7, <1>8, EvictPhased
<1>10. StepKeeps(jobs', Settled')
  BY <1>1, <1>9
<1>11. \A k \in issued : Running(jobs'[k.job]) => Running(jobs[k.job])
  <2>1. OpenNext
    BY DEF OpenNext
  <2> QED BY <2>1, JobsEnded
<1>12. \A k \in issued : k.worker \in registered' \/ k.worker \notin alive'
  BY <1>1 DEF Course
<1> QED BY <1>1, <1>2, <1>10, <1>11, <1>12, CourseStep

\* Nobody joins or leaves who was given anything.
LEMMA SameSettled ==
  ASSUME UNCHANGED <<issued, results>>,
         \A k \in issued : k.worker \in registered <=> k.worker \in registered'
  PROVE  Settled' = Settled
BY DEF Settled, Lost

\* A step of the master, or of a worker, that keeps the jobs as they are.
LEMMA QuietCourse ==
  ASSUME IInv, Course, UNCHANGED <<jobs, nextAttempt, issued, results>>,
         alive' \subseteq alive,
         \/ UNCHANGED registered
         \/ \E w \in alive : registered' = registered \cup {w}
  PROVE  Course' /\ KeepsDone(jobs, jobs')
<1>1. \A k \in issued : k.worker \in registered <=> k.worker \in registered'
  BY DEF Course
<1>2. Settled' = Settled
  BY <1>1, SameSettled
<1>3. StepKeeps(jobs', Settled')
  BY <1>2, KeepsDoneReflexive DEF StepKeeps, Course
<1>4. \A k \in issued : k.worker \in registered' \/ k.worker \notin alive'
  BY <1>1 DEF Course
<1> QED BY <1>3, <1>4, CourseStep

LEMMA MasterCourse ==
  ASSUME MaxEvictions = 0, MaxRestarts = 0,
         IInv, QueuedWait, ServiceInv, ProcessInv, Course,
         \/ \E w \in Workers : EvictSlow(w) \/ EvictDead(w)
         \/ Submit \/ Enqueue \/ Cancel \/ Housekeeping \/ MasterEnds
         \/ UNCHANGED clusterVars
  PROVE  Course' /\ KeepsDone(jobs, jobs')
<1>1. ~MasterEnds /\ \A w \in Workers : ~EvictSlow(w)
  <2>1. evictions \in Nat
    BY DEF IInv, TypeOK, ControlTypeOK
  <2> QED BY <2>1, Facts DEF MasterEnds, Restart, ServiceInv, EvictSlow, Timeout
<1>2. UNCHANGED alive /\ [OpenNext]_vars
  <2>1. [OpenNext]_vars
    BY MasterProcess
  <2>2. UNCHANGED processVars
    BY <1>1 DEF EvictDead, Submit, Enqueue, Cancel, Housekeeping, clusterVars
  <2> QED BY <2>1, <2>2 DEF processVars, localVars
<1>3. CASE \E w \in Workers : EvictDead(w)
  BY <1>2, <1>3, EvictCourse DEF EvictDead
<1>4. CASE Submit \/ Enqueue \/ Cancel
  <2>1. Client
    BY <1>4 DEF Submit, Enqueue, Cancel, Client
  <2>2. UNCHANGED registered
    BY <1>4 DEF Submit, Enqueue, Cancel, SubmitRegister, SubmitEnqueue,
       SubmitReject, Delete, workerVars
  <2>3. /\ StepKeeps(jobs', Settled)
        /\ UNCHANGED <<issued, results, nextAttempt>>
    BY <2>1, ClientPhased DEF Course
  <2>4. Settled' = Settled
    BY <2>2, <2>3, SameSettled
  <2>5. StepKeeps(jobs', Settled')
    BY <2>3, <2>4
  <2>6. \A k \in issued : Running(jobs'[k.job]) => Running(jobs[k.job])
    BY <1>2, JobsEnded
  <2>7. \A k \in issued : k.worker \in registered' \/ k.worker \notin alive'
    BY <1>2, <2>2 DEF Course
  <2> QED BY <2>3, <2>5, <2>6, <2>7, CourseStep
<1>5. CASE Housekeeping \/ UNCHANGED clusterVars
  <2>1. CASE Storage
    <3>1. UNCHANGED <<schedVars, issued, results>>
      BY <2>1, StorageIdles
    <3>2. UNCHANGED registered
      BY <2>1 DEF Storage, WriteCheckpoint, LoadCheckpoint, FinalSnapshot,
         workerVars
    <3> QED BY <1>2, <3>1, <3>2, QuietCourse DEF schedVars
  <2>2. CASE TakeSnapshot \/ BadLoad \/ Interrupt \/ UNCHANGED clusterVars
    <3>1. UNCHANGED <<jobs, nextAttempt, issued, results, registered>>
      BY <2>2 DEF TakeSnapshot, Snapshot, BadLoad, LoadFails, Interrupt, Signal,
         schedVars, workerVars, netVars, clusterVars, vars, masterVars
    <3> QED BY <1>2, <3>1, QuietCourse
  <2> QED BY <1>5, <2>1, <2>2 DEF Housekeeping
<1> QED BY <1>1, <1>3, <1>4, <1>5

-----------------------------------------------------------------------------
(* All of it together                                                      *)

Orderly == Honest /\ QueuedWait /\ ServiceInv /\ Course
OrderlyStep == StaysTruthful /\ Course' /\ KeepsDone(jobs, jobs')

\* The master hears a worker that is registered.
LEMMA HearOrderly ==
  ASSUME MaxRestarts = 0, Orderly, NEW w \in registered, w \in Workers,
         NEW q, \/ q = rpc[w] /\ rpc[w].kind = "request"
                \/ \E x \in stray : x.worker = w /\ x.request = q,
         NEW slow \in SlowFor(q), Hear(w, q, slow), UNCHANGED alive
  PROVE  /\ q \in KnownRequests(w)
         /\ Course' /\ KeepsDone(jobs, jobs') /\ results' \subseteq Said
         /\ \A a \in Heard(w, q.idle, ResultIn(q), slow).given :
              /\ OffersWell(a, nextAttempt, jobs')
              /\ Issue(a, w).phase = "promotion" \/ Unsaid(Issue(a, w))
<1>1. /\ q \in KnownRequests(w) /\ (q.result = None \/ q.result \in Said)
      /\ \A a \in Heard(w, q.idle, ResultIn(q), slow).given :
           Issue(a, w).phase = "promotion" \/ Unsaid(Issue(a, w))
  BY HearTruth DEF Orderly
<1>2. /\ Course' /\ KeepsDone(jobs, jobs') /\ results' \subseteq Said
      /\ \A a \in Heard(w, q.idle, ResultIn(q), slow).given :
           OffersWell(a, nextAttempt, jobs')
  BY <1>1, HearCourse DEF Orderly, Honest
<1> QED BY <1>1, <1>2

\* A step that only the worker makes.
LEMMA SilentOrderly ==
  ASSUME Orderly, NEW w \in Workers,
         \/ Loop(w) \/ LosePatience(w) \/ TaskFails(w) \/ Die(w)
         \/ \E i \in DOMAIN runs[w] : Step(w, i)
  PROVE  Course' /\ KeepsDone(jobs, jobs')
<1>1. UNCHANGED vars
  BY DEF Loop, LosePatience, TaskFails, Die, Step, Silent
<1>2. UNCHANGED <<jobs, nextAttempt, issued, results, registered>>
  BY <1>1 DEF vars, netVars, masterVars, schedVars, workerVars
<1>3. ASSUME NEW i \in DOMAIN runs[w], RunStep(w, i) \/ Fail(w, i)
      PROVE  UNCHANGED alive
  BY <1>3, StepKinds DEF Orderly, Honest, RunEnds, Moves
<1>4. ASSUME InTime(w) \/ Receive(w) \/ GiveUp(w) \/ RegistrationFails(w)
      PROVE  UNCHANGED alive
  BY <1>4 DEF InTime, Tick, Receive, GiveUp, RegistrationFails
<1>5. ASSUME WorkerCrashes(w) PROVE alive' \subseteq alive
  BY <1>5 DEF WorkerCrashes
<1>6. alive' \subseteq alive
  BY <1>3, <1>4, <1>5 DEF Loop, LosePatience, TaskFails, Die, Step
<1> QED BY <1>2, <1>6, QuietCourse DEF Orderly, Honest

LEMMA HeardOrderly ==
  ASSUME MaxRestarts = 0, Orderly,
         \/ \E w \in Workers : Answer(w)
         \/ \E x \in stray : HearStray(x)
  PROVE  Course' /\ KeepsDone(jobs, jobs')
<1>1. CASE \E w \in Workers : Answer(w) /\ w \in registered
  <2>1. PICK w \in Workers : Answer(w) /\ w \in registered
    BY <1>1
  <2>2. /\ rpc[w].kind = "request" /\ UNCHANGED alive
        /\ \E slow \in SlowFor(rpc[w]) : Hear(w, rpc[w], slow)
    BY <2>1 DEF Answer
  <2> QED BY <2>1, <2>2, HearOrderly
<1>2. CASE \E w \in Workers : Answer(w) /\ w \notin registered
  <2>1. UNCHANGED vars /\ UNCHANGED alive
    BY <1>2 DEF Answer
  <2>2. UNCHANGED <<jobs, nextAttempt, issued, results, registered>>
    BY <2>1 DEF vars, netVars, masterVars, schedVars, workerVars
  <2> QED BY <2>1, <2>2, QuietCourse DEF Orderly, Honest
<1>3. CASE \E x \in stray : HearStray(x)
  <2>1. PICK x \in stray : HearStray(x)
    BY <1>3
  <2>2. /\ x.worker \in Workers /\ x.worker \in registered /\ UNCHANGED alive
        /\ \E slow \in SlowFor(x.request) : Hear(x.worker, x.request, slow)
    BY <2>1 DEF HearStray, localVars, Orderly, Honest, ProcessInv, Mailbox
  <2> QED BY <2>2, HearOrderly
<1> QED BY <1>1, <1>2, <1>3

LEMMA MasterOrderly ==
  ASSUME MaxEvictions = 0, MaxRestarts = 0, Orderly,
         \/ \E w \in Workers : Join(w) \/ EvictSlow(w) \/ EvictDead(w)
         \/ Submit \/ Enqueue \/ Cancel \/ DeleteOutput
         \/ Housekeeping \/ MasterEnds
         \/ UNCHANGED clusterVars
  PROVE  Course' /\ KeepsDone(jobs, jobs')
<1>1. CASE \E w \in Workers : Join(w)
  <2>1. PICK w \in Workers : Join(w)
    BY <1>1
  <2>2. /\ UNCHANGED <<jobs, nextAttempt, issued, results, alive>>
        /\ w \in alive /\ registered' = registered \cup {w}
    BY <2>1 DEF Join, Register, RegisterWorker, schedVars, netVars
  <2> QED BY <2>2, QuietCourse DEF Orderly, Honest
<1>2. CASE DeleteOutput
  <2>1. UNCHANGED <<jobs, nextAttempt, issued, results, registered, alive>>
    BY <1>2 DEF DeleteOutput, vars, netVars, masterVars, schedVars, workerVars,
       localVars
  <2> QED BY <2>1, QuietCourse DEF Orderly, Honest
<1>3. CASE \/ \E w \in Workers : EvictSlow(w) \/ EvictDead(w)
           \/ Submit \/ Enqueue \/ Cancel \/ Housekeeping \/ MasterEnds
           \/ UNCHANGED clusterVars
  BY <1>3, MasterCourse DEF Orderly, Honest
<1> QED BY <1>1, <1>2, <1>3

LEMMA NextOrderly ==
  ASSUME PromptStart, MaxEvictions = 0, MaxRestarts = 0, Orderly,
         [ClusterNext]_clusterVars
  PROVE  OrderlyStep
<1>1. StaysTruthful
  BY NextTruth DEF Orderly
<1>2. Course' /\ KeepsDone(jobs, jobs')
  BY SilentOrderly, HeardOrderly, MasterOrderly DEF ClusterNext
<1> QED BY <1>1, <1>2 DEF OrderlyStep

LEMMA InitOrderly == ClusterInit => Orderly
<1> SUFFICES ASSUME ClusterInit PROVE Orderly
  OBVIOUS
<1>1. Honest /\ QueuedWait /\ ServiceInv
  BY InitHonest, InitServes DEF ClusterInit
<1>2. issued = {} /\ results = {} /\ jobs = [j \in Jobs |-> NoJob]
  BY DEF ClusterInit, Init, MasterInit, Fresh
<1>3. Course
  <2>1. Phased(jobs, issued, Settled)
    BY <1>2, NewJobPhased DEF Phased
  <2> QED BY <1>2, <2>1 DEF Course, FreshIds
<1> QED BY <1>1, <1>3 DEF Orderly

LEMMA ClusterOrderly ==
  ASSUME PromptStart, MaxEvictions = 0, MaxRestarts = 0
  PROVE  ClusterSpec => []Orderly /\ [][Orderly /\ OrderlyStep]_clusterVars
<1>1. Orderly /\ [ClusterNext]_clusterVars => Orderly' /\ OrderlyStep
  <2> SUFFICES ASSUME Orderly, [ClusterNext]_clusterVars
               PROVE  Orderly' /\ OrderlyStep
    OBVIOUS
  <2>1. OrderlyStep
    BY NextOrderly
  <2>2. Honest'
    BY NextHonest DEF Orderly
  <2>3. [OpenNext]_vars
    BY ClusterStep DEF Orderly, Honest
  <2>4. QueuedWait'
    BY <2>3, WaitingStep DEF Orderly, Honest
  <2>5. ServiceInv'
    BY <2>3, NextServes DEF Orderly, Honest, ServiceStep
  <2> QED BY <2>1, <2>2, <2>4, <2>5 DEF Orderly, OrderlyStep
<1> QED BY <1>1, InitOrderly, PTL DEF ClusterSpec

\* The phase of a job changes with the result that ends it (scheduler.go:358,
\* 407, 444), whichever workers crash, stall and are evicted, and whichever of
\* their attempts fail: what they do can only put tasks back (master.go:154-204).
THEOREM ClusterPhaseIsPrompt ==
  ASSUME MaxRestarts = 0
  PROVE  ClusterSpec => []PhaseIsPrompt
BY OpenPrompt, ClusterIsOpen, PTL

\* A map task that has completed keeps its output, however many workers crash:
\* only tasks in progress are taken back from a worker that the monitor removes
\* (master.go:169, 186), so the reduce phase has an output of every map task.
\* (It may be at a worker that is gone: then the reduce cannot be done.)
THEOREM ClusterReducingMeansMapped ==
  ASSUME PromptStart, MaxEvictions = 0, MaxRestarts = 0
  PROVE  ClusterSpec => []ReducingMeansMapped
<1>1. Orderly => ReducingMeansMapped
  BY DEF Orderly, Course, Phased, JobPhased, Prompt, Ready, ReducingMeansMapped
<1> QED BY <1>1, ClusterOrderly, PTL

\* What a job that is reported as Completed has promoted are the objects of the
\* reduces that the master has taken for the winners (scheduler.go:387-393, 443):
\* workers that crash, replies that are lost and heartbeats that are repeated or
\* arrive late (worker.go:227-255) do not mix up two attempts.
THEOREM ClusterPromotedIsWinner ==
  ASSUME PromptStart, MaxEvictions = 0, MaxRestarts = 0
  PROVE  ClusterSpec => []PromotedIsWinner
<1>1. Orderly => PromotedIsWinner
  <2> SUFFICES ASSUME Orderly, NEW j \in Jobs, jobs[j].status = "Completed",
                      NEW p \in Partitions
               PROVE  \E r \in results :
                        /\ r[1].phase = "promotion"
                        /\ r[1].job = j
                        /\ r[1].task = p
                        /\ r[1].id = jobs[j].reduces[p].winner
                        /\ r[2] = "SUCCESS"
    BY DEF PromotedIsWinner
  <2>1. Promoted(jobs[j].reduces[p])
    BY DEF Orderly, Course, Phased, JobPhased, Prompt, Ready, AllPromoted,
       Promoted
  <2>2. WinnerIsPromoted(jobs[j].reduces[p],
                         OfTask(issued, "promotion", j, p), Settled)
    BY DEF Orderly, Course, Phased, JobPhased, TasksPhased
  <2>3. PICK i \in OfTask(issued, "promotion", j, p) :
          i.id = jobs[j].reduces[p].winner /\ <<i, "SUCCESS">> \in Settled
    BY <2>1, <2>2 DEF WinnerIsPromoted
  <2>4. <<i, "SUCCESS">> \in results
    BY <2>3 DEF Settled
  <2> QED BY <2>3, <2>4 DEF OfTask
<1> QED BY <1>1, ClusterOrderly, PTL

\* "Whichever worker completes the task first wins, and late results from
\* duplicate attempts are safely ignored" (docs/design.md:110), also when a result
\* comes from a worker that has crashed or was removed since, and when a task of
\* a worker that was removed is taken back (master.go:154-204): no completed
\* task is taken back.
THEOREM ClusterCompletedStays ==
  ASSUME PromptStart, MaxEvictions = 0, MaxRestarts = 0
  PROVE  ClusterSpec => CompletedStays
<1>1. [Orderly /\ OrderlyStep]_clusterVars
        => [\A j \in Jobs : UNCHANGED <<crashes, exits, loaded>> =>
              /\ \A m \in MapTasks : jobs[j].maps[m].status = "Completed"
                   => jobs'[j].maps[m].status = "Completed"
              /\ \A p \in Partitions : jobs[j].reduces[p].status = "Completed"
                   => jobs'[j].reduces[p].status = "Completed"]_vars
  BY DEF OrderlyStep, KeepsDone, JobKeepsDone, clusterVars
<1> QED BY <1>1, ClusterOrderly, PTL DEF CompletedStays

\* The job service that clients see (handlers.go:58-239) is the same with the
\* workers of the repository, whatever they do and whatever happens to them.
THEOREM ClusterImplementsService ==
  ASSUME MaxRestarts = 0
  PROVE  ClusterSpec => ImplementsService
BY OpenServes, ClusterIsOpen, PTL

-----------------------------------------------------------------------------
(* What a reduce gathers                                                   *)

LEMMA FitsStays ==
  ASSUME NEW js, NEW new, KeepsDone(js, new), NEW j \in Jobs,
         NEW urls, NEW all, NEW p, Fits(js, urls, all, j, p)
  PROVE  Fits(new, urls, all, j, p)
<1>1. \A m \in MapTasks : js[j].maps[m].status = "Completed" =>
        new[j].maps[m].status = "Completed" /\ new[j].maps[m].host = js[j].maps[m].host
  BY DEF KeepsDone, JobKeepsDone
<1>2. CollectPartitionURLs(js, j, p) \subseteq CollectPartitionURLs(new, j, p)
  BY <1>1 DEF CollectPartitionURLs
<1>3. AllMapped(js[j]) =>
        /\ AllMapped(new[j])
        /\ CollectPartitionURLs(new, j, p) = CollectPartitionURLs(js, j, p)
  BY <1>1 DEF CollectPartitionURLs, AllMapped
<1> QED BY <1>2, <1>3 DEF Fits

\* What worker w is told while it works on k is about its partition.
FitsWork(js, urls, all, k) ==
  k.phase = "reduce" /\ Fits(js, urls, all, k.job, k.task)

\* A goroutine q of w has gathered, and will be told to gather, what there is;
\* and what the master tells w is about this goroutine, not about an earlier one.
Follow(js, w, q) ==
  /\ q.work.phase = "reduce" =>
       FitsWork(js, q.pending \cup q.downloaded, q.allMapsComplete, q.work)
  /\ current[w] \in {None, q.work}
  /\ rpc[w].kind = "request" => rpc[w].task \in {None, q.work}
  /\ rpc[w].kind = "reply" =>
       (rpc[w].urls # {} \/ rpc[w].allMaps =>
          FitsWork(js, rpc[w].urls, rpc[w].allMaps, q.work))
  /\ q.stage = "gathering" =>
       \A n \in DOMAIN updates[w] :
         FitsWork(js, updates[w][n].urls, updates[w][n].allMapsComplete, q.work)
Gathers(js, w) ==
  /\ runs[w] = <<>> => current[w] = None
  /\ \A i \in DOMAIN runs[w] : Follow(js, w, runs[w][i])
  /\ rpc[w].kind = "reply" =>
       \A a \in rpc[w].given : a.phase = "reduce" =>
         Fits(js, a.urls, a.allMaps, a.job, a.task)
Gather == \A w \in Workers : Gathers(jobs, w)

LEMMA GathersStays ==
  ASSUME Orderly, NEW new, KeepsDone(jobs, new), NEW w \in Workers,
         Gathers(jobs, w)
  PROVE  Gathers(new, w)
<1>1. Given(w) \subseteq Issues
  BY DEF Orderly, Honest, IInv, TypeOK, ControlTypeOK, Given
<1>2. \A k \in Issues : \A urls, all :
        FitsWork(jobs, urls, all, k) => FitsWork(new, urls, all, k)
  BY FitsStays, IssueFields DEF FitsWork
<1>3. \A i \in DOMAIN runs[w] : runs[w][i].work \in Issues
  BY <1>1 DEF Orderly, Honest, ProcessInv, Informed
<1>4. \A i \in DOMAIN runs[w] : Follow(new, w, runs[w][i])
  BY <1>2, <1>3 DEF Gathers, Follow
<1>5. ASSUME rpc[w].kind = "reply", NEW a \in rpc[w].given, a.phase = "reduce"
      PROVE  Fits(new, a.urls, a.allMaps, a.job, a.task)
  <2>1. Issue(a, w) \in issued
    BY <1>5 DEF Orderly, Honest, ProcessInv, Informed, KnownReply
  <2>2. a.job = Issue(a, w).job /\ Issue(a, w) \in Issues
    BY <2>1 DEF Issue, Orderly, Honest, IInv, TypeOK, ControlTypeOK
  <2>3. a.job \in Jobs
    BY <2>2, IssueFields
  <2> QED BY <1>5, <2>3, FitsStays DEF Gathers
<1> QED BY <1>4, <1>5 DEF Gathers

LEMMA SameGathers ==
  ASSUME NEW w, Gathers(jobs', w),
         current'[w] = current[w], runs'[w] = runs[w],
         updates'[w] = updates[w], rpc'[w] = rpc[w]
  PROVE  Gathers(jobs, w)'
BY DEF Gathers, Follow

LEMMA FollowOf ==
  ASSUME NEW js, NEW w, NEW q, runs[w] = <<q>>, Gathers(js, w)
  PROVE  Follow(js, w, q)
<1>1. 1 \in DOMAIN runs[w] /\ runs[w][1] = q
  OBVIOUS
<1> QED BY <1>1 DEF Gathers

\* The step of a goroutine that goes on.
LEMMA MovesGathers ==
  ASSUME Orderly, NEW w \in Workers, Gathers(jobs, w),
         NEW q, NEW r, Moves(w, q, r), UNCHANGED jobs
  PROVE  Gathers(jobs, w)'
<1>1. /\ runs[w] = <<q>> /\ runs'[w] = <<r>> /\ r.work = q.work
      /\ rpc'[w] = rpc[w]
  BY DEF Moves
<1>2. Follow(jobs, w, q)
  BY <1>1, FollowOf
<1>3. updates[w] \in Seq(Updates)
  BY DEF Orderly, Honest, ProcessInv, Processes
<1>4. /\ q.work.phase = "reduce" =>
           FitsWork(jobs, r.pending \cup r.downloaded, r.allMapsComplete, q.work)
      /\ current'[w] \in {current[w], q.work}
      /\ r.stage = "gathering" =>
           \A n \in DOMAIN updates'[w] :
             FitsWork(jobs, updates'[w][n].urls,
                      updates'[w][n].allMapsComplete, q.work)
  <2>1. CASE Turns(w, q, r)
    BY <1>2, <2>1 DEF Turns, Follow, SameGather
  <2>2. CASE Downloads(w, q, r)
    BY <1>2, <2>2 DEF Downloads, Follow
  <2>3. CASE Learns(w, q, r)
    <3> DEFINE u == Head(updates[w])
    <3>1. /\ q.stage = "gathering" /\ q.pending = {}
          /\ r.pending \cup r.downloaded = q.downloaded \cup u.urls
          /\ r.allMapsComplete = u.allMapsComplete
          /\ updates'[w] = Tail(updates[w]) /\ UNCHANGED current
      BY <2>3 DEF Learns
    <3>2. /\ 1 \in DOMAIN updates[w] /\ u = updates[w][1]
          /\ \A n \in DOMAIN updates'[w] :
               /\ n + 1 \in DOMAIN updates[w]
               /\ updates'[w][n] = updates[w][n + 1]
      BY <1>3, <2>3 DEF Learns
    <3> HIDE DEF u
    <3>3. FitsWork(jobs, u.urls, u.allMapsComplete, q.work)
      BY <1>2, <3>1, <3>2 DEF Follow
    <3>4. Fits(jobs, q.downloaded, q.allMapsComplete, q.work.job, q.work.task)
      <4>1. q.pending \cup q.downloaded = q.downloaded
        BY <3>1
      <4> QED BY <1>2, <3>3, <4>1 DEF Follow, FitsWork
    <3>5. FitsWork(jobs, r.pending \cup r.downloaded, r.allMapsComplete, q.work)
      BY <3>1, <3>3, <3>4 DEF FitsWork, Fits
    <3>6. \A n \in DOMAIN updates'[w] :
            FitsWork(jobs, updates'[w][n].urls,
                     updates'[w][n].allMapsComplete, q.work)
      BY <1>2, <3>1, <3>2 DEF Follow
    <3> QED BY <3>1, <3>5, <3>6
  <2>4. CASE Uploads(w, q, r) \/ Copies(w, q, r) \/ Removes(w, q, r)
    BY <1>2, <2>4 DEF Uploads, Copies, Removes, Follow, SameGather
  <2> QED BY <2>1, <2>2, <2>3, <2>4 DEF Moves
<1>5. Follow(jobs, w, r)'
  BY <1>1, <1>2, <1>4 DEF Follow
<1>6. \A i \in DOMAIN runs'[w] : runs'[w][i] = r
  BY <1>1
<1> QED BY <1>1, <1>5, <1>6 DEF Gathers

LEMMA EndsGathers ==
  ASSUME NEW w, Gathers(jobs, w), runs'[w] = <<>>, current'[w] = None,
         UNCHANGED jobs, rpc'[w] = rpc[w] \/ rpc'[w].kind = "none"
  PROVE  Gathers(jobs, w)'
BY DEF Gathers

LEMMA SendsGathers ==
  ASSUME NEW w, Gathers(jobs, w), NEW m, Sends(w, m), UNCHANGED jobs
  PROVE  Gathers(jobs, w)'
<1>1. /\ UNCHANGED <<current, runs, updates>>
      /\ rpc'[w].kind = "request" /\ rpc'[w].task = current[w]
  BY DEF Sends, OnlyLoop
<1>2. \A i \in DOMAIN runs[w] : Follow(jobs, w, runs[w][i])'
  BY <1>1 DEF Gathers, Follow
<1> QED BY <1>1, <1>2 DEF Gathers

LEMMA LaunchGathers ==
  ASSUME NEW w, Gathers(jobs, w), NEW m, m = rpc[w], Receives(w, m),
         NEW a, m.given = {a}, LaunchedFrom(w, a), UNCHANGED jobs
  PROVE  Gathers(jobs, w)'
<1> DEFINE r == Launched(a, w)
<1>1. /\ r.work.phase = a.phase /\ r.work.job = a.job /\ r.work.task = a.task
      /\ r.pending = a.urls /\ r.downloaded = {} /\ r.stage = "launched"
      /\ r.allMapsComplete = a.allMaps
  BY DEF Launched, Issue
<1>2. /\ runs[w] = <<>> /\ runs'[w] = <<r>> /\ rpc'[w].kind = "none"
      /\ m.kind = "reply" /\ UNCHANGED current
  BY DEF LaunchedFrom, Receives
<1> HIDE DEF r
<1>3. a.phase = "reduce" => Fits(jobs, a.urls, a.allMaps, a.job, a.task)
  BY <1>2 DEF Gathers
<1>4. r.pending \cup r.downloaded = a.urls
  BY <1>1
<1>5. current[w] = None
  BY <1>2 DEF Gathers
<1>6. Follow(jobs, w, r)'
  BY <1>1, <1>2, <1>3, <1>4, <1>5 DEF Follow, FitsWork
<1>7. \A i \in DOMAIN runs'[w] : runs'[w][i] = r
  BY <1>2
<1> QED BY <1>2, <1>6, <1>7 DEF Gathers

LEMMA ContinueGathers ==
  ASSUME Orderly, NEW w \in Workers, Gathers(jobs, w),
         NEW m, m = rpc[w], Receives(w, m),
         NEW q, NEW r, Continues(w, q, r), UNCHANGED jobs
  PROVE  Gathers(jobs, w)'
<1>1. /\ runs[w] = <<q>> /\ runs'[w] = <<r>>
      /\ r.work = q.work /\ r.stage = q.stage /\ SameGather(q, r)
      /\ rpc'[w].kind = "none" /\ m.kind = "reply" /\ UNCHANGED current
  BY DEF Continues, Receives
<1>2. Follow(jobs, w, q)
  BY <1>1, FollowOf
<1>3. updates[w] \in Seq(Updates)
  BY DEF Orderly, Honest, ProcessInv, Processes
<1>4. r.stage = "gathering" =>
        \A n \in DOMAIN updates'[w] :
          FitsWork(jobs, updates'[w][n].urls,
                   updates'[w][n].allMapsComplete, q.work)
  <2>1. CASE updates'[w] = updates[w]
    BY <1>1, <1>2, <2>1 DEF Follow
  <2>2. CASE /\ m.urls # {} \/ m.allMaps
             /\ updates'[w] = Append(updates[w], Update(m))
    <3> DEFINE u == Update(m)
    <3>1. u.urls = m.urls /\ u.allMapsComplete = m.allMaps
      BY DEF Update
    <3>2. FitsWork(jobs, m.urls, m.allMaps, q.work)
      BY <1>1, <1>2, <2>2 DEF Follow
    <3> HIDE DEF u
    <3>3. \A n \in DOMAIN updates'[w] :
            \/ n \in DOMAIN updates[w] /\ updates'[w][n] = updates[w][n]
            \/ updates'[w][n] = u
      BY <1>3, <2>2 DEF u
    <3> QED BY <1>1, <1>2, <3>1, <3>2, <3>3 DEF Follow
  <2> QED BY <2>1, <2>2 DEF Receives
<1>5. Follow(jobs, w, r)'
  BY <1>1, <1>2, <1>4 DEF Follow, SameGather
<1>6. \A i \in DOMAIN runs'[w] : runs'[w][i] = r
  BY <1>1
<1> QED BY <1>1, <1>5, <1>6 DEF Gathers

LEMMA ReceivesGathers ==
  ASSUME Orderly, NEW w \in Workers, Gathers(jobs, w),
         NEW m, m = rpc[w], Receives(w, m), UNCHANGED jobs
  PROVE  Gathers(jobs, w)'
<1>1. CASE runs[w] = <<>> /\ runs'[w] = <<>>
  BY <1>1, EndsGathers DEF Receives, Gathers
<1>2. CASE \E q, r : Continues(w, q, r)
  BY <1>2, ContinueGathers
<1>3. CASE \E a : m.given = {a} /\ LaunchedFrom(w, a)
  BY <1>3, LaunchGathers
<1> QED BY <1>1, <1>2, <1>3 DEF Receives

\* The reply to a heartbeat.
LEMMA ReplyFits ==
  ASSUME Orderly, NEW w \in Workers, NEW q \in KnownRequests(w),
         Phased(jobs', issued', Settled'),
         NEW urls, urls = ReplyURLs(TaskIn(q)),
         NEW all, all = ReplyAllMaps(TaskIn(q)), urls # {} \/ all
  PROVE  q.task # None /\ FitsWork(jobs', urls, all, q.task)
<1>1. q.task # None /\ q.task.phase = "reduce"
  BY DEF ReplyURLs, ReplyAllMaps, TaskIn, Ref
<1>2. /\ TaskIn(q).job = q.task.job /\ TaskIn(q).task = q.task.task
      /\ TaskIn(q).phase = "reduce" /\ TaskIn(q) # None
  <2>1. TaskIn(q) = Ref(q.task)
    BY <1>1 DEF TaskIn
  <2>2. TaskIn(q) # None
    BY DEF ReplyURLs, ReplyAllMaps
  <2> QED BY <1>1, <2>1, <2>2 DEF Ref
<1>3. urls = CollectPartitionURLs(jobs', q.task.job, q.task.task)
  BY <1>2 DEF ReplyURLs
<1>4. q.task.job \in Jobs
  <2>1. q.task \in Issues
    BY <1>1 DEF KnownRequests, Given, Orderly, Honest, IInv, TypeOK, ControlTypeOK
  <2> QED BY <2>1, IssueFields
<1>5. all => jobs'[q.task.job].status = "Reducing"
  BY <1>2 DEF ReplyAllMaps
<1>6. all => AllMapped(jobs'[q.task.job])
  BY <1>4, <1>5 DEF Phased, JobPhased, Prompt, Ready
<1> QED BY <1>1, <1>3, <1>6 DEF FitsWork, Fits

LEMMA AnswerGathers ==
  ASSUME MaxRestarts = 0, Orderly, OrderlyStep, NEW w \in Workers,
         Gathers(jobs, w), Answer(w)
  PROVE  Gathers(jobs, w)'
<1>1. /\ rpc[w].kind = "request" /\ DOMAIN rpc = Workers
      /\ UNCHANGED <<alive, current, runs, updates>>
  BY DEF Answer, Orderly, Honest, OneTask
<1>2. Gathers(jobs', w)
  BY GathersStays DEF OrderlyStep
<1>3. CASE w \in registered
  <2> DEFINE q == rpc[w]
  <2>1. PICK slow \in SlowFor(q) :
          /\ Hear(w, q, slow) /\ rpc' = [rpc EXCEPT ![w] = Reply(w, q, slow)]
    BY <1>3 DEF Answer
  <2> DEFINE m == Reply(w, q, slow)
             given == Heard(w, q.idle, ResultIn(q), slow).given
  <2>2. /\ m.kind = "reply" /\ m.given = given
        /\ m.urls = ReplyURLs(TaskIn(q)) /\ m.allMaps = ReplyAllMaps(TaskIn(q))
    BY Zenon DEF Reply
  <2>3. rpc'[w] = m
    <3> HIDE DEF m
    <3> QED BY <1>1, <2>1 DEF m
  <2>4. /\ q \in KnownRequests(w)
        /\ \A a \in given : OffersWell(a, nextAttempt, jobs')
    BY <1>1, <1>3, <2>1, HearOrderly
  <2> HIDE DEF m, given
  <2>5. m.urls # {} \/ m.allMaps
          => q.task # None /\ FitsWork(jobs', m.urls, m.allMaps, q.task)
    BY <2>2, <2>4, ReplyFits DEF OrderlyStep, Course
  <2>6. \A i \in DOMAIN runs'[w] : Follow(jobs, w, runs[w][i])'
    BY <1>1, <1>2, <2>2, <2>3, <2>5 DEF Gathers, Follow
  <2>7. \A a \in m.given : a.phase = "reduce" =>
          Fits(jobs', a.urls, a.allMaps, a.job, a.task)
    BY <2>2, <2>4 DEF OffersWell
  <2> QED BY <1>1, <1>2, <2>3, <2>6, <2>7 DEF Gathers
<1>4. CASE w \notin registered
  <2>1. rpc'[w].kind = "register"
    BY <1>1, <1>4 DEF Answer, Unregistered
  <2>2. \A i \in DOMAIN runs'[w] : Follow(jobs, w, runs[w][i])'
    BY <1>1, <1>2, <2>1 DEF Gathers, Follow
  <2> QED BY <1>1, <1>2, <2>1, <2>2 DEF Gathers
<1> QED BY <1>3, <1>4

\* A reply is read, or will not be.
LEMMA WaitGathers ==
  ASSUME Orderly, OrderlyStep, NEW w \in Workers, Gathers(jobs, w),
         UNCHANGED <<current, runs, updates>>, rpc' = [rpc EXCEPT ![w] = Waiting]
  PROVE  Gathers(jobs, w)'
<1>1. Gathers(jobs', w)
  BY GathersStays DEF OrderlyStep
<1>2. rpc'[w].kind = "none"
  BY DEF Orderly, Honest, OneTask, Waiting
<1>3. \A i \in DOMAIN runs'[w] : Follow(jobs, w, runs[w][i])'
  BY <1>1, <1>2 DEF Gathers, Follow
<1> QED BY <1>1, <1>2, <1>3 DEF Gathers

\* The other workers at a step of w.
LEMMA OthersGather ==
  ASSUME Orderly, OrderlyStep, Gather, NEW w, Gathers(jobs, w)',
         \A v \in Workers \ {w} : /\ current'[v] = current[v]
                                  /\ runs'[v] = runs[v]
                                  /\ updates'[v] = updates[v]
                                  /\ rpc'[v] = rpc[v]
  PROVE  Gather'
<1>1. ASSUME NEW v \in Workers \ {w} PROVE Gathers(jobs, v)'
  <2>1. Gathers(jobs', v)
    BY GathersStays DEF Gather, OrderlyStep
  <2> QED BY <2>1, SameGathers
<1> QED BY <1>1 DEF Gather

LEMMA SilentGather ==
  ASSUME PromptStart, Orderly, OrderlyStep, Gather, NEW w \in Workers,
         \/ Loop(w) \/ LosePatience(w) \/ TaskFails(w) \/ Die(w)
         \/ \E i \in DOMAIN runs[w] : Step(w, i)
  PROVE  Gather'
<1>1. UNCHANGED jobs
  BY DEF Loop, LosePatience, TaskFails, Die, Step, Silent, vars, masterVars,
     schedVars
<1>2. Gathers(jobs, w)
  BY DEF Gather
<1>3. ASSUME NEW i \in DOMAIN runs[w], RunStep(w, i) \/ Fail(w, i)
      PROVE  Gather'
  <2>1. PICK q : RunEnds(w, q) \/ \E r : Moves(w, q, r)
    BY <1>3, StepKinds DEF Orderly, Honest
  <2>2. CASE RunEnds(w, q)
    <3>1. Gathers(jobs, w)'
      BY <1>1, <1>2, <2>2, EndsGathers DEF RunEnds
    <3> QED BY <2>2, <3>1, OthersGather DEF RunEnds
  <2>3. CASE \E r : Moves(w, q, r)
    <3>1. PICK r : Moves(w, q, r)
      BY <2>3
    <3>2. Gathers(jobs, w)'
      BY <1>1, <1>2, <3>1, MovesGathers
    <3> QED BY <3>1, <3>2, OthersGather DEF Moves
  <2> QED BY <2>1, <2>2, <2>3
<1>4. CASE InTime(w)
  <2>1. PICK m : Sends(w, m)
    BY <1>4, TickSends DEF Orderly, Honest
  <2>2. Gathers(jobs, w)'
    BY <1>1, <1>2, <2>1, SendsGathers
  <2> QED BY <2>1, <2>2, OthersGather DEF Sends, OnlyLoop
<1>5. CASE Receive(w)
  <2>1. PICK m : m = rpc[w] /\ Receives(w, m)
    BY <1>5, ReceiveReceives DEF Orderly, Honest
  <2>2. Gathers(jobs, w)'
    BY <1>1, <1>2, <2>1, ReceivesGathers
  <2> QED BY <2>1, <2>2, OthersGather DEF Receives
<1>6. CASE GiveUp(w) \/ RegistrationFails(w)
  <2>1. /\ UNCHANGED <<current, runs, updates>>
        /\ rpc' = [rpc EXCEPT ![w] = Waiting]
    BY <1>6 DEF GiveUp, RegistrationFails
  <2>2. Gathers(jobs, w)'
    BY <1>2, <2>1, WaitGathers
  <2> QED BY <2>1, <2>2, OthersGather DEF Orderly, Honest, OneTask
<1>7. CASE WorkerCrashes(w)
  <2>1. /\ DOMAIN rpc = Workers /\ DOMAIN runs = Workers
        /\ DOMAIN current = Workers /\ DOMAIN updates = Workers
    BY DEF Orderly, Honest, OneTask, ProcessInv, Processes
  <2>2. /\ runs'[w] = <<>> /\ current'[w] = None /\ rpc'[w].kind = "none"
        /\ \A v \in Workers \ {w} : /\ current'[v] = current[v]
                                    /\ runs'[v] = runs[v]
                                    /\ updates'[v] = updates[v]
                                    /\ rpc'[v] = rpc[v]
    BY <1>7, <2>1 DEF WorkerCrashes, Waiting
  <2>3. Gathers(jobs, w)'
    BY <1>1, <1>2, <2>2, EndsGathers
  <2> QED BY <2>2, <2>3, OthersGather
<1> QED BY <1>3, <1>4, <1>5, <1>6, <1>7
        DEF Loop, LosePatience, TaskFails, Die, Step

LEMMA NextGather ==
  ASSUME PromptStart, MaxRestarts = 0, Orderly, OrderlyStep, Gather,
         [ClusterNext]_clusterVars
  PROVE  Gather'
<1>1. ASSUME NEW w \in Workers, Answer(w) PROVE Gather'
  <2>1. Gathers(jobs, w)'
    BY <1>1, AnswerGathers DEF Gather
  <2>2. UNCHANGED <<current, runs, updates>>
    BY <1>1 DEF Answer
  <2>3. \A v \in Workers \ {w} : rpc'[v] = rpc[v]
    BY <1>1 DEF Answer, Orderly, Honest, OneTask
  <2> QED BY <2>1, <2>2, <2>3, OthersGather
<1>2. ASSUME NEW w \in Workers, Join(w) PROVE Gather'
  <2>1. /\ UNCHANGED <<current, runs, updates>>
        /\ rpc' = [rpc EXCEPT ![w] = Waiting]
    BY <1>2 DEF Join
  <2>2. Gathers(jobs, w)'
    BY <2>1, WaitGathers DEF Gather
  <2> QED BY <2>1, <2>2, OthersGather DEF Orderly, Honest, OneTask
<1>3. ASSUME UNCHANGED <<current, runs, updates, rpc>> PROVE Gather'
  <2>1. \A v \in Workers : Gathers(jobs', v)
    BY GathersStays DEF Gather, OrderlyStep
  <2> QED BY <1>3, <2>1, SameGathers DEF Gather
<1>4. CASE \/ \E x \in stray : HearStray(x)
           \/ \E w \in Workers : EvictSlow(w) \/ EvictDead(w)
           \/ Submit \/ Enqueue \/ Cancel \/ DeleteOutput
           \/ Housekeeping \/ MasterEnds
           \/ UNCHANGED clusterVars
  <2>1. UNCHANGED localVars
    BY <1>4 DEF HearStray, EvictSlow, EvictDead, Submit, Enqueue, Cancel,
       DeleteOutput, Housekeeping, MasterEnds, clusterVars, processVars
  <2> QED BY <1>3, <2>1 DEF localVars
<1> QED BY <1>1, <1>2, <1>4, SilentGather DEF ClusterNext

LEMMA InitGather == ClusterInit => Gather
BY DEF ClusterInit, WorkerInit, Gather, Gathers, Starting

-----------------------------------------------------------------------------
(* What the objects are made of                                            *)

\* No two jobs want their output at the same place.
OwnPrefixes == \A j, k \in Jobs : OutputPrefix[j] = OutputPrefix[k] => j = k

Slot(k) == <<OutputPrefix[k.job], k.task>>

\* The objects are made of all that they should be made of, and the output of a
\* job is there once it was promoted, unless the job is cancelled.
MadeOf(js) ==
  /\ \A t \in temps : Fits(js, t.content, TRUE, t.job, t.task)
  /\ \A j \in Jobs, p \in Partitions : final[<<OutputPrefix[j], p>>] # None =>
       Fits(js, final[<<OutputPrefix[j], p>>], TRUE, j, p)
Kept == /\ MadeOf(jobs)
        /\ \A k \in issued : k.phase = "promotion" /\ Effective(k) =>
             final[Slot(k)] # None \/ Gone(k.job)
        /\ \A j \in cleaning : Gone(j)

LEMMA MadeOfStays ==
  ASSUME ProcessInv, NEW new, KeepsDone(jobs, new), MadeOf(jobs)
  PROVE  MadeOf(new)
<1>1. temps \subseteq Temps
  BY DEF ProcessInv, Processes
<1>2. \A t \in temps : t.job \in Jobs
  BY <1>1 DEF Temps
<1>3. ASSUME NEW t \in temps PROVE Fits(new, t.content, TRUE, t.job, t.task)
  <2>1. Fits(jobs, t.content, TRUE, t.job, t.task)
    BY DEF MadeOf
  <2> QED BY <1>2, <2>1, FitsStays
<1>4. ASSUME NEW j \in Jobs, NEW p \in Partitions, NEW content,
             content = final[<<OutputPrefix[j], p>>], content # None
      PROVE  Fits(new, content, TRUE, j, p)
  <2>1. Fits(jobs, content, TRUE, j, p)
    BY <1>4 DEF MadeOf
  <2> QED BY <2>1, FitsStays
<1> QED BY <1>3, <1>4 DEF MadeOf

LEMMA SameMadeOf ==
  ASSUME MadeOf(jobs'), UNCHANGED objectVars
  PROVE  MadeOf(jobs)'
BY DEF MadeOf, objectVars

\* The object that a promotion makes is the one of its job and partition.
LEMMA SlotOf ==
  ASSUME NEW k \in Issues, k.phase = "promotion"
  PROVE  /\ k.job \in Jobs /\ k.task \in Partitions
         /\ Slot(k) \in OutputPrefixes \X Partitions
         /\ Slot(k)[1] = OutputPrefix[k.job]
BY IssueFields DEF Slot, OutputPrefixes

LEMMA EffectiveIssued ==
  ASSUME Orderly, NEW k, Effective(k)
  PROVE  k \in issued
<1>1. CASE <<k, "SUCCESS">> \in Said
  BY <1>1, SaidFacts DEF Orderly, Honest
<1>2. CASE \E w \in Workers : k \in HasDone(w)
  BY <1>2, RunOf DEF Orderly, Honest, HasDone, Given
<1> QED BY <1>1, <1>2 DEF Effective

LEMMA KeptStep ==
  ASSUME Orderly, OrderlyStep, Kept, MadeOf(jobs)',
         \A j \in Jobs : Gone(j) => Gone(j)',
         \A v \in Workers : \A k \in HasDone(v)' :
           k \in HasDone(v) \/ k.phase # "promotion" \/ final'[Slot(k)] # None,
         \A k \in issued : k.phase = "promotion" /\ final[Slot(k)] # None =>
           final'[Slot(k)] # None \/ Gone(k.job)',
         \A j \in cleaning' : Gone(j)'
  PROVE  Kept'
<1>1. issued \subseteq Issues
  BY DEF Orderly, Honest, IInv, TypeOK, ControlTypeOK
<1>2. ASSUME NEW k, k.phase = "promotion", Effective(k)'
      PROVE  final'[Slot(k)] # None \/ Gone(k.job)'
  <2>1. CASE Effective(k)
    <3>1. k \in issued /\ k.job \in Jobs
      BY <1>1, <2>1, EffectiveIssued, IssueFields
    <3>2. final[Slot(k)] # None \/ Gone(k.job)
      BY <1>2, <2>1, <3>1 DEF Kept
    <3> QED BY <1>2, <3>1, <3>2
  <2>2. CASE ~Effective(k)
    <3>1. <<k, "SUCCESS">> \notin Said'
      BY <2>2 DEF OrderlyStep, StaysTruthful
    <3>2. PICK v \in Workers : k \in HasDone(v)'
      BY <1>2, <3>1 DEF Effective
    <3>3. k \notin HasDone(v)
      BY <2>2 DEF Effective
    <3> QED BY <1>2, <3>2, <3>3
  <2> QED BY <2>1, <2>2
<1>3. \A k \in issued' : k.phase = "promotion" /\ Effective(k)' =>
        final'[Slot(k)] # None \/ Gone(k.job)'
  BY <1>2
<1> QED BY <1>3 DEF Kept, Slot

\* A step that leaves the objects alone.
LEMMA QuietKept ==
  ASSUME Orderly, OrderlyStep, Kept, UNCHANGED objectVars,
         \A j \in Jobs : Gone(j) => Gone(j)',
         \A v \in Workers : \A k \in HasDone(v)' :
           k \in HasDone(v) \/ k.phase # "promotion",
         \A j \in cleaning' : j \in cleaning \/ Gone(j)'
  PROVE  Kept'
<1>1. cleaning \subseteq Jobs
  BY DEF Kept, Gone, Orderly, Honest, IInv, TypeOK, MasterTypeOK
<1>2. MadeOf(jobs)'
  BY MadeOfStays, SameMadeOf DEF Kept, OrderlyStep, Orderly, Honest
<1>3. UNCHANGED final
  BY DEF objectVars
<1> QED BY <1>1, <1>2, <1>3, KeptStep DEF Kept

LEMMA DoneOf ==
  ASSUME NEW w
  PROVE  /\ runs'[w] = runs[w] => HasDone(w)' = HasDone(w)
         /\ runs'[w] = <<>> => HasDone(w)' = {}
         /\ \A q : runs[w] = <<q>> =>
              HasDone(w) = IF q.stage \in {"copied", "SUCCESS"} THEN {q.work} ELSE {}
         /\ \A r : runs'[w] = <<r>> =>
              HasDone(w)' = IF r.stage \in {"copied", "SUCCESS"} THEN {r.work} ELSE {}
<1>1. runs'[w] = runs[w] => HasDone(w)' = HasDone(w)
  BY DEF HasDone
<1>2. runs'[w] = <<>> => HasDone(w)' = {}
  BY DEF HasDone
<1>3. ASSUME NEW q, runs[w] = <<q>>
      PROVE  HasDone(w) = IF q.stage \in {"copied", "SUCCESS"} THEN {q.work} ELSE {}
  <2>1. DOMAIN runs[w] = {1} /\ runs[w][1] = q
    BY <1>3
  <2> QED BY <2>1 DEF HasDone
<1>4. ASSUME NEW r, runs'[w] = <<r>>
      PROVE  HasDone(w)' = IF r.stage \in {"copied", "SUCCESS"} THEN {r.work} ELSE {}
  <2>1. DOMAIN runs'[w] = {1} /\ runs'[w][1] = r
    BY <1>4
  <2> QED BY <2>1 DEF HasDone
<1> QED BY <1>1, <1>2, <1>3, <1>4

LEMMA MovesKept ==
  ASSUME OwnPrefixes, Orderly, OrderlyStep, Gather, Kept, NEW w \in Workers,
         NEW q, NEW r, Moves(w, q, r), UNCHANGED jobs, UNCHANGED cleaning,
         \A j \in Jobs : Gone(j) => Gone(j)'
  PROVE  Kept'
<1>1. /\ runs[w] = <<q>> /\ runs'[w] = <<r>> /\ r.work = q.work
      /\ \A v \in Workers \ {w} : runs'[v] = runs[v]
  BY DEF Moves
<1>2. q.work \in Issues /\ q.work \in issued
  <2>1. 1 \in DOMAIN runs[w] /\ runs[w][1] = q
    BY <1>1
  <2> QED BY <2>1, RunOf DEF Orderly, Honest, Given
<1>3. \A v \in Workers \ {w} : HasDone(v)' = HasDone(v)
  BY <1>1, DoneOf
<1>4. /\ HasDone(w)' = IF r.stage \in {"copied", "SUCCESS"} THEN {q.work} ELSE {}
      /\ HasDone(w) = IF q.stage \in {"copied", "SUCCESS"} THEN {q.work} ELSE {}
  BY <1>1, DoneOf
<1>5. \A j \in cleaning' : j \in cleaning /\ Gone(j)'
  BY DEF Kept, Gone, Orderly, Honest, IInv, TypeOK, MasterTypeOK
<1>6. /\ \A t \in temps : Fits(jobs, t.content, TRUE, t.job, t.task)
      /\ \A j \in Jobs, p \in Partitions : final[<<OutputPrefix[j], p>>] # None
           => Fits(jobs, final[<<OutputPrefix[j], p>>], TRUE, j, p)
  BY DEF Kept, MadeOf
<1>7. CASE Turns(w, q, r) \/ Downloads(w, q, r) \/ Learns(w, q, r)
  <2>1. \A k \in HasDone(w)' : k.phase # "promotion"
    BY <1>4, <1>7 DEF Turns, Downloads, Learns
  <2>2. UNCHANGED objectVars
    BY <1>7 DEF Turns, Downloads, Learns
  <2> QED BY <1>3, <1>5, <2>1, <2>2, QuietKept
<1>8. CASE Uploads(w, q, r)
  <2> DEFINE t == [job |-> q.work.job, task |-> q.work.task,
                   id |-> q.work.id, content |-> q.downloaded]
  <2>1. /\ q.work.phase = "reduce" /\ q.pending = {} /\ q.allMapsComplete
        /\ temps' = temps \cup {t} /\ UNCHANGED final
    BY <1>8 DEF Uploads
  <2>2. Fits(jobs, q.downloaded, TRUE, q.work.job, q.work.task)
    <3>1. Follow(jobs, w, q)
      BY <1>1, FollowOf DEF Gather
    <3>2. q.pending \cup q.downloaded = q.downloaded
      BY <2>1
    <3> QED BY <2>1, <3>1, <3>2 DEF Follow, FitsWork, Fits
  <2>3. Fits(jobs, t.content, TRUE, t.job, t.task)
    BY <2>2
  <2> HIDE DEF t
  <2>4. MadeOf(jobs)'
    BY <1>6, <2>1, <2>3 DEF MadeOf
  <2>5. \A k \in HasDone(w)' : k.phase # "promotion"
    BY <1>4, <2>1
  <2> QED BY <1>3, <1>5, <2>1, <2>4, <2>5, KeptStep
<1>9. CASE Copies(w, q, r)
  <2>1. PICK t \in TempsOf(q.work) :
          final' = [final EXCEPT ![Slot(q.work)] = t.content]
    BY <1>9 DEF Copies, Slot
  <2>2. q.work.phase = "promotion" /\ UNCHANGED temps
    BY <1>9 DEF Copies
  <2>3. t \in temps /\ t.job = q.work.job /\ t.task = q.work.task
    BY DEF TempsOf
  <2>4. t.content # None
    <3>1. t \in Temps
      BY <2>3 DEF Orderly, Honest, ProcessInv, Processes
    <3> QED BY <3>1, NothingAssumption DEF Temps
  <2>5. /\ q.work.job \in Jobs /\ q.work.task \in Partitions
        /\ Slot(q.work) \in OutputPrefixes \X Partitions
    BY <1>2, <2>2, SlotOf
  <2>6. DOMAIN final = OutputPrefixes \X Partitions
    BY DEF Orderly, Honest, ProcessInv, Processes
  <2>7. /\ final'[Slot(q.work)] = t.content
        /\ \A s \in OutputPrefixes \X Partitions :
             s # Slot(q.work) => final'[s] = final[s]
    BY <2>1, <2>5, <2>6
  <2>8. MadeOf(jobs)'
    <3>1. ASSUME NEW j \in Jobs, NEW p \in Partitions,
                 final'[<<OutputPrefix[j], p>>] # None
          PROVE  Fits(jobs, final'[<<OutputPrefix[j], p>>], TRUE, j, p)
      <4>1. <<OutputPrefix[j], p>> \in OutputPrefixes \X Partitions
        BY DEF OutputPrefixes
      <4>2. CASE <<OutputPrefix[j], p>> = Slot(q.work)
        <5>1. j = q.work.job /\ p = q.work.task
          BY <2>5, <4>2 DEF Slot, OwnPrefixes
        <5>2. Fits(jobs, t.content, TRUE, j, p)
          BY <1>6, <2>3, <5>1
        <5> QED BY <2>7, <4>2, <5>2
      <4>3. CASE <<OutputPrefix[j], p>> # Slot(q.work)
        BY <1>6, <2>7, <3>1, <4>1, <4>3
      <4> QED BY <4>2, <4>3
    <3> QED BY <1>6, <2>2, <3>1 DEF MadeOf
  <2>9. \A k \in issued : k.phase = "promotion" /\ final[Slot(k)] # None =>
          final'[Slot(k)] # None
    <3>1. issued \subseteq Issues
      BY DEF Orderly, Honest, IInv, TypeOK, ControlTypeOK
    <3> QED BY <2>4, <2>7, <3>1, SlotOf
  <2>10. \A k \in HasDone(w)' : final'[Slot(k)] # None
    BY <1>4, <2>4, <2>7
  <2> QED BY <1>3, <1>5, <2>8, <2>9, <2>10, KeptStep
<1>10. CASE Removes(w, q, r)
  <2>1. temps' \subseteq temps /\ UNCHANGED final /\ q.stage = "copied"
    BY <1>10 DEF Removes
  <2>2. MadeOf(jobs)'
    BY <1>6, <2>1 DEF MadeOf
  <2>3. HasDone(w)' \subseteq HasDone(w)
    BY <1>4, <2>1
  <2> QED BY <1>3, <1>5, <2>1, <2>2, <2>3, KeptStep
<1> QED BY <1>7, <1>8, <1>9, <1>10 DEF Moves

\* A step after which no goroutine has come as far as the objects.
LEMMA SameDone ==
  ASSUME Orderly, NEW w \in Workers,
         \A v \in Workers \ {w} : runs'[v] = runs[v],
         \/ runs'[w] = runs[w] \/ runs'[w] = <<>>
         \/ \E q, r : Continues(w, q, r)
         \/ \E a : LaunchedFrom(w, a)
  PROVE  \A v \in Workers : HasDone(v)' \subseteq HasDone(v)
<1>1. \A v \in Workers \ {w} : HasDone(v)' = HasDone(v)
  BY DoneOf
<1>2. HasDone(w)' \subseteq HasDone(w)
  <2>1. CASE runs'[w] = runs[w] \/ runs'[w] = <<>>
    BY <2>1, DoneOf
  <2>2. ASSUME NEW q, NEW r, Continues(w, q, r)
        PROVE  HasDone(w)' \subseteq HasDone(w)
    <3>1. /\ runs[w] = <<q>> /\ runs'[w] = <<r>>
          /\ r.work = q.work /\ r.stage = q.stage
      BY <2>2 DEF Continues
    <3> QED BY <3>1, DoneOf
  <2>3. ASSUME NEW a, LaunchedFrom(w, a)
        PROVE  HasDone(w)' \subseteq HasDone(w)
    <3> DEFINE r == Launched(a, w)
    <3>1. runs'[w] = <<r>>
      BY <2>3 DEF LaunchedFrom
    <3>2. r.stage = "launched"
      BY DEF Launched
    <3> HIDE DEF r
    <3> QED BY <3>1, <3>2, DoneOf
  <2> QED BY <2>1, <2>2, <2>3
<1> QED BY <1>1, <1>2

LEMMA SilentKept ==
  ASSUME PromptStart, OwnPrefixes, Orderly, OrderlyStep, Gather, Kept,
         \A j \in Jobs : Gone(j) => Gone(j)', NEW w \in Workers,
         \/ Loop(w) \/ LosePatience(w) \/ TaskFails(w) \/ Die(w)
         \/ \E i \in DOMAIN runs[w] : Step(w, i)
  PROVE  Kept'
<1>1. UNCHANGED jobs /\ UNCHANGED cleaning
  BY DEF Loop, LosePatience, TaskFails, Die, Step, Silent, vars, masterVars,
     schedVars
<1>2. ASSUME UNCHANGED objectVars,
             \A v \in Workers : HasDone(v)' \subseteq HasDone(v)
      PROVE  Kept'
  BY <1>1, <1>2, QuietKept
<1>3. ASSUME NEW i \in DOMAIN runs[w], RunStep(w, i) \/ Fail(w, i)
      PROVE  Kept'
  <2>1. PICK q : RunEnds(w, q) \/ \E r : Moves(w, q, r)
    BY <1>3, StepKinds DEF Orderly, Honest
  <2>2. CASE RunEnds(w, q)
    <3>1. \A v \in Workers : HasDone(v)' \subseteq HasDone(v)
      BY <2>2, SameDone DEF RunEnds
    <3> QED BY <1>2, <2>2, <3>1 DEF RunEnds
  <2>3. CASE \E r : Moves(w, q, r)
    BY <1>1, <2>3, MovesKept
  <2> QED BY <2>1, <2>2, <2>3
<1>4. CASE InTime(w)
  <2>1. UNCHANGED <<runs, objectVars>>
    BY <1>4 DEF InTime, Tick
  <2>2. \A v \in Workers : HasDone(v)' \subseteq HasDone(v)
    BY <2>1, SameDone
  <2> QED BY <1>2, <2>1, <2>2
<1>5. CASE Receive(w)
  <2>1. PICK m : m = rpc[w] /\ Receives(w, m)
    BY <1>5, ReceiveReceives DEF Orderly, Honest
  <2>2. \A v \in Workers : HasDone(v)' \subseteq HasDone(v)
    BY <2>1, SameDone DEF Receives
  <2> QED BY <1>2, <2>1, <2>2 DEF Receives
<1>6. CASE GiveUp(w) \/ RegistrationFails(w)
  <2>1. UNCHANGED <<runs, objectVars>>
    BY <1>6 DEF GiveUp, RegistrationFails
  <2>2. \A v \in Workers : HasDone(v)' \subseteq HasDone(v)
    BY <2>1, SameDone
  <2> QED BY <1>2, <2>1, <2>2
<1>7. CASE WorkerCrashes(w)
  <2>1. /\ runs'[w] = <<>> /\ \A v \in Workers \ {w} : runs'[v] = runs[v]
        /\ UNCHANGED objectVars
    BY <1>7 DEF WorkerCrashes, Orderly, Honest, OneTask
  <2>2. \A v \in Workers : HasDone(v)' \subseteq HasDone(v)
    BY <2>1, SameDone
  <2> QED BY <1>2, <2>1, <2>2
<1> QED BY <1>3, <1>4, <1>5, <1>6, <1>7
        DEF Loop, LosePatience, TaskFails, Die, Step

\* The output of a cancelled job is deleted, and no other.
LEMMA DeleteOutputKept ==
  ASSUME OwnPrefixes, Orderly, OrderlyStep, Kept,
         \A j \in Jobs : Gone(j) => Gone(j)', DeleteOutput
  PROVE  Kept'
<1>1. PICK d \in cleaning :
        /\ cleaning' = cleaning \ {d}
        /\ temps' \subseteq temps
        /\ final' = [o \in DOMAIN final |->
                       IF o[1] = OutputPrefix[d] THEN None ELSE final[o]]
  BY DEF DeleteOutput
<1>2. UNCHANGED jobs /\ UNCHANGED runs
  BY DEF DeleteOutput, vars, masterVars, schedVars, localVars
<1>3. cleaning \subseteq Jobs /\ Gone(d)
  BY DEF Kept, Gone, Orderly, Honest, IInv, TypeOK, MasterTypeOK
<1>4. DOMAIN final = OutputPrefixes \X Partitions
  BY DEF Orderly, Honest, ProcessInv, Processes
<1>5. \A o \in OutputPrefixes \X Partitions :
        final'[o] = IF o[1] = OutputPrefix[d] THEN None ELSE final[o]
  BY <1>1, <1>4
<1>6. MadeOf(jobs)'
  <2>1. \A t \in temps' : Fits(jobs, t.content, TRUE, t.job, t.task)
    BY <1>1 DEF Kept, MadeOf
  <2>2. ASSUME NEW j \in Jobs, NEW p \in Partitions,
               final'[<<OutputPrefix[j], p>>] # None
        PROVE  Fits(jobs, final'[<<OutputPrefix[j], p>>], TRUE, j, p)
    <3>1. <<OutputPrefix[j], p>> \in OutputPrefixes \X Partitions
      BY DEF OutputPrefixes
    <3>2. final'[<<OutputPrefix[j], p>>] = final[<<OutputPrefix[j], p>>]
      BY <1>5, <2>2, <3>1
    <3> QED BY <2>2, <3>2 DEF Kept, MadeOf
  <2> QED BY <1>2, <2>1, <2>2 DEF MadeOf
<1>7. ASSUME NEW k \in issued, k.phase = "promotion", final[Slot(k)] # None
      PROVE  final'[Slot(k)] # None \/ Gone(k.job)'
  <2>1. k \in Issues
    BY DEF Orderly, Honest, IInv, TypeOK, ControlTypeOK
  <2>2. /\ k.job \in Jobs /\ Slot(k) \in OutputPrefixes \X Partitions
        /\ Slot(k)[1] = OutputPrefix[k.job]
    BY <1>7, <2>1, SlotOf
  <2>3. CASE k.job = d
    BY <1>3, <2>3
  <2>4. CASE k.job # d
    <3>1. OutputPrefix[k.job] # OutputPrefix[d]
      BY <1>3, <2>2, <2>4 DEF OwnPrefixes
    <3> QED BY <1>5, <1>7, <2>2, <3>1
  <2> QED BY <2>3, <2>4
<1>8. \A v \in Workers : HasDone(v)' = HasDone(v)
  BY <1>2, DoneOf
<1>9. \A j \in cleaning' : Gone(j)'
  BY <1>1, <1>3 DEF Kept
<1> QED BY <1>6, <1>7, <1>8, <1>9, KeptStep

LEMMA NextKept ==
  ASSUME PromptStart, OwnPrefixes, MaxRestarts = 0,
         Orderly, OrderlyStep, Gather, Kept, [ClusterNext]_clusterVars
  PROVE  Kept'
<1>1. [OpenNext]_vars
  BY ClusterStep DEF Orderly, Honest
<1>2. \A j \in Jobs : Gone(j) => Gone(j)'
  BY <1>1, JobsEnded DEF Orderly, Honest
<1>3. ~MasterEnds
  BY Facts DEF MasterEnds, Restart, Orderly, Honest, ServiceInv
<1>4. ASSUME UNCHANGED <<runs, objectVars>>,
             \A j \in cleaning' : j \in cleaning \/ Gone(j)'
      PROVE  Kept'
  <2>1. \A v \in Workers : HasDone(v)' = HasDone(v)
    BY <1>4, DoneOf
  <2>2. UNCHANGED objectVars
    BY <1>4
  <2> QED BY <1>2, <1>4, <2>1, <2>2, QuietKept
<1>5. CASE Cancel
  <2>1. PICK j \in Jobs : Delete(j) /\ cleaning' = cleaning \cup {j}
    BY <1>5 DEF Cancel
  <2>2. Gone(j)'
    <3>1. j \in submitted
      BY <2>1, Facts DEF Delete, Known, Orderly, Honest, IInv, Sound, SubmissionsAreSound
    <3>2. jobs'[j].status = "Aborted"
      <4>1. jobs \in [Jobs -> Job]
        BY Facts DEF Orderly, Honest
      <4> QED BY <2>1, <4>1 DEF Delete, Job
    <3>3. UNCHANGED submitted
      BY <2>1 DEF Delete, submitVars
    <3> QED BY <3>1, <3>2, <3>3 DEF Gone
  <2>3. UNCHANGED <<runs, objectVars>>
    BY <1>5 DEF Cancel, processVars, localVars
  <2> QED BY <1>4, <2>1, <2>2, <2>3
<1>6. CASE \/ \E w \in Workers : Answer(w) \/ Join(w) \/ EvictSlow(w) \/ EvictDead(w)
           \/ \E x \in stray : HearStray(x)
           \/ Submit \/ Enqueue \/ Housekeeping
           \/ UNCHANGED clusterVars
  <2>1. UNCHANGED <<runs, objectVars>> /\ UNCHANGED cleaning
    BY <1>6 DEF Answer, Join, EvictSlow, EvictDead, HearStray, Submit, Enqueue,
       Housekeeping, clusterVars, processVars, localVars
  <2> QED BY <1>4, <2>1
<1> QED BY <1>2, <1>3, <1>5, <1>6, SilentKept, DeleteOutputKept DEF ClusterNext

LEMMA InitKept == ClusterInit => Kept
BY DEF ClusterInit, WorkerInit, Init, Kept, MadeOf, OutputPrefixes

LEMMA FitsExact ==
  ASSUME NEW js, NEW j, NEW p, NEW content, Fits(js, content, TRUE, j, p)
  PROVE  Exact(content, j, p)
<1>1. /\ \A m \in MapTasks : js[j].maps[m].status = "Completed"
      /\ content = CollectPartitionURLs(js, j, p)
  BY DEF Fits, AllMapped
<1>2. \A u \in content : \E m \in MapTasks : u = URL(j, m, p, js[j].maps[m].host)
  BY <1>1 DEF CollectPartitionURLs
<1>3. \A m \in MapTasks : URL(j, m, p, js[j].maps[m].host) \in content
  BY <1>1 DEF CollectPartitionURLs
<1>4. \A m, host : /\ URL(j, m, p, host).job = j
                   /\ URL(j, m, p, host).task = m
                   /\ URL(j, m, p, host).partition = p
  BY DEF URL
<1> QED BY <1>2, <1>3, <1>4 DEF Exact

\* A promotion that the master knows has been done.
LEMMA PromotedIsEffective ==
  ASSUME Orderly, NEW j \in Jobs, NEW p \in Partitions,
         Promoted(jobs[j].reduces[p])
  PROVE  \E k \in OfTask(issued, "promotion", j, p) : Effective(k)
<1>1. WinnerIsPromoted(jobs[j].reduces[p],
                       OfTask(issued, "promotion", j, p), Settled)
  BY DEF Orderly, Honest, Course, Phased, JobPhased, TasksPhased
<1>2. PICK k \in OfTask(issued, "promotion", j, p) : <<k, "SUCCESS">> \in Settled
  BY <1>1 DEF WinnerIsPromoted
<1>3. <<k, "SUCCESS">> \in Said
  BY <1>2, SaidFacts DEF Settled, Orderly, Honest
<1> QED BY <1>3 DEF Effective

LEMMA ClusterKept ==
  ASSUME PromptStart, OwnPrefixes, MaxEvictions = 0, MaxRestarts = 0
  PROVE  ClusterSpec => [](Orderly /\ Gather /\ Kept)
<1>1. /\ ClusterInit => Gather /\ Kept
      /\ Gather /\ Kept /\ [Orderly /\ OrderlyStep]_clusterVars
           /\ [ClusterNext]_clusterVars /\ Orderly
         => (Gather /\ Kept)'
  <2> SUFFICES ASSUME Gather, Kept, [Orderly /\ OrderlyStep]_clusterVars,
                      [ClusterNext]_clusterVars, Orderly
               PROVE  (Gather /\ Kept)'
    BY InitGather, InitKept
  <2>1. OrderlyStep
    BY NextOrderly
  <2> QED BY <2>1, NextGather, NextKept
<1> QED BY <1>1, ClusterOrderly, PTL DEF ClusterSpec

\* A job that is reported as Completed has one object for each partition (executor.go:
\* 343, scheduler.go:443), which holds the lines that every map task has left for
\* this partition, each once, and nothing else.  So no reduce has ended its gather
\* loop early (executor.go:206-241), none was fed what an earlier one was told
\* (executor.go:169-177, worker.go:278-284), and nothing has deleted the output of
\* a job that was not cancelled (handlers.go:222).
THEOREM OutputIsCompleteAlways ==
  ASSUME PromptStart, OwnPrefixes, MaxEvictions = 0, MaxRestarts = 0
  PROVE  ClusterSpec => []OutputIsComplete
<1>1. Orderly /\ Kept => OutputIsComplete
  <2> SUFFICES ASSUME Orderly, Kept, NEW j \in Jobs,
                      jobs[j].status = "Completed", NEW p \in Partitions
               PROVE  LET content == final[<<OutputPrefix[j], p>>] IN
                      content # None /\ Exact(content, j, p)
    BY DEF OutputIsComplete
  <2>1. Promoted(jobs[j].reduces[p])
    BY DEF Orderly, Honest, Course, Phased, JobPhased, Prompt, Ready, AllPromoted,
       Promoted
  <2>2. PICK k \in OfTask(issued, "promotion", j, p) : Effective(k)
    BY <2>1, PromotedIsEffective
  <2>3. final[<<OutputPrefix[j], p>>] # None
    BY <2>2 DEF OfTask, Kept, Slot, Gone
  <2>4. Fits(jobs, final[<<OutputPrefix[j], p>>], TRUE, j, p)
    BY <2>3 DEF Kept, MadeOf
  <2> QED BY <2>3, <2>4, FitsExact
<1> QED BY <1>1, ClusterKept, PTL

-----------------------------------------------------------------------------
(* What is left to promote, while no worker crashes                        *)

\* A worker that takes a task has delivered the result of the one before; and
\* the result that a reply is about has been heard.
Delivery(w) ==
  /\ runs[w] # <<>> => lastResult[w] = None
  /\ rpc[w].kind = "request" =>
       (rpc[w].idle => rpc[w].result = lastResult[w])
  /\ rpc[w].kind = "reply" =>
       /\ rpc[w].given # {} => rpc[w].result = lastResult[w]
       /\ rpc[w].result \in results \cup {None}
Delivers == alive = Workers /\ \A w \in Workers : Delivery(w)

LEMMA DeliveryStays ==
  ASSUME NEW w, Delivery(w), results \subseteq results',
         lastResult'[w] = lastResult[w], runs[w] = <<>> => runs'[w] = <<>>,
         rpc'[w] = rpc[w] \/ rpc'[w].kind \in {"none", "register"}
  PROVE  Delivery(w)'
<1>1. (runs[w] # <<>> => lastResult[w] = None)'
  BY DEF Delivery
<1>2. CASE rpc'[w] = rpc[w]
  BY <1>1, <1>2 DEF Delivery
<1>3. CASE rpc'[w].kind \in {"none", "register"}
  BY <1>1, <1>3 DEF Delivery
<1> QED BY <1>2, <1>3

LEMMA AnswerDelivers ==
  ASSUME Orderly, NEW w \in Workers, Delivery(w), Answer(w)
  PROVE  Delivery(w)' /\ results \subseteq results'
<1>1. /\ rpc[w].kind = "request" /\ DOMAIN rpc = Workers
      /\ UNCHANGED <<alive, runs, lastResult>>
  BY DEF Answer, Orderly, Honest, OneTask
<1>2. CASE w \in registered
  <2> DEFINE q == rpc[w]
  <2>1. PICK slow \in SlowFor(q) :
          /\ Hear(w, q, slow) /\ rpc' = [rpc EXCEPT ![w] = Reply(w, q, slow)]
    BY <1>2 DEF Answer
  <2> DEFINE m == Reply(w, q, slow)
             given == Heard(w, q.idle, ResultIn(q), slow).given
  <2>2. m.kind = "reply" /\ m.given = given /\ m.result = q.result
    BY Zenon DEF Reply
  <2>3. rpc'[w] = m
    <3> HIDE DEF m
    <3> QED BY <1>1, <2>1 DEF m
  <2>4. results' = results \cup (IF q.result = None THEN {} ELSE {q.result})
    BY <2>1 DEF Hear, Exchange
  <2>5. given # {} => q.idle
    BY DEF Heard, Nothing
  <2>6. q.idle => q.result = lastResult[w]
    BY <1>1 DEF Delivery
  <2>7. runs[w] # <<>> => lastResult[w] = None
    BY DEF Delivery
  <2> HIDE DEF m, given
  <2>8. /\ m.given # {} => m.result = lastResult[w]
        /\ m.result \in results' \cup {None}
    BY <2>2, <2>4, <2>5, <2>6
  <2> QED BY <1>1, <2>2, <2>3, <2>4, <2>7, <2>8 DEF Delivery
<1>3. CASE w \notin registered
  <2>1. UNCHANGED vars /\ rpc'[w].kind = "register"
    BY <1>1, <1>3 DEF Answer, Unregistered
  <2>2. results' = results
    BY <2>1 DEF vars, netVars
  <2> QED BY <1>1, <2>1, <2>2, DeliveryStays
<1> QED BY <1>2, <1>3

\* The others at a step of w.
LEMMA OthersDeliver ==
  ASSUME Orderly, Delivers, NEW w \in Workers, Delivery(w)', UNCHANGED alive,
         results \subseteq results',
         \A v \in Workers \ {w} : /\ runs'[v] = runs[v]
                                  /\ lastResult'[v] = lastResult[v]
                                  /\ rpc'[v] = rpc[v]
  PROVE  Delivers'
<1>1. \A v \in Workers \ {w} : Delivery(v)'
  BY DeliveryStays DEF Delivers
<1> QED BY <1>1 DEF Delivers

LEMMA SilentDelivers ==
  ASSUME PromptStart, MaxWorkerCrashes = 0, Orderly, Delivers, NEW w \in Workers,
         \/ Loop(w) \/ LosePatience(w) \/ TaskFails(w) \/ Die(w)
         \/ \E i \in DOMAIN runs[w] : Step(w, i)
  PROVE  Delivers'
<1>1. UNCHANGED results
  BY DEF Loop, LosePatience, TaskFails, Die, Step, Silent, vars, netVars
<1>2. Delivery(w) /\ ~Die(w)
  <2>1. Workers \ alive = {}
    BY DEF Delivers
  <2> QED BY <2>1, FS_EmptySet DEF Delivers, Die
<1>3. ASSUME NEW i \in DOMAIN runs[w], RunStep(w, i) \/ Fail(w, i)
      PROVE  Delivers'
  <2>1. PICK q : RunEnds(w, q) \/ \E r : Moves(w, q, r)
    BY <1>3, StepKinds DEF Orderly, Honest
  <2>2. CASE RunEnds(w, q)
    <3>1. /\ runs[w] = <<q>> /\ runs'[w] = <<>> /\ UNCHANGED <<alive, rpc>>
          /\ \A v \in Workers \ {w} : /\ runs'[v] = runs[v]
                                      /\ lastResult'[v] = lastResult[v]
      BY <2>2 DEF RunEnds
    <3>2. /\ rpc[w].kind = "request" => ~rpc[w].idle
          /\ rpc[w].kind = "reply" => rpc[w].given = {}
      BY <3>1 DEF Orderly, Honest, OneTask, Alone
    <3>3. Delivery(w)'
      BY <1>1, <1>2, <3>1, <3>2 DEF Delivery
    <3> QED BY <1>1, <3>1, <3>3, OthersDeliver
  <2>3. CASE \E r : Moves(w, q, r)
    <3>1. PICK r : Moves(w, q, r)
      BY <2>3
    <3>2. /\ runs[w] = <<q>> /\ UNCHANGED <<alive, rpc, lastResult>>
          /\ \A v \in Workers \ {w} : runs'[v] = runs[v]
      BY <3>1 DEF Moves
    <3>3. Delivery(w)'
      BY <1>1, <1>2, <3>2, DeliveryStays
    <3> QED BY <1>1, <3>2, <3>3, OthersDeliver
  <2> QED BY <2>1, <2>2, <2>3
<1>4. CASE InTime(w)
  <2>1. PICK m : Sends(w, m)
    BY <1>4, TickSends DEF Orderly, Honest
  <2>2. /\ m.kind = "request" /\ rpc'[w] = m /\ m.result = lastResult[w]
        /\ UNCHANGED <<alive, runs, lastResult>>
        /\ \A v \in Workers \ {w} : rpc'[v] = rpc[v]
    BY <2>1 DEF Sends, OnlyLoop
  <2>3. Delivery(w)'
    BY <1>1, <1>2, <2>2 DEF Delivery
  <2> QED BY <1>1, <2>2, <2>3, OthersDeliver
<1>5. CASE Receive(w)
  <2>1. PICK m : m = rpc[w] /\ Receives(w, m)
    BY <1>5, ReceiveReceives DEF Orderly, Honest
  <2>2. /\ m.kind = "reply" /\ rpc'[w].kind = "none"
        /\ lastResult'[w] = IF lastResult[w] = m.result THEN None
                                                        ELSE lastResult[w]
    BY <2>1 DEF Receives
  <2>3. runs'[w] # <<>> => lastResult'[w] = None
    <3>1. CASE m.given = {}
      <4>1. runs'[w] # <<>> => runs[w] # <<>>
        BY <2>1, <3>1 DEF Receives, Continues
      <4> QED BY <1>2, <2>2, <4>1 DEF Delivery
    <3>2. CASE m.given # {}
      BY <1>2, <2>1, <2>2, <3>2 DEF Delivery
    <3> QED BY <3>1, <3>2
  <2>4. Delivery(w)'
    BY <2>2, <2>3 DEF Delivery
  <2> QED BY <1>1, <2>1, <2>4, OthersDeliver DEF Receives
<1>6. CASE GiveUp(w) \/ RegistrationFails(w)
  <2>1. /\ UNCHANGED <<alive, runs, lastResult>>
        /\ rpc' = [rpc EXCEPT ![w] = Waiting]
    BY <1>6 DEF GiveUp, RegistrationFails
  <2>2. rpc'[w].kind = "none" /\ \A v \in Workers \ {w} : rpc'[v] = rpc[v]
    BY <2>1 DEF Orderly, Honest, OneTask, Waiting
  <2>3. Delivery(w)'
    BY <1>1, <1>2, <2>1, <2>2, DeliveryStays
  <2> QED BY <1>1, <2>1, <2>2, <2>3, OthersDeliver
<1> QED BY <1>2, <1>3, <1>4, <1>5, <1>6
        DEF Loop, LosePatience, TaskFails, Step

LEMMA NextDelivers ==
  ASSUME PromptStart, MaxWorkerCrashes = 0, MaxRestarts = 0,
         Orderly, Delivers, [ClusterNext]_clusterVars
  PROVE  Delivers' /\ results \subseteq results'
<1>1. ASSUME NEW w \in Workers, Answer(w)
      PROVE  Delivers' /\ results \subseteq results'
  <2>1. Delivery(w)' /\ results \subseteq results'
    BY <1>1, AnswerDelivers DEF Delivers
  <2>2. UNCHANGED <<alive, runs, lastResult>>
    BY <1>1 DEF Answer
  <2>3. \A v \in Workers \ {w} : rpc'[v] = rpc[v]
    BY <1>1 DEF Answer, Orderly, Honest, OneTask
  <2> QED BY <2>1, <2>2, <2>3, OthersDeliver
<1>2. ASSUME NEW w \in Workers, Join(w)
      PROVE  Delivers' /\ results \subseteq results'
  <2>1. /\ UNCHANGED <<alive, runs, lastResult, results>>
        /\ rpc' = [rpc EXCEPT ![w] = Waiting]
    BY <1>2 DEF Join, Register, netVars
  <2>2. rpc'[w].kind = "none" /\ \A v \in Workers \ {w} : rpc'[v] = rpc[v]
    BY <2>1 DEF Orderly, Honest, OneTask, Waiting
  <2>3. Delivery(w)'
    BY <2>1, <2>2, DeliveryStays DEF Delivers
  <2> QED BY <2>1, <2>2, <2>3, OthersDeliver
<1>3. ASSUME UNCHANGED <<alive, runs, lastResult, rpc>>,
             results \subseteq results'
      PROVE  Delivers'
  BY <1>3, DeliveryStays DEF Delivers
<1>4. CASE \/ \E x \in stray : HearStray(x)
           \/ \E w \in Workers : EvictSlow(w) \/ EvictDead(w)
           \/ Submit \/ Enqueue \/ Cancel \/ DeleteOutput
           \/ Housekeeping \/ MasterEnds
           \/ UNCHANGED clusterVars
  <2>1. UNCHANGED localVars
    BY <1>4 DEF HearStray, EvictSlow, EvictDead, Submit, Enqueue, Cancel,
       DeleteOutput, Housekeeping, MasterEnds, clusterVars, processVars
  <2>2. results \subseteq results'
    <3>1. CASE \E x \in stray : HearStray(x)
      BY <3>1 DEF HearStray, Hear, Exchange
    <3>2. CASE DeleteOutput
      BY <3>2 DEF DeleteOutput, vars, netVars
    <3>3. CASE \/ \E w \in Workers : EvictSlow(w) \/ EvictDead(w)
               \/ Submit \/ Enqueue \/ Cancel
               \/ Housekeeping \/ MasterEnds
               \/ UNCHANGED clusterVars
      BY <3>3 DEF EvictSlow, EvictDead, Timeout, Expire, Submit, Enqueue, Cancel,
         Housekeeping, TakeSnapshot, Storage, BadLoad, Interrupt, MasterEnds,
         Restart, netVars, clusterVars, vars
    <3> QED BY <1>4, <3>1, <3>2, <3>3
  <2> QED BY <1>3, <2>1, <2>2 DEF localVars
<1>5. ASSUME NEW w \in Workers,
             \/ Loop(w) \/ LosePatience(w) \/ TaskFails(w) \/ Die(w)
             \/ \E i \in DOMAIN runs[w] : Step(w, i)
      PROVE  Delivers' /\ results \subseteq results'
  <2>1. UNCHANGED results
    BY <1>5 DEF Loop, LosePatience, TaskFails, Die, Step, Silent, vars, netVars
  <2> QED BY <1>5, <2>1, SilentDelivers
<1> QED BY <1>1, <1>2, <1>4, <1>5 DEF ClusterNext

LEMMA InitDelivers == ClusterInit => Delivers
BY DEF ClusterInit, WorkerInit, Delivers, Delivery, Starting

\* The object that a reduce k has left is there, or was promoted: the worker
\* that has removed it is about to say so, or the master knows.
Same(x, k) == x.job = k.job /\ x.task = k.task /\ x.id = k.id
Took(w, k) ==
  \E x \in Issues :
    /\ x.phase = "promotion" /\ Same(x, k)
    /\ \/ \E i \in DOMAIN runs[w] :
            runs[w][i].work = x /\ runs[w][i].stage = "SUCCESS"
       \/ lastResult[w] = <<x, "SUCCESS">>
Taken(k) == \E w \in Workers : Took(w, k)
Available(k) == \/ \E t \in temps : Same(t, k)
                \/ Taken(k)
                \/ Promoted(jobs[k.job].reduces[k.task])
Retry == \A k \in issued :
           k.phase = "reduce" /\ Effective(k) /\ Running(jobs[k.job]) =>
             Available(k)

LEMMA MovesBefore ==
  ASSUME NEW w, NEW i, RunStep(w, i) \/ Fail(w, i), ~Finish(w, i)
  PROVE  runs[w][i].stage # "SUCCESS"
BY DEF RunStep, SetBusy, SetCurrentTask, MapSucceeds, DrainUpdates,
   DownloadPartition, TakeUpdate, Upload, CopyObject, RemoveObject, Fail, At

LEMMA RetryStep ==
  ASSUME Orderly, OrderlyStep, Retry,
         \A k \in issued : Running(jobs'[k.job]) => Running(jobs[k.job]),
         \A v \in Workers : \A k \in HasDone(v)' :
           \/ k \in HasDone(v) \/ k.phase # "reduce"
           \/ \E t \in temps' : Same(t, k),
         \A t \in temps : \A k \in issued :
           k.phase = "reduce" /\ Same(t, k) /\ Running(jobs'[k.job]) =>
             t \in temps' \/ Taken(k)',
         \A k \in issued :
           k.phase = "reduce" /\ Taken(k) /\ Running(jobs'[k.job]) =>
             Taken(k)' \/ Promoted(jobs'[k.job].reduces[k.task])
  PROVE  Retry'
<1>1. issued \subseteq Issues
  BY DEF Orderly, Honest, IInv, TypeOK, ControlTypeOK
<1>2. ASSUME NEW k, k.phase = "reduce", Effective(k)', Running(jobs'[k.job])
      PROVE  Available(k)'
  <2>1. CASE Effective(k)
    <3>1. k \in issued /\ k \in Issues
      BY <1>1, <2>1, EffectiveIssued
    <3>2. k.job \in Jobs /\ k.task \in Partitions
      BY <1>2, <3>1, IssueFields
    <3>3. Available(k)
      BY <1>2, <2>1, <3>1 DEF Retry
    <3>4. CASE \E t \in temps : Same(t, k)
      <4>1. \/ \E t \in temps' : Same(t, k)
            \/ Taken(k)'
        BY <1>2, <3>1, <3>4
      <4> QED BY <4>1 DEF Available, Same
    <3>5. CASE Taken(k)
      <4>1. Taken(k)' \/ Promoted(jobs'[k.job].reduces[k.task])
        BY <1>2, <3>1, <3>5
      <4> QED BY <4>1 DEF Available
    <3>6. CASE Promoted(jobs[k.job].reduces[k.task])
      <4>1. JobKeepsDone(jobs[k.job], jobs'[k.job])
        BY <3>2 DEF OrderlyStep, KeepsDone
      <4>2. Promoted(jobs'[k.job].reduces[k.task])
        BY <3>2, <3>6, <4>1 DEF JobKeepsDone, Promoted
      <4> QED BY <4>2 DEF Available
    <3> QED BY <3>3, <3>4, <3>5, <3>6 DEF Available
  <2>2. CASE ~Effective(k)
    <3>1. <<k, "SUCCESS">> \notin Said'
      BY <2>2 DEF OrderlyStep, StaysTruthful
    <3>2. PICK v \in Workers : k \in HasDone(v)'
      BY <1>2, <3>1 DEF Effective
    <3>3. k \notin HasDone(v)
      BY <2>2 DEF Effective
    <3>4. \E t \in temps' : Same(t, k)
      BY <1>2, <3>2, <3>3
    <3> QED BY <3>4 DEF Available, Same
  <2> QED BY <2>1, <2>2
<1> QED BY <1>2 DEF Retry

\* Nobody but w does anything.
LEMMA TookStays ==
  ASSUME NEW v, runs'[v] = runs[v], lastResult'[v] = lastResult[v], NEW k,
         Took(v, k)
  PROVE  Took(v, k)'
BY DEF Took, Same

LEMMA OthersTook ==
  ASSUME NEW w \in Workers, NEW k, Taken(k),
         \A v \in Workers \ {w} : /\ runs'[v] = runs[v]
                                  /\ lastResult'[v] = lastResult[v]
  PROVE  Taken(k)' \/ Took(w, k)
<1>1. PICK v \in Workers : Took(v, k)
  BY DEF Taken
<1>2. CASE v # w
  BY <1>1, <1>2, TookStays DEF Taken
<1> QED BY <1>1, <1>2

LEMMA EndsTook ==
  ASSUME Orderly, NEW w \in Workers, Delivery(w), NEW q, RunEnds(w, q), NEW k,
         Took(w, k)
  PROVE  Took(w, k)'
<1>1. PICK x \in Issues :
        /\ x.phase = "promotion" /\ Same(x, k)
        /\ \/ \E i \in DOMAIN runs[w] :
                runs[w][i].work = x /\ runs[w][i].stage = "SUCCESS"
           \/ lastResult[w] = <<x, "SUCCESS">>
  BY DEF Took
<1>2. runs[w] = <<q>> /\ lastResult'[w] = <<q.work, q.stage>>
  BY DEF RunEnds
<1>3. lastResult[w] # <<x, "SUCCESS">>
  <2>1. lastResult[w] = None
    BY <1>2 DEF Delivery
  <2>2. <<x, "SUCCESS">> \in Issues \X Outcomes
    BY DEF Outcomes
  <2> QED BY <2>1, <2>2, NothingAssumption
<1>4. q.work = x /\ q.stage = "SUCCESS"
  BY <1>1, <1>2, <1>3
<1>5. lastResult'[w] = <<x, "SUCCESS">>
  BY <1>2, <1>4
<1> QED BY <1>1, <1>5 DEF Took, Same

\* What was delivered is known.
LEMMA ReceivesTook ==
  ASSUME Orderly, NEW w \in Workers, Delivery(w), NEW m, m = rpc[w],
         Receives(w, m), NEW k, Running(jobs[k.job]), Took(w, k)
  PROVE  Took(w, k)' \/ Promoted(jobs[k.job].reduces[k.task])
<1>1. PICK x \in Issues :
        /\ x.phase = "promotion" /\ Same(x, k)
        /\ \/ \E i \in DOMAIN runs[w] :
                runs[w][i].work = x /\ runs[w][i].stage = "SUCCESS"
           \/ lastResult[w] = <<x, "SUCCESS">>
  BY DEF Took
<1>2. ASSUME NEW i \in DOMAIN runs[w],
             runs[w][i].work = x /\ runs[w][i].stage = "SUCCESS"
      PROVE  Took(w, k)'
  <2>1. runs[w] # <<>>
    BY <1>2
  <2>2. PICK q, r : Continues(w, q, r)
    BY <2>1 DEF Receives, LaunchedFrom
  <2>3. /\ runs[w] = <<q>> /\ runs'[w] = <<r>>
        /\ r.work = q.work /\ r.stage = q.stage
    BY <2>2 DEF Continues
  <2>4. runs[w][i] = q
    BY <1>2, <2>3
  <2>5. 1 \in DOMAIN runs'[w] /\ runs'[w][1] = r
    BY <2>3
  <2>6. r.work = x /\ r.stage = "SUCCESS"
    BY <1>2, <2>3, <2>4
  <2> QED BY <1>1, <2>5, <2>6 DEF Took, Same
<1>3. ASSUME lastResult[w] = <<x, "SUCCESS">>, lastResult[w] # m.result
      PROVE  Took(w, k)'
  <2>1. lastResult'[w] = <<x, "SUCCESS">>
    BY <1>3 DEF Receives
  <2> QED BY <1>1, <2>1 DEF Took, Same
<1>4. ASSUME lastResult[w] = <<x, "SUCCESS">>, lastResult[w] = m.result
      PROVE  Promoted(jobs[k.job].reduces[k.task])
  <2>1. <<x, "SUCCESS">> \in Issues \X Outcomes
    BY DEF Outcomes
  <2>2. <<x, "SUCCESS">> # None
    BY <2>1, NothingAssumption
  <2>3. <<x, "SUCCESS">> \in results
    BY <1>4, <2>2 DEF Delivery, Receives
  <2>4. x \in issued
    BY <2>3 DEF Orderly, Honest, IInv, TypeOK, ControlTypeOK
  <2>5. Credited(jobs, x)
    BY <1>1, <2>3, <2>4 DEF Orderly, Honest, Course, Same
  <2> QED BY <1>1, <2>5 DEF Credited, Promoted, Same
<1> QED BY <1>1, <1>2, <1>3, <1>4

LEMMA MovesRetry ==
  ASSUME Orderly, OrderlyStep, Delivers, Retry, UNCHANGED jobs,
         NEW w \in Workers, NEW q, NEW r, Moves(w, q, r), q.stage # "SUCCESS"
  PROVE  Retry'
<1>1. /\ runs[w] = <<q>> /\ runs'[w] = <<r>> /\ r.work = q.work
      /\ \A v \in Workers \ {w} : runs'[v] = runs[v]
      /\ UNCHANGED lastResult
  BY DEF Moves
<1>2. q.work \in Issues
  <2>1. 1 \in DOMAIN runs[w] /\ runs[w][1] = q
    BY <1>1
  <2> QED BY <2>1, RunOf DEF Orderly, Honest, Given, IInv, TypeOK, ControlTypeOK
<1>3. \A v \in Workers \ {w} : HasDone(v)' = HasDone(v)
  BY <1>1, DoneOf
<1>4. HasDone(w)' = IF r.stage \in {"copied", "SUCCESS"} THEN {q.work} ELSE {}
  BY <1>1, DoneOf
<1>5. ASSUME NEW k, Taken(k) PROVE Taken(k)'
  <2>1. CASE Taken(k)'
    BY <2>1
  <2>2. CASE Took(w, k)
    <3>1. PICK x \in Issues :
            /\ x.phase = "promotion" /\ Same(x, k)
            /\ \/ \E i \in DOMAIN runs[w] :
                    runs[w][i].work = x /\ runs[w][i].stage = "SUCCESS"
               \/ lastResult[w] = <<x, "SUCCESS">>
      BY <2>2 DEF Took
    <3>2. \A i \in DOMAIN runs[w] : runs[w][i] = q
      BY <1>1
    <3>3. lastResult'[w] = <<x, "SUCCESS">>
      BY <1>1, <3>1, <3>2
    <3> QED BY <3>1, <3>3 DEF Taken, Took, Same
  <2> QED BY <1>1, <1>5, <2>1, <2>2, OthersTook
<1>6. CASE /\ temps \subseteq temps'
           /\ r.stage \in {"copied", "SUCCESS"} /\ q.work.phase = "reduce" =>
                \E t \in temps' : Same(t, q.work)
  BY <1>3, <1>4, <1>5, <1>6, RetryStep
<1>7. CASE Turns(w, q, r) \/ Downloads(w, q, r) \/ Learns(w, q, r)
           \/ Copies(w, q, r)
  <2>1. UNCHANGED temps
    BY <1>7 DEF Turns, Downloads, Learns, Copies, objectVars
  <2>2. r.stage \in {"copied", "SUCCESS"} => q.work.phase # "reduce"
    BY <1>7 DEF Turns, Downloads, Learns, Copies
  <2> QED BY <1>6, <2>1, <2>2
<1>8. CASE Uploads(w, q, r)
  <2> DEFINE t == [job |-> q.work.job, task |-> q.work.task,
                   id |-> q.work.id, content |-> q.downloaded]
  <2>1. temps' = temps \cup {t}
    BY <1>8 DEF Uploads
  <2>2. Same(t, q.work)
    BY DEF Same
  <2> HIDE DEF t
  <2> QED BY <1>6, <2>1, <2>2
<1>9. CASE Removes(w, q, r)
  <2>1. /\ temps \ TempsOf(q.work) \subseteq temps'
        /\ q.work.phase = "promotion" /\ r.stage = "SUCCESS"
    BY <1>9 DEF Removes
  <2>2. ASSUME NEW t \in TempsOf(q.work), NEW k, Same(t, k) PROVE Taken(k)'
    <3>1. Same(q.work, k)
      BY <2>2 DEF TempsOf, Same
    <3>2. 1 \in DOMAIN runs'[w] /\ runs'[w][1] = r
      BY <1>1
    <3>3. Took(w, k)'
      BY <1>1, <1>2, <2>1, <3>1, <3>2 DEF Took, Same
    <3> QED BY <3>3 DEF Taken
  <2>3. \A v \in Workers : \A k \in HasDone(v)' : k \in HasDone(v) \/ k.phase # "reduce"
    BY <1>3, <1>4, <2>1
  <2> QED BY <1>5, <2>1, <2>2, <2>3, RetryStep
<1> QED BY <1>7, <1>8, <1>9 DEF Moves

\* A step that leaves alone the temporary objects, and what was done.
LEMMA QuietRetry ==
  ASSUME Orderly, OrderlyStep, Retry, UNCHANGED <<temps, runs, lastResult>>,
         \A k \in issued : Running(jobs'[k.job]) => Running(jobs[k.job])
  PROVE  Retry'
<1>1. \A v \in Workers : HasDone(v)' = HasDone(v)
  BY DoneOf
<1>2. ASSUME NEW k, Taken(k) PROVE Taken(k)'
  BY <1>2, TookStays DEF Taken
<1> QED BY <1>1, <1>2, RetryStep

LEMMA SilentRetry ==
  ASSUME PromptStart, MaxWorkerCrashes = 0, Orderly, OrderlyStep, Delivers,
         Retry, NEW w \in Workers,
         \/ Loop(w) \/ LosePatience(w) \/ TaskFails(w) \/ Die(w)
         \/ \E i \in DOMAIN runs[w] : Step(w, i)
  PROVE  Retry'
<1>1. UNCHANGED jobs
  BY DEF Loop, LosePatience, TaskFails, Die, Step, Silent, vars, masterVars,
     schedVars
<1>2. Delivery(w) /\ ~Die(w)
  <2>1. Workers \ alive = {}
    BY DEF Delivers
  <2> QED BY <2>1, FS_EmptySet DEF Delivers, Die
<1>3. ASSUME NEW i \in DOMAIN runs[w], RunStep(w, i) \/ Fail(w, i)
      PROVE  Retry'
  <2>1. ASSUME NEW q, RunEnds(w, q) PROVE Retry'
    <3>1. /\ runs'[w] = <<>> /\ UNCHANGED temps
          /\ \A v \in Workers \ {w} : /\ runs'[v] = runs[v]
                                      /\ lastResult'[v] = lastResult[v]
      BY <2>1 DEF RunEnds, objectVars
    <3>2. \A v \in Workers : HasDone(v)' \subseteq HasDone(v)
      BY <3>1, SameDone
    <3>3. ASSUME NEW k, Taken(k) PROVE Taken(k)'
      BY <1>2, <2>1, <3>1, <3>3, OthersTook, EndsTook DEF Taken
    <3> QED BY <1>1, <3>1, <3>2, <3>3, RetryStep
  <2>2. CASE Finish(w, i)
    BY <2>1, <2>2, FinishEnds DEF Orderly, Honest
  <2>3. CASE ~Finish(w, i)
    <3>1. PICK q : RunEnds(w, q) \/ \E r : Moves(w, q, r)
      BY <1>3, StepKinds DEF Orderly, Honest
    <3>2. ASSUME NEW r, Moves(w, q, r) PROVE Retry'
      <4>1. runs[w][i] = q
        BY <3>2 DEF Moves
      <4>2. q.stage # "SUCCESS"
        BY <1>3, <2>3, <4>1, MovesBefore
      <4> QED BY <1>1, <3>2, <4>2, MovesRetry
    <3> QED BY <2>1, <3>1, <3>2
  <2> QED BY <2>2, <2>3
<1>4. CASE InTime(w)
  <2>1. UNCHANGED <<temps, runs, lastResult>>
    BY <1>4 DEF InTime, Tick, objectVars
  <2> QED BY <1>1, <2>1, QuietRetry
<1>5. CASE Receive(w)
  <2>1. PICK m : m = rpc[w] /\ Receives(w, m)
    BY <1>5, ReceiveReceives DEF Orderly, Honest
  <2>2. UNCHANGED temps
    BY <2>1 DEF Receives, objectVars
  <2>3. \A v \in Workers : HasDone(v)' \subseteq HasDone(v)
    BY <2>1, SameDone DEF Receives
  <2>4. ASSUME NEW k, Running(jobs'[k.job]), Taken(k)
        PROVE  Taken(k)' \/ Promoted(jobs'[k.job].reduces[k.task])
    <3>1. Taken(k)' \/ Took(w, k)
      BY <2>1, <2>4, OthersTook DEF Receives
    <3>2. ASSUME Took(w, k)
          PROVE  Taken(k)' \/ Promoted(jobs'[k.job].reduces[k.task])
      <4>1. Took(w, k)' \/ Promoted(jobs[k.job].reduces[k.task])
        BY <1>1, <1>2, <2>1, <2>4, <3>2, ReceivesTook
      <4> QED BY <1>1, <4>1 DEF Taken
    <3> QED BY <3>1, <3>2
  <2> QED BY <1>1, <2>2, <2>3, <2>4, RetryStep
<1>6. CASE GiveUp(w) \/ RegistrationFails(w)
  <2>1. UNCHANGED <<temps, runs, lastResult>>
    BY <1>6 DEF GiveUp, RegistrationFails, objectVars
  <2> QED BY <1>1, <2>1, QuietRetry
<1> QED BY <1>2, <1>3, <1>4, <1>5, <1>6
        DEF Loop, LosePatience, TaskFails, Step

LEMMA DeleteOutputRetry ==
  ASSUME OwnPrefixes, Orderly, OrderlyStep, Kept, Retry, DeleteOutput
  PROVE  Retry'
<1>1. PICK d \in cleaning :
        temps' = {t \in temps : OutputPrefix[t.job] # OutputPrefix[d]}
  BY DEF DeleteOutput
<1>2. UNCHANGED <<jobs, runs, lastResult>>
  BY DEF DeleteOutput, vars, masterVars, schedVars, localVars
<1>3. cleaning \subseteq Jobs /\ Gone(d)
  BY DEF Kept, Gone, Orderly, Honest, IInv, TypeOK, MasterTypeOK
<1>4. ASSUME NEW t \in temps, NEW k, Same(t, k), Running(jobs'[k.job])
      PROVE  t \in temps'
  <2>1. t.job \in Jobs
    <3>1. t \in Temps
      BY DEF Orderly, Honest, ProcessInv, Processes
    <3> QED BY <3>1 DEF Temps
  <2>2. t.job # d
    BY <1>2, <1>3, <1>4 DEF Gone, Running, Same
  <2> QED BY <1>1, <1>3, <2>1, <2>2 DEF OwnPrefixes
<1>5. \A v \in Workers : HasDone(v)' = HasDone(v)
  BY <1>2, DoneOf
<1>6. ASSUME NEW k, Taken(k) PROVE Taken(k)'
  BY <1>2, <1>6, TookStays DEF Taken
<1> QED BY <1>2, <1>4, <1>5, <1>6, RetryStep

LEMMA NextRetry ==
  ASSUME PromptStart, OwnPrefixes, MaxWorkerCrashes = 0, MaxRestarts = 0,
         Orderly, OrderlyStep, Kept, Delivers, Retry, [ClusterNext]_clusterVars
  PROVE  Retry'
<1>1. \A k \in issued : Running(jobs'[k.job]) => Running(jobs[k.job])
  <2>1. [OpenNext]_vars
    BY ClusterStep DEF Orderly, Honest
  <2> QED BY <2>1, JobsEnded DEF Orderly, Honest
<1>2. CASE \/ \E w \in Workers : Answer(w) \/ Join(w) \/ EvictSlow(w)
                                   \/ EvictDead(w)
           \/ \E x \in stray : HearStray(x)
           \/ Submit \/ Enqueue \/ Cancel \/ Housekeeping \/ MasterEnds
           \/ UNCHANGED clusterVars
  <2>1. UNCHANGED <<temps, runs, lastResult>>
    BY <1>2 DEF Answer, Join, EvictSlow, EvictDead, HearStray, Submit, Enqueue,
       Cancel, Housekeeping, MasterEnds, clusterVars, processVars, localVars,
       objectVars
  <2> QED BY <1>1, <2>1, QuietRetry
<1> QED BY <1>2, SilentRetry, DeleteOutputRetry DEF ClusterNext

LEMMA InitRetry == ClusterInit => Retry
BY DEF ClusterInit, Init, Retry

\* "Promotion can be retried -- the temp object is still in S3" (scheduler.go:452):
\* as long as no worker crashes, a promotion that is due finds its object, or is
\* under way at a worker that is there to report it; whatever heartbeats were
\* given up, which promotions were given out twice, and whichever attempt of the
\* reduce came second.  (A crash between the removal of the object and its report
\* breaks this.)
THEOREM PromotionCanBeRetriedAlways ==
  ASSUME PromptStart, OwnPrefixes, MaxWorkerCrashes = 0,
         MaxEvictions = 0, MaxRestarts = 0
  PROVE  ClusterSpec => []PromotionCanBeRetried
<1>1. /\ ClusterInit => Delivers /\ Retry
      /\ Delivers /\ Retry /\ [ClusterNext]_clusterVars
           /\ (Orderly /\ Gather /\ Kept)
         => (Delivers /\ Retry)'
  <2> SUFFICES ASSUME Delivers, Retry, [ClusterNext]_clusterVars,
                      Orderly, Gather, Kept
               PROVE  (Delivers /\ Retry)'
    BY InitDelivers, InitRetry
  <2>1. OrderlyStep
    BY NextOrderly
  <2> QED BY <2>1, NextDelivers, NextRetry
<1>2. Orderly /\ Delivers /\ Retry => PromotionCanBeRetried
  <2> SUFFICES ASSUME Orderly, Delivers, Retry, NEW j \in Jobs,
                      jobs[j].status = "Reducing",
                      NEW p \in PromotableTasks(jobs[j])
               PROVE  \/ Promoting(j, p)
                      \/ \E t \in temps : /\ t.job = j /\ t.task = p
                                          /\ t.id = jobs[j].reduces[p].temp
    BY DEF PromotionCanBeRetried
  <2>1. /\ p \in Partitions /\ jobs[j].reduces[p].status = "Completed"
        /\ jobs[j].reduces[p].temp # NoObject
    BY DEF PromotableTasks
  <2>2. /\ WinnerSucceeded(jobs[j].reduces[p],
                           OfTask(issued, "reduce", j, p), Settled)
        /\ WinnerIsPromoted(jobs[j].reduces[p],
                            OfTask(issued, "promotion", j, p), Settled)
    BY <2>1 DEF Orderly, Honest, Course, Phased, JobPhased, TasksPhased
  <2>3. PICK k \in OfTask(issued, "reduce", j, p) :
          k.id = jobs[j].reduces[p].winner /\ <<k, "SUCCESS">> \in Settled
    BY <2>1, <2>2 DEF WinnerSucceeded
  <2>4. k.id = jobs[j].reduces[p].temp
    BY <2>1, <2>2, <2>3 DEF WinnerIsPromoted
  <2>5. /\ k \in issued /\ k.phase = "reduce" /\ k.job = j /\ k.task = p
    BY DEF OfTask
  <2>6. Effective(k)
    <3>1. <<k, "SUCCESS">> \in results
      BY <2>3 DEF Settled
    <3> QED BY <3>1, SaidFacts DEF Effective, Orderly, Honest
  <2>7. Available(k)
    BY <2>5, <2>6 DEF Retry, Running
  <2>8. CASE \E t \in temps : Same(t, k)
    BY <2>4, <2>5, <2>8 DEF Same
  <2>9. CASE Taken(k)
    <3>1. PICK w \in Workers, x \in Issues :
            /\ x.phase = "promotion" /\ Same(x, k)
            /\ \/ \E i \in DOMAIN runs[w] :
                    runs[w][i].work = x /\ runs[w][i].stage = "SUCCESS"
               \/ lastResult[w] = <<x, "SUCCESS">>
      BY <2>9 DEF Taken, Took
    <3>2. w \in alive /\ x.job = j /\ x.task = p
      BY <2>5, <3>1 DEF Delivers, Same
    <3>3. CASE \E i \in DOMAIN runs[w] : runs[w][i].work = x
      BY <3>1, <3>2, <3>3 DEF Promoting
    <3>4. CASE lastResult[w] = <<x, "SUCCESS">>
      <4>1. lastResult[w] \in Issues \X Outcomes /\ lastResult[w][1] = x
        BY <3>4 DEF Outcomes
      <4>2. lastResult[w] # None
        BY <4>1, NothingAssumption
      <4> QED BY <3>1, <3>2, <4>1, <4>2 DEF Promoting
    <3> QED BY <3>1, <3>3, <3>4
  <2>10. CASE Promoted(jobs[k.job].reduces[k.task])
    BY <2>1, <2>5, <2>10 DEF Promoted
  <2> QED BY <2>7, <2>8, <2>9, <2>10 DEF Available
<1> QED BY <1>1, <1>2, ClusterKept, PTL DEF ClusterSpec

=============================================================================
