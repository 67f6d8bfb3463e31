----------------------------- MODULE PhaseProofs -----------------------------
(***************************************************************************)
(* Proof of what holds while no master ends and either no worker is        *)
(* evicted or no failure is reported: a completed task stays completed,    *)
(* whatever its other attempts report and whenever; reduces find every map *)
(* output; and the object that is promoted is the one of the winner.       *)
(* Phases end with the result that ends them also when workers are evicted *)
(* and attempts fail.                                                      *)
(* For all jobs, workers, task counts, failures and bounds.                *)
(***************************************************************************)
EXTENDS ServiceProofs

\* What has become of the attempts on a task, given the assignments I and the
\* results R.  An attempt is still on its task until it is reported as failed,
\* and a completed task has an attempt that is reported as successful.
OfTask(I, phase, j, t) ==
  {i \in I : i.phase = phase /\ i.job = j /\ i.task = t}
Accounted(task, I, R) ==
  /\ \A i \in I : \/ <<i, "FAILED">> \in R
                  \/ [id |-> i.id, worker |-> i.worker] \in task.attempts
  /\ task.status = "Completed" => \E i \in I : <<i, "SUCCESS">> \in R

\* The attempt that a reduce task has as its winner is one of them.
WinnerSucceeded(task, I, R) ==
  task.status = "Completed" =>
    \E i \in I : i.id = task.winner /\ <<i, "SUCCESS">> \in R

\* A promotion is given out of the object of the winner, which is kept until one
\* of them has succeeded.
WinnerIsPromoted(task, I, R) ==
  /\ task.status = "Completed" => task.temp \in {task.winner, NoObject}
  /\ Promoted(task) => \E i \in I : /\ i.id = task.winner
                                    /\ <<i, "SUCCESS">> \in R
  /\ \A i \in I : task.status = "Completed" /\ i.id = task.winner

\* A phase with no work left has ended, and no phase ends early.  A job has to
\* be in the reduce phase before anything of it is promoted.
Ready(job) ==
  /\ job.status = "Mapping" => \A p \in Partitions : ~Promoted(job.reduces[p])
  /\ job.status = "Reducing" => AllMapped(job)
  /\ job.status = "Completed" => AllPromoted(job)
Prompt(job) == /\ Ready(job)
               /\ job.status = "Mapping" => ~AllMapped(job)
               /\ job.status = "Reducing" => ~AllPromoted(job)

TasksPhased(job, j, I, R) ==
  /\ \A m \in MapTasks : Accounted(job.maps[m], OfTask(I, "map", j, m), R)
  /\ \A p \in Partitions :
       /\ Accounted(job.reduces[p], OfTask(I, "reduce", j, p), R)
       /\ WinnerSucceeded(job.reduces[p], OfTask(I, "reduce", j, p), R)
       /\ WinnerIsPromoted(job.reduces[p], OfTask(I, "promotion", j, p), R)
  /\ \A i \in I : i.job = j =>
       /\ job.status \notin {"Absent", "Queued"}
       /\ i.phase = "promotion" => job.status # "Mapping"
JobPhased(job, j, I, R) == TasksPhased(job, j, I, R) /\ Prompt(job)
Phased(js, I, R) == \A j \in Jobs : JobPhased(js[j], j, I, R)

\* What is taken to be the end of an attempt.  As long as no failure is reported,
\* every attempt may be presumed to have failed in silence, next to what it did
\* report, so that an eviction is no news.
Presumed == IF MaxFailures = 0 THEN results \cup (issued \X {"FAILED"})
                               ELSE results
PhaseInv == /\ FreshIds(issued, nextAttempt)
            /\ OneOutcome(results)
            /\ MaxFailures = 0 => \A r \in results : r[2] # "FAILED"
            /\ Phased(jobs, issued, Presumed)

\* Completed tasks stay completed: the output of a map task stays where it is,
\* and the object of a reduce task waits for its promotion or was promoted.
JobKeepsDone(job, new) ==
  /\ \A m \in MapTasks : job.maps[m].status = "Completed" =>
       new.maps[m].status = "Completed" /\ new.maps[m].host = job.maps[m].host
  /\ \A p \in Partitions : job.reduces[p].status = "Completed" =>
       /\ new.reduces[p].status = "Completed"
       /\ new.reduces[p].temp \in {job.reduces[p].temp, NoObject}
KeepsDone(js, new) == \A j \in Jobs : JobKeepsDone(js[j], new[j])

\* What a worker can be told to gather for partition p of job j: outputs that
\* are there, and all of them when it is told that there are no more.
Fits(js, urls, all, j, p) ==
  /\ urls \subseteq CollectPartitionURLs(js, j, p)
  /\ all => AllMapped(js[j]) /\ urls = CollectPartitionURLs(js, j, p)

-----------------------------------------------------------------------------
(* Tasks                                                                   *)

\* An attempt that failed is not the one that completed the task.
LEMMA DropAccounted ==
  ASSUME NEW task, "status" \in DOMAIN task, "attempts" \in DOMAIN task,
         NEW I, NEW R, Accounted(task, I, R), OneOutcome(R),
         NEW k \in I, <<k, "FAILED">> \in R,
         \A i \in I : i.phase # "promotion" /\ (i.id = k.id => i = k)
  PROVE  LET new == DropAttempts(task, AttemptsNamed(task, k.id)) IN
         /\ Accounted(new, I, R)
         /\ new.status = "Completed" <=> task.status = "Completed"
<1> DEFINE gone == AttemptsNamed(task, k.id)
           new == DropAttempts(task, gone)
<1>1. /\ new.status = IF task.attempts \subseteq gone THEN "Idle"
                                                      ELSE task.status
      /\ new.attempts = task.attempts \ gone
  BY DEF DropAttempts
<1> HIDE DEF new
<1>2. ASSUME NEW i \in I, <<i, "FAILED">> \notin R
      PROVE  [id |-> i.id, worker |-> i.worker] \in new.attempts
  <2> DEFINE a == [id |-> i.id, worker |-> i.worker]
  <2>1. a \in task.attempts /\ i.id # k.id /\ a.id = i.id
    BY <1>2 DEF Accounted
  <2> HIDE DEF a
  <2>2. a \notin gone
    BY <2>1 DEF AttemptsNamed
  <2> QED BY <1>1, <2>1, <2>2 DEF a
<1>3. ASSUME task.status = "Completed"
      PROVE  new.status = "Completed" /\ \E i \in I : <<i, "SUCCESS">> \in R
  <2>1. PICK i \in I : <<i, "SUCCESS">> \in R
    BY <1>3 DEF Accounted
  <2>2. <<i, "FAILED">> \notin R
    <3>1. i.phase # "promotion"
      OBVIOUS
    <3> QED BY <2>1, <3>1 DEF OneOutcome
  <2>3. ~(task.attempts \subseteq gone)
    BY <1>1, <1>2, <2>2
  <2> QED BY <1>1, <1>3, <2>1, <2>3
<1>4. new.status = "Completed" => task.status = "Completed"
  BY <1>1
<1> QED BY <1>2, <1>3, <1>4 DEF Accounted, new

LEMMA StartAccounted ==
  ASSUME NEW task, "status" \in DOMAIN task, "attempts" \in DOMAIN task,
         NEW I, NEW R, Accounted(task, I, R), NEW id, NEW w,
         NEW i, i.id = id, i.worker = w
  PROVE  /\ Accounted(StartAttempt(task, id, w), I \cup {i}, R)
         /\ StartAttempt(task, id, w).status = "InProgress"
<1> DEFINE new == StartAttempt(task, id, w)
<1>1. /\ new.status = "InProgress"
      /\ new.attempts = task.attempts \cup {[id |-> id, worker |-> w]}
  BY DEF StartAttempt
<1> HIDE DEF new
<1>2. Accounted(new, I \cup {i}, R)
  BY <1>1 DEF Accounted
<1> QED BY <1>1, <1>2 DEF new

\* J has more assignments of one task than I, and no others.
Adds(J, I, phase, j, t) ==
  /\ I \subseteq J
  /\ \A i \in J \ I : i.phase = phase /\ i.job = j /\ i.task = t

LEMMA AddsLemma ==
  ASSUME NEW I, NEW J, NEW phase, NEW j, NEW t, Adds(J, I, phase, j, t),
         NEW ph, NEW k, NEW u, ph # phase \/ k # j \/ u # t
  PROVE  OfTask(J, ph, k, u) = OfTask(I, ph, k, u)
BY DEF Adds, OfTask

LEMMA MapTasksPhased ==
  ASSUME NEW job \in Job, NEW j, NEW I, NEW J, NEW R, TasksPhased(job, j, I, R),
         NEW m \in MapTasks, Adds(J, I, "map", j, m),
         job.status \notin {"Absent", "Queued"},
         NEW task, Accounted(task, OfTask(J, "map", j, m), R),
         NEW n, NEW new,
         new = [job EXCEPT !.maps[m] = task, !.mapTimes = n]
  PROVE  TasksPhased(new, j, J, R)
<1>1. /\ new.status = job.status /\ new.reduces = job.reduces
      /\ \A k \in MapTasks : new.maps[k] = IF k = m THEN task ELSE job.maps[k]
  BY DEF Job
<1>2. \A k \in MapTasks : Accounted(new.maps[k], OfTask(J, "map", j, k), R)
  BY <1>1, AddsLemma DEF TasksPhased
<1>3. \A p \in Partitions :
        /\ OfTask(J, "reduce", j, p) = OfTask(I, "reduce", j, p)
        /\ OfTask(J, "promotion", j, p) = OfTask(I, "promotion", j, p)
  BY AddsLemma
<1>4. \A i \in J : i.phase = "promotion" => i \in I
  BY DEF Adds
<1> QED BY <1>1, <1>2, <1>3, <1>4 DEF TasksPhased

LEMMA ReduceTasksPhased ==
  ASSUME NEW job \in Job, NEW j, NEW I, NEW J, NEW R, TasksPhased(job, j, I, R),
         NEW p \in Partitions, NEW phase,
         phase \in {"reduce", "promotion"}, Adds(J, I, phase, j, p),
         job.status \notin {"Absent", "Queued"},
         phase = "promotion" => job.status # "Mapping",
         NEW task, Accounted(task, OfTask(J, "reduce", j, p), R),
         WinnerSucceeded(task, OfTask(J, "reduce", j, p), R),
         WinnerIsPromoted(task, OfTask(J, "promotion", j, p), R),
         NEW n, NEW new,
         new = [job EXCEPT !.reduces[p] = task, !.reduceTimes = n]
  PROVE  TasksPhased(new, j, J, R)
<1>1. /\ new.status = job.status /\ new.maps = job.maps
      /\ \A q \in Partitions :
           new.reduces[q] = IF q = p THEN task ELSE job.reduces[q]
  BY DEF Job
<1>2. \A m \in MapTasks : OfTask(J, "map", j, m) = OfTask(I, "map", j, m)
  BY AddsLemma
<1>3. \A q \in Partitions \ {p} :
        /\ OfTask(J, "reduce", j, q) = OfTask(I, "reduce", j, q)
        /\ OfTask(J, "promotion", j, q) = OfTask(I, "promotion", j, q)
  BY AddsLemma
<1>4. ASSUME NEW q \in Partitions
      PROVE  /\ Accounted(new.reduces[q], OfTask(J, "reduce", j, q), R)
             /\ WinnerSucceeded(new.reduces[q], OfTask(J, "reduce", j, q), R)
             /\ WinnerIsPromoted(new.reduces[q],
                                 OfTask(J, "promotion", j, q), R)
  <2>1. CASE q = p
    BY <1>1, <2>1
  <2>2. CASE q # p
    BY <1>1, <1>3, <2>2 DEF TasksPhased
  <2> QED BY <2>1, <2>2
<1>5. \A i \in J : i.job = j => i \in I \/ i.phase = phase
  BY DEF Adds
<1> QED BY <1>1, <1>2, <1>4, <1>5 DEF TasksPhased

-----------------------------------------------------------------------------
(* Jobs                                                                    *)

LEMMA ReplacePhased ==
  ASSUME NEW js \in [Jobs -> Job], NEW I, NEW J, NEW R, Phased(js, I, R),
         NEW phase, NEW j \in Jobs, NEW t, Adds(J, I, phase, j, t),
         NEW job, JobPhased(job, j, J, R)
  PROVE  Phased([js EXCEPT ![j] = job], J, R)
<1> DEFINE new == [js EXCEPT ![j] = job]
<1>1. \A k \in Jobs : new[k] = IF k = j THEN job ELSE js[k]
  OBVIOUS
<1> HIDE DEF new
<1>2. ASSUME NEW k \in Jobs, k # j
      PROVE  JobPhased(js[k], k, J, R)
  <2>1. \A ph, u : OfTask(J, ph, k, u) = OfTask(I, ph, k, u)
    BY <1>2, AddsLemma
  <2>2. \A i \in J : i.job = k => i \in I
    BY <1>2 DEF Adds
  <2>3. JobPhased(js[k], k, I, R)
    BY DEF Phased
  <2> QED BY <2>1, <2>2, <2>3 DEF JobPhased, TasksPhased
<1>3. Phased(new, J, R)
  BY <1>1, <1>2 DEF Phased
<1> QED BY <1>3 DEF new

LEMMA ReplaceKeepsDone ==
  ASSUME NEW js \in [Jobs -> Job], NEW j \in Jobs, NEW job,
         JobKeepsDone(js[j], job)
  PROVE  KeepsDone(js, [js EXCEPT ![j] = job])
<1>1. \A k \in Jobs : [js EXCEPT ![j] = job][k] = IF k = j THEN job ELSE js[k]
  OBVIOUS
<1>2. \A k \in Jobs : JobKeepsDone(js[k], js[k])
  BY DEF JobKeepsDone
<1> QED BY <1>1, <1>2 DEF KeepsDone

LEMMA KeepsDoneReflexive == ASSUME NEW js PROVE KeepsDone(js, js)
BY DEF KeepsDone, JobKeepsDone

LEMMA KeepsDoneTransitive ==
  ASSUME NEW a, NEW b, NEW c, KeepsDone(a, b), KeepsDone(b, c)
  PROVE  KeepsDone(a, c)
<1>1. ASSUME NEW j \in Jobs PROVE JobKeepsDone(a[j], c[j])
  <2>1. JobKeepsDone(a[j], b[j]) /\ JobKeepsDone(b[j], c[j])
    BY DEF KeepsDone
  <2> QED BY <2>1 DEF JobKeepsDone
<1> QED BY <1>1 DEF KeepsDone

\* A job whose phase has work left is not advanced.
LEMMA PromptAdvance ==
  ASSUME NEW s, NEW j, Prompt(s.jobs[j])
  PROVE  AdvanceJob(s, j) = s
BY DEF AdvanceJob, Prompt

\* One whose phase has none left is, which makes it prompt again.
LEMMA AdvanceJobPhased ==
  ASSUME NEW s \in State, NEW I, NEW R, Phased(s.jobs, I, R), NEW j \in Jobs,
         NEW new \in Job, TasksPhased(new, j, I, R), Ready(new),
         JobKeepsDone(s.jobs[j], new)
  PROVE  LET t == AdvanceJob([s EXCEPT !.jobs[j] = new], j) IN
         Phased(t.jobs, I, R) /\ KeepsDone(s.jobs, t.jobs)
<1> DEFINE u == [s EXCEPT !.jobs[j] = new]
           t == AdvanceJob(u, j)
<1>1. /\ s.jobs \in [Jobs -> Job] /\ u.jobs = [s.jobs EXCEPT ![j] = new]
      /\ u.jobs[j] = new /\ u.jobs \in [Jobs -> Job]
  BY DEF State
<1>2. Adds(I, I, "map", j, 1)
  BY DEF Adds
<1> HIDE DEF u
<1>3. ASSUME NEW job, t.jobs = [s.jobs EXCEPT ![j] = job], Prompt(job),
             job.maps = new.maps, job.reduces = new.reduces,
             job.status \in {new.status, "Reducing", "Completed"}
      PROVE  Phased(t.jobs, I, R) /\ KeepsDone(s.jobs, t.jobs)
  <2>1. TasksPhased(job, j, I, R)
    BY <1>3 DEF TasksPhased
  <2>2. Phased([s.jobs EXCEPT ![j] = job], I, R)
    BY <1>1, <1>2, <1>3, <2>1, ReplacePhased DEF JobPhased
  <2>3. JobKeepsDone(s.jobs[j], job)
    BY <1>3 DEF JobKeepsDone
  <2>4. KeepsDone(s.jobs, [s.jobs EXCEPT ![j] = job])
    BY <1>1, <2>3, ReplaceKeepsDone
  <2> QED BY <1>3, <2>2, <2>4
<1>4. ASSUME new.status = "Mapping" /\ AllMapped(new)
      PROVE  Phased(t.jobs, I, R) /\ KeepsDone(s.jobs, t.jobs)
  <2> DEFINE job == [new EXCEPT !.status = "Reducing"]
  <2>1. /\ job.status = "Reducing" /\ job.maps = new.maps
        /\ job.reduces = new.reduces
    BY DEF Job
  <2>2. t.jobs = [s.jobs EXCEPT ![j] = job]
    <3>1. t = [u EXCEPT !.jobs[j].status = "Reducing"]
      BY <1>1, <1>4 DEF AdvanceJob
    <3>2. t.jobs = [u.jobs EXCEPT ![j] = job]
      BY <1>1, <3>1 DEF u, State
    <3> QED BY <1>1, <3>2
  <2> HIDE DEF job, t
  <2>3. 0 \in Partitions
    BY NumReduceTasksAssumption DEF Partitions
  <2>4. ~AllPromoted(job) /\ AllMapped(job)
    BY <1>4, <2>1, <2>3 DEF Ready, AllPromoted, Promoted, AllMapped
  <2>5. Prompt(job)
    BY <2>1, <2>4 DEF Prompt, Ready
  <2> QED BY <1>3, <2>1, <2>2, <2>5 DEF t
<1>5. ASSUME new.status = "Reducing" /\ AllPromoted(new)
      PROVE  Phased(t.jobs, I, R) /\ KeepsDone(s.jobs, t.jobs)
  <2> DEFINE job == [new EXCEPT !.status = "Completed"]
  <2>1. /\ job.status = "Completed" /\ job.maps = new.maps
        /\ job.reduces = new.reduces
    BY DEF Job
  <2>2. t.jobs = [s.jobs EXCEPT ![j] = job]
    <3>1. t = [u EXCEPT !.jobs[j].status = "Completed", !.active = None]
      BY <1>1, <1>5 DEF AdvanceJob
    <3>2. t.jobs = [u.jobs EXCEPT ![j] = job]
      BY <1>1, <3>1 DEF u, State
    <3> QED BY <1>1, <3>2
  <2> HIDE DEF job, t
  <2>3. Prompt(job)
    BY <1>5, <2>1 DEF Prompt, Ready, AllPromoted
  <2> QED BY <1>3, <2>1, <2>2, <2>3 DEF t
<1>6. ASSUME ~(new.status = "Mapping" /\ AllMapped(new)),
             ~(new.status = "Reducing" /\ AllPromoted(new))
      PROVE  Phased(t.jobs, I, R) /\ KeepsDone(s.jobs, t.jobs)
  <2>1. t = u /\ Prompt(new)
    BY <1>1, <1>6 DEF AdvanceJob, Prompt
  <2> HIDE DEF t
  <2> QED BY <1>1, <1>3, <2>1 DEF t
<1> QED BY <1>4, <1>5, <1>6 DEF u

-----------------------------------------------------------------------------
(* Assignments                                                             *)

Handed(a, w) == {Issue(x, w) : x \in a.given}

\* An attempt gets the next id, and a reduce knows which outputs there are.
OffersWell(x, next, js) ==
  /\ x.phase # "promotion" => x.id = next
  /\ x.phase = "reduce" => Fits(js, x.urls, x.allMaps, x.job, x.task)

AssignsWell(s, a, w, I, R) ==
  /\ FreshIds(I \cup Handed(a, w), a.s.next)
  /\ Phased(a.s.jobs, I \cup Handed(a, w), R)
  /\ KeepsDone(s.jobs, a.s.jobs)
  /\ \A x \in a.given : OffersWell(x, s.next, a.s.jobs)

LEMMA NothingAssigns ==
  ASSUME NEW s, NEW w, NEW I, NEW R, FreshIds(I, s.next), Phased(s.jobs, I, R)
  PROVE  AssignsWell(s, Nothing(s), w, I, R)
<1>1. /\ Nothing(s).s = s /\ I \cup Handed(Nothing(s), w) = I
      /\ Nothing(s).given = {}
  BY DEF Handed, Nothing
<1> QED BY <1>1, KeepsDoneReflexive DEF AssignsWell

LEMMA GiveMapPhased ==
  ASSUME NEW s, Sound(s), NEW I \in SUBSET Issues, NEW R,
         FreshIds(I, s.next), Phased(s.jobs, I, R),
         NEW j \in Jobs, Running(s.jobs[j]), NEW m \in MapTasks,
         s.jobs[j].maps[m].status # "Completed", NEW w \in Workers
  PROVE  AssignsWell(s, GiveMap(s, j, m, w), w, I, R)
<1> DEFINE task == StartAttempt(s.jobs[j].maps[m], s.next, w)
           n == s.jobs[j].mapTimes
           new == [s.jobs[j] EXCEPT !.maps[m] = task, !.mapTimes = n]
           a == GiveMap(s, j, m, w)
           i == [phase |-> "map", job |-> j, task |-> m, id |-> s.next,
                 worker |-> w]
<1>1. /\ s \in State /\ s.jobs[j] \in Job /\ s.jobs \in [Jobs -> Job]
      /\ s.next \in AttemptIds /\ s.jobs[j].maps[m] \in MapTask
  BY DEF Sound, State, Job
<1>2. new = [s.jobs[j] EXCEPT !.maps[m] = task]
  <2> HIDE DEF task
  <2> QED BY <1>1 DEF Job
<1>3. /\ a.s.jobs = [s.jobs EXCEPT ![j] = new] /\ a.s.next = s.next + 1
      /\ Handed(a, w) = {i}
  <2>1. a.s = [s EXCEPT !.jobs[j] = new, !.next = s.next + 1]
    BY <1>2 DEF GiveMap
  <2>2. Handed(a, w) = {i}
    BY DEF GiveMap, Handed, Issue
  <2> HIDE DEF a, new
  <2> QED BY <1>1, <2>1, <2>2 DEF State
<1>4. /\ i.phase = "map" /\ i.job = j /\ i.task = m /\ i.id = s.next
      /\ i.worker = w
  OBVIOUS
<1> HIDE DEF i, a, n
<1>5. FreshIds(I \cup {i}, s.next + 1)
  BY <1>1, <1>4, FreshIssue
<1>6. Adds(I \cup {i}, I, "map", j, m)
  BY <1>4 DEF Adds
<1>7. JobPhased(s.jobs[j], j, I, R)
  BY DEF Phased
<1>8. Accounted(task, OfTask(I \cup {i}, "map", j, m), R)
      /\ task.status = "InProgress"
  <2> DEFINE old == s.jobs[j].maps[m]
             K == OfTask(I, "map", j, m)
  <2>1. OfTask(I \cup {i}, "map", j, m) = K \cup {i}
    BY <1>4 DEF OfTask
  <2>2. Accounted(old, K, R)
    BY <1>7 DEF JobPhased, TasksPhased
  <2>3. "status" \in DOMAIN old /\ "attempts" \in DOMAIN old
    BY <1>1 DEF MapTask
  <2> HIDE DEF old, K
  <2>4. /\ Accounted(StartAttempt(old, s.next, w), K \cup {i}, R)
        /\ StartAttempt(old, s.next, w).status = "InProgress"
    BY <1>4, <2>2, <2>3, StartAccounted
  <2> QED BY <2>1, <2>4 DEF old, K
<1>9. /\ new.status = s.jobs[j].status /\ new.reduces = s.jobs[j].reduces
      /\ \A k \in MapTasks :
           new.maps[k] = IF k = m THEN task ELSE s.jobs[j].maps[k]
  BY <1>1 DEF Job
<1> HIDE DEF task
<1>10. TasksPhased(new, j, I \cup {i}, R)
  <2>1. s.jobs[j].status \notin {"Absent", "Queued"}
    BY DEF Running
  <2> QED BY <1>1, <1>6, <1>7, <1>8, <2>1, MapTasksPhased DEF JobPhased
<1> HIDE DEF new
<1>11. Prompt(new)
  <2>1. ~AllMapped(new) /\ ~AllMapped(s.jobs[j])
    BY <1>8, <1>9 DEF AllMapped
  <2>2. Prompt(s.jobs[j])
    BY <1>7 DEF JobPhased
  <2> QED BY <1>9, <2>1, <2>2 DEF Prompt, Ready, AllPromoted
<1>12. Phased([s.jobs EXCEPT ![j] = new], I \cup {i}, R)
  BY <1>1, <1>6, <1>10, <1>11, ReplacePhased DEF JobPhased
<1>13. JobKeepsDone(s.jobs[j], new)
  BY <1>9 DEF JobKeepsDone
<1>14. KeepsDone(s.jobs, [s.jobs EXCEPT ![j] = new])
  BY <1>1, <1>13, ReplaceKeepsDone
<1>15. \A x \in a.given : OffersWell(x, s.next, a.s.jobs)
  <2> DEFINE x == [phase |-> "map", job |-> j, task |-> m, id |-> s.next,
                   urls |-> {}, allMaps |-> FALSE]
  <2>1. a.given = {x}
    BY GivenByGiveMap, Zenon DEF a
  <2>2. x.phase = "map" /\ x.id = s.next
    BY Zenon
  <2> HIDE DEF x
  <2> QED BY <2>1, <2>2 DEF OffersWell
<1>16. AssignsWell(s, a, w, I, R)
  BY <1>3, <1>5, <1>12, <1>14, <1>15 DEF AssignsWell
<1> QED BY <1>16 DEF a

LEMMA GiveReducePhased ==
  ASSUME NEW s, Sound(s), NEW I \in SUBSET Issues, NEW R,
         FreshIds(I, s.next), Phased(s.jobs, I, R),
         NEW j \in Jobs, Running(s.jobs[j]), NEW p \in Partitions,
         s.jobs[j].reduces[p].status # "Completed", NEW w \in Workers
  PROVE  AssignsWell(s, GiveReduce(s, j, p, w), w, I, R)
<1> DEFINE task == StartAttempt(s.jobs[j].reduces[p], s.next, w)
           n == s.jobs[j].reduceTimes
           new == [s.jobs[j] EXCEPT !.reduces[p] = task, !.reduceTimes = n]
           a == GiveReduce(s, j, p, w)
           i == [phase |-> "reduce", job |-> j, task |-> p, id |-> s.next,
                 worker |-> w]
<1>1. /\ s \in State /\ s.jobs[j] \in Job /\ s.jobs \in [Jobs -> Job]
      /\ s.next \in AttemptIds /\ s.jobs[j].reduces[p] \in ReduceTask
  BY DEF Sound, State, Job
<1>2. new = [s.jobs[j] EXCEPT !.reduces[p] = task]
  <2> HIDE DEF task
  <2> QED BY <1>1 DEF Job
<1>3. /\ a.s.jobs = [s.jobs EXCEPT ![j] = new] /\ a.s.next = s.next + 1
      /\ Handed(a, w) = {i}
  <2>1. a.s = [s EXCEPT !.jobs[j] = new, !.next = s.next + 1]
    BY <1>2 DEF GiveReduce
  <2>2. Handed(a, w) = {i}
    BY DEF GiveReduce, Handed, Issue
  <2> HIDE DEF a, new
  <2> QED BY <1>1, <2>1, <2>2 DEF State
<1>4. /\ i.phase = "reduce" /\ i.job = j /\ i.task = p /\ i.id = s.next
      /\ i.worker = w
  OBVIOUS
<1> HIDE DEF i, a, n
<1>5. FreshIds(I \cup {i}, s.next + 1)
  BY <1>1, <1>4, FreshIssue
<1>6. Adds(I \cup {i}, I, "reduce", j, p)
  BY <1>4 DEF Adds
<1>7. JobPhased(s.jobs[j], j, I, R)
  BY DEF Phased
<1>8. Accounted(task, OfTask(I \cup {i}, "reduce", j, p), R)
      /\ task.status = "InProgress"
  <2> DEFINE old == s.jobs[j].reduces[p]
             K == OfTask(I, "reduce", j, p)
  <2>1. OfTask(I \cup {i}, "reduce", j, p) = K \cup {i}
    BY <1>4 DEF OfTask
  <2>2. Accounted(old, K, R)
    BY <1>7 DEF JobPhased, TasksPhased
  <2>3. "status" \in DOMAIN old /\ "attempts" \in DOMAIN old
    BY <1>1 DEF ReduceTask
  <2> HIDE DEF old, K
  <2>4. /\ Accounted(StartAttempt(old, s.next, w), K \cup {i}, R)
        /\ StartAttempt(old, s.next, w).status = "InProgress"
    BY <1>4, <2>2, <2>3, StartAccounted
  <2> QED BY <2>1, <2>4 DEF old, K
<1>9. /\ new.status = s.jobs[j].status /\ new.maps = s.jobs[j].maps
      /\ \A q \in Partitions :
           new.reduces[q] = IF q = p THEN task ELSE s.jobs[j].reduces[q]
  BY <1>1 DEF Job
<1> HIDE DEF task
<1>10. /\ WinnerIsPromoted(task, OfTask(I \cup {i}, "promotion", j, p), R)
       /\ WinnerSucceeded(task, OfTask(I \cup {i}, "reduce", j, p), R)
  <2>1. OfTask(I \cup {i}, "promotion", j, p) = OfTask(I, "promotion", j, p)
    BY <1>4 DEF OfTask
  <2>2. OfTask(I, "promotion", j, p) = {}
    BY <1>7 DEF JobPhased, TasksPhased, WinnerIsPromoted
  <2> QED BY <1>8, <2>1, <2>2 DEF WinnerIsPromoted, WinnerSucceeded, Promoted
<1>11. TasksPhased(new, j, I \cup {i}, R)
  <2>1. s.jobs[j].status \notin {"Absent", "Queued"}
    BY DEF Running
  <2> QED BY <1>1, <1>6, <1>7, <1>8, <1>10, <2>1, ReduceTasksPhased
          DEF JobPhased
<1> HIDE DEF new
<1>12. Prompt(new)
  <2>1. ~AllPromoted(new) /\ ~Promoted(task)
    BY <1>8, <1>9 DEF AllPromoted, Promoted
  <2>2. Prompt(s.jobs[j]) /\ ~AllPromoted(s.jobs[j])
    BY <1>7 DEF JobPhased, AllPromoted
  <2> QED BY <1>9, <2>1, <2>2 DEF Prompt, Ready, AllMapped
<1>13. Phased([s.jobs EXCEPT ![j] = new], I \cup {i}, R)
  BY <1>1, <1>6, <1>11, <1>12, ReplacePhased DEF JobPhased
<1>14. JobKeepsDone(s.jobs[j], new)
  BY <1>9 DEF JobKeepsDone
<1>15. KeepsDone(s.jobs, [s.jobs EXCEPT ![j] = new])
  BY <1>1, <1>14, ReplaceKeepsDone
<1>16. \A x \in a.given : OffersWell(x, s.next, a.s.jobs)
  <2> DEFINE x == [phase |-> "reduce", job |-> j, task |-> p, id |-> s.next,
                   urls |-> CollectPartitionURLs(s.jobs, j, p),
                   allMaps |-> s.jobs[j].status = "Reducing"]
  <2>1. a.given = {x}
    BY GivenByGiveReduce, Zenon DEF a
  <2>2. /\ x.phase = "reduce" /\ x.id = s.next /\ x.job = j /\ x.task = p
        /\ x.urls = CollectPartitionURLs(s.jobs, j, p)
    BY Zenon
  <2>3. x.allMaps <=> s.jobs[j].status = "Reducing"
    BY Zenon
  <2> HIDE DEF x
  <2>4. a.s.jobs[j].maps = s.jobs[j].maps
    BY <1>1, <1>3, <1>9
  <2>5. /\ CollectPartitionURLs(a.s.jobs, j, p) =
             CollectPartitionURLs(s.jobs, j, p)
        /\ AllMapped(a.s.jobs[j]) <=> AllMapped(s.jobs[j])
    BY <2>4 DEF CollectPartitionURLs, AllMapped
  <2>6. s.jobs[j].status = "Reducing" => AllMapped(s.jobs[j])
    BY <1>7 DEF JobPhased, Prompt, Ready
  <2> QED BY <2>1, <2>2, <2>3, <2>5, <2>6 DEF OffersWell, Fits
<1>17. AssignsWell(s, a, w, I, R)
  BY <1>3, <1>5, <1>13, <1>15, <1>16 DEF AssignsWell
<1> QED BY <1>17 DEF a

LEMMA AssignReduceTaskPhased ==
  ASSUME NEW s, Sound(s), NEW I \in SUBSET Issues, NEW R,
         FreshIds(I, s.next), Phased(s.jobs, I, R),
         NEW j \in Jobs, Running(s.jobs[j]), NEW w \in Workers, NEW slow
  PROVE  AssignsWell(s, AssignReduceTask(s, j, w, slow), w, I, R)
<1> DEFINE idle == IdleReduces(s.jobs[j])
           late == SlowReduces(s.jobs[j], slow)
<1>1. ASSUME NEW S \in {idle, late}, S # {}
      PROVE  AssignsWell(s, GiveReduce(s, j, Min(S), w), w, I, R)
  <2>1. /\ S \in SUBSET Nat
        /\ \A p \in S : s.jobs[j].reduces[p].status # "Completed"
    <3>1. Partitions \subseteq Nat
      BY NumReduceTasksAssumption DEF Partitions
    <3>2. S \in SUBSET Partitions
      BY DEF IdleReduces, SlowReduces
    <3>3. \A p \in S : s.jobs[j].reduces[p].status \in {"Idle", "InProgress"}
      BY Zenon DEF IdleReduces, SlowReduces
    <3> QED BY <3>1, <3>2, <3>3
  <2>2. Min(S) \in S
    BY <1>1, <2>1, MinLemma
  <2>3. Min(S) \in Partitions
    BY <1>1, CandidatesLemma
  <2> QED BY <2>1, <2>2, <2>3, GiveReducePhased
<1>2. AdvanceJob(s, j) = s
  BY PromptAdvance DEF Phased, JobPhased
<1>3. AssignsWell(s, Nothing(AdvanceJob(s, j)), w, I, R)
  BY <1>2, NothingAssigns
<1> QED BY <1>1, <1>3 DEF AssignReduceTask

\* In the map phase a worker that gets no map task finds the phase unfinished.
LEMMA AssignMapTaskPhased ==
  ASSUME NEW s, Sound(s), NEW I \in SUBSET Issues, NEW R,
         FreshIds(I, s.next), Phased(s.jobs, I, R),
         NEW j \in Jobs, s.jobs[j].status = "Mapping", NEW w \in Workers,
         NEW slow
  PROVE  LET a == AssignMapTask(s, j, w, slow) IN
         AssignsWell(s, a, w, I, R) /\ (a.given = {} => a = Nothing(s))
<1> DEFINE idle == IdleMaps(s.jobs[j])
           late == SlowMaps(s.jobs[j], slow)
           a == AssignMapTask(s, j, w, slow)
<1>1. ASSUME NEW S \in {idle, late}, S # {}
      PROVE  /\ AssignsWell(s, GiveMap(s, j, Min(S), w), w, I, R)
             /\ GiveMap(s, j, Min(S), w).given # {}
  <2>1. S \in SUBSET Nat /\ \A m \in S : s.jobs[j].maps[m].status # "Completed"
    <3>1. MapTasks \subseteq Nat
      BY NumMapTasksAssumption DEF MapTasks
    <3>2. S \in SUBSET MapTasks
      BY DEF IdleMaps, SlowMaps
    <3>3. \A m \in S : s.jobs[j].maps[m].status \in {"Idle", "InProgress"}
      BY Zenon DEF IdleMaps, SlowMaps
    <3> QED BY <3>1, <3>2, <3>3
  <2>2. Min(S) \in S
    BY <1>1, <2>1, MinLemma
  <2>3. Min(S) \in MapTasks
    BY <1>1, CandidatesLemma
  <2>4. AssignsWell(s, GiveMap(s, j, Min(S), w), w, I, R)
    BY <2>1, <2>2, <2>3, GiveMapPhased DEF Running
  <2>5. GiveMap(s, j, Min(S), w).given # {}
    BY DEF GiveMap
  <2> QED BY <2>4, <2>5
<1>2. AdvanceJob(s, j) = s
  BY PromptAdvance DEF Phased, JobPhased
<1>3. a = IF idle # {} THEN GiveMap(s, j, Min(idle), w)
          ELSE IF late # {} THEN GiveMap(s, j, Min(late), w)
          ELSE Nothing(s)
  BY <1>2 DEF AssignMapTask
<1> HIDE DEF idle, late, a
<1>4. AssignsWell(s, Nothing(s), w, I, R)
  BY NothingAssigns
<1>5. AssignsWell(s, a, w, I, R) /\ (a.given = {} => a = Nothing(s))
  BY <1>1, <1>3, <1>4
<1> QED BY <1>5 DEF a

LEMMA AssignPromotionTaskPhased ==
  ASSUME NEW s, Sound(s), NEW I \in SUBSET Issues, NEW R,
         FreshIds(I, s.next), Phased(s.jobs, I, R),
         NEW j \in Jobs, s.jobs[j].status = "Reducing", NEW w \in Workers
  PROVE  AssignsWell(s, AssignPromotionTask(s, j), w, I, R)
<1> DEFINE S == PromotableTasks(s.jobs[j])
           p == Min(S)
           a == AssignPromotionTask(s, j)
           i == [phase |-> "promotion", job |-> j, task |-> p,
                 id |-> s.jobs[j].reduces[p].temp, worker |-> w]
<1>1. s.jobs[j] \in Job /\ s.jobs \in [Jobs -> Job]
  BY DEF Sound, State
<1>2. CASE S = {}
  <2>1. a = Nothing(s)
    BY <1>2 DEF AssignPromotionTask, Nothing
  <2> QED BY <2>1, NothingAssigns
<1>3. ASSUME S # {} PROVE AssignsWell(s, a, w, I, R)
  <2>1. S \in SUBSET Partitions /\ S \in SUBSET Nat
    BY NumReduceTasksAssumption DEF PromotableTasks, Partitions
  <2>2. p \in S
    BY <1>3, <2>1, MinLemma
  <2>3. /\ p \in Partitions /\ s.jobs[j].reduces[p].status = "Completed"
        /\ s.jobs[j].reduces[p].temp # NoObject
    BY <2>2 DEF PromotableTasks
  <2>4. /\ a.s = s /\ Handed(a, w) = {i}
        /\ \A x \in a.given : x.phase = "promotion"
    <3>1. a = [s |-> s,
               given |-> {[phase |-> "promotion", job |-> j, task |-> p,
                           id |-> s.jobs[j].reduces[p].temp,
                           urls |-> {}, allMaps |-> FALSE]}]
      BY <1>3 DEF AssignPromotionTask
    <3> HIDE DEF a, p
    <3> QED BY <3>1 DEF Handed, Issue
  <2>5. /\ i.phase = "promotion" /\ i.job = j /\ i.task = p
        /\ i.id = s.jobs[j].reduces[p].temp
    OBVIOUS
  <2> HIDE DEF i, a, p
  <2>6. FreshIds(I \cup {i}, s.next)
    BY <2>5 DEF FreshIds
  <2>7. Adds(I \cup {i}, I, "promotion", j, p)
    BY <2>5 DEF Adds
  <2> DEFINE old == s.jobs[j].reduces[p]
             K == OfTask(I, "promotion", j, p)
  <2>8. JobPhased(s.jobs[j], j, I, R)
    BY DEF Phased
  <2>9. /\ Accounted(old, OfTask(I, "reduce", j, p), R)
        /\ WinnerSucceeded(old, OfTask(I, "reduce", j, p), R)
        /\ WinnerIsPromoted(old, K, R)
    BY <2>3, <2>8 DEF JobPhased, TasksPhased
  <2>10. /\ OfTask(I \cup {i}, "reduce", j, p) = OfTask(I, "reduce", j, p)
         /\ OfTask(I \cup {i}, "promotion", j, p) = K \cup {i}
    BY <2>5 DEF OfTask
  <2>11. WinnerIsPromoted(old, K \cup {i}, R)
    <3>1. i.id = old.winner /\ old.status = "Completed"
      BY <2>3, <2>5, <2>9 DEF WinnerIsPromoted
    <3> HIDE DEF old, K
    <3> QED BY <2>9, <3>1 DEF WinnerIsPromoted
  <2> DEFINE n == s.jobs[j].reduceTimes
  <2>12. s.jobs[j] =
           [s.jobs[j] EXCEPT !.reduces[p] = old, !.reduceTimes = n]
    BY <1>1, <2>3 DEF Job
  <2>13. TasksPhased(s.jobs[j], j, I \cup {i}, R)
    <3>1. /\ Accounted(old, OfTask(I \cup {i}, "reduce", j, p), R)
          /\ WinnerSucceeded(old, OfTask(I \cup {i}, "reduce", j, p), R)
          /\ WinnerIsPromoted(old, OfTask(I \cup {i}, "promotion", j, p), R)
      BY <2>9, <2>10, <2>11
    <3>2. TasksPhased(s.jobs[j], j, I, R)
      BY <2>8 DEF JobPhased
    <3> DEFINE job == s.jobs[j]
               new == [job EXCEPT !.reduces[p] = old, !.reduceTimes = n]
               J == I \cup {i}
    <3>3. /\ job \in Job /\ TasksPhased(job, j, I, R)
          /\ job.status \notin {"Absent", "Queued"} /\ job.status # "Mapping"
          /\ job = new
      BY <1>1, <2>12, <3>2
    <3> HIDE DEF old, K, n, job, S, J
    <3>4. TasksPhased(new, j, J, R)
      BY <2>3, <2>7, <3>1, <3>3, ReduceTasksPhased DEF J
    <3> QED BY <3>3, <3>4 DEF job, J
  <2>14. JobPhased(s.jobs[j], j, I \cup {i}, R)
    BY <2>8, <2>13 DEF JobPhased
  <2>15. Phased([s.jobs EXCEPT ![j] = s.jobs[j]], I \cup {i}, R)
    BY <1>1, <2>7, <2>14, ReplacePhased
  <2>16. [s.jobs EXCEPT ![j] = s.jobs[j]] = s.jobs
    BY <1>1
  <2> QED BY <2>4, <2>6, <2>15, <2>16, KeepsDoneReflexive
          DEF AssignsWell, OffersWell
<1> QED BY <1>2, <1>3

\* The job that starts has been given to nobody.
LEMMA ActivateNextJobPhased ==
  ASSUME NEW s, Sound(s), s.active = None, NEW I, NEW R, Phased(s.jobs, I, R)
  PROVE  LET t == ActivateNextJob(s) IN
         /\ t.next = s.next /\ Phased(t.jobs, I, R) /\ KeepsDone(s.jobs, t.jobs)
<1> DEFINE runnable == {i \in 1 .. Len(s.queue) :
                     s.jobs[s.queue[i]].status \notin {"Absent", "Aborted"}}
           first == Min(runnable)
           j == s.queue[first]
           rest == SubSeq(s.queue, first + 1, Len(s.queue))
           job == [s.jobs[j] EXCEPT !.status = "Mapping"]
           t == ActivateNextJob(s)
<1>1. s \in State /\ s.jobs \in [Jobs -> Job] /\ s.queue \in Seq(Jobs)
  BY DEF Sound, State
<1>2. CASE runnable = {}
  <2>1. t = [s EXCEPT !.queue = <<>>]
    BY <1>2 DEF ActivateNextJob
  <2>2. t.next = s.next /\ t.jobs = s.jobs
    BY <1>1, <2>1 DEF State
  <2> QED BY <2>2, KeepsDoneReflexive
<1>3. ASSUME runnable # {}
      PROVE  /\ t.next = s.next /\ Phased(t.jobs, I, R)
             /\ KeepsDone(s.jobs, t.jobs)
  <2>1. first \in runnable
    <3>1. runnable \in SUBSET Nat
      BY <1>1
    <3> QED BY <1>3, <3>1, MinLemma
  <2>2. j \in Jobs /\ s.jobs[j].status = "Queued" /\ s.jobs[j] \in Job
    <3>1. /\ first \in 1 .. Len(s.queue)
          /\ s.jobs[j].status \notin {"Absent", "Aborted"}
      BY <2>1
    <3>2. NotStarted(s.jobs[j])
      BY <3>1 DEF Sound, QueueSound
    <3> HIDE DEF first
    <3>3. j \in Jobs
      BY <1>1, <3>1
    <3> QED BY <1>1, <3>1, <3>2, <3>3 DEF NotStarted
  <2>3. t = [s EXCEPT !.queue = rest, !.jobs[j].status = "Mapping",
                      !.active = j]
    BY <1>3 DEF ActivateNextJob
  <2> HIDE DEF runnable, first, j, rest, t
  <2>4. t.next = s.next /\ t.jobs = [s.jobs EXCEPT ![j] = job]
    <3>1. t.next = s.next /\ t.jobs = [s.jobs EXCEPT ![j].status = "Mapping"]
      BY <1>1, <2>3 DEF State
    <3> QED BY <1>1, <2>2, <3>1
  <2>5. /\ job.status = "Mapping" /\ job.maps = s.jobs[j].maps
        /\ job.reduces = s.jobs[j].reduces
    BY <2>2 DEF Job
  <2> HIDE DEF job
  <2>6. JobPhased(s.jobs[j], j, I, R)
    BY <2>2 DEF Phased
  <2>7. \A i \in I : i.job # j
    BY <2>2, <2>6 DEF JobPhased, TasksPhased
  <2>8. \A phase, u : OfTask(I, phase, j, u) = {}
    BY <2>7 DEF OfTask
  <2>9. TasksPhased(job, j, I, R)
    BY <2>5, <2>6, <2>7 DEF JobPhased, TasksPhased
  <2>10. /\ \A m \in MapTasks : job.maps[m].status # "Completed"
         /\ \A p \in Partitions : job.reduces[p].status # "Completed"
    BY <2>8, <2>9 DEF TasksPhased, Accounted
  <2>11. Prompt(job)
    <3>1. 1 \in MapTasks
      BY NumMapTasksAssumption DEF MapTasks
    <3>2. ~AllMapped(job)
      BY <2>10, <3>1 DEF AllMapped
    <3> QED BY <2>5, <2>10, <3>2 DEF Prompt, Ready, Promoted
  <2>12. Adds(I, I, "map", j, 1)
    BY DEF Adds
  <2>13. Phased([s.jobs EXCEPT ![j] = job], I, R)
    BY <1>1, <2>2, <2>9, <2>11, <2>12, ReplacePhased DEF JobPhased
  <2>14. JobKeepsDone(s.jobs[j], job)
    BY <2>5 DEF JobKeepsDone
  <2>15. KeepsDone(s.jobs, [s.jobs EXCEPT ![j] = job])
    BY <1>1, <2>2, <2>14, ReplaceKeepsDone
  <2> QED BY <2>4, <2>13, <2>15
<1> QED BY <1>2, <1>3

LEMMA AssignTaskPhased ==
  ASSUME NEW s, Sound(s), NEW I \in SUBSET Issues, NEW R,
         FreshIds(I, s.next), Phased(s.jobs, I, R), NEW w \in Workers, NEW slow
  PROVE  AssignsWell(s, AssignTask(s, w, slow), w, I, R)
<1> DEFINE ready == IF s.active = None THEN ActivateNextJob(s) ELSE s
           j == ready.active
           a == AssignTask(s, w, slow)
           mapping == AssignMapTask(ready, j, w, slow)
           promotion == AssignPromotionTask(ready, j)
           reduce == AssignReduceTask(ready, j, w, slow)
<1>1. /\ Sound(ready) /\ FreshIds(I, ready.next) /\ Phased(ready.jobs, I, R)
      /\ KeepsDone(s.jobs, ready.jobs) /\ ready.next = s.next
  <2>1. CASE s.active = None
    BY <2>1, ActivateNextJobSound, ActivateNextJobPhased
  <2>2. CASE s.active # None
    BY <2>2, KeepsDoneReflexive
  <2> QED BY <2>1, <2>2
<1>2. a = IF j = None THEN Nothing(ready) ELSE AssignFromJob(ready, j, w, slow)
  BY DEF AssignTask
<1> HIDE DEF ready, a
<1>3. AssignsWell(ready, a, w, I, R)
  <2>1. CASE j = None
    BY <1>1, <1>2, <2>1, NothingAssigns
  <2>2. CASE j # None
    <3>1. j \in Jobs /\ Running(ready.jobs[j])
      BY <1>1, <2>2 DEF Sound, State, OneRuns
    <3>2. AssignsWell(ready, reduce, w, I, R)
      BY <1>1, <3>1, AssignReduceTaskPhased
    <3>3. CASE ready.jobs[j].status = "Mapping"
      <4>1. /\ AssignsWell(ready, mapping, w, I, R)
            /\ mapping.given = {} => mapping = Nothing(ready)
        BY <1>1, <3>1, <3>3, AssignMapTaskPhased
      <4>2. a = IF mapping.given = {} /\ AnyMapTaskCompleted(ready.jobs[j])
                  THEN AssignReduceTask(mapping.s, j, w, slow)
                  ELSE mapping
        BY <1>2, <2>2, <3>3 DEF AssignFromJob
      <4>3. Nothing(ready).s = ready
        BY DEF Nothing
      <4> HIDE DEF mapping
      <4> QED BY <3>2, <4>1, <4>2, <4>3
    <3>4. CASE ready.jobs[j].status = "Reducing"
      <4>1. AssignsWell(ready, promotion, w, I, R)
        BY <1>1, <3>1, <3>4, AssignPromotionTaskPhased
      <4>2. a = IF promotion.given = {} THEN reduce ELSE promotion
        BY <1>2, <2>2, <3>4 DEF AssignFromJob
      <4> QED BY <3>2, <4>1, <4>2
    <3> QED BY <3>1, <3>3, <3>4 DEF Running
  <2> QED BY <2>1, <2>2
<1>4. AssignsWell(s, a, w, I, R)
  BY <1>1, <1>3, KeepsDoneTransitive DEF AssignsWell
<1> QED BY <1>4 DEF a

-----------------------------------------------------------------------------
(* Results: R has the one that is processed, the outcome o of k            *)

ResultKeeps(s, t, I, R) ==
  /\ t.next = s.next
  /\ Phased(t.jobs, I, R)
  /\ KeepsDone(s.jobs, t.jobs)

LEMMA SameKeeps ==
  ASSUME NEW s, NEW I, NEW R, Phased(s.jobs, I, R)
  PROVE  ResultKeeps(s, s, I, R)
BY KeepsDoneReflexive DEF ResultKeeps

\* A step that replaces a job whose phase is not over.
LEMMA ReplaceKeeps ==
  ASSUME NEW s \in State, NEW I, NEW R, Phased(s.jobs, I, R), NEW j \in Jobs,
         NEW new, JobPhased(new, j, I, R), JobKeepsDone(s.jobs[j], new)
  PROVE  ResultKeeps(s, [s EXCEPT !.jobs[j] = new], I, R)
<1>1. s.jobs \in [Jobs -> Job] /\ Adds(I, I, "map", j, 1)
  BY DEF State, Adds
<1>2. LET t == [s EXCEPT !.jobs[j] = new] IN
      t.next = s.next /\ t.jobs = [s.jobs EXCEPT ![j] = new]
  BY DEF State
<1>3. Phased([s.jobs EXCEPT ![j] = new], I, R)
  BY <1>1, ReplacePhased
<1>4. KeepsDone(s.jobs, [s.jobs EXCEPT ![j] = new])
  BY <1>1, ReplaceKeepsDone
<1> QED BY <1>2, <1>3, <1>4 DEF ResultKeeps

\* A step that replaces a job whose phase may be over.
LEMMA AdvanceKeeps ==
  ASSUME NEW s \in State, NEW I, NEW R, Phased(s.jobs, I, R), NEW j \in Jobs,
         NEW new \in Job, TasksPhased(new, j, I, R), Ready(new),
         JobKeepsDone(s.jobs[j], new)
  PROVE  ResultKeeps(s, AdvanceJob([s EXCEPT !.jobs[j] = new], j), I, R)
<1> DEFINE u == [s EXCEPT !.jobs[j] = new]
<1>1. u.next = s.next /\ u \in [jobs : [Jobs -> Job], active : Jobs \cup {None},
                                queue : Seq(Jobs), next : AttemptIds]
  BY DEF State
<1> HIDE DEF u
<1>2. AdvanceJob(u, j).next = s.next
  BY <1>1 DEF AdvanceJob
<1> QED BY <1>2, AdvanceJobPhased DEF ResultKeeps, u

LEMMA ProcessMapResultPhased ==
  ASSUME NEW s, Sound(s), NEW I \in SUBSET Issues, NEW R,
         Phased(s.jobs, I, R), FreshIds(I, s.next),
         NEW k \in I, k.phase = "map", NEW o \in Outcomes, <<k, o>> \in R,
         o = "FAILED" => OneOutcome(R),
         s.jobs[k.job].status \notin {"Absent", "Aborted", "Completed"},
         NEW w \in Workers
  PROVE  ResultKeeps(s, ProcessMapResult(s, w, Result(k, o)), I, R)
<1> DEFINE j == k.job
           m == k.task
           r == Result(k, o)
           job == s.jobs[j]
           task == job.maps[m]
           n == job.mapTimes
           K == OfTask(I, "map", j, m)
<1>1. /\ j \in Jobs /\ m \in MapTasks
      /\ r.job = j /\ r.task = m /\ r.id = k.id /\ r.outcome = o
  BY DEF Issues, Result
<1> HIDE DEF r
<1>2. /\ task \in MapTask /\ n \in 0 .. 2 /\ job \in Job /\ s \in State
  BY <1>1, TasksOf DEF Sound, State
<1>3. JobPhased(job, j, I, R)
  BY <1>1 DEF Phased
<1>4. /\ TasksPhased(job, j, I, R) /\ Prompt(job) /\ Accounted(task, K, R)
      /\ Adds(I, I, "map", j, m)
  BY <1>1, <1>3 DEF JobPhased, TasksPhased, Adds
<1>5. k \in K /\ \A i \in K : i.phase # "promotion" /\ (i.id = k.id => i = k)
  BY DEF OfTask, FreshIds
<1>6. job.status \in {"Mapping", "Reducing"}
  BY <1>2, <1>4 DEF TasksPhased, Job, JobStatus
<1>7. ASSUME NEW done, NEW times, NEW new \in Job, Accounted(done, K, R),
             task.status = "Completed" =>
               done.status = "Completed" /\ done.host = task.host,
             new = [job EXCEPT !.maps[m] = done, !.mapTimes = times]
      PROVE  /\ TasksPhased(new, j, I, R) /\ JobKeepsDone(job, new)
             /\ new.status = job.status /\ new.reduces = job.reduces
             /\ \A i \in MapTasks : new.maps[i] = IF i = m THEN done
                                                          ELSE job.maps[i]
  <2>1. /\ new.status = job.status /\ new.reduces = job.reduces
        /\ \A i \in MapTasks : new.maps[i] = IF i = m THEN done ELSE job.maps[i]
    BY <1>2, <1>7 DEF Job
  <2> HIDE DEF job, m, j
  <2>2. JobKeepsDone(job, new)
    BY <1>7, <2>1 DEF JobKeepsDone
  <2>3. job.status \notin {"Absent", "Queued"}
    BY <1>6
  <2> HIDE DEF K, task
  <2>4. TasksPhased(new, j, I, R)
    BY <1>1, <1>2, <1>4, <1>7, <2>3, MapTasksPhased DEF K
  <2> QED BY <2>1, <2>2, <2>4
<1>8. CASE o = "FAILED"
  <2> DEFINE dropped == DropAttempts(task, AttemptsNamed(task, k.id))
             new == [job EXCEPT !.maps[m] = dropped, !.mapTimes = n]
  <2>1. /\ Accounted(dropped, K, R)
        /\ dropped.status = "Completed" <=> task.status = "Completed"
        /\ dropped.host = task.host
    <3>1. "status" \in DOMAIN task /\ "attempts" \in DOMAIN task
      BY <1>2 DEF MapTask
    <3>2. dropped.host = task.host
      BY <1>2 DEF DropAttempts, MapTask
    <3> HIDE DEF task, K
    <3> QED BY <1>4, <1>5, <1>8, <3>1, <3>2, DropAccounted
  <2>2. new = [job EXCEPT !.maps[m] = dropped]
    <3> HIDE DEF dropped
    <3> QED BY <1>2 DEF Job
  <2>3. ProcessMapResult(s, w, r) = [s EXCEPT !.jobs[j] = new]
    BY <1>1, <1>8, <2>2 DEF ProcessMapResult
  <2>4. dropped \in MapTask
    BY <1>1, <1>2, TasksOf, DropAttemptsSound
  <2>5. new \in Job
    <3> HIDE DEF dropped
    <3> QED BY <1>1, <1>2, <2>4 DEF Job
  <2> HIDE DEF dropped, new, task, K
  <2>6. /\ TasksPhased(new, j, I, R) /\ JobKeepsDone(job, new)
        /\ new.status = job.status /\ new.reduces = job.reduces
        /\ \A i \in MapTasks : new.maps[i] = IF i = m THEN dropped
                                                     ELSE job.maps[i]
    <3>1. new = [job EXCEPT !.maps[m] = dropped, !.mapTimes = n]
      BY DEF new
    <3>2. task.status = "Completed" =>
            dropped.status = "Completed" /\ dropped.host = task.host
      BY <2>1
    <3> HIDE DEF job, m, j, n
    <3> QED BY <1>7, <2>1, <2>5, <3>1, <3>2
  <2>7. Prompt(new)
    <3>1. AllMapped(new) <=> AllMapped(job)
      BY <2>1, <2>6 DEF AllMapped, task
    <3>2. AllPromoted(new) <=> AllPromoted(job)
      BY <2>6 DEF AllPromoted
    <3> HIDE DEF job
    <3> QED BY <1>4, <2>6, <3>1, <3>2 DEF Prompt, Ready
  <2>8. ResultKeeps(s, [s EXCEPT !.jobs[j] = new], I, R)
    BY <1>1, <1>2, <2>6, <2>7, ReplaceKeeps DEF JobPhased
  <2> QED BY <2>3, <2>8 DEF r
<1>9. CASE o # "FAILED" /\ task.status = "Completed"
  <2>1. ProcessMapResult(s, w, r) = s
    BY <1>1, <1>9 DEF ProcessMapResult
  <2> QED BY <2>1, SameKeeps DEF r
<1>10. CASE o # "FAILED" /\ task.status # "Completed"
  <2> DEFINE complete == [task EXCEPT !.status = "Completed", !.host = w]
             count == CountCompletion(n, task, k.id)
             new == [job EXCEPT !.maps[m] = complete, !.mapTimes = count]
             u == [s EXCEPT !.jobs[j].maps[m] = complete,
                            !.jobs[j].mapTimes = count]
             t == [s EXCEPT !.jobs[j] = new]
  <2>1. /\ complete \in MapTask /\ complete.status = "Completed"
        /\ complete.attempts = task.attempts
    BY <1>2 DEF MapTask, TaskStatus
  <2>2. count \in 0 .. 2
    BY <1>2 DEF CountCompletion
  <2>3. ProcessMapResult(s, w, r) = AdvanceJob(u, j)
    BY <1>1, <1>10 DEF ProcessMapResult
  <2>4. Accounted(complete, K, R)
    <3>1. o = "SUCCESS"
      BY <1>10 DEF Outcomes
    <3> HIDE DEF complete, K, task
    <3> QED BY <1>4, <1>5, <2>1, <3>1 DEF Accounted
  <2> HIDE DEF complete, count
  <2>5. u = t
    BY <1>1, <1>2 DEF State, Job
  <2>6. new \in Job
    BY <1>1, <1>2, <2>1, <2>2 DEF Job
  <2> HIDE DEF new, u, t, task, K
  <2>7. /\ TasksPhased(new, j, I, R) /\ JobKeepsDone(job, new)
        /\ new.status = job.status /\ new.reduces = job.reduces
    <3>1. new = [job EXCEPT !.maps[m] = complete, !.mapTimes = count]
      BY DEF new
    <3>2. task.status # "Completed"
      BY <1>10 DEF task
    <3> HIDE DEF job, m, j
    <3> QED BY <1>7, <2>4, <2>6, <3>1, <3>2
  <2>8. Ready(new)
    <3>1. job.status = "Mapping"
      BY <1>1, <1>4, <1>6, <1>10 DEF Prompt, Ready, AllMapped, task
    <3> QED BY <1>4, <2>7, <3>1 DEF Prompt, Ready
  <2>9. ResultKeeps(s, AdvanceJob(t, j), I, R)
    BY <1>1, <1>2, <2>6, <2>7, <2>8, AdvanceKeeps DEF t
  <2> QED BY <2>3, <2>5, <2>9 DEF r
<1> QED BY <1>8, <1>9, <1>10

\* What the two kinds of results of a reduce task do to the rest of its job.
LEMMA ReduceResultPhased ==
  ASSUME NEW job, NEW j, NEW I, NEW R, TasksPhased(job, j, I, R),
         NEW p \in Partitions,
         NEW done, Accounted(done, OfTask(I, "reduce", j, p), R),
         WinnerSucceeded(done, OfTask(I, "reduce", j, p), R),
         WinnerIsPromoted(done, OfTask(I, "promotion", j, p), R),
         job.reduces[p].status = "Completed" =>
           /\ done.status = "Completed"
           /\ done.temp \in {job.reduces[p].temp, NoObject},
         NEW new, new.status = job.status, new.maps = job.maps,
         \A q \in Partitions :
           new.reduces[q] = IF q = p THEN done ELSE job.reduces[q]
  PROVE  TasksPhased(new, j, I, R) /\ JobKeepsDone(job, new)
<1>1. JobKeepsDone(job, new)
  BY DEF JobKeepsDone
<1>2. ASSUME NEW q \in Partitions
      PROVE  /\ Accounted(new.reduces[q], OfTask(I, "reduce", j, q), R)
             /\ WinnerSucceeded(new.reduces[q], OfTask(I, "reduce", j, q), R)
             /\ WinnerIsPromoted(new.reduces[q],
                                 OfTask(I, "promotion", j, q), R)
  <2>1. CASE q = p
    BY <2>1
  <2>2. CASE q # p
    BY <2>2 DEF TasksPhased
  <2> QED BY <2>1, <2>2
<1>3. TasksPhased(new, j, I, R)
  BY <1>2 DEF TasksPhased
<1> QED BY <1>1, <1>3

LEMMA ProcessReduceResultPhased ==
  ASSUME NEW s, Sound(s), NEW I \in SUBSET Issues, NEW R,
         Phased(s.jobs, I, R), FreshIds(I, s.next),
         NEW k \in I, k.phase = "reduce", NEW o \in Outcomes, <<k, o>> \in R,
         o = "FAILED" => OneOutcome(R),
         s.jobs[k.job].status \notin {"Absent", "Aborted", "Completed"}
  PROVE  ResultKeeps(s, ProcessReduceResult(s, Result(k, o)), I, R)
<1> DEFINE j == k.job
           p == k.task
           r == Result(k, o)
           job == s.jobs[j]
           task == job.reduces[p]
           n == job.reduceTimes
           K == OfTask(I, "reduce", j, p)
           promotions == OfTask(I, "promotion", j, p)
<1>1. /\ j \in Jobs /\ p \in Partitions
      /\ r.job = j /\ r.task = p /\ r.id = k.id /\ r.outcome = o
      /\ k.id \in Nat /\ k.id # NoObject
  BY DEF Issues, Result, AttemptIds
<1> HIDE DEF r
<1>2. /\ task \in ReduceTask /\ n \in 0 .. 2 /\ job \in Job /\ s \in State
  BY <1>1, TasksOf DEF Sound, State
<1>3. JobPhased(job, j, I, R)
  BY <1>1 DEF Phased
<1>4. /\ TasksPhased(job, j, I, R) /\ Prompt(job) /\ Accounted(task, K, R)
      /\ WinnerSucceeded(task, K, R) /\ WinnerIsPromoted(task, promotions, R)
  BY <1>1, <1>3 DEF JobPhased, TasksPhased
<1>5. k \in K /\ \A i \in K : i.phase # "promotion" /\ (i.id = k.id => i = k)
  BY DEF OfTask, FreshIds
<1>6. job.status \in {"Mapping", "Reducing"}
  BY <1>2, <1>4 DEF TasksPhased, Job, JobStatus
<1>7. CASE o = "FAILED"
  <2> DEFINE dropped == DropAttempts(task, AttemptsNamed(task, k.id))
             new == [job EXCEPT !.reduces[p] = dropped, !.reduceTimes = n]
  <2>1. /\ Accounted(dropped, K, R)
        /\ dropped.status = "Completed" <=> task.status = "Completed"
    <3>1. "status" \in DOMAIN task /\ "attempts" \in DOMAIN task
      BY <1>2 DEF ReduceTask
    <3> HIDE DEF task, K
    <3> QED BY <1>4, <1>5, <1>7, <3>1, DropAccounted
  <2>2. new = [job EXCEPT !.reduces[p] = dropped]
    <3> HIDE DEF dropped
    <3> QED BY <1>2 DEF Job
  <2>3. ProcessReduceResult(s, r) = [s EXCEPT !.jobs[j] = new]
    BY <1>1, <1>7, <2>2 DEF ProcessReduceResult
  <2>4. dropped.winner = task.winner /\ dropped.temp = task.temp
    BY <1>2 DEF DropAttempts, ReduceTask
  <2> HIDE DEF dropped, new, task, K, promotions
  <2>5. /\ WinnerSucceeded(dropped, K, R)
        /\ WinnerIsPromoted(dropped, promotions, R)
        /\ Promoted(dropped) <=> Promoted(task)
    BY <1>4, <2>1, <2>4 DEF WinnerSucceeded, WinnerIsPromoted, Promoted
  <2>6. /\ TasksPhased(new, j, I, R) /\ JobKeepsDone(job, new)
        /\ new.status = job.status /\ new.maps = job.maps
        /\ \A q \in Partitions : new.reduces[q] = IF q = p THEN dropped
                                                  ELSE job.reduces[q]
    <3>1. /\ new.status = job.status /\ new.maps = job.maps
          /\ \A q \in Partitions :
               new.reduces[q] = IF q = p THEN dropped ELSE job.reduces[q]
      BY <1>2 DEF new, Job
    <3>2. /\ Accounted(dropped, OfTask(I, "reduce", j, p), R)
          /\ WinnerSucceeded(dropped, OfTask(I, "reduce", j, p), R)
          /\ WinnerIsPromoted(dropped, OfTask(I, "promotion", j, p), R)
          /\ job.reduces[p].status = "Completed" =>
               /\ dropped.status = "Completed"
               /\ dropped.temp \in {job.reduces[p].temp, NoObject}
      BY <2>1, <2>4, <2>5 DEF K, promotions, task
    <3> HIDE DEF job, j, p, new
    <3> QED BY <1>1, <1>4, <3>1, <3>2, ReduceResultPhased
  <2>7. Prompt(new)
    <3>1. \A q \in Partitions :
            Promoted(new.reduces[q]) <=> Promoted(job.reduces[q])
      BY <2>5, <2>6 DEF task
    <3>2. AllPromoted(new) <=> AllPromoted(job)
      BY <3>1 DEF AllPromoted, Promoted
    <3>3. AllMapped(new) <=> AllMapped(job)
      BY <2>6 DEF AllMapped
    <3> HIDE DEF job
    <3> QED BY <1>4, <2>6, <3>1, <3>2, <3>3 DEF Prompt, Ready
  <2>8. ResultKeeps(s, [s EXCEPT !.jobs[j] = new], I, R)
    BY <1>1, <1>2, <2>6, <2>7, ReplaceKeeps DEF JobPhased
  <2> QED BY <2>3, <2>8 DEF r
<1>8. CASE o # "FAILED" /\ task.status = "Completed"
  <2>1. ProcessReduceResult(s, r) = s
    BY <1>1, <1>8 DEF ProcessReduceResult
  <2> QED BY <2>1, SameKeeps DEF r
<1>9. CASE o # "FAILED" /\ task.status # "Completed"
  <2> DEFINE complete == [task EXCEPT !.status = "Completed",
                                      !.winner = k.id, !.temp = k.id]
             count == CountCompletion(n, task, k.id)
             new == [job EXCEPT !.reduces[p] = complete, !.reduceTimes = count]
             u == [s EXCEPT !.jobs[j].reduces[p] = complete,
                            !.jobs[j].reduceTimes = count]
             t == [s EXCEPT !.jobs[j] = new]
  <2>1. /\ complete \in ReduceTask /\ complete.status = "Completed"
        /\ complete.attempts = task.attempts
        /\ complete.winner = k.id /\ complete.temp = k.id
    BY <1>1, <1>2 DEF ReduceTask, TaskStatus
  <2>2. count \in 0 .. 2
    BY <1>2 DEF CountCompletion
  <2>3. ProcessReduceResult(s, r) = AdvanceJob(u, j)
    BY <1>1, <1>9 DEF ProcessReduceResult
  <2> HIDE DEF complete, count
  <2>4. u = t
    BY <1>1, <1>2 DEF State, Job
  <2>5. new \in Job
    BY <1>1, <1>2, <2>1, <2>2 DEF Job
  <2> HIDE DEF new, u, t, task, K, promotions
  <2>6. Accounted(complete, K, R)
    <3>1. o = "SUCCESS"
      BY <1>9 DEF Outcomes
    <3> QED BY <1>4, <1>5, <2>1, <3>1 DEF Accounted
  <2>7. /\ WinnerSucceeded(complete, K, R)
        /\ WinnerIsPromoted(complete, promotions, R) /\ ~Promoted(complete)
    <3>1. o = "SUCCESS"
      BY <1>9 DEF Outcomes
    <3> QED BY <1>1, <1>4, <1>5, <1>9, <2>1, <3>1
            DEF WinnerSucceeded, WinnerIsPromoted, Promoted
  <2>8. /\ TasksPhased(new, j, I, R) /\ JobKeepsDone(job, new)
        /\ new.status = job.status /\ new.maps = job.maps
        /\ \A q \in Partitions : new.reduces[q] = IF q = p THEN complete
                                                  ELSE job.reduces[q]
    <3>1. /\ new.status = job.status /\ new.maps = job.maps
          /\ \A q \in Partitions :
               new.reduces[q] = IF q = p THEN complete ELSE job.reduces[q]
      BY <1>2 DEF new, Job
    <3>2. /\ Accounted(complete, OfTask(I, "reduce", j, p), R)
          /\ WinnerSucceeded(complete, OfTask(I, "reduce", j, p), R)
          /\ WinnerIsPromoted(complete, OfTask(I, "promotion", j, p), R)
          /\ job.reduces[p].status # "Completed"
      BY <1>9, <2>1, <2>6, <2>7 DEF K, promotions, task
    <3> HIDE DEF job, j, p, new
    <3> QED BY <1>1, <1>4, <3>1, <3>2, ReduceResultPhased
  <2>9. Ready(new)
    <3> HIDE DEF job
    <3> QED BY <1>4, <1>6, <2>7, <2>8 DEF Prompt, Ready, AllMapped
  <2>10. ResultKeeps(s, AdvanceJob(t, j), I, R)
    BY <1>1, <1>2, <2>5, <2>8, <2>9, AdvanceKeeps DEF t
  <2> QED BY <2>3, <2>4, <2>10 DEF r
<1> QED BY <1>7, <1>8, <1>9

LEMMA ProcessPromotionResultPhased ==
  ASSUME NEW s, Sound(s), NEW I \in SUBSET Issues, NEW R,
         Phased(s.jobs, I, R),
         NEW k \in I, k.phase = "promotion", NEW o \in Outcomes, <<k, o>> \in R,
         s.jobs[k.job].status \notin {"Absent", "Aborted", "Completed"}
  PROVE  ResultKeeps(s, ProcessPromotionResult(s, Result(k, o)), I, R)
<1> DEFINE j == k.job
           p == k.task
           r == Result(k, o)
           job == s.jobs[j]
           task == job.reduces[p]
           n == job.reduceTimes
           K == OfTask(I, "reduce", j, p)
           promotions == OfTask(I, "promotion", j, p)
<1>1. /\ j \in Jobs /\ p \in Partitions
      /\ r.job = j /\ r.task = p /\ r.outcome = o
  BY DEF Issues, Result
<1> HIDE DEF r
<1>2. /\ task \in ReduceTask /\ n \in 0 .. 2 /\ job \in Job /\ s \in State
  BY <1>1, TasksOf DEF Sound, State
<1>3. JobPhased(job, j, I, R)
  BY <1>1 DEF Phased
<1>4. /\ TasksPhased(job, j, I, R) /\ Prompt(job) /\ Accounted(task, K, R)
      /\ WinnerSucceeded(task, K, R) /\ WinnerIsPromoted(task, promotions, R)
  BY <1>1, <1>3 DEF JobPhased, TasksPhased
<1>5. k \in promotions /\ task.status = "Completed" /\ k.id = task.winner
  <2>1. k \in promotions
    BY DEF OfTask
  <2> QED BY <1>4, <2>1 DEF WinnerIsPromoted
<1>6. job.status = "Reducing"
  BY <1>2, <1>4 DEF TasksPhased, Job, JobStatus
<1>7. CASE o = "FAILED"
  <2>1. ProcessPromotionResult(s, r) = s
    BY <1>1, <1>7 DEF ProcessPromotionResult
  <2> QED BY <2>1, SameKeeps DEF r
<1>8. CASE o # "FAILED"
  <2> DEFINE complete == [task EXCEPT !.temp = NoObject]
             new == [job EXCEPT !.reduces[p] = complete, !.reduceTimes = n]
             u == [s EXCEPT !.jobs[j].reduces[p].temp = NoObject]
             t == [s EXCEPT !.jobs[j] = new]
  <2>1. /\ complete \in ReduceTask /\ complete.status = task.status
        /\ complete.attempts = task.attempts
        /\ complete.winner = task.winner /\ complete.temp = NoObject
    BY <1>2 DEF ReduceTask, NoObject
  <2>2. ProcessPromotionResult(s, r) = AdvanceJob(u, j)
    BY <1>1, <1>8 DEF ProcessPromotionResult
  <2>3. u = t
    <3>1. new = [job EXCEPT !.reduces[p].temp = NoObject]
      BY <1>2 DEF Job
    <3> QED BY <3>1
  <2> HIDE DEF complete
  <2>4. new \in Job
    BY <1>1, <1>2, <2>1 DEF Job
  <2> HIDE DEF new, u, t, task, K, promotions
  <2>5. Accounted(complete, K, R)
    BY <1>4, <2>1 DEF Accounted
  <2>6. WinnerSucceeded(complete, K, R) /\ WinnerIsPromoted(complete, promotions, R)
    <3>1. <<k, "SUCCESS">> \in R
      BY <1>8 DEF Outcomes
    <3> QED BY <1>4, <1>5, <2>1, <3>1 DEF WinnerSucceeded, WinnerIsPromoted
  <2>7. /\ TasksPhased(new, j, I, R) /\ JobKeepsDone(job, new)
        /\ new.status = job.status /\ new.maps = job.maps
    <3>1. /\ new.status = job.status /\ new.maps = job.maps
          /\ \A q \in Partitions :
               new.reduces[q] = IF q = p THEN complete ELSE job.reduces[q]
      BY <1>2 DEF new, Job
    <3>2. /\ Accounted(complete, OfTask(I, "reduce", j, p), R)
          /\ WinnerSucceeded(complete, OfTask(I, "reduce", j, p), R)
          /\ WinnerIsPromoted(complete, OfTask(I, "promotion", j, p), R)
          /\ job.reduces[p].status = "Completed" =>
               /\ complete.status = "Completed"
               /\ complete.temp \in {job.reduces[p].temp, NoObject}
      BY <2>1, <2>5, <2>6 DEF K, promotions, task
    <3> HIDE DEF job, j, p, new
    <3> QED BY <1>1, <1>4, <3>1, <3>2, ReduceResultPhased
  <2>8. Ready(new)
    <3> HIDE DEF job
    <3> QED BY <1>4, <1>6, <2>7 DEF Prompt, Ready, AllMapped
  <2>9. ResultKeeps(s, AdvanceJob(t, j), I, R)
    BY <1>1, <1>2, <2>4, <2>7, <2>8, AdvanceKeeps DEF t
  <2> QED BY <2>2, <2>3, <2>9 DEF r
<1> QED BY <1>7, <1>8

LEMMA ProcessResultPhased ==
  ASSUME NEW s, Sound(s), NEW I \in SUBSET Issues, NEW R,
         Phased(s.jobs, I, R), FreshIds(I, s.next),
         NEW k \in I, NEW o \in Outcomes, <<k, o>> \in R,
         o = "FAILED" => OneOutcome(R), NEW w \in Workers
  PROVE  ResultKeeps(s, ProcessResult(s, w, Result(k, o)), I, R)
<1>1. /\ k.phase \in {"map", "reduce", "promotion"}
      /\ Result(k, o).phase = k.phase /\ Result(k, o).job = k.job
  BY DEF Issues, Result
<1>2. CASE s.jobs[k.job].status \in {"Absent", "Aborted", "Completed"}
  BY <1>1, <1>2, SameKeeps DEF ProcessResult
<1>3. CASE s.jobs[k.job].status \notin {"Absent", "Aborted", "Completed"}
  <2>1. CASE k.phase = "map"
    BY <1>1, <1>3, <2>1, ProcessMapResultPhased DEF ProcessResult
  <2>2. CASE k.phase = "reduce"
    BY <1>1, <1>3, <2>2, ProcessReduceResultPhased DEF ProcessResult
  <2>3. CASE k.phase = "promotion"
    BY <1>1, <1>3, <2>3, ProcessPromotionResultPhased DEF ProcessResult
  <2> QED BY <1>1, <2>1, <2>2, <2>3
<1> QED BY <1>2, <1>3

-----------------------------------------------------------------------------
(* The steps of the system                                                 *)

\* A task that has not been given to anyone is not completed.
LEMMA NotIssued ==
  ASSUME NEW job, NEW j, NEW I, NEW R, TasksPhased(job, j, I, R),
         \A i \in I : i.job # j
  PROVE  /\ \A m \in MapTasks : job.maps[m].status # "Completed"
         /\ \A p \in Partitions : job.reduces[p].status # "Completed"
<1>1. \A phase, t : OfTask(I, phase, j, t) = {}
  BY DEF OfTask
<1> QED BY <1>1 DEF TasksPhased, Accounted

LEMMA MoreResults ==
  ASSUME NEW js, NEW I, NEW R, NEW Q, R \subseteq Q, Phased(js, I, R)
  PROVE  Phased(js, I, Q)
<1>1. \A task, K : Accounted(task, K, R) => Accounted(task, K, Q)
  BY DEF Accounted
<1>2. \A task, K : WinnerIsPromoted(task, K, R) => WinnerIsPromoted(task, K, Q)
  BY DEF WinnerIsPromoted
<1>3. \A task, K : WinnerSucceeded(task, K, R) => WinnerSucceeded(task, K, Q)
  BY DEF WinnerSucceeded
<1> QED BY <1>1, <1>2, <1>3 DEF Phased, JobPhased, TasksPhased

\* A result that counts has had its effect, unless its job has ended first.
Credited(js, k) ==
  /\ k.phase = "map" => js[k.job].maps[k.task].status = "Completed"
  /\ k.phase # "map" => js[k.job].reduces[k.task].status = "Completed"
  /\ k.phase = "promotion" => js[k.job].reduces[k.task].temp = NoObject

LEMMA CreditStays ==
  ASSUME NEW js, NEW new, KeepsDone(js, new), NEW k \in Issues, Credited(js, k)
  PROVE  Credited(new, k)
<1>1. /\ k.job \in Jobs
      /\ k.phase = "map" => k.task \in MapTasks
      /\ k.phase # "map" => k.task \in Partitions
  BY DEF Issues
<1>2. JobKeepsDone(js[k.job], new[k.job])
  BY <1>1 DEF KeepsDone
<1> QED BY <1>1, <1>2 DEF JobKeepsDone, Credited

LEMMA AdvanceKeepsTasks ==
  ASSUME NEW s, NEW j, s \in State, NEW k \in Jobs
  PROVE  /\ AdvanceJob(s, j).jobs[k].maps = s.jobs[k].maps
         /\ AdvanceJob(s, j).jobs[k].reduces = s.jobs[k].reduces
<1>1. s.jobs \in [Jobs -> Job] /\ s.jobs[k] \in Job
  BY DEF State
<1>2. /\ AdvanceJob(s, j).jobs[k] \in
           {s.jobs[k], [s.jobs[k] EXCEPT !.status = "Reducing"],
            [s.jobs[k] EXCEPT !.status = "Completed"]}
  BY <1>1 DEF AdvanceJob, State
<1> QED BY <1>1, <1>2 DEF Job

LEMMA ProcessResultCredits ==
  ASSUME NEW s, Sound(s), NEW I \in SUBSET Issues, NEW R, Phased(s.jobs, I, R),
         NEW k \in I, Running(s.jobs[k.job]), NEW w \in Workers
  PROVE  Credited(ProcessResult(s, w, Result(k, "SUCCESS")).jobs, k)
<1> DEFINE j == k.job
           t == k.task
           r == Result(k, "SUCCESS")
           job == s.jobs[j]
<1>1. /\ j \in Jobs /\ k.phase \in {"map", "reduce", "promotion"}
      /\ k.phase = "map" => t \in MapTasks
      /\ k.phase # "map" => t \in Partitions
      /\ r.job = j /\ r.task = t /\ r.id = k.id /\ r.outcome = "SUCCESS"
      /\ r.phase = k.phase /\ k.id \in Nat
  BY DEF Issues, Result, AttemptIds
<1> HIDE DEF r
<1>2. /\ s \in State /\ s.jobs \in [Jobs -> Job] /\ job \in Job
      /\ job.mapTimes \in 0 .. 2 /\ job.reduceTimes \in 0 .. 2
  BY <1>1 DEF Sound, State, Job
<1>3. /\ job.status \notin {"Absent", "Aborted", "Completed"}
      /\ JobPhased(job, j, I, R)
  BY <1>1 DEF Running, Phased
<1>4. ASSUME NEW new \in Job
      PROVE  LET u == [s EXCEPT !.jobs[j] = new] IN
             /\ u \in State
             /\ AdvanceJob(u, j).jobs[j].maps = new.maps
             /\ AdvanceJob(u, j).jobs[j].reduces = new.reduces
  <2> DEFINE u == [s EXCEPT !.jobs[j] = new]
  <2>1. u \in State /\ u.jobs[j] = new
    BY <1>1, <1>2 DEF State
  <2> HIDE DEF u
  <2>2. /\ AdvanceJob(u, j).jobs[j].maps = new.maps
        /\ AdvanceJob(u, j).jobs[j].reduces = new.reduces
    BY <1>1, <2>1, AdvanceKeepsTasks
  <2> QED BY <2>1, <2>2 DEF u
<1>5. CASE k.phase = "map"
  <2> DEFINE task == job.maps[t]
             done == [task EXCEPT !.status = "Completed", !.host = w]
             count == CountCompletion(job.mapTimes, task, k.id)
             new == [job EXCEPT !.maps[t] = done, !.mapTimes = count]
             u == [s EXCEPT !.jobs[j] = new]
  <2>1. task \in MapTask
    BY <1>1, <1>2, <1>5 DEF Job
  <2>2. ProcessResult(s, w, r) = IF task.status = "Completed" THEN s
                                 ELSE AdvanceJob(u, j)
    <3>1. ProcessResult(s, w, r) =
            IF task.status = "Completed" THEN s
            ELSE AdvanceJob([s EXCEPT !.jobs[j].maps[t] = done,
                                      !.jobs[j].mapTimes = count], j)
      BY <1>1, <1>3, <1>5 DEF ProcessResult, ProcessMapResult
    <3> HIDE DEF done, count
    <3>2. [s EXCEPT !.jobs[j].maps[t] = done, !.jobs[j].mapTimes = count] = u
      BY <1>1, <1>2 DEF State, Job
    <3> QED BY <3>1, <3>2
  <2>3. done \in MapTask /\ done.status = "Completed" /\ count \in 0 .. 2
    <3>1. done \in MapTask /\ done.status = "Completed"
      BY <2>1 DEF MapTask
    <3>2. count \in 0 .. 2
      BY <1>2 DEF CountCompletion
    <3> QED BY <3>1, <3>2
  <2> HIDE DEF done, count
  <2>4. new \in Job /\ new.maps[t] = done
    BY <1>1, <1>2, <1>5, <2>3 DEF Job
  <2> HIDE DEF new
  <2>5. AdvanceJob(u, j).jobs[j].maps = new.maps
    BY <1>4, <2>4
  <2> HIDE DEF u
  <2>6. ProcessResult(s, w, r).jobs[j].maps[t].status = "Completed"
    BY <2>2, <2>3, <2>4, <2>5
  <2> QED BY <1>5, <2>6 DEF Credited, r
<1>6. CASE k.phase = "reduce"
  <2> DEFINE task == job.reduces[t]
             done == [task EXCEPT !.status = "Completed",
                                  !.winner = k.id, !.temp = k.id]
             count == CountCompletion(job.reduceTimes, task, k.id)
             new == [job EXCEPT !.reduces[t] = done, !.reduceTimes = count]
             u == [s EXCEPT !.jobs[j] = new]
  <2>1. task \in ReduceTask
    BY <1>1, <1>2, <1>6 DEF Job
  <2>2. ProcessResult(s, w, r) = IF task.status = "Completed" THEN s
                                 ELSE AdvanceJob(u, j)
    <3>1. ProcessResult(s, w, r) =
            IF task.status = "Completed" THEN s
            ELSE AdvanceJob([s EXCEPT !.jobs[j].reduces[t] = done,
                                      !.jobs[j].reduceTimes = count], j)
      BY <1>1, <1>3, <1>6 DEF ProcessResult, ProcessReduceResult
    <3> HIDE DEF done, count
    <3>2. [s EXCEPT !.jobs[j].reduces[t] = done,
                    !.jobs[j].reduceTimes = count] = u
      BY <1>1, <1>2 DEF State, Job
    <3> QED BY <3>1, <3>2
  <2>3. done \in ReduceTask /\ done.status = "Completed" /\ count \in 0 .. 2
    <3>1. done \in ReduceTask /\ done.status = "Completed"
      BY <1>1, <2>1 DEF ReduceTask, TaskStatus
    <3>2. count \in 0 .. 2
      BY <1>2 DEF CountCompletion
    <3> QED BY <3>1, <3>2
  <2> HIDE DEF done, count
  <2>4. new \in Job /\ new.reduces[t] = done
    BY <1>1, <1>2, <1>6, <2>3 DEF Job
  <2> HIDE DEF new
  <2>5. AdvanceJob(u, j).jobs[j].reduces = new.reduces
    BY <1>4, <2>4
  <2> HIDE DEF u
  <2>6. ProcessResult(s, w, r).jobs[j].reduces[t].status = "Completed"
    BY <2>2, <2>3, <2>4, <2>5
  <2> QED BY <1>6, <2>6 DEF Credited, r
<1>7. CASE k.phase = "promotion"
  <2> DEFINE task == job.reduces[t]
             done == [task EXCEPT !.temp = NoObject]
             new == [job EXCEPT !.reduces[t] = done]
             u == [s EXCEPT !.jobs[j] = new]
  <2>1. task \in ReduceTask
    BY <1>1, <1>2, <1>7 DEF Job
  <2>2. task.status = "Completed"
    <3>1. k \in OfTask(I, "promotion", j, t)
      BY <1>7 DEF OfTask
    <3>2. WinnerIsPromoted(task, OfTask(I, "promotion", j, t), R)
      BY <1>1, <1>3, <1>7 DEF JobPhased, TasksPhased
    <3> QED BY <3>1, <3>2 DEF WinnerIsPromoted
  <2>3. ProcessResult(s, w, r) = AdvanceJob(u, j)
    <3>1. ProcessResult(s, w, r) =
            AdvanceJob([s EXCEPT !.jobs[j].reduces[t].temp = NoObject], j)
      BY <1>1, <1>3, <1>7 DEF ProcessResult, ProcessPromotionResult
    <3>2. [s EXCEPT !.jobs[j].reduces[t].temp = NoObject] = u
      BY <1>1, <1>2, <1>7, <2>1 DEF State, Job, ReduceTask
    <3> QED BY <3>1, <3>2
  <2>4. /\ done \in ReduceTask /\ done.status = "Completed"
        /\ done.temp = NoObject
    BY <2>1, <2>2 DEF ReduceTask, NoObject
  <2> HIDE DEF done
  <2>5. new \in Job /\ new.reduces[t] = done
    BY <1>1, <1>2, <1>7, <2>4 DEF Job
  <2> HIDE DEF new
  <2>6. AdvanceJob(u, j).jobs[j].reduces = new.reduces
    BY <1>4, <2>5
  <2> HIDE DEF u
  <2>7. /\ ProcessResult(s, w, r).jobs[j].reduces[t].status = "Completed"
        /\ ProcessResult(s, w, r).jobs[j].reduces[t].temp = NoObject
    BY <2>3, <2>4, <2>5, <2>6
  <2> QED BY <1>7, <2>7 DEF Credited, r
<1> QED BY <1>1, <1>5, <1>6, <1>7

\* A heartbeat with a result that, if it is a failure, fits what is known of its
\* attempt.
LEMMA ExchangePhased ==
  ASSUME IInv, NEW R, FreshIds(issued, nextAttempt), Phased(jobs, issued, R),
         NEW w \in Workers, NEW idle \in BOOLEAN, NEW slow,
         NEW i, NEW report, NEW result,
         \/ report = {} /\ result = None
         \/ \E k \in issued, o \in Outcomes :
              report = {<<k, o>>} /\ result = Result(k, o),
         \A k : <<k, "FAILED">> \in report => OneOutcome(R \cup report),
         Exchange(w, idle, i, report, result, slow)
  PROVE  /\ FreshIds(issued', nextAttempt')
         /\ Phased(jobs', issued', R \cup report)
         /\ KeepsDone(jobs, jobs')
         /\ \A x \in Heard(w, idle, result, slow).given :
              OffersWell(x, nextAttempt, jobs')
         /\ \A k \in issued :
              /\ report = {<<k, "SUCCESS">>} /\ result # None
              /\ Running(jobs[k.job])
              => Credited(jobs', k)
<1> DEFINE Q == R \cup report
           processed == IF result = None THEN Current
                        ELSE ProcessResult(Current, w, result)
           h == IF idle THEN AssignTask(processed, w, slow)
                        ELSE Nothing(processed)
<1>1. /\ jobs' = h.s.jobs /\ nextAttempt' = h.s.next
      /\ issued' = issued \cup Handed(h, w)
      /\ Heard(w, idle, result, slow) = h
  BY DEF Exchange, Heartbeat, Become, Heard, Handed
<1>2. issued \in SUBSET Issues /\ Sound(Current)
  BY DEF IInv, TypeOK, ControlTypeOK
<1>3. /\ Current.jobs = jobs /\ Phased(Current.jobs, issued, Q)
      /\ Current.next = nextAttempt
      /\ FreshIds(issued, Current.next)
  BY MoreResults DEF Current
<1>5. /\ Sound(processed) /\ ResultKeeps(Current, processed, issued, Q)
      /\ \A k \in issued :
           report = {<<k, "SUCCESS">>} /\ result # None /\ Running(jobs[k.job])
             => Credited(processed.jobs, k)
  <2>1. CASE result = None
    BY <1>2, <1>3, <2>1, SameKeeps
  <2>2. CASE result # None
    <3>1. PICK k \in issued, o \in Outcomes :
            report = {<<k, o>>} /\ result = Result(k, o)
      BY <2>2
    <3>2. k \in Issues
      BY <1>2
    <3>3. NamesTask(Result(k, o)) /\ Result(k, o).id \in AttemptIds
      BY <3>2, IssuesLemma, Zenon
    <3>4. <<k, o>> \in Q /\ (o = "FAILED" => OneOutcome(Q))
      BY <3>1
    <3>5. processed = ProcessResult(Current, w, Result(k, o))
      BY <2>2, <3>1
    <3> HIDE DEF processed, Q
    <3>6. Sound(processed)
      BY <1>2, <3>3, <3>5, ProcessResultSound
    <3>7. ResultKeeps(Current, processed, issued, Q)
      BY <1>2, <1>3, <3>4, <3>5, ProcessResultPhased
    <3>8. ASSUME NEW n \in issued, report = {<<n, "SUCCESS">>},
                 Running(jobs[n.job])
          PROVE  Credited(processed.jobs, n)
      <4>1. n = k /\ o = "SUCCESS"
        <5>1. <<n, "SUCCESS">> \in report /\ report = {<<k, o>>}
          BY <3>1, <3>8
        <5> QED BY <5>1
      <4> QED BY <1>2, <1>3, <3>5, <3>8, <4>1, ProcessResultCredits
    <3> QED BY <3>6, <3>7, <3>8
  <2> QED BY <2>1, <2>2
<1> HIDE DEF processed, Q
<1>6. /\ FreshIds(issued, processed.next) /\ Phased(processed.jobs, issued, Q)
      /\ processed.next = nextAttempt /\ KeepsDone(jobs, processed.jobs)
  BY <1>3, <1>5 DEF ResultKeeps
<1>7. AssignsWell(processed, h, w, issued, Q)
  BY <1>2, <1>5, <1>6, AssignTaskPhased, NothingAssigns
<1> HIDE DEF h
<1>8. /\ KeepsDone(processed.jobs, h.s.jobs) /\ KeepsDone(jobs, h.s.jobs)
      /\ \A x \in h.given : OffersWell(x, nextAttempt, h.s.jobs)
  BY <1>6, <1>7, KeepsDoneTransitive DEF AssignsWell
<1>9. ASSUME NEW k \in issued, report = {<<k, "SUCCESS">>}, result # None,
             Running(jobs[k.job])
      PROVE  Credited(h.s.jobs, k)
  BY <1>2, <1>5, <1>8, <1>9, CreditStays
<1> QED BY <1>1, <1>7, <1>8, <1>9 DEF AssignsWell, Q

\* The results that Control lets workers report.
LEMMA ReportPhased ==
  ASSUME IInv, PhaseInv, NEW w \in Workers, NEW idle \in BOOLEAN, NEW slow,
         NEW i, NEW report, NEW result,
         \/ report = {} /\ result = None
         \/ \E k \in issued, o \in Outcomes :
              /\ CanReport(k, o)
              /\ report = {<<k, o>>} /\ result = Result(k, o),
         Exchange(w, idle, i, report, result, slow)
  PROVE  PhaseInv' /\ KeepsDone(jobs, jobs')
<1>1. OneOutcome(results \cup report)
  <2>1. CASE report = {}
    BY <2>1 DEF PhaseInv
  <2>2. ASSUME NEW k, NEW o, CanReport(k, o), report = {<<k, o>>}
        PROVE  OneOutcome(results \cup report)
    <3>1. k.phase # "promotion" => \A r \in results : r[1] = k => r[2] = o
      BY <2>2 DEF CanReport
    <3>2. OneOutcome(results)
      BY DEF PhaseInv
    <3> QED BY <2>2, <3>1, <3>2 DEF OneOutcome
  <2> QED BY <2>1, <2>2
<1>2. results' = results \cup report /\ issued \subseteq issued'
  BY DEF Exchange
<1>3. \A k : <<k, "FAILED">> \in report => MaxFailures # 0
  <2>1. ASSUME NEW k, CanReport(k, "FAILED"), MaxFailures = 0 PROVE FALSE
    <3> DEFINE failed == {r \in results : r[2] = "FAILED"}
    <3>1. failed = {} /\ <<k, "FAILED">> \notin results
      BY <2>1 DEF PhaseInv
    <3>2. Cardinality(failed) < MaxFailures
      BY <2>1, <3>1, Zenon DEF CanReport
    <3> HIDE DEF failed
    <3>3. Cardinality(failed) = 0
      BY <3>1, FS_EmptySet
    <3> QED BY <2>1, <3>2, <3>3
  <2> QED BY <2>1
<1>4. \A k : <<k, "FAILED">> \in report => OneOutcome(Presumed \cup report)
  BY <1>1, <1>3 DEF Presumed
<1>5. /\ FreshIds(issued', nextAttempt')
      /\ Phased(jobs', issued', Presumed \cup report)
      /\ KeepsDone(jobs, jobs')
  <2>1. \/ report = {} /\ result = None
        \/ \E k \in issued, o \in Outcomes :
             report = {<<k, o>>} /\ result = Result(k, o)
    OBVIOUS
  <2>2. FreshIds(issued, nextAttempt) /\ Phased(jobs, issued, Presumed)
    BY DEF PhaseInv
  <2> QED BY <1>4, <2>1, <2>2, ExchangePhased
<1>6. Presumed \cup report \subseteq Presumed'
  BY <1>2 DEF Presumed
<1>7. Phased(jobs', issued', Presumed')
  BY <1>5, <1>6, MoreResults
<1>8. MaxFailures = 0 => \A r \in results' : r[2] # "FAILED"
  <2>1. ASSUME MaxFailures = 0, NEW r \in report PROVE r[2] # "FAILED"
    <3>1. r = <<r[1], r[2]>>
      BY <2>1
    <3> QED BY <1>3, <2>1, <3>1
  <2> QED BY <1>2, <2>1 DEF PhaseInv
<1> QED BY <1>1, <1>2, <1>5, <1>7, <1>8 DEF PhaseInv

LEMMA HeartbeatsPhased ==
  ASSUME IInv, PhaseInv, NEW w \in Workers,
         \/ IdleHeartbeat(w) \/ BusyHeartbeat(w)
         \/ IdleReport(w) \/ BusyReport(w)
  PROVE  PhaseInv' /\ KeepsDone(jobs, jobs')
<1>1. CASE IdleHeartbeat(w)
  BY <1>1, ReportPhased DEF IdleHeartbeat
<1>2. CASE BusyHeartbeat(w)
  <2>1. PICK i : Exchange(w, FALSE, i, {}, None, {})
    BY <1>2 DEF BusyHeartbeat
  <2> QED BY <2>1, ReportPhased
<1>3. CASE IdleReport(w)
  <2>1. PICK k \in issued, o \in Outcomes, slow \in SlowChoices :
          /\ CanReport(k, o)
          /\ Exchange(w, TRUE, None, {<<k, o>>}, Result(k, o), slow)
    BY <1>3 DEF IdleReport, Given
  <2> QED BY <2>1, ReportPhased
<1>4. CASE BusyReport(w)
  <2>1. PICK i \in issued \cup {None}, k \in issued, o \in Outcomes :
          /\ CanReport(k, o)
          /\ Exchange(w, FALSE, i, {<<k, o>>}, Result(k, o), {})
    BY <1>4 DEF BusyReport, Given
  <2> QED BY <2>1, ReportPhased
<1> QED BY <1>1, <1>2, <1>3, <1>4

\* A step of a client, or of the checkpoint, goes from js to new jobs.
StepKeeps(new, R) == Phased(new, issued, R) /\ KeepsDone(jobs, new)

LEMMA ReplaceJobs ==
  ASSUME IInv, NEW R, Phased(jobs, issued, R), NEW j \in Jobs, NEW job,
         JobPhased(job, j, issued, R), JobKeepsDone(jobs[j], job)
  PROVE  StepKeeps([jobs EXCEPT ![j] = job], R)
<1>1. jobs \in [Jobs -> Job] /\ Adds(issued, issued, "map", j, 1)
  BY Facts DEF Adds
<1> QED BY <1>1, ReplacePhased, ReplaceKeepsDone DEF StepKeeps

\* A job that is new, or gone, has been given to nobody.
LEMMA NewJobPhased ==
  ASSUME NEW j, NEW I, NEW R, \A i \in I : i.job # j,
         NEW job \in {NewJob, NoJob}
  PROVE  JobPhased(job, j, I, R)
<1>1. \A phase, t : OfTask(I, phase, j, t) = {}
  BY DEF OfTask
<1>2. /\ job.status \in {"Queued", "Absent"}
      /\ \A m \in MapTasks : job.maps[m].status = "Idle"
      /\ \A p \in Partitions : job.reduces[p].status = "Idle"
  <2>1. /\ NoJob.status = "Absent" /\ NoJob.maps = NewJob.maps
        /\ NoJob.reduces = NewJob.reduces
    BY DEF NoJob, NewJob
  <2>2. /\ NewJob.status = "Queued"
        /\ \A m \in MapTasks : NewJob.maps[m].status = "Idle"
        /\ \A p \in Partitions : NewJob.reduces[p].status = "Idle"
    BY DEF NewJob
  <2> QED BY <2>1, <2>2
<1>3. TasksPhased(job, j, I, R)
  BY <1>1, <1>2 DEF TasksPhased, Accounted, WinnerSucceeded, WinnerIsPromoted,
     Promoted
<1>4. Prompt(job)
  BY <1>2 DEF Prompt, Ready
<1> QED BY <1>3, <1>4 DEF JobPhased

LEMMA ClientPhased ==
  ASSUME IInv, ServiceInv, NEW R, Phased(jobs, issued, R), Client
  PROVE  StepKeeps(jobs', R) /\ UNCHANGED <<issued, results, nextAttempt>>
<1>1. UNCHANGED <<issued, results, nextAttempt>>
  BY DEF Client, SubmitRegister, SubmitEnqueue, SubmitReject, Delete, netVars
<1>2. PICK j \in Jobs : \/ SubmitRegister(j) \/ SubmitEnqueue(j)
                       \/ SubmitReject(j) \/ Delete(j)
  BY DEF Client
<1>3. /\ jobs \in [Jobs -> Job] /\ JobPhased(jobs[j], j, issued, R)
      /\ TasksPhased(jobs[j], j, issued, R)
  BY Facts DEF Phased, JobPhased
<1>4. ASSUME NEW job \in {NewJob, NoJob}, jobs' = [jobs EXCEPT ![j] = job],
             \A i \in issued : i.job # j
      PROVE  StepKeeps(jobs', R)
  <2>1. JobPhased(job, j, issued, R)
    BY <1>4, NewJobPhased
  <2>2. JobKeepsDone(jobs[j], job)
    BY <1>3, <1>4, NotIssued DEF JobKeepsDone
  <2> QED BY <1>4, <2>1, <2>2, ReplaceJobs
<1>5. CASE SubmitRegister(j)
  <2>1. jobs' = [jobs EXCEPT ![j] = NewJob] /\ j \notin submitted
    BY <1>5 DEF SubmitRegister
  <2>2. jobs[j].status = "Absent"
    BY <2>1 DEF IInv, SubmissionsAreSound, Known
  <2>3. \A i \in issued : i.job # j
    BY <1>3, <2>2 DEF TasksPhased
  <2> QED BY <1>1, <1>4, <2>1, <2>3
<1>6. CASE SubmitEnqueue(j)
  BY <1>1, <1>6, KeepsDoneReflexive DEF SubmitEnqueue, StepKeeps
<1>8. CASE SubmitReject(j)
  <2>1. j \in pending /\ jobs' = [jobs EXCEPT ![j] = NoJob]
    BY <1>8 DEF SubmitReject, IInv, TypeOK, MasterTypeOK
  <2>2. \A i \in issued : i.job # j
    BY <2>1 DEF ServiceInv, Started
  <2> QED BY <1>1, <1>4, <2>1, <2>2
<1>7. CASE Delete(j)
  <2> DEFINE job == [jobs[j] EXCEPT !.status = "Aborted"]
  <2>1. job.status = "Aborted" /\ job.maps = jobs[j].maps
        /\ job.reduces = jobs[j].reduces
    BY <1>3 DEF Job
  <2>2. jobs' = [jobs EXCEPT ![j] = job]
    BY <1>7 DEF Delete
  <2> HIDE DEF job
  <2>3. JobPhased(job, j, issued, R)
    BY <1>3, <2>1 DEF JobPhased, TasksPhased, Prompt, Ready
  <2>4. JobKeepsDone(jobs[j], job)
    BY <2>1 DEF JobKeepsDone
  <2> QED BY <1>1, <2>2, <2>3, <2>4, ReplaceJobs
<1> QED BY <1>2, <1>5, <1>6, <1>7, <1>8

\* A worker is evicted: the attempts that it was on are over.
LEMMA ReleaseAccounted ==
  ASSUME NEW task \in MapTask \cup ReduceTask, NEW I, NEW R, NEW w,
         Accounted(task, I, R),
         task.status = "InProgress" =>
           \A i \in I : i.worker = w => <<i, "FAILED">> \in R,
         NEW new, new = ReleaseTask(task, w)
  PROVE  /\ Accounted(new, I, R)
         /\ task.status = "Completed" => new = task
         /\ new.status = "Completed" => new = task
<1>1. CASE new = task
  BY <1>1
<1>2. CASE task.status = "InProgress" /\ new = DropAttempts(task, AttemptsOf(task, w))
  <2>1. /\ new.attempts = task.attempts \ AttemptsOf(task, w)
        /\ new.status \in {"Idle", "InProgress"}
    BY <1>2 DEF DropAttempts, MapTask, ReduceTask
  <2>2. ASSUME NEW i \in I, <<i, "FAILED">> \notin R
        PROVE  [id |-> i.id, worker |-> i.worker] \in new.attempts
    <3> DEFINE a == [id |-> i.id, worker |-> i.worker]
    <3>1. a \in task.attempts /\ i.worker # w /\ a.worker = i.worker
      BY <1>2, <2>2 DEF Accounted
    <3> HIDE DEF a
    <3>2. a \notin AttemptsOf(task, w)
      BY <3>1 DEF AttemptsOf
    <3> QED BY <2>1, <3>1, <3>2 DEF a
  <2>3. Accounted(new, I, R)
    BY <2>1, <2>2 DEF Accounted
  <2> QED BY <1>2, <2>1, <2>3
<1> QED BY <1>1, <1>2 DEF ReleaseTask

LEMMA EvictPhased ==
  ASSUME IInv, NEW w \in Workers, NEW R, Phased(jobs, issued, R),
         NEW ref, ref = None \/ NamesTask(ref),
         ref # None => jobs[ref.job].status # "Queued",
         \A k \in issued : /\ k.worker = w /\ Running(jobs[k.job])
                           /\ ~Credited(jobs, k)
                           => <<k, "FAILED">> \in R
  PROVE  StepKeeps(ResetWorkerTasks(Current, w, ref).jobs, R)
<1> DEFINE j == ref.job
           k == ref.task
           t == ResetWorkerTasks(Current, w, ref)
<1>1. /\ Current.jobs = jobs /\ Sound(Current) /\ jobs \in [Jobs -> Job]
      /\ Current \in State
  BY Facts DEF IInv, Current, Sound
<1>2. issued \subseteq Issues
  BY DEF IInv, TypeOK, ControlTypeOK
<1>3. CASE ref = None \/ jobs[j].status \in {"Absent", "Aborted", "Completed"}
  <2>1. t.jobs = jobs
    BY <1>1, <1>3 DEF ResetWorkerTasks
  <2> QED BY <2>1, KeepsDoneReflexive DEF StepKeeps
<1> SUFFICES ASSUME ref # None,
                    jobs[j].status \notin {"Absent", "Aborted", "Completed"}
             PROVE  StepKeeps(t.jobs, R)
  BY <1>3
<1>4. /\ j \in Jobs /\ jobs[j] \in Job /\ Running(jobs[j])
      /\ jobs[j].status \notin {"Absent", "Queued"}
      /\ TasksPhased(jobs[j], j, issued, R) /\ Prompt(jobs[j])
  <2>1. j \in Jobs
    BY DEF NamesTask
  <2> QED BY <1>1, <2>1 DEF Job, JobStatus, Running, Phased, JobPhased
<1>5. CASE ref.phase = "map"
  <2> DEFINE task == jobs[j].maps[k]
             new == ReleaseTask(task, w)
             job == [jobs[j] EXCEPT !.maps[k] = new, !.mapTimes = @]
  <2>1. k \in MapTasks /\ task \in MapTask
    BY <1>1, <1>4, <1>5, TasksOf DEF NamesTask
  <2>2. Accounted(task, OfTask(issued, "map", j, k), R)
    BY <1>4, <2>1 DEF TasksPhased
  <2>3. task.status = "InProgress" =>
          \A i \in OfTask(issued, "map", j, k) :
            i.worker = w => <<i, "FAILED">> \in R
    BY <1>4 DEF OfTask, Credited
  <2> HIDE DEF new
  <2>4. /\ Accounted(new, OfTask(issued, "map", j, k), R)
        /\ task.status = "Completed" => new = task
        /\ new.status = "Completed" => new = task
    BY <2>1, <2>2, <2>3, ReleaseAccounted DEF new
  <2>5. t.jobs = [jobs EXCEPT ![j] = job]
    <3>1. t = [Current EXCEPT !.jobs[j].maps[k] = new]
      BY <1>1, <1>4, <1>5 DEF ResetWorkerTasks, new, Running
    <3>2. job = [jobs[j] EXCEPT !.maps[k] = new]
      BY <1>4 DEF Job
    <3> HIDE DEF t, job
    <3> QED BY <1>1, <3>1, <3>2 DEF State
  <2> HIDE DEF t
  <2>6. /\ job.status = jobs[j].status /\ job.reduces = jobs[j].reduces
        /\ \A m \in MapTasks :
             job.maps[m] = IF m = k THEN new ELSE jobs[j].maps[m]
    BY <1>4, <2>1 DEF Job
  <2>7. TasksPhased(job, j, issued, R)
    <3>1. Adds(issued, issued, "map", j, k)
      BY DEF Adds
    <3> QED BY <1>4, <2>1, <2>4, <3>1, MapTasksPhased
  <2> HIDE DEF job
  <2>8. Prompt(job)
    <3>1. AllMapped(job) <=> AllMapped(jobs[j])
      BY <2>4, <2>6 DEF AllMapped
    <3>2. AllPromoted(job) <=> AllPromoted(jobs[j])
      BY <2>6 DEF AllPromoted
    <3> QED BY <1>4, <2>6, <3>1, <3>2 DEF Prompt, Ready
  <2>9. JobKeepsDone(jobs[j], job)
    BY <2>4, <2>6 DEF JobKeepsDone
  <2> QED BY <1>4, <2>5, <2>7, <2>8, <2>9, ReplaceJobs DEF JobPhased
<1>6. CASE ref.phase = "reduce"
  <2> DEFINE task == jobs[j].reduces[k]
             new == ReleaseTask(task, w)
             job == [jobs[j] EXCEPT !.reduces[k] = new, !.reduceTimes = @]
  <2>1. k \in Partitions /\ task \in ReduceTask
    BY <1>1, <1>4, <1>6, TasksOf DEF NamesTask
  <2>2. /\ Accounted(task, OfTask(issued, "reduce", j, k), R)
        /\ WinnerSucceeded(task, OfTask(issued, "reduce", j, k), R)
        /\ WinnerIsPromoted(task, OfTask(issued, "promotion", j, k), R)
    BY <1>4, <2>1 DEF TasksPhased
  <2>3. task.status = "InProgress" =>
          \A i \in OfTask(issued, "reduce", j, k) :
            i.worker = w => <<i, "FAILED">> \in R
    BY <1>4 DEF OfTask, Credited
  <2> HIDE DEF new
  <2>4. /\ Accounted(new, OfTask(issued, "reduce", j, k), R)
        /\ task.status = "Completed" => new = task
        /\ new.status = "Completed" => new = task
    <3>1. task \in MapTask \cup ReduceTask
      BY <2>1
    <3> HIDE DEF task
    <3> QED BY <2>2, <2>3, <3>1, ReleaseAccounted DEF new
  <2>5. /\ WinnerSucceeded(new, OfTask(issued, "reduce", j, k), R)
        /\ WinnerIsPromoted(new, OfTask(issued, "promotion", j, k), R)
    <3>1. CASE task.status = "Completed"
      BY <2>2, <2>4, <3>1
    <3>2. CASE task.status # "Completed"
      <4>1. new.status # "Completed"
        BY <2>4, <3>2
      <4>2. OfTask(issued, "promotion", j, k) = {}
        BY <2>2, <3>2 DEF WinnerIsPromoted
      <4> QED BY <4>1, <4>2 DEF WinnerSucceeded, WinnerIsPromoted, Promoted
    <3> QED BY <3>1, <3>2
  <2>6. t.jobs = [jobs EXCEPT ![j] = job]
    <3>1. t = [Current EXCEPT !.jobs[j].reduces[k] = new]
      BY <1>1, <1>4, <1>6 DEF ResetWorkerTasks, new, Running
    <3>2. job = [jobs[j] EXCEPT !.reduces[k] = new]
      BY <1>4 DEF Job
    <3> HIDE DEF t, job
    <3> QED BY <1>1, <3>1, <3>2 DEF State
  <2> HIDE DEF t
  <2>7. /\ job.status = jobs[j].status /\ job.maps = jobs[j].maps
        /\ \A p \in Partitions :
             job.reduces[p] = IF p = k THEN new ELSE jobs[j].reduces[p]
    BY <1>4, <2>1 DEF Job
  <2>8. TasksPhased(job, j, issued, R)
    <3>1. Adds(issued, issued, "reduce", j, k)
      BY DEF Adds
    <3> QED BY <1>4, <2>1, <2>4, <2>5, <3>1, ReduceTasksPhased
  <2> HIDE DEF job
  <2>9. Prompt(job)
    <3>1. AllMapped(job) <=> AllMapped(jobs[j])
      BY <2>7 DEF AllMapped
    <3>2. \A p \in Partitions :
            /\ job.reduces[p].status = "Completed"
                 <=> jobs[j].reduces[p].status = "Completed"
            /\ job.reduces[p].status = "Completed"
                 => job.reduces[p] = jobs[j].reduces[p]
      BY <2>4, <2>7
    <3>3. AllPromoted(job) <=> AllPromoted(jobs[j])
      BY <3>2 DEF AllPromoted
    <3>4. \A p \in Partitions : Promoted(job.reduces[p])
                                  <=> Promoted(jobs[j].reduces[p])
      BY <3>2 DEF Promoted
    <3> QED BY <1>4, <2>7, <3>1, <3>3, <3>4 DEF Prompt, Ready
  <2>10. JobKeepsDone(jobs[j], job)
    BY <2>4, <2>7 DEF JobKeepsDone
  <2> QED BY <1>4, <2>6, <2>8, <2>9, <2>10, ReplaceJobs DEF JobPhased
<1>7. CASE ref.phase = "promotion"
  <2>1. t.jobs = jobs
    BY <1>1, <1>7 DEF ResetWorkerTasks
  <2> QED BY <2>1, KeepsDoneReflexive DEF StepKeeps
<1> QED BY <1>5, <1>6, <1>7 DEF NamesTask

LEMMA StorageIdles ==
  ASSUME QueuedWait, ServiceInv, Storage
  PROVE  UNCHANGED <<schedVars, issued, results>>
<1>1. CASE WriteCheckpoint \/ FinalSnapshot
  BY <1>1 DEF WriteCheckpoint, FinalSnapshot, Storage, netVars
<1>2. CASE LoadCheckpoint
  <2>1. checkpoint = {}
    BY <1>2 DEF QueuedWait, FirstLoad, ServiceInv, LoadCheckpoint
  <2> QED BY <1>2, <2>1 DEF LoadCheckpoint, Storage, netVars
<1> QED BY <1>1, <1>2 DEF Storage

\* Nobody has failed, and a worker is evicted.
LEMMA TimeoutPhased ==
  ASSUME MaxFailures = 0, IInv, ServiceInv, PhaseInv,
         NEW w \in Workers, Timeout(w)
  PROVE  PhaseInv' /\ KeepsDone(jobs, jobs')
<1> DEFINE ref == currentTask[w]
<1>1. /\ jobs' = ResetWorkerTasks(Current, w, ref).jobs
      /\ nextAttempt' = ResetWorkerTasks(Current, w, ref).next
      /\ UNCHANGED <<issued, results>>
  BY DEF Timeout, Expire, Evict, Become, netVars
<1>2. nextAttempt' = nextAttempt
  <2>1. Current \in State /\ Current.next = nextAttempt
    BY DEF IInv, Sound, Current
  <2>2. ResetWorkerTasks(Current, w, ref).next = Current.next
    BY <2>1 DEF ResetWorkerTasks, State
  <2> QED BY <1>1, <2>1, <2>2
<1>3. ref = None \/ NamesTask(ref)
  BY DEF IInv, TypeOK, MasterTypeOK, TaskRefs, NamesTask
<1>4. ref # None => jobs[ref.job].status # "Queued"
  BY DEF ServiceInv, Started
<1>5. \A k \in issued : <<k, "FAILED">> \in Presumed
  BY DEF Presumed
<1>6. StepKeeps(ResetWorkerTasks(Current, w, ref).jobs, Presumed)
  BY <1>3, <1>4, <1>5, EvictPhased DEF PhaseInv
<1>7. Presumed' = Presumed
  BY <1>1 DEF Presumed
<1> QED BY <1>1, <1>2, <1>6, <1>7 DEF StepKeeps, PhaseInv

LEMMA NextPhased ==
  ASSUME MaxEvictions = 0 \/ MaxFailures = 0, MaxRestarts = 0,
         IInv, QueuedWait, ServiceInv, PhaseInv, [Next]_vars
  PROVE  PhaseInv' /\ KeepsDone(jobs, jobs')
<1>1. ~Restart
  BY Facts DEF Restart, ServiceInv
<1>2. ASSUME \/ TakeSnapshot \/ BadLoad \/ Interrupt \/ UNCHANGED vars
             \/ \E w \in Workers : Register(w)
      PROVE  PhaseInv' /\ KeepsDone(jobs, jobs')
  <2>1. UNCHANGED <<jobs, nextAttempt, issued, results>>
    BY <1>2 DEF TakeSnapshot, Snapshot, BadLoad, LoadFails, Interrupt, Signal,
       Register, RegisterWorker, schedVars, netVars, vars, masterVars
  <2> QED BY <2>1, KeepsDoneReflexive DEF PhaseInv, Presumed
<1>3. CASE Client
  <2>1. /\ StepKeeps(jobs', Presumed)
        /\ UNCHANGED <<issued, results, nextAttempt>>
    BY <1>3, ClientPhased DEF PhaseInv
  <2> QED BY <2>1 DEF StepKeeps, PhaseInv, Presumed
<1>4. CASE Storage
  <2>1. UNCHANGED <<jobs, nextAttempt, issued, results>>
    BY <1>4, StorageIdles DEF schedVars
  <2> QED BY <2>1, KeepsDoneReflexive DEF PhaseInv, Presumed
<1>5. CASE \E w \in Workers : Timeout(w)
  <2>1. MaxEvictions # 0
    <3>1. evictions \in Nat
      BY DEF IInv, TypeOK, ControlTypeOK
    <3> QED BY <1>5, <3>1 DEF Timeout
  <2> QED BY <1>5, <2>1, TimeoutPhased
<1> QED BY <1>1, <1>2, <1>3, <1>4, <1>5, HeartbeatsPhased DEF Next

LEMMA InitPhased == Init => PhaseInv
<1> SUFFICES ASSUME Init PROVE PhaseInv
  OBVIOUS
<1>1. jobs = [j \in Jobs |-> NoJob] /\ issued = {} /\ results = {}
  BY DEF Init, MasterInit, Fresh
<1>2. Phased(jobs, issued, Presumed)
  BY <1>1, NewJobPhased DEF Phased
<1> QED BY <1>1, <1>2 DEF PhaseInv, FreshIds, OneOutcome

LEMMA PhaseInvariant ==
  ASSUME MaxEvictions = 0 \/ MaxFailures = 0, MaxRestarts = 0
  PROVE  Spec => [](PhaseInv /\ IInv) /\ CompletedStays
<1>1. Init => QueuedWait /\ ServiceInv /\ PhaseInv
  BY InitServes, InitPhased
<1>2. IInv /\ QueuedWait /\ ServiceInv /\ [Next]_vars => ServiceInv'
  BY NextServes, NextIsOpen DEF ServiceStep
<1>3. IInv /\ QueuedWait /\ ServiceInv /\ PhaseInv /\ [Next]_vars => PhaseInv'
  BY NextPhased
<1>4. IInv /\ QueuedWait /\ ServiceInv /\ PhaseInv /\ [Next]_vars
        => [\A j \in Jobs : UNCHANGED <<crashes, exits, loaded>> =>
              /\ \A m \in MapTasks : jobs[j].maps[m].status = "Completed"
                   => jobs'[j].maps[m].status = "Completed"
              /\ \A p \in Partitions : jobs[j].reduces[p].status = "Completed"
                   => jobs'[j].reduces[p].status = "Completed"]_vars
  BY NextPhased DEF KeepsDone, JobKeepsDone
<1> QED BY <1>1, <1>2, <1>3, <1>4, WaitingStep, NextIsOpen, Invariant, PTL
        DEF Spec, CompletedStays

\* "Whichever worker completes the task first wins, and late results from
\* duplicate attempts are safely ignored" (docs/design.md:110): without
\* an end of the master no result, first, second, late or repeated, takes a
\* completed task back.  A failure only does when no attempt is left
\* (scheduler.go:367-371, 416-420), and the attempt that completed the task stays
\* in its list unless its worker was evicted: so this needs that nobody is
\* evicted, or that nothing fails.
THEOREM CompletedStaysAlways ==
  ASSUME MaxEvictions = 0 \/ MaxFailures = 0, MaxRestarts = 0
  PROVE  Spec => CompletedStays
BY PhaseInvariant, PTL

\* In the reduce phase no map task has gone back to idle: a reduce that is told
\* that all maps are complete (scheduler.go:182, 231) is given the URL of each.
THEOREM ReducingMeansMappedAlways ==
  ASSUME MaxEvictions = 0 \/ MaxFailures = 0, MaxRestarts = 0
  PROVE  Spec => []ReducingMeansMapped
<1>1. PhaseInv => ReducingMeansMapped
  BY DEF PhaseInv, Phased, JobPhased, Prompt, Ready, ReducingMeansMapped
<1> QED BY <1>1, PhaseInvariant, PTL

\* The objects that a completed job has promoted are those of the attempts that
\* won (scheduler.go:387-393, 443), however many attempts were made on its tasks,
\* and however many of them failed or how often their workers were evicted.
THEOREM PromotedIsWinnerAlways ==
  ASSUME MaxEvictions = 0 \/ MaxFailures = 0, MaxRestarts = 0
  PROVE  Spec => []PromotedIsWinner
<1>1. PhaseInv => PromotedIsWinner
  <2> SUFFICES ASSUME PhaseInv, NEW j \in Jobs, jobs[j].status = "Completed",
                      NEW p \in Partitions
               PROVE  \E r \in results :
                        /\ r[1].phase = "promotion"
                        /\ r[1].job = j
                        /\ r[1].task = p
                        /\ r[1].id = jobs[j].reduces[p].winner
                        /\ r[2] = "SUCCESS"
    BY DEF PromotedIsWinner
  <2>1. Promoted(jobs[j].reduces[p])
    BY DEF PhaseInv, Phased, JobPhased, Prompt, Ready, AllPromoted, Promoted
  <2>2. WinnerIsPromoted(jobs[j].reduces[p],
                         OfTask(issued, "promotion", j, p), Presumed)
    BY DEF PhaseInv, Phased, JobPhased, TasksPhased
  <2>3. PICK i \in OfTask(issued, "promotion", j, p) :
          i.id = jobs[j].reduces[p].winner /\ <<i, "SUCCESS">> \in Presumed
    BY <2>1, <2>2 DEF WinnerIsPromoted
  <2>4. <<i, "SUCCESS">> \in results
    BY <2>3 DEF Presumed
  <2> QED BY <2>3, <2>4 DEF OfTask
<1> QED BY <1>1, PhaseInvariant, PTL

-----------------------------------------------------------------------------
(* Phases end with the result that ends them, whatever fails and whoever   *)
(* is evicted                                                              *)

\* The promotions among assignments.
Sent(I) == {<<i.job, i.task>> : i \in {k \in I : k.phase = "promotion"}}

\* Work is left in the phase that a job is in, and nothing of a job is promoted
\* before its reduce phase.  Tasks that go back to idle leave more work.
JobTimely(job, j, sent) ==
  /\ job.status \in {"Queued", "Mapping"} =>
       /\ ~AllMapped(job)
       /\ \A p \in Partitions :
            <<j, p>> \notin sent /\ ~Promoted(job.reduces[p])
  /\ job.status = "Reducing" => ~AllPromoted(job)
Timely(js, sent) == \A j \in Jobs : JobTimely(js[j], j, sent)

\* Nothing is done in new that is not done in job.
NothingDone(job, new) ==
  /\ new.status = job.status
  /\ \A m \in MapTasks : new.maps[m].status = "Completed" =>
                         job.maps[m].status = "Completed"
  /\ \A p \in Partitions : Promoted(new.reduces[p]) => Promoted(job.reduces[p])

LEMMA NothingDoneTimely ==
  ASSUME NEW job, NEW j, NEW sent, JobTimely(job, j, sent), NEW new,
         NothingDone(job, new)
  PROVE  JobTimely(new, j, sent)
<1>1. AllMapped(new) => AllMapped(job)
  BY DEF NothingDone, AllMapped
<1>2. AllPromoted(new) => AllPromoted(job)
  BY DEF NothingDone, AllPromoted, Promoted
<1> QED BY <1>1, <1>2 DEF JobTimely, NothingDone

LEMMA ReplaceTimely ==
  ASSUME NEW s \in State, NEW sent, Timely(s.jobs, sent), NEW j \in Jobs,
         NEW new, JobTimely(new, j, sent), NEW id
  PROVE  /\ Timely([s EXCEPT !.jobs[j] = new].jobs, sent)
         /\ Timely([s EXCEPT !.jobs[j] = new, !.next = id].jobs, sent)
<1> DEFINE js == [s.jobs EXCEPT ![j] = new]
<1>1. \A k \in Jobs : js[k] = IF k = j THEN new ELSE s.jobs[k]
  BY DEF State
<1>2. /\ [s EXCEPT !.jobs[j] = new].jobs = js
      /\ [s EXCEPT !.jobs[j] = new, !.next = id].jobs = js
  BY DEF State
<1> HIDE DEF js
<1>3. Timely(js, sent)
  BY <1>1 DEF Timely
<1> QED BY <1>2, <1>3

\* The assignments find no phase to end.
LEMMA TimelyAdvance ==
  ASSUME NEW s, NEW sent, Timely(s.jobs, sent), NEW j \in Jobs
  PROVE  AdvanceJob(s, j) = s
<1>1. JobTimely(s.jobs[j], j, sent)
  BY DEF Timely
<1> QED BY <1>1 DEF AdvanceJob, JobTimely

\* A result ends the phase that it leaves without work.
LEMMA AdvanceTimely ==
  ASSUME NEW s \in State, NEW sent, Timely(s.jobs, sent), NEW j \in Jobs,
         NEW new \in Job, new.status # "Queued",
         new.status = "Mapping" =>
           \A p \in Partitions :
             <<j, p>> \notin sent /\ ~Promoted(new.reduces[p])
  PROVE  Timely(AdvanceJob([s EXCEPT !.jobs[j] = new], j).jobs, sent)
<1> DEFINE u == [s EXCEPT !.jobs[j] = new]
           t == AdvanceJob(u, j)
<1>1. /\ s.jobs \in [Jobs -> Job] /\ u.jobs = [s.jobs EXCEPT ![j] = new]
      /\ u.jobs[j] = new /\ u.jobs \in [Jobs -> Job]
  BY DEF State
<1> HIDE DEF u
<1>2. ASSUME NEW status, t.jobs = [u.jobs EXCEPT ![j].status = status],
             status \in {"Reducing", "Completed"},
             status = "Reducing" => ~AllPromoted(new)
      PROVE  Timely(t.jobs, sent)
  <2> DEFINE job == [new EXCEPT !.status = status]
  <2>1. job.status = status /\ job.reduces = new.reduces
    BY DEF Job
  <2>2. \A k \in Jobs : t.jobs[k] = IF k = j THEN job ELSE s.jobs[k]
    BY <1>1, <1>2
  <2> HIDE DEF job, t
  <2>3. JobTimely(job, j, sent)
    BY <1>2, <2>1 DEF JobTimely, AllPromoted
  <2> QED BY <2>2, <2>3 DEF Timely
<1>3. CASE new.status = "Mapping" /\ AllMapped(new)
  <2>1. t.jobs = [u.jobs EXCEPT ![j].status = "Reducing"]
    BY <1>1, <1>3 DEF AdvanceJob, u, State
  <2>2. 0 \in Partitions
    BY NumReduceTasksAssumption DEF Partitions
  <2>3. ~AllPromoted(new)
    BY <1>3, <2>2 DEF AllPromoted, Promoted
  <2> QED BY <1>2, <2>1, <2>3 DEF u
<1>4. CASE new.status = "Reducing" /\ AllPromoted(new)
  <2>1. t.jobs = [u.jobs EXCEPT ![j].status = "Completed"]
    BY <1>1, <1>4 DEF AdvanceJob, u, State
  <2> QED BY <1>2, <2>1 DEF u
<1>5. CASE /\ ~(new.status = "Mapping" /\ AllMapped(new))
           /\ ~(new.status = "Reducing" /\ AllPromoted(new))
  <2>1. t = u
    BY <1>1, <1>5 DEF AdvanceJob
  <2>2. JobTimely(new, j, sent)
    BY <1>5 DEF JobTimely
  <2> QED BY <2>1, <2>2, ReplaceTimely DEF u, t
<1> QED BY <1>3, <1>4, <1>5 DEF u, t

LEMMA ActivateNextJobTimely ==
  ASSUME NEW s, Sound(s), NEW sent, Timely(s.jobs, sent)
  PROVE  Timely(ActivateNextJob(s).jobs, sent)
<1> DEFINE runnable == {i \in 1 .. Len(s.queue) :
                     s.jobs[s.queue[i]].status \notin {"Absent", "Aborted"}}
           first == Min(runnable)
           j == s.queue[first]
           rest == SubSeq(s.queue, first + 1, Len(s.queue))
           job == [s.jobs[j] EXCEPT !.status = "Mapping"]
           t == ActivateNextJob(s)
<1>1. s \in State /\ s.jobs \in [Jobs -> Job] /\ s.queue \in Seq(Jobs)
  BY DEF Sound, State
<1>2. CASE runnable = {}
  <2>1. t = [s EXCEPT !.queue = <<>>]
    BY <1>2 DEF ActivateNextJob
  <2>2. t.jobs = s.jobs
    BY <1>1, <2>1 DEF State
  <2> QED BY <2>2
<1>3. ASSUME runnable # {}
      PROVE  Timely(t.jobs, sent)
  <2>1. first \in runnable
    <3>1. runnable \in SUBSET Nat
      BY <1>1
    <3> QED BY <1>3, <3>1, MinLemma
  <2>2. j \in Jobs /\ s.jobs[j].status = "Queued" /\ s.jobs[j] \in Job
    <3>1. /\ first \in 1 .. Len(s.queue)
          /\ s.jobs[j].status \notin {"Absent", "Aborted"}
      BY <2>1
    <3>2. NotStarted(s.jobs[j])
      BY <3>1 DEF Sound, QueueSound
    <3> HIDE DEF first
    <3>3. j \in Jobs
      BY <1>1, <3>1
    <3> QED BY <1>1, <3>1, <3>2, <3>3 DEF NotStarted
  <2>3. t = [s EXCEPT !.queue = rest, !.jobs[j].status = "Mapping",
                      !.active = j]
    BY <1>3 DEF ActivateNextJob
  <2> HIDE DEF runnable, first, j, rest, t
  <2>4. t.jobs = [s.jobs EXCEPT ![j].status = "Mapping"]
    BY <1>1, <2>3 DEF State
  <2>5. /\ job.status = "Mapping" /\ job.maps = s.jobs[j].maps
        /\ job.reduces = s.jobs[j].reduces
    BY <2>2 DEF Job
  <2>6. \A k \in Jobs : t.jobs[k] = IF k = j THEN job ELSE s.jobs[k]
    BY <1>1, <2>4
  <2> HIDE DEF job
  <2>7. JobTimely(job, j, sent)
    BY <2>2, <2>5 DEF Timely, JobTimely, AllMapped
  <2> QED BY <2>6, <2>7 DEF Timely
<1> QED BY <1>2, <1>3

\* A task that has just been handed out is not done.
LEMMA GiveTimely ==
  ASSUME NEW s, Sound(s), NEW sent, Timely(s.jobs, sent), NEW j \in Jobs, NEW w
  PROVE  /\ \A m \in MapTasks : Timely(GiveMap(s, j, m, w).s.jobs, sent)
         /\ \A p \in Partitions : Timely(GiveReduce(s, j, p, w).s.jobs, sent)
<1>1. /\ s \in State /\ s.jobs[j] \in Job
      /\ JobTimely(s.jobs[j], j, sent)
  BY DEF Sound, State, Timely
<1>2. ASSUME NEW m \in MapTasks
      PROVE  Timely(GiveMap(s, j, m, w).s.jobs, sent)
  <2> DEFINE task == StartAttempt(s.jobs[j].maps[m], s.next, w)
             new == [s.jobs[j] EXCEPT !.maps[m] = task]
  <2>1. task.status = "InProgress"
    BY <1>1 DEF StartAttempt, Job, MapTask
  <2>2. GiveMap(s, j, m, w).s = [s EXCEPT !.jobs[j] = new, !.next = s.next + 1]
    BY DEF GiveMap
  <2> HIDE DEF task
  <2>3. /\ new.status = s.jobs[j].status /\ new.reduces = s.jobs[j].reduces
        /\ \A k \in MapTasks : new.maps[k] = IF k = m THEN task
                                                      ELSE s.jobs[j].maps[k]
    BY <1>1 DEF Job
  <2> HIDE DEF new
  <2>4. NothingDone(s.jobs[j], new)
    BY <2>1, <2>3 DEF NothingDone
  <2> QED BY <1>1, <2>2, <2>4, NothingDoneTimely, ReplaceTimely
<1>3. ASSUME NEW p \in Partitions
      PROVE  Timely(GiveReduce(s, j, p, w).s.jobs, sent)
  <2> DEFINE task == StartAttempt(s.jobs[j].reduces[p], s.next, w)
             new == [s.jobs[j] EXCEPT !.reduces[p] = task]
  <2>1. ~Promoted(task)
    BY <1>1 DEF StartAttempt, Job, ReduceTask, Promoted
  <2>2. GiveReduce(s, j, p, w).s
          = [s EXCEPT !.jobs[j] = new, !.next = s.next + 1]
    BY DEF GiveReduce
  <2> HIDE DEF task
  <2>3. /\ new.status = s.jobs[j].status /\ new.maps = s.jobs[j].maps
        /\ \A q \in Partitions : new.reduces[q] = IF q = p THEN task
                                                  ELSE s.jobs[j].reduces[q]
    BY <1>1 DEF Job
  <2> HIDE DEF new
  <2>4. NothingDone(s.jobs[j], new)
    BY <2>1, <2>3 DEF NothingDone
  <2> QED BY <1>1, <2>2, <2>4, NothingDoneTimely, ReplaceTimely
<1> QED BY <1>2, <1>3

\* An assignment, with what it hands out among what was handed out.
AssignsTimely(a, sent) == Timely(a.s.jobs, sent \cup Sent(a.given))

LEMMA AssignReduceTaskTimely ==
  ASSUME NEW s, Sound(s), NEW sent, Timely(s.jobs, sent), NEW j \in Jobs,
         NEW w, NEW slow
  PROVE  AssignsTimely(AssignReduceTask(s, j, w, slow), sent)
<1> DEFINE idle == IdleReduces(s.jobs[j])
           late == SlowReduces(s.jobs[j], slow)
<1>1. ASSUME NEW S \in {idle, late}, S # {}
      PROVE  AssignsTimely(GiveReduce(s, j, Min(S), w), sent)
  <2>1. Timely(GiveReduce(s, j, Min(S), w).s.jobs, sent)
    BY <1>1, CandidatesLemma, GiveTimely
  <2>2. Sent(GiveReduce(s, j, Min(S), w).given) = {}
    BY DEF GiveReduce, Sent
  <2> QED BY <2>1, <2>2 DEF AssignsTimely
<1>2. Sent(Nothing(s).given) = {} /\ Nothing(s).s = s
  BY DEF Nothing, Sent
<1>3. AssignsTimely(Nothing(AdvanceJob(s, j)), sent)
  BY <1>2, TimelyAdvance DEF AssignsTimely
<1> QED BY <1>1, <1>3 DEF AssignReduceTask

LEMMA AssignMapTaskTimely ==
  ASSUME NEW s, Sound(s), NEW sent, Timely(s.jobs, sent), NEW j \in Jobs,
         s.jobs[j].status = "Mapping", NEW w, NEW slow
  PROVE  LET a == AssignMapTask(s, j, w, slow) IN
         AssignsTimely(a, sent) /\ (a.given = {} => a = Nothing(s))
<1> DEFINE idle == IdleMaps(s.jobs[j])
           late == SlowMaps(s.jobs[j], slow)
           a == AssignMapTask(s, j, w, slow)
<1>1. ASSUME NEW S \in {idle, late}, S # {}
      PROVE  /\ AssignsTimely(GiveMap(s, j, Min(S), w), sent)
             /\ GiveMap(s, j, Min(S), w).given # {}
  <2>1. Timely(GiveMap(s, j, Min(S), w).s.jobs, sent)
    BY <1>1, CandidatesLemma, GiveTimely
  <2>2. Sent(GiveMap(s, j, Min(S), w).given) = {}
    BY DEF GiveMap, Sent
  <2>3. GiveMap(s, j, Min(S), w).given # {}
    BY DEF GiveMap
  <2> QED BY <2>1, <2>2, <2>3 DEF AssignsTimely
<1>2. AdvanceJob(s, j) = s
  BY TimelyAdvance
<1>3. a = IF idle # {} THEN GiveMap(s, j, Min(idle), w)
          ELSE IF late # {} THEN GiveMap(s, j, Min(late), w)
          ELSE Nothing(s)
  BY <1>2 DEF AssignMapTask
<1>4. AssignsTimely(Nothing(s), sent)
  <2>1. Sent(Nothing(s).given) = {} /\ Nothing(s).s = s
    BY DEF Nothing, Sent
  <2> QED BY <2>1 DEF AssignsTimely
<1> HIDE DEF idle, late, a
<1>5. AssignsTimely(a, sent) /\ (a.given = {} => a = Nothing(s))
  BY <1>1, <1>3, <1>4
<1> QED BY <1>5 DEF a

\* A promotion is handed out in the reduce phase only.
LEMMA AssignPromotionTaskTimely ==
  ASSUME NEW s, NEW sent, Timely(s.jobs, sent), NEW j \in Jobs,
         s.jobs[j].status = "Reducing"
  PROVE  AssignsTimely(AssignPromotionTask(s, j), sent)
<1>1. AssignPromotionTask(s, j).s = s
  BY DEF AssignPromotionTask
<1>2. \A pair \in Sent(AssignPromotionTask(s, j).given) : pair[1] = j
  BY DEF AssignPromotionTask, Sent
<1> HIDE DEF AssignPromotionTask
<1>3. ASSUME NEW k \in Jobs
      PROVE  JobTimely(s.jobs[k], k,
                       sent \cup Sent(AssignPromotionTask(s, j).given))
  <2>1. JobTimely(s.jobs[k], k, sent)
    BY DEF Timely
  <2> QED BY <1>2, <2>1 DEF JobTimely
<1> QED BY <1>1, <1>3 DEF AssignsTimely, Timely

LEMMA AssignTaskTimely ==
  ASSUME NEW s, Sound(s), NEW sent, Timely(s.jobs, sent), NEW w, NEW slow
  PROVE  AssignsTimely(AssignTask(s, w, slow), sent)
<1> DEFINE ready == IF s.active = None THEN ActivateNextJob(s) ELSE s
           j == ready.active
           a == AssignTask(s, w, slow)
           mapping == AssignMapTask(ready, j, w, slow)
           promotion == AssignPromotionTask(ready, j)
           reduce == AssignReduceTask(ready, j, w, slow)
<1>1. Sound(ready) /\ Timely(ready.jobs, sent)
  BY ActivateNextJobSound, ActivateNextJobTimely
<1>2. a = IF j = None THEN Nothing(ready) ELSE AssignFromJob(ready, j, w, slow)
  BY DEF AssignTask
<1> HIDE DEF ready, a
<1>3. CASE j = None
  <2>1. Sent(Nothing(ready).given) = {} /\ Nothing(ready).s = ready
    BY DEF Nothing, Sent
  <2> QED BY <1>1, <1>2, <1>3, <2>1 DEF AssignsTimely, a
<1>4. CASE j # None
  <2>1. j \in Jobs /\ Running(ready.jobs[j])
    BY <1>1, <1>4 DEF Sound, State, OneRuns
  <2>2. AssignsTimely(reduce, sent)
    BY <1>1, <2>1, AssignReduceTaskTimely
  <2>3. CASE ready.jobs[j].status = "Mapping"
    <3>1. AssignsTimely(mapping, sent)
          /\ (mapping.given = {} => mapping = Nothing(ready))
      BY <1>1, <2>1, <2>3, AssignMapTaskTimely
    <3>2. a = IF mapping.given = {} /\ AnyMapTaskCompleted(ready.jobs[j])
                THEN AssignReduceTask(mapping.s, j, w, slow)
                ELSE mapping
      BY <1>2, <1>4, <2>3 DEF AssignFromJob
    <3>3. Nothing(ready).s = ready
      BY DEF Nothing
    <3> HIDE DEF mapping
    <3> QED BY <2>2, <3>1, <3>2, <3>3 DEF a
  <2>4. CASE ready.jobs[j].status = "Reducing"
    <3>1. AssignsTimely(promotion, sent)
      BY <1>1, <2>1, <2>4, AssignPromotionTaskTimely
    <3>2. a = IF promotion.given = {} THEN reduce ELSE promotion
      BY <1>2, <1>4, <2>4 DEF AssignFromJob
    <3> HIDE DEF promotion, reduce
    <3> QED BY <2>2, <3>1, <3>2 DEF a
  <2> QED BY <2>1, <2>3, <2>4 DEF Running
<1> QED BY <1>3, <1>4

LEMMA ProcessMapResultTimely ==
  ASSUME NEW s, Sound(s), NEW sent, Timely(s.jobs, sent), NEW w \in Workers,
         NEW r, r.job \in Jobs, r.task \in MapTasks,
         s.jobs[r.job].status # "Queued"
  PROVE  Timely(ProcessMapResult(s, w, r).jobs, sent)
<1> DEFINE j == r.job
           k == r.task
           task == s.jobs[j].maps[k]
           n == s.jobs[j].mapTimes
<1>1. /\ s \in State /\ s.jobs[j] \in Job /\ task \in MapTask /\ n \in 0 .. 2
      /\ JobTimely(s.jobs[j], j, sent)
  BY TasksOf DEF Sound, State, Timely
<1>2. CASE r.outcome = "FAILED"
  <2> DEFINE dropped == DropAttempts(task, AttemptsNamed(task, r.id))
             new == [s.jobs[j] EXCEPT !.maps[k] = dropped]
  <2>1. dropped.status = "Completed" => task.status = "Completed"
    BY <1>1 DEF DropAttempts, MapTask
  <2>2. ProcessMapResult(s, w, r) = [s EXCEPT !.jobs[j] = new]
    BY <1>2 DEF ProcessMapResult
  <2> HIDE DEF dropped
  <2>3. /\ new.status = s.jobs[j].status /\ new.reduces = s.jobs[j].reduces
        /\ \A m \in MapTasks : new.maps[m] = IF m = k THEN dropped
                                                      ELSE s.jobs[j].maps[m]
    BY <1>1 DEF Job
  <2> HIDE DEF new
  <2>4. NothingDone(s.jobs[j], new)
    BY <2>1, <2>3 DEF NothingDone
  <2> QED BY <1>1, <2>2, <2>4, NothingDoneTimely, ReplaceTimely
<1>3. CASE r.outcome # "FAILED" /\ task.status = "Completed"
  BY <1>3 DEF ProcessMapResult
<1>4. CASE r.outcome # "FAILED" /\ task.status # "Completed"
  <2> DEFINE complete == [task EXCEPT !.status = "Completed", !.host = w]
             count == CountCompletion(n, task, r.id)
             new == [s.jobs[j] EXCEPT !.maps[k] = complete, !.mapTimes = count]
             u == [s EXCEPT !.jobs[j].maps[k] = complete,
                            !.jobs[j].mapTimes = count]
  <2>1. complete \in MapTask /\ count \in 0 .. 2
    <3>1. complete \in MapTask
      BY <1>1 DEF MapTask, TaskStatus
    <3>2. count \in 0 .. 2
      BY <1>1 DEF CountCompletion
    <3> QED BY <3>1, <3>2
  <2>2. ProcessMapResult(s, w, r) = AdvanceJob(u, j)
    BY <1>4 DEF ProcessMapResult
  <2> HIDE DEF complete, count
  <2>3. u = [s EXCEPT !.jobs[j] = new]
    BY <1>1 DEF Sound, State, Job
  <2>4. /\ new \in Job /\ new.status = s.jobs[j].status
        /\ new.reduces = s.jobs[j].reduces
    BY <1>1, <2>1 DEF Job
  <2> HIDE DEF new, u
  <2>5. Timely(AdvanceJob([s EXCEPT !.jobs[j] = new], j).jobs, sent)
    BY <1>1, <2>4, AdvanceTimely DEF JobTimely
  <2> QED BY <2>2, <2>3, <2>5
<1> QED BY <1>2, <1>3, <1>4

\* A task that completes has an object to promote.
LEMMA ProcessReduceResultTimely ==
  ASSUME NEW s, Sound(s), NEW sent, Timely(s.jobs, sent),
         NEW r, r.job \in Jobs, r.task \in Partitions, r.id \in AttemptIds,
         s.jobs[r.job].status # "Queued"
  PROVE  Timely(ProcessReduceResult(s, r).jobs, sent)
<1> DEFINE j == r.job
           k == r.task
           task == s.jobs[j].reduces[k]
           n == s.jobs[j].reduceTimes
<1>1. /\ s \in State /\ s.jobs[j] \in Job /\ task \in ReduceTask
      /\ n \in 0 .. 2 /\ JobTimely(s.jobs[j], j, sent)
  BY TasksOf DEF Sound, State, Timely
<1>2. CASE r.outcome = "FAILED"
  <2> DEFINE dropped == DropAttempts(task, AttemptsNamed(task, r.id))
             new == [s.jobs[j] EXCEPT !.reduces[k] = dropped]
  <2>1. Promoted(dropped) => Promoted(task)
    BY <1>1 DEF DropAttempts, ReduceTask, Promoted
  <2>2. ProcessReduceResult(s, r) = [s EXCEPT !.jobs[j] = new]
    BY <1>2 DEF ProcessReduceResult
  <2> HIDE DEF dropped
  <2>3. /\ new.status = s.jobs[j].status /\ new.maps = s.jobs[j].maps
        /\ \A p \in Partitions : new.reduces[p] = IF p = k THEN dropped
                                                  ELSE s.jobs[j].reduces[p]
    BY <1>1 DEF Job
  <2> HIDE DEF new
  <2>4. NothingDone(s.jobs[j], new)
    BY <2>1, <2>3 DEF NothingDone
  <2> QED BY <1>1, <2>2, <2>4, NothingDoneTimely, ReplaceTimely
<1>3. CASE r.outcome # "FAILED" /\ task.status = "Completed"
  BY <1>3 DEF ProcessReduceResult
<1>4. CASE r.outcome # "FAILED" /\ task.status # "Completed"
  <2> DEFINE complete == [task EXCEPT !.status = "Completed",
                                      !.winner = r.id, !.temp = r.id]
             count == CountCompletion(n, task, r.id)
             new == [s.jobs[j] EXCEPT !.reduces[k] = complete,
                                      !.reduceTimes = count]
             u == [s EXCEPT !.jobs[j].reduces[k] = complete,
                            !.jobs[j].reduceTimes = count]
  <2>1. complete \in ReduceTask /\ ~Promoted(complete)
    <3>1. r.id \in Nat /\ r.id # NoObject /\ task \in ReduceTask
      BY <1>1 DEF AttemptIds
    <3> HIDE DEF task
    <3> QED BY <3>1 DEF ReduceTask, TaskStatus, Promoted
  <2>2. count \in 0 .. 2
    BY <1>1 DEF CountCompletion
  <2>3. ProcessReduceResult(s, r) = AdvanceJob(u, j)
    BY <1>4 DEF ProcessReduceResult
  <2> HIDE DEF complete, count
  <2>4. u = [s EXCEPT !.jobs[j] = new]
    BY <1>1 DEF Sound, State, Job
  <2>5. /\ new \in Job /\ new.status = s.jobs[j].status
        /\ \A p \in Partitions : new.reduces[p] = IF p = k THEN complete
                                                  ELSE s.jobs[j].reduces[p]
    BY <1>1, <2>1, <2>2 DEF Job
  <2> HIDE DEF new, u
  <2>6. Timely(AdvanceJob([s EXCEPT !.jobs[j] = new], j).jobs, sent)
    BY <1>1, <2>1, <2>5, AdvanceTimely DEF JobTimely
  <2> QED BY <2>3, <2>4, <2>6
<1> QED BY <1>2, <1>3, <1>4

\* A promotion that succeeds has been handed out, and so the maps are over.
LEMMA ProcessPromotionResultTimely ==
  ASSUME NEW s, Sound(s), NEW sent, Timely(s.jobs, sent),
         NEW r, r.job \in Jobs, r.task \in Partitions,
         s.jobs[r.job].status # "Queued", <<r.job, r.task>> \in sent
  PROVE  Timely(ProcessPromotionResult(s, r).jobs, sent)
<1> DEFINE j == r.job
           k == r.task
           task == s.jobs[j].reduces[k]
           complete == [task EXCEPT !.temp = NoObject]
           new == [s.jobs[j] EXCEPT !.reduces[k] = complete]
           u == [s EXCEPT !.jobs[j].reduces[k].temp = NoObject]
<1>1. /\ s \in State /\ s.jobs[j] \in Job /\ task \in ReduceTask
      /\ JobTimely(s.jobs[j], j, sent)
  BY TasksOf DEF Sound, State, Timely
<1>2. complete \in ReduceTask
  BY <1>1 DEF ReduceTask, NoObject
<1>3. ProcessPromotionResult(s, r) = IF r.outcome = "FAILED" THEN s
                                                           ELSE AdvanceJob(u, j)
  BY DEF ProcessPromotionResult
<1>4. u = [s EXCEPT !.jobs[j] = new]
  OBVIOUS
<1> HIDE DEF complete, u
<1>5. new \in Job /\ new.status = s.jobs[j].status
  BY <1>1, <1>2 DEF Job
<1> HIDE DEF new
<1>6. s.jobs[j].status \notin {"Mapping", "Queued"}
  BY <1>1 DEF JobTimely
<1>7. Timely(AdvanceJob([s EXCEPT !.jobs[j] = new], j).jobs, sent)
  BY <1>1, <1>5, <1>6, AdvanceTimely
<1> QED BY <1>3, <1>4, <1>7

LEMMA ProcessResultTimely ==
  ASSUME NEW s, Sound(s), NEW sent, Timely(s.jobs, sent), NEW w \in Workers,
         NEW r, NamesTask(r), r.id \in AttemptIds,
         s.jobs[r.job].status # "Queued",
         r.phase = "promotion" => <<r.job, r.task>> \in sent
  PROVE  Timely(ProcessResult(s, w, r).jobs, sent)
<1>1. CASE s.jobs[r.job].status \in {"Absent", "Aborted", "Completed"}
  BY <1>1 DEF ProcessResult
<1>2. CASE s.jobs[r.job].status \notin {"Absent", "Aborted", "Completed"}
  <2>1. CASE r.phase = "map"
    BY <1>2, <2>1, ProcessMapResultTimely DEF ProcessResult, NamesTask
  <2>2. CASE r.phase = "reduce"
    BY <1>2, <2>2, ProcessReduceResultTimely DEF ProcessResult, NamesTask
  <2>3. CASE r.phase = "promotion"
    BY <1>2, <2>3, ProcessPromotionResultTimely DEF ProcessResult, NamesTask
  <2> QED BY <2>1, <2>2, <2>3 DEF NamesTask
<1> QED BY <1>1, <1>2

\* An eviction leaves more work, never less.
LEMMA ResetWorkerTasksTimely ==
  ASSUME NEW s, Sound(s), NEW sent, Timely(s.jobs, sent), NEW w,
         NEW ref, ref = None \/ NamesTask(ref)
  PROVE  Timely(ResetWorkerTasks(s, w, ref).jobs, sent)
<1> DEFINE j == ref.job
           k == ref.task
           t == ResetWorkerTasks(s, w, ref)
<1>1. CASE t = s
  BY <1>1
<1>2. CASE ref # None /\ ref.phase = "map" /\ t # s
  <2> DEFINE task == s.jobs[j].maps[k]
             released == ReleaseTask(task, w)
             new == [s.jobs[j] EXCEPT !.maps[k] = released]
  <2>1. /\ s \in State /\ j \in Jobs /\ s.jobs[j] \in Job
        /\ task \in MapTask /\ JobTimely(s.jobs[j], j, sent)
    BY <1>2, TasksOf DEF Sound, State, NamesTask, Timely
  <2>2. released.status = "Completed" => task.status = "Completed"
    BY <2>1 DEF ReleaseTask, DropAttempts, MapTask
  <2>3. t = [s EXCEPT !.jobs[j] = new]
    BY <1>2 DEF ResetWorkerTasks
  <2> HIDE DEF released, t
  <2>4. /\ new.status = s.jobs[j].status /\ new.reduces = s.jobs[j].reduces
        /\ \A m \in MapTasks : new.maps[m] = IF m = k THEN released
                                                      ELSE s.jobs[j].maps[m]
    BY <2>1 DEF Job
  <2> HIDE DEF new
  <2>5. NothingDone(s.jobs[j], new)
    BY <2>2, <2>4 DEF NothingDone
  <2>6. Timely(t.jobs, sent)
    BY <2>1, <2>3, <2>5, NothingDoneTimely, ReplaceTimely
  <2> QED BY <2>6 DEF t
<1>3. CASE ref # None /\ ref.phase = "reduce" /\ t # s
  <2> DEFINE task == s.jobs[j].reduces[k]
             released == ReleaseTask(task, w)
             new == [s.jobs[j] EXCEPT !.reduces[k] = released]
  <2>1. /\ s \in State /\ j \in Jobs /\ s.jobs[j] \in Job
        /\ task \in ReduceTask /\ JobTimely(s.jobs[j], j, sent)
    BY <1>3, TasksOf DEF Sound, State, NamesTask, Timely
  <2>2. Promoted(released) => Promoted(task)
    BY <2>1 DEF ReleaseTask, DropAttempts, ReduceTask, Promoted
  <2>3. t = [s EXCEPT !.jobs[j] = new]
    BY <1>3 DEF ResetWorkerTasks
  <2> HIDE DEF released, t
  <2>4. /\ new.status = s.jobs[j].status /\ new.maps = s.jobs[j].maps
        /\ \A p \in Partitions : new.reduces[p] = IF p = k THEN released
                                                  ELSE s.jobs[j].reduces[p]
    BY <2>1 DEF Job
  <2> HIDE DEF new
  <2>5. NothingDone(s.jobs[j], new)
    BY <2>2, <2>4 DEF NothingDone
  <2>6. Timely(t.jobs, sent)
    BY <2>1, <2>3, <2>5, NothingDoneTimely, ReplaceTimely
  <2> QED BY <2>6 DEF t
<1>4. CASE ref = None \/ ref.phase \notin {"map", "reduce"}
  <2>1. t = s
    BY <1>4 DEF ResetWorkerTasks
  <2> QED BY <2>1
<1> QED BY <1>1, <1>2, <1>3, <1>4

TimelyAll == Timely(jobs, Sent(issued))

LEMMA SentGrows ==
  ASSUME NEW I, NEW given, NEW w
  PROVE  Sent(I \cup {Issue(a, w) : a \in given}) = Sent(I) \cup Sent(given)
<1>1. \A a : /\ Issue(a, w).phase = a.phase
             /\ Issue(a, w).job = a.job
             /\ Issue(a, w).task = a.task
  BY DEF Issue
<1> QED BY <1>1 DEF Sent

LEMMA ExchangeTimely ==
  ASSUME IInv, ServiceInv, TimelyAll, NEW w \in Workers,
         NEW idle \in BOOLEAN, NEW slow, NEW i, NEW report, NEW result,
         Reported(report, result),
         Exchange(w, idle, i, report, result, slow)
  PROVE  TimelyAll'
<1> DEFINE h == Heard(w, idle, result, slow)
           processed == Processed(w, result)
           sent == Sent(issued)
<1>1. Sound(Current) /\ Current.jobs = jobs
  BY DEF IInv, Current
<1>2. Sound(processed) /\ Timely(processed.jobs, sent)
  <2>1. CASE result = None
    BY <1>1, <2>1 DEF TimelyAll, Processed
  <2>2. CASE result # None
    <3>1. PICK k \in issued, o \in Outcomes : result = Result(k, o)
      BY <2>2 DEF Reported
    <3>2. k \in Issues /\ k.job \in Started
      BY <3>1 DEF IInv, TypeOK, ControlTypeOK, ServiceInv
    <3>3. NamesTask(result) /\ result.id \in AttemptIds
      BY <3>1, <3>2, IssuesLemma, Zenon
    <3>4. result.job = k.job /\ result.task = k.task /\ result.phase = k.phase
      BY <3>1 DEF Result
    <3>5. Current.jobs[result.job].status # "Queued"
      BY <1>1, <3>2, <3>4 DEF Started
    <3>6. result.phase = "promotion" => <<result.job, result.task>> \in sent
      BY <3>1, <3>4 DEF Sent
    <3>7. processed = ProcessResult(Current, w, result)
      BY <2>2 DEF Processed
    <3> HIDE DEF processed, sent
    <3>8. Timely(Current.jobs, sent)
      BY <1>1 DEF TimelyAll, sent
    <3> QED BY <1>1, <3>3, <3>5, <3>6, <3>7, <3>8, ProcessResultSound,
               ProcessResultTimely
  <2> QED BY <2>1, <2>2
<1>3. h = IF idle THEN AssignTask(processed, w, slow) ELSE Nothing(processed)
  BY DEF Heard, Processed
<1> HIDE DEF processed, sent
<1>4. AssignsTimely(h, sent)
  <2>1. AssignsTimely(AssignTask(processed, w, slow), sent)
    BY <1>2, AssignTaskTimely
  <2>2. /\ Sent(Nothing(processed).given) = {}
        /\ Nothing(processed).s = processed
    BY DEF Nothing, Sent
  <2>3. AssignsTimely(Nothing(processed), sent)
    BY <1>2, <2>2 DEF AssignsTimely
  <2> HIDE DEF h
  <2> QED BY <1>3, <2>1, <2>3
<1>5. /\ jobs' = h.s.jobs
      /\ issued' = issued \cup {Issue(a, w) : a \in h.given}
  BY DEF Exchange, Heartbeat, Become
<1> HIDE DEF h
<1>6. Sent(issued)' = sent \cup Sent(h.given)
  BY <1>5, SentGrows DEF sent
<1> QED BY <1>4, <1>5, <1>6 DEF AssignsTimely, TimelyAll

LEMMA HeartbeatTimely ==
  ASSUME IInv, ServiceInv, TimelyAll, NEW w \in Workers, OpenHeartbeat(w)
  PROVE  TimelyAll'
<1>1. PICK idle \in BOOLEAN, i \in issued \cup {None}, slow \in SlowChoices :
        \/ Exchange(w, idle, i, {}, None, slow)
        \/ \E k \in issued, o \in Outcomes :
             Exchange(w, idle, i, {<<k, o>>}, Result(k, o), slow)
  BY DEF OpenHeartbeat, Given
<1>2. PICK report, result : /\ Reported(report, result)
                            /\ Exchange(w, idle, i, report, result, slow)
  <2>1. Reported({}, None)
    BY DEF Reported
  <2>2. \A k \in issued, o \in Outcomes : Reported({<<k, o>>}, Result(k, o))
    BY DEF Reported
  <2> QED BY <1>1, <2>1, <2>2
<1> QED BY <1>2, ExchangeTimely

LEMMA ExpireTimely ==
  ASSUME IInv, TimelyAll, NEW w \in Workers, Expire(w)
  PROVE  TimelyAll'
<1> DEFINE ref == currentTask[w]
           t == ResetWorkerTasks(Current, w, ref)
<1>1. jobs' = t.jobs /\ UNCHANGED issued
  BY DEF Expire, Evict, Become, netVars
<1>2. Sound(Current) /\ Current.jobs = jobs
  BY DEF IInv, Current
<1>3. ref = None \/ NamesTask(ref)
  BY DEF IInv, TypeOK, MasterTypeOK, TaskRefs, NamesTask
<1> HIDE DEF ref
<1>4. Timely(t.jobs, Sent(issued))
  BY <1>2, <1>3, ResetWorkerTasksTimely DEF TimelyAll
<1> QED BY <1>1, <1>4 DEF TimelyAll

LEMMA NewJobTimely ==
  ASSUME NEW j, NEW sent, \A p \in Partitions : <<j, p>> \notin sent,
         NEW job \in {NewJob, NoJob}
  PROVE  JobTimely(job, j, sent)
<1>1. /\ job.status \in {"Queued", "Absent"}
      /\ \A m \in MapTasks : job.maps[m].status = "Idle"
      /\ \A p \in Partitions : job.reduces[p].status = "Idle"
  <2>1. /\ NoJob.status = "Absent" /\ NoJob.maps = NewJob.maps
        /\ NoJob.reduces = NewJob.reduces
    BY DEF NoJob, NewJob
  <2>2. /\ NewJob.status = "Queued"
        /\ \A m \in MapTasks : NewJob.maps[m].status = "Idle"
        /\ \A p \in Partitions : NewJob.reduces[p].status = "Idle"
    BY DEF NewJob
  <2> QED BY <2>1, <2>2
<1>2. 1 \in MapTasks
  BY NumMapTasksAssumption DEF MapTasks
<1> QED BY <1>1, <1>2 DEF JobTimely, AllMapped, Promoted

LEMMA ClientTimely ==
  ASSUME IInv, ServiceInv, TimelyAll, Client
  PROVE  TimelyAll'
<1> DEFINE sent == Sent(issued)
<1>1. UNCHANGED issued /\ jobs \in [Jobs -> Job] /\ Timely(jobs, sent)
  BY Facts DEF Client, netVars, TimelyAll
<1>2. PICK j \in Jobs : \/ SubmitRegister(j) \/ SubmitEnqueue(j)
                       \/ SubmitReject(j) \/ Delete(j)
  BY DEF Client
<1>3. ASSUME NEW job, jobs' = [jobs EXCEPT ![j] = job], JobTimely(job, j, sent)
      PROVE  TimelyAll'
  <2>1. \A k \in Jobs : jobs'[k] = IF k = j THEN job ELSE jobs[k]
    BY <1>1, <1>3
  <2> HIDE DEF sent
  <2>2. Timely(jobs', sent)
    BY <1>1, <1>3, <2>1 DEF Timely
  <2> QED BY <1>1, <2>2 DEF TimelyAll, sent
<1>4. ASSUME NEW job \in {NewJob, NoJob}, jobs' = [jobs EXCEPT ![j] = job],
             \A i \in issued : i.job # j
      PROVE  TimelyAll'
  <2>1. \A p \in Partitions : <<j, p>> \notin sent
    BY <1>4 DEF Sent
  <2> HIDE DEF sent
  <2> QED BY <1>3, <1>4, <2>1, NewJobTimely
<1>5. CASE SubmitRegister(j)
  <2>1. jobs' = [jobs EXCEPT ![j] = NewJob] /\ j \notin submitted
    BY <1>5 DEF SubmitRegister
  <2>2. jobs[j].status = "Absent"
    BY <2>1 DEF IInv, SubmissionsAreSound, Known
  <2>3. \A i \in issued : i.job # j
    BY <2>2 DEF ServiceInv, Started
  <2> QED BY <1>4, <2>1, <2>3
<1>6. CASE SubmitEnqueue(j)
  BY <1>1, <1>6 DEF SubmitEnqueue, TimelyAll
<1>8. CASE SubmitReject(j)
  <2>1. j \in pending /\ jobs' = [jobs EXCEPT ![j] = NoJob]
    BY <1>8 DEF SubmitReject, IInv, TypeOK, MasterTypeOK
  <2>2. \A i \in issued : i.job # j
    BY <2>1 DEF ServiceInv, Started
  <2> QED BY <1>4, <2>1, <2>2
<1>7. CASE Delete(j)
  <2> DEFINE job == [jobs[j] EXCEPT !.status = "Aborted"]
  <2>1. job.status = "Aborted" /\ jobs' = [jobs EXCEPT ![j] = job]
    BY <1>1, <1>7 DEF Delete, Job
  <2> HIDE DEF job, sent
  <2>2. JobTimely(job, j, sent)
    BY <2>1 DEF JobTimely
  <2> QED BY <1>3, <2>1, <2>2
<1> QED BY <1>2, <1>5, <1>6, <1>7, <1>8

LEMMA NextTimely ==
  ASSUME MaxRestarts = 0,
         IInv, QueuedWait, ServiceInv, TimelyAll, [OpenNext]_vars
  PROVE  TimelyAll'
<1>1. CASE \E w \in Workers : OpenHeartbeat(w) \/ Expire(w)
  BY <1>1, HeartbeatTimely, ExpireTimely
<1>2. CASE Client
  BY <1>2, ClientTimely
<1>3. CASE Storage
  <2>1. UNCHANGED <<jobs, issued>>
    BY <1>3, StorageIdles DEF schedVars
  <2> QED BY <2>1 DEF TimelyAll
<1>4. CASE \/ TakeSnapshot \/ BadLoad \/ Interrupt \/ UNCHANGED vars
           \/ \E w \in Workers : Register(w)
  <2>1. UNCHANGED <<jobs, issued>>
    BY <1>4 DEF TakeSnapshot, Snapshot, BadLoad, LoadFails, Interrupt, Signal,
       Register, RegisterWorker, schedVars, netVars, vars, masterVars
  <2> QED BY <2>1 DEF TimelyAll
<1>5. ~Restart
  BY Facts DEF Restart, ServiceInv
<1> QED BY <1>1, <1>2, <1>3, <1>4, <1>5 DEF OpenNext

LEMMA OpenPrompt ==
  ASSUME MaxRestarts = 0
  PROVE  OpenSpec => []PhaseIsPrompt
<1>1. Init => QueuedWait /\ TimelyAll
  <2> SUFFICES ASSUME Init PROVE TimelyAll
    BY InitServes
  <2>1. jobs = [j \in Jobs |-> NoJob] /\ issued = {}
    BY DEF Init, MasterInit, Fresh
  <2>2. Sent(issued) = {}
    BY <2>1 DEF Sent
  <2>3. \A j \in Jobs : JobTimely(NoJob, j, {})
    BY NewJobTimely
  <2> QED BY <2>1, <2>2, <2>3 DEF TimelyAll, Timely
<1>2. IInv /\ QueuedWait /\ ServiceInv /\ TimelyAll /\ [OpenNext]_vars
        => TimelyAll'
  BY NextTimely
<1>3. TimelyAll => PhaseIsPrompt
  BY DEF TimelyAll, Timely, JobTimely, PhaseIsPrompt
<1>4. OpenSpec => []ServiceInv
  BY OpenServes, PTL
<1> QED BY <1>1, <1>2, <1>3, <1>4, WaitingStep, OpenInvariant, PTL DEF OpenSpec

\* A job leaves a phase with the result that ends it (scheduler.go:358, 407,
\* 444): none waits for an idle worker to notice, and the calls of advanceJob in
\* the assignments (scheduler.go:136, 241) change nothing.  Failures and evictions
\* only ever make more work, so this needs no more than that no master ends.
THEOREM PhaseIsPromptAlways ==
  ASSUME MaxRestarts = 0
  PROVE  Spec => []PhaseIsPrompt
BY OpenPrompt, SpecIsOpen, PTL

=============================================================================
