---------------------------- MODULE ServiceProofs ----------------------------
(***************************************************************************)
(* Proof that the control plane implements the job service while no master *)
(* ends, for all jobs, workers, task counts, capacities and bounds.        *)
(***************************************************************************)
EXTENDS DurabilityProofs, ControlService

\* What clients can see of a status, and the jobs of a queue that wait.
Kind(status) == IF status \in {"Mapping", "Reducing"} THEN "Running" ELSE status
Waits(s) == {j \in Members(s.queue) : s.jobs[j].status = "Queued"}
Order(s) == QueueOrder(s.queue, s.jobs)
OrderWithout(s, j) == {pair \in Order(s) : j \notin {pair[1], pair[2]}}

\* No job that still waits is touched.
LeavesQueued(s, t) ==
  \A j \in Jobs : t.jobs[j].status = "Queued" => t.jobs[j] = s.jobs[j]

\* The three things that a step of the scheduler can be to a client: nothing;
\* the end of the job that runs; the start of the one that waited longest.
Idles(s, t) ==
  /\ t.active = s.active
  /\ Order(t) = Order(s) /\ Waits(t) = Waits(s)
  /\ LeavesQueued(s, t)
  /\ \A j \in Jobs : Kind(t.jobs[j].status) = Kind(s.jobs[j].status)

Ends(s, t) ==
  /\ s.active # None /\ t.active = None
  /\ Order(t) = Order(s) /\ Waits(t) = Waits(s)
  /\ LeavesQueued(s, t)
  /\ \A j \in Jobs : Kind(t.jobs[j].status) =
       IF j = s.active THEN "Completed" ELSE Kind(s.jobs[j].status)

Starts(s, t) ==
  /\ s.active = None
  /\ t.active \in Waits(s)
  /\ \A k \in Waits(s) \ {t.active} : <<t.active, k>> \in Order(s)
  /\ Order(t) = OrderWithout(s, t.active)
  /\ Waits(t) = Waits(s) \ {t.active}
  /\ LeavesQueued(s, t)
  /\ \A j \in Jobs : Kind(t.jobs[j].status) =
       IF j = t.active THEN "Running" ELSE Kind(s.jobs[j].status)

-----------------------------------------------------------------------------
(* The operators of the scheduler                                          *)

LEMMA IdlesReflexive == ASSUME NEW s PROVE Idles(s, s)
BY DEF Idles, LeavesQueued

LEMMA IdlesTransitive ==
  ASSUME NEW s, NEW t, NEW u, Idles(s, t), Idles(t, u)
  PROVE  Idles(s, u)
BY DEF Idles, LeavesQueued

LEMMA EndsAfterIdles ==
  ASSUME NEW s, NEW t, NEW u, Idles(s, t), Ends(t, u)
  PROVE  Ends(s, u)
BY DEF Idles, Ends, LeavesQueued

LEMMA StartsAfterIdles ==
  ASSUME NEW s, NEW t, NEW u, Idles(s, t), Starts(t, u)
  PROVE  Starts(s, u)
BY DEF Idles, Starts, LeavesQueued, OrderWithout

LEMMA IdlesAfterEnds ==
  ASSUME NEW s, NEW t, NEW u, Ends(s, t), Idles(t, u)
  PROVE  Ends(s, u)
BY DEF Idles, Ends, LeavesQueued

LEMMA IdlesAfterStarts ==
  ASSUME NEW s, NEW t, NEW u, Starts(s, t), Idles(t, u)
  PROVE  Starts(s, u)
BY DEF Idles, Starts, LeavesQueued

\* Only the jobs that wait matter to the order.
LEMMA SameOrder ==
  ASSUME NEW s \in State, NEW t \in State, t.queue = s.queue,
         \A j \in Jobs : t.jobs[j].status = "Queued" <=>
                         s.jobs[j].status = "Queued"
  PROVE  Order(t) = Order(s) /\ Waits(t) = Waits(s)
<1>1. Members(s.queue) \subseteq Jobs
  BY DEF State, Members
<1> QED BY <1>1 DEF Order, QueueOrder, Waits

\* A step that replaces one job, which does not wait.
LEMMA ReplaceIdles ==
  ASSUME NEW s \in State, NEW t \in State, NEW j \in Jobs, NEW job,
         t.jobs = [s.jobs EXCEPT ![j] = job],
         t.active = s.active, t.queue = s.queue,
         s.jobs[j].status # "Queued", job.status # "Queued",
         Kind(job.status) = Kind(s.jobs[j].status)
  PROVE  Idles(s, t)
<1>1. \A k \in Jobs : t.jobs[k] = IF k = j THEN job ELSE s.jobs[k]
  BY DEF State
<1>2. Order(t) = Order(s) /\ Waits(t) = Waits(s)
  BY <1>1, SameOrder
<1> QED BY <1>1, <1>2 DEF Idles, LeavesQueued

LEMMA AdvanceJobServes ==
  ASSUME NEW s, Sound(s), NEW j \in Jobs
  PROVE  LET t == AdvanceJob(s, j) IN
         /\ Idles(s, t) \/ Ends(s, t)
         /\ s.jobs[j].status # "Reducing" => Idles(s, t)
<1> DEFINE t == AdvanceJob(s, j)
<1>1. s \in State /\ s.jobs[j] \in Job /\ s.jobs \in [Jobs -> Job]
      /\ t \in State
  BY AdvanceJobSound DEF Sound, State
<1>2. CASE s.jobs[j].status = "Mapping" /\ AllMapped(s.jobs[j])
  <2> DEFINE job == [s.jobs[j] EXCEPT !.status = "Reducing"]
  <2>1. /\ t.jobs = [s.jobs EXCEPT ![j] = job]
        /\ t.active = s.active /\ t.queue = s.queue
    BY <1>1, <1>2 DEF AdvanceJob, State
  <2>2. job.status = "Reducing"
    BY <1>1 DEF Job
  <2>3. Kind(job.status) = Kind(s.jobs[j].status)
    BY <1>2, <2>2 DEF Kind
  <2> HIDE DEF t, job
  <2>4. Idles(s, t)
    BY <1>1, <1>2, <2>1, <2>2, <2>3, ReplaceIdles
  <2> QED BY <1>2, <2>4 DEF t
<1>3. CASE s.jobs[j].status = "Reducing" /\ AllPromoted(s.jobs[j])
  <2> DEFINE job == [s.jobs[j] EXCEPT !.status = "Completed"]
  <2>1. /\ t.jobs = [s.jobs EXCEPT ![j] = job]
        /\ t.active = None /\ t.queue = s.queue
    BY <1>1, <1>3 DEF AdvanceJob, State
  <2>2. job.status = "Completed"
    BY <1>1 DEF Job
  <2>3. s.active = j /\ j # None
    BY <1>3, NoneAssumption DEF Sound, OneRuns, Running
  <2> HIDE DEF t, job
  <2>4. \A k \in Jobs : t.jobs[k] = IF k = j THEN job ELSE s.jobs[k]
    BY <1>1, <2>1
  <2>5. Order(t) = Order(s) /\ Waits(t) = Waits(s)
    BY <1>1, <1>3, <2>1, <2>2, <2>4, SameOrder
  <2>6. Ends(s, t)
    BY <2>1, <2>2, <2>3, <2>4, <2>5 DEF Ends, LeavesQueued, Kind
  <2> QED BY <1>3, <2>6 DEF t
<1>4. CASE t = s
  BY <1>4, IdlesReflexive
<1> QED BY <1>2, <1>3, <1>4 DEF AdvanceJob

\* Popping the queue starts the first job that waits, if there is one.
LEMMA ActivateNextJobServes ==
  ASSUME NEW s, Sound(s), s.active = None
  PROVE  LET t == ActivateNextJob(s) IN
         \/ Idles(s, t)
         \/ /\ Starts(s, t)
            /\ t.jobs[t.active] = [s.jobs[t.active] EXCEPT !.status = "Mapping"]
<1> DEFINE q == s.queue
           t == ActivateNextJob(s)
           runnable == {i \in 1 .. Len(q) :
                          s.jobs[q[i]].status \notin {"Absent", "Aborted"}}
<1>1. /\ q \in Seq(Jobs) /\ Len(q) \in Nat
      /\ \A i \in 1 .. Len(q) : q[i] \in Jobs
      /\ s \in State /\ s.jobs \in [Jobs -> Job]
  BY DEF Sound, State
\* What runs to the queue is what waits in it.
<1>2. \A i \in 1 .. Len(q) : i \in runnable <=> s.jobs[q[i]].status = "Queued"
  BY DEF Sound, QueueSound, NotStarted
<1>3. CASE runnable = {}
  <2>1. t.jobs = s.jobs /\ t.active = s.active /\ t.queue = <<>>
    BY <1>1, <1>3 DEF ActivateNextJob, State
  <2>2. \A i \in 1 .. Len(q) : s.jobs[q[i]].status # "Queued"
    BY <1>2, <1>3
  <2> HIDE DEF runnable, t
  <2>3. Waits(s) = {} /\ Order(s) = {}
    BY <2>2 DEF Waits, Order, QueueOrder, Members
  <2>4. Waits(t) = {} /\ Order(t) = {}
    BY <2>1 DEF Waits, Order, QueueOrder, Members
  <2> QED BY <2>1, <2>3, <2>4 DEF Idles, LeavesQueued, t
<1>4. CASE runnable # {}
  <2> DEFINE first == Min(runnable)
             j == q[first]
             rest == SubSeq(q, first + 1, Len(q))
             job == [s.jobs[j] EXCEPT !.status = "Mapping"]
  <2>1. /\ first \in 1 .. Len(q) /\ s.jobs[j].status = "Queued"
        /\ \A i \in 1 .. Len(q) : s.jobs[q[i]].status = "Queued" => first <= i
    <3>1. runnable \in SUBSET Nat
      BY <1>1
    <3> HIDE DEF runnable
    <3>2. first \in runnable /\ \A i \in runnable : first <= i
      BY <1>4, <3>1, MinLemma
    <3>3. first \in 1 .. Len(q)
      BY <3>2 DEF runnable
    <3> HIDE DEF first
    <3> QED BY <1>2, <3>2, <3>3
  <2>2. /\ t.queue = rest /\ t.active = j
        /\ t.jobs = [s.jobs EXCEPT ![j] = job]
    BY <1>1, <1>4 DEF ActivateNextJob, State
  <2> HIDE DEF first
  <2>3. /\ Len(rest) = Len(q) - first /\ Len(rest) \in Nat
        /\ \A i \in 1 .. Len(rest) : rest[i] = q[first + i]
        /\ j \in Jobs
    BY <1>1, <2>1
  <2>4. job.status = "Mapping"
    BY <1>1, <2>3 DEF Job
  <2> HIDE DEF rest, j, t, job, runnable
  <2>5. \A k \in Jobs : t.jobs[k] = IF k = j THEN job ELSE s.jobs[k]
    BY <1>1, <2>2
  <2>6. \A i, k \in 1 .. Len(q) : q[i] = q[k] => i = k
    BY DEF Sound, QueueSound
\* The places of waiting jobs in what is left of the queue.
  <2>7. ASSUME NEW k \in Jobs, s.jobs[k].status = "Queued",
               NEW i \in 1 .. Len(q), q[i] = k
        PROVE  \/ k = j /\ i = first
               \/ k # j /\ i - first \in 1 .. Len(rest) /\ rest[i - first] = k
    <3>1. first <= i
      BY <2>1, <2>7
    <3>2. k = j <=> i = first
      BY <2>1, <2>6, <2>7 DEF j
    <3>3. i # first => i - first \in 1 .. Len(rest) /\ rest[i - first] = k
      BY <1>1, <2>1, <2>3, <2>7, <3>1
    <3> QED BY <3>2, <3>3
  <2>8. ASSUME NEW i \in 1 .. Len(rest)
        PROVE  first + i \in 1 .. Len(q) /\ rest[i] = q[first + i] /\ rest[i] # j
    <3>1. first + i \in 1 .. Len(q) /\ rest[i] = q[first + i]
      BY <1>1, <2>1, <2>3
    <3>2. first + i # first
      BY <2>1, <2>3
    <3> QED BY <2>1, <2>6, <3>1, <3>2 DEF j
  <2>9. Waits(t) = Waits(s) \ {j}
    <3>1. ASSUME NEW k \in Waits(t) PROVE k \in Waits(s) /\ k # j
      <4>1. PICK i \in 1 .. Len(rest) : rest[i] = k
        BY <2>2, <3>1 DEF Waits, Members
      <4>2. k \in Members(q) /\ k # j /\ k \in Jobs
        BY <1>1, <2>8, <4>1 DEF Members
      <4> QED BY <2>5, <3>1, <4>2 DEF Waits
    <3>2. ASSUME NEW k \in Waits(s), k # j PROVE k \in Waits(t)
      <4>1. PICK i \in 1 .. Len(q) : q[i] = k
        BY <3>2 DEF Waits, Members
      <4>2. k \in Jobs /\ s.jobs[k].status = "Queued"
        BY <1>1, <3>2, <4>1 DEF Waits
      <4>3. i - first \in 1 .. Len(rest) /\ rest[i - first] = k
        BY <2>7, <3>2, <4>1, <4>2
      <4> QED BY <2>2, <2>5, <3>2, <4>2, <4>3 DEF Waits, Members
    <3> QED BY <3>1, <3>2
  <2>10. Order(t) = OrderWithout(s, j)
    <3>1. ASSUME NEW a \in Jobs, NEW b \in Jobs, <<a, b>> \in Order(t)
          PROVE  <<a, b>> \in Order(s) /\ a # j /\ b # j
      <4>1. PICK i \in 1 .. Len(rest), k \in 1 .. Len(rest) :
              i < k /\ rest[i] = a /\ rest[k] = b
        BY <2>2, <3>1 DEF Order, QueueOrder
      <4>2. /\ first + i \in 1 .. Len(q) /\ first + k \in 1 .. Len(q)
            /\ first + i < first + k /\ q[first + i] = a /\ q[first + k] = b
            /\ a # j /\ b # j
        BY <2>1, <2>3, <2>8, <4>1
      <4>3. s.jobs[a].status = "Queued" /\ s.jobs[b].status = "Queued"
        BY <2>5, <3>1, <4>2 DEF Order, QueueOrder
      <4> QED BY <4>2, <4>3 DEF Order, QueueOrder
    <3>2. ASSUME NEW a \in Jobs, NEW b \in Jobs, <<a, b>> \in Order(s),
                 a # j, b # j
          PROVE  <<a, b>> \in Order(t)
      <4>1. PICK i \in 1 .. Len(q), k \in 1 .. Len(q) :
              i < k /\ q[i] = a /\ q[k] = b
        BY <3>2 DEF Order, QueueOrder
      <4>2. s.jobs[a].status = "Queued" /\ s.jobs[b].status = "Queued"
        BY <3>2 DEF Order, QueueOrder
      <4>3. /\ i - first \in 1 .. Len(rest) /\ rest[i - first] = a
            /\ k - first \in 1 .. Len(rest) /\ rest[k - first] = b
        BY <2>7, <3>2, <4>1, <4>2
      <4>4. i - first < k - first
        BY <2>1, <4>1
      <4> QED BY <2>2, <2>5, <3>2, <4>2, <4>3, <4>4 DEF Order, QueueOrder
    <3>3. Order(t) \subseteq Jobs \X Jobs /\ Order(s) \subseteq Jobs \X Jobs
      BY DEF Order, QueueOrder
    <3> QED BY <3>1, <3>2, <3>3 DEF OrderWithout
  <2>11. j \in Waits(s)
    BY <2>1 DEF Waits, Members, j
  <2>12. ASSUME NEW k \in Waits(s), k # j PROVE <<j, k>> \in Order(s)
    <3>1. PICK i \in 1 .. Len(q) : q[i] = k
      BY <2>12 DEF Waits, Members
    <3>2. s.jobs[k].status = "Queued" /\ k \in Jobs
      BY <1>1, <2>12, <3>1 DEF Waits
    <3>3. first < i
      <4>1. first <= i /\ i # first
        BY <2>1, <2>12, <3>1, <3>2 DEF j
      <4> QED BY <2>1, <4>1
    <3> QED BY <2>1, <2>3, <3>1, <3>2, <3>3 DEF Order, QueueOrder, j
  <2>13. Starts(s, t)
    BY <2>2, <2>4, <2>5, <2>9, <2>10, <2>11, <2>12
       DEF Starts, LeavesQueued, Kind
  <2>14. t.jobs[t.active] = [s.jobs[t.active] EXCEPT !.status = "Mapping"]
    BY <2>2, <2>3, <2>5 DEF job
  <2> QED BY <2>13, <2>14 DEF t
<1> QED BY <1>3, <1>4

\* Handing out a task is nothing to a client.
LEMMA GiveIdles ==
  ASSUME NEW s, Sound(s), NEW j \in Jobs, s.jobs[j].status # "Queued",
         NEW w \in Workers
  PROVE  /\ \A m \in MapTasks : ~Duplicated(s.jobs[j].maps[m]) =>
              Idles(s, GiveMap(s, j, m, w).s)
         /\ \A p \in Partitions : ~Duplicated(s.jobs[j].reduces[p]) =>
              Idles(s, GiveReduce(s, j, p, w).s)
<1>1. s \in State /\ s.jobs[j] \in Job /\ s.jobs \in [Jobs -> Job]
  BY DEF Sound, State
<1>2. ASSUME NEW m \in MapTasks, ~Duplicated(s.jobs[j].maps[m])
      PROVE  Idles(s, GiveMap(s, j, m, w).s)
  <2> DEFINE t == GiveMap(s, j, m, w).s
             task == StartAttempt(s.jobs[j].maps[m], s.next, w)
             job == [s.jobs[j] EXCEPT !.maps[m] = task]
  <2>1. t = [s EXCEPT !.jobs[j] = job, !.next = s.next + 1]
    BY DEF GiveMap
  <2>2. t \in State
    BY <1>2, GiveMapSound DEF Sound
  <2> HIDE DEF t, task
  <2>3. job.status = s.jobs[j].status
    BY <1>1 DEF Job
  <2> HIDE DEF job
  <2>4. /\ t.jobs = [s.jobs EXCEPT ![j] = job]
        /\ t.active = s.active /\ t.queue = s.queue
    BY <1>1, <2>1 DEF State
  <2>5. Idles(s, t)
    BY <1>1, <2>2, <2>3, <2>4, ReplaceIdles
  <2> QED BY <2>5 DEF t
<1>3. ASSUME NEW p \in Partitions, ~Duplicated(s.jobs[j].reduces[p])
      PROVE  Idles(s, GiveReduce(s, j, p, w).s)
  <2> DEFINE t == GiveReduce(s, j, p, w).s
             task == StartAttempt(s.jobs[j].reduces[p], s.next, w)
             job == [s.jobs[j] EXCEPT !.reduces[p] = task]
  <2>1. t = [s EXCEPT !.jobs[j] = job, !.next = s.next + 1]
    BY DEF GiveReduce
  <2>2. t \in State
    BY <1>3, GiveReduceSound DEF Sound
  <2> HIDE DEF t, task
  <2>3. job.status = s.jobs[j].status
    BY <1>1 DEF Job
  <2> HIDE DEF job
  <2>4. /\ t.jobs = [s.jobs EXCEPT ![j] = job]
        /\ t.active = s.active /\ t.queue = s.queue
    BY <1>1, <2>1 DEF State
  <2>5. Idles(s, t)
    BY <1>1, <2>2, <2>3, <2>4, ReplaceIdles
  <2> QED BY <2>5 DEF t
<1> QED BY <1>2, <1>3

LEMMA AssignReduceTaskServes ==
  ASSUME NEW s, Sound(s), NEW j \in Jobs, s.jobs[j].status # "Queued",
         NEW w \in Workers, NEW slow
  PROVE  LET t == AssignReduceTask(s, j, w, slow).s IN
         /\ Idles(s, t) \/ Ends(s, t)
         /\ s.jobs[j].status # "Reducing" => Idles(s, t)
<1> DEFINE idle == IdleReduces(s.jobs[j])
           late == SlowReduces(s.jobs[j], slow)
<1>1. ASSUME NEW S \in {idle, late}, S # {}
      PROVE  Idles(s, GiveReduce(s, j, Min(S), w).s)
  BY <1>1, CandidatesLemma, GiveIdles
<1>2. LET t == AdvanceJob(s, j) IN
      /\ Idles(s, t) \/ Ends(s, t)
      /\ s.jobs[j].status # "Reducing" => Idles(s, t)
  BY AdvanceJobServes
<1> QED BY <1>1, <1>2 DEF AssignReduceTask, Nothing

LEMMA AssignMapTaskServes ==
  ASSUME NEW s, Sound(s), NEW j \in Jobs, s.jobs[j].status = "Mapping",
         NEW w \in Workers, NEW slow
  PROVE  LET a == AssignMapTask(s, j, w, slow) IN
         /\ Idles(s, a.s) \/ Ends(s, a.s)
         /\ IdleMaps(s.jobs[j]) # {} => Idles(s, a.s) /\ a.given # {}
<1> DEFINE idle == IdleMaps(s.jobs[j])
           late == SlowMaps(s.jobs[j], slow)
           advanced == AdvanceJob(s, j)
<1>1. ASSUME NEW S \in {idle, late}, S # {}
      PROVE  /\ Idles(s, GiveMap(s, j, Min(S), w).s)
             /\ GiveMap(s, j, Min(S), w).given # {}
  <2>1. Idles(s, GiveMap(s, j, Min(S), w).s)
    BY <1>1, CandidatesLemma, GiveIdles
  <2>2. GiveMap(s, j, Min(S), w).given # {}
    BY DEF GiveMap
  <2> QED BY <2>1, <2>2
<1>2. Sound(advanced) /\ Idles(s, advanced)
  BY AdvanceJobSound, AdvanceJobServes
<1>3. advanced.jobs[j].status # "Queued"
  BY <1>2 DEF Idles, Kind
<1>4. LET t == AssignReduceTask(advanced, j, w, slow).s IN
      Idles(s, t) \/ Ends(s, t)
  BY <1>2, <1>3, AssignReduceTaskServes, IdlesTransitive, EndsAfterIdles
<1> HIDE DEF advanced
<1> QED BY <1>1, <1>2, <1>4 DEF AssignMapTask, Nothing, advanced

\* A job that waits has not begun.
NotBegun(s) ==
  \A j \in Jobs : s.jobs[j].status = "Queued" =>
    \A m \in MapTasks : s.jobs[j].maps[m].status = "Idle"

\* All that is handed out is of one job.
LEMMA GivenOfJob ==
  ASSUME NEW s, NEW j, NEW w, NEW slow
  PROVE  \A a \in AssignFromJob(s, j, w, slow).given : a.job = j
<1>1. \A u : \A a \in AssignReduceTask(u, j, w, slow).given : a.job = j
  BY DEF AssignReduceTask, GiveReduce, Nothing
<1>2. \A u : \A a \in AssignMapTask(u, j, w, slow).given : a.job = j
  BY <1>1 DEF AssignMapTask, GiveMap, Nothing
<1>3. \A a \in AssignPromotionTask(s, j).given : a.job = j
  BY DEF AssignPromotionTask
<1>4. \A t : Nothing(t).given = {}
  BY DEF Nothing
<1> QED BY <1>1, <1>2, <1>3, <1>4 DEF AssignFromJob

\* A job that has just started cannot end in the same step: it has maps to hand
\* out.
LEMMA AssignTaskServes ==
  ASSUME NEW s, Sound(s), NotBegun(s), NEW w \in Workers, NEW slow
  PROVE  LET a == AssignTask(s, w, slow) IN
         /\ Idles(s, a.s) \/ Ends(s, a.s) \/ Starts(s, a.s)
         /\ \A i \in a.given :
              a.s.jobs[i.job].status \in {"Mapping", "Reducing", "Completed"}
<1> DEFINE ready == IF s.active = None THEN ActivateNextJob(s) ELSE s
           j == ready.active
           mapping == AssignMapTask(ready, j, w, slow)
           promotion == AssignPromotionTask(ready, j)
<1>1. Sound(ready)
  BY ActivateNextJobSound
<1>2. \/ Idles(s, ready)
      \/ /\ Starts(s, ready)
         /\ ready.jobs[j] = [s.jobs[j] EXCEPT !.status = "Mapping"]
  BY ActivateNextJobServes, IdlesReflexive
<1>3. AssignTask(s, w, slow) =
        IF j = None THEN Nothing(ready) ELSE AssignFromJob(ready, j, w, slow)
  BY DEF AssignTask
<1> HIDE DEF ready
<1>4. CASE j = None
  <2>1. ~Starts(s, ready)
    BY <1>1, <1>4, NoneAssumption DEF Sound, State, Starts, Waits, Members
  <2> QED BY <1>2, <1>3, <1>4, <2>1 DEF Nothing
<1>5. CASE j # None
  <2>1. j \in Jobs /\ Running(ready.jobs[j])
    BY <1>1, <1>5 DEF Sound, State, OneRuns
  <2> DEFINE t == AssignFromJob(ready, j, w, slow).s
  <2>2. /\ Idles(ready, t) \/ Ends(ready, t)
        /\ ready.jobs[j].status = "Mapping" /\ IdleMaps(ready.jobs[j]) # {} =>
             Idles(ready, t)
    <3>1. CASE ready.jobs[j].status = "Mapping"
      <4>1. /\ Idles(ready, mapping.s) \/ Ends(ready, mapping.s)
            /\ IdleMaps(ready.jobs[j]) # {} =>
                 Idles(ready, mapping.s) /\ mapping.given # {}
            /\ Sound(mapping.s)
        BY <1>1, <2>1, <3>1, AssignMapTaskServes, AssignMapTaskSound
      <4> HIDE DEF mapping
      <4>2. AssignFromJob(ready, j, w, slow) =
              IF mapping.given = {} /\ AnyMapTaskCompleted(ready.jobs[j])
                THEN AssignReduceTask(mapping.s, j, w, slow)
                ELSE mapping
        BY <3>1 DEF AssignFromJob, mapping
      <4> DEFINE u == AssignReduceTask(mapping.s, j, w, slow).s
      <4>3. mapping.s.jobs[j].status # "Queued"
        BY <2>1, <3>1, <4>1 DEF Idles, Ends, Kind
      <4>4. CASE Idles(ready, mapping.s)
        <5>1. Idles(ready, u) \/ Ends(ready, u)
          BY <2>1, <4>1, <4>3, <4>4, AssignReduceTaskServes, IdlesTransitive,
             EndsAfterIdles
        <5> QED BY <4>1, <4>2, <4>4, <5>1
      <4>5. CASE Ends(ready, mapping.s)
        <5>1. mapping.s.jobs[j].status = "Completed"
          BY <2>1, <4>5 DEF Ends, Kind
        <5>2. Idles(mapping.s, u)
          BY <2>1, <4>1, <4>3, <5>1, AssignReduceTaskServes
        <5>3. Ends(ready, u)
          BY <4>5, <5>2, IdlesAfterEnds
        <5> QED BY <4>1, <4>2, <4>5, <5>3
      <4> QED BY <4>1, <4>4, <4>5
    <3>2. CASE ready.jobs[j].status = "Reducing"
      <4>1. promotion.s = ready
        BY DEF AssignPromotionTask
      <4> HIDE DEF promotion
      <4>2. AssignFromJob(ready, j, w, slow) =
              IF promotion.given = {} THEN AssignReduceTask(ready, j, w, slow)
                                      ELSE promotion
        BY <3>2 DEF AssignFromJob, promotion
      <4>3. LET u == AssignReduceTask(ready, j, w, slow).s IN
            Idles(ready, u) \/ Ends(ready, u)
        BY <1>1, <2>1, <3>2, AssignReduceTaskServes
      <4> QED BY <3>2, <4>1, <4>2, <4>3, IdlesReflexive
    <3> QED BY <2>1, <3>1, <3>2 DEF Running
  <2>3. AssignTask(s, w, slow).s = t
    BY <1>3, <1>5
  <2> HIDE DEF t, mapping, promotion
  <2>6. \A i \in AssignTask(s, w, slow).given :
          t.jobs[i.job].status \in {"Mapping", "Reducing", "Completed"}
    <3>1. \A i \in AssignTask(s, w, slow).given : i.job = j
      BY <1>3, <1>5, GivenOfJob
    <3>2. t.jobs[j].status \in {"Mapping", "Reducing", "Completed"}
      <4>1. t.jobs[j].status \in JobStatus
        BY <2>1, <2>3, AssignTaskSound DEF Sound, State, Job
      <4> QED BY <2>1, <2>2, <4>1 DEF Running, Idles, Ends, Kind, JobStatus
    <3> QED BY <3>1, <3>2
  <2>4. CASE Idles(s, ready)
    <3>1. Idles(s, t) \/ Ends(s, t)
      BY <2>2, <2>4, IdlesTransitive, EndsAfterIdles
    <3> QED BY <2>3, <2>6, <3>1
  <2>5. CASE ~Idles(s, ready)
    <3>1. /\ Starts(s, ready)
          /\ ready.jobs[j] = [s.jobs[j] EXCEPT !.status = "Mapping"]
      BY <1>2, <2>5
    <3>2. s.jobs[j] \in Job /\ s.jobs[j].status = "Queued"
      BY <2>1, <3>1 DEF Sound, State, Starts, Waits
    <3>3. /\ ready.jobs[j].status = "Mapping"
          /\ ready.jobs[j].maps = s.jobs[j].maps
      BY <3>1, <3>2 DEF Job
    <3>4. 1 \in IdleMaps(ready.jobs[j])
      BY <2>1, <3>2, <3>3, NumMapTasksAssumption
         DEF IdleMaps, NotBegun, MapTasks
    <3>5. Starts(s, t)
      BY <2>2, <3>1, <3>3, <3>4, IdlesAfterStarts
    <3> QED BY <2>3, <2>6, <3>5
  <2> QED BY <2>4, <2>5
<1> QED BY <1>4, <1>5

-----------------------------------------------------------------------------
(* Results and evictions                                                   *)

\* A change of a task of job j, and of nothing else.
Touches(s, u, j) ==
  /\ Sound(u)
  /\ \E job : u = [s EXCEPT !.jobs[j] = job] /\ job.status = s.jobs[j].status

LEMMA MapTouches ==
  ASSUME NEW s, Sound(s), NEW j \in Jobs, NEW m \in MapTasks,
         NEW task \in MapTask, TaskIsSound(task), NEW n \in 0 .. 2,
         NEW new, new = [s.jobs[j] EXCEPT !.maps[m] = task, !.mapTimes = n]
  PROVE  Touches(s, [s EXCEPT !.jobs[j] = new], j)
<1>1. s.jobs[j] \in Job /\ s.next \in AttemptIds
  BY DEF Sound, State
<1>2. new.status = s.jobs[j].status
  BY <1>1 DEF Job
<1> QED BY <1>1, <1>2, MapStepSound DEF Touches

LEMMA ReduceTouches ==
  ASSUME NEW s, Sound(s), NEW j \in Jobs, NEW p \in Partitions,
         NEW task \in ReduceTask, TaskIsSound(task), NEW n \in 0 .. 2,
         NEW new,
         new = [s.jobs[j] EXCEPT !.reduces[p] = task, !.reduceTimes = n]
  PROVE  Touches(s, [s EXCEPT !.jobs[j] = new], j)
<1>1. s.jobs[j] \in Job /\ s.next \in AttemptIds
  BY DEF Sound, State
<1>2. new.status = s.jobs[j].status
  BY <1>1 DEF Job
<1> QED BY <1>1, <1>2, ReduceStepSound DEF Touches

\* Such a change is nothing to a client, and may let the job end.
LEMMA TouchesServes ==
  ASSUME NEW s, Sound(s), NEW j \in Jobs, s.jobs[j].status # "Queued",
         NEW u, Touches(s, u, j)
  PROVE  /\ Idles(s, u)
         /\ LET v == AdvanceJob(u, j) IN Idles(s, v) \/ Ends(s, v)
<1>1. PICK job : u = [s EXCEPT !.jobs[j] = job]
                   /\ job.status = s.jobs[j].status
  BY DEF Touches
<1>2. /\ u.jobs = [s.jobs EXCEPT ![j] = job]
      /\ u.active = s.active /\ u.queue = s.queue
      /\ u \in State /\ s \in State
  BY <1>1 DEF Sound, State, Touches
<1>3. Idles(s, u)
  BY <1>1, <1>2, ReplaceIdles
<1> QED BY <1>3, AdvanceJobServes, IdlesTransitive, EndsAfterIdles DEF Touches

LEMMA ProcessMapResultServes ==
  ASSUME NEW s, Sound(s), NEW w \in Workers, NEW r, r.job \in Jobs,
         r.task \in MapTasks, r.id \in AttemptIds,
         s.jobs[r.job].status # "Queued"
  PROVE  LET t == ProcessMapResult(s, w, r) IN Idles(s, t) \/ Ends(s, t)
<1> DEFINE j == r.job
           k == r.task
           task == s.jobs[j].maps[k]
           n == s.jobs[j].mapTimes
<1>1. /\ task \in MapTask /\ TaskIsSound(task) /\ n \in 0 .. 2
      /\ s.jobs[j] \in Job
  BY TasksOf DEF Sound, State
<1>2. CASE r.outcome = "FAILED"
  <2> DEFINE dropped == DropAttempts(task, AttemptsNamed(task, r.id))
             new == [s.jobs[j] EXCEPT !.maps[k] = dropped, !.mapTimes = n]
  <2>1. dropped \in MapTask /\ TaskIsSound(dropped)
    BY <1>1, DropAttemptsSound
  <2>2. new = [s.jobs[j] EXCEPT !.maps[k] = dropped]
    <3> HIDE DEF dropped
    <3> QED BY <1>1 DEF Job
  <2>3. ProcessMapResult(s, w, r) = [s EXCEPT !.jobs[j] = new]
    BY <1>2, <2>2 DEF ProcessMapResult
  <2> HIDE DEF dropped, new
  <2>4. Touches(s, [s EXCEPT !.jobs[j] = new], j)
    BY <1>1, <2>1, MapTouches DEF new
  <2> QED BY <2>3, <2>4, TouchesServes
<1>3. CASE r.outcome # "FAILED" /\ task.status = "Completed"
  BY <1>3, IdlesReflexive DEF ProcessMapResult
<1>4. CASE r.outcome # "FAILED" /\ task.status # "Completed"
  <2> DEFINE complete == [task EXCEPT !.status = "Completed", !.host = w]
             count == CountCompletion(n, task, r.id)
             new == [s.jobs[j] EXCEPT !.maps[k] = complete, !.mapTimes = count]
             t == [s EXCEPT !.jobs[j] = new]
             u == [s EXCEPT !.jobs[j].maps[k] = complete,
                            !.jobs[j].mapTimes = count]
  <2>1. complete \in MapTask /\ TaskIsSound(complete)
    <3>1. task \in MapTask /\ TaskIsSound(task)
      BY <1>1
    <3> HIDE DEF task
    <3>2. complete \in MapTask
      BY <3>1 DEF MapTask, TaskStatus
    <3>3. complete.status = "Completed" /\ complete.attempts = task.attempts
      BY <3>1 DEF MapTask
    <3> QED BY <3>1, <3>2, <3>3 DEF TaskIsSound
  <2>2. count \in 0 .. 2
    BY <1>1 DEF CountCompletion
  <2>3. ProcessMapResult(s, w, r) = AdvanceJob(u, j)
    BY <1>4 DEF ProcessMapResult
  <2> HIDE DEF complete, count
  <2>4. u = t
    BY <1>1 DEF Sound, State, Job
  <2> HIDE DEF new, t, u
  <2>5. Touches(s, t, j)
    BY <1>1, <2>1, <2>2, MapTouches DEF new, t
  <2> QED BY <2>3, <2>4, <2>5, TouchesServes
<1> QED BY <1>2, <1>3, <1>4

LEMMA ProcessReduceResultServes ==
  ASSUME NEW s, Sound(s), NEW r, r.job \in Jobs, r.task \in Partitions,
         r.id \in AttemptIds, s.jobs[r.job].status # "Queued"
  PROVE  LET t == ProcessReduceResult(s, r) IN Idles(s, t) \/ Ends(s, t)
<1> DEFINE j == r.job
           k == r.task
           task == s.jobs[j].reduces[k]
           n == s.jobs[j].reduceTimes
<1>1. /\ task \in ReduceTask /\ TaskIsSound(task) /\ n \in 0 .. 2
      /\ s.jobs[j] \in Job
  BY TasksOf DEF Sound, State
<1>2. CASE r.outcome = "FAILED"
  <2> DEFINE dropped == DropAttempts(task, AttemptsNamed(task, r.id))
             new == [s.jobs[j] EXCEPT !.reduces[k] = dropped, !.reduceTimes = n]
  <2>1. dropped \in ReduceTask /\ TaskIsSound(dropped)
    BY <1>1, DropAttemptsSound
  <2>2. new = [s.jobs[j] EXCEPT !.reduces[k] = dropped]
    <3> HIDE DEF dropped
    <3> QED BY <1>1 DEF Job
  <2>3. ProcessReduceResult(s, r) = [s EXCEPT !.jobs[j] = new]
    BY <1>2, <2>2 DEF ProcessReduceResult
  <2> HIDE DEF dropped, new
  <2>4. Touches(s, [s EXCEPT !.jobs[j] = new], j)
    BY <1>1, <2>1, ReduceTouches DEF new
  <2> QED BY <2>3, <2>4, TouchesServes
<1>3. CASE r.outcome # "FAILED" /\ task.status = "Completed"
  BY <1>3, IdlesReflexive DEF ProcessReduceResult
<1>4. CASE r.outcome # "FAILED" /\ task.status # "Completed"
  <2> DEFINE complete == [task EXCEPT !.status = "Completed",
                                      !.winner = r.id, !.temp = r.id]
             count == CountCompletion(n, task, r.id)
             new == [s.jobs[j] EXCEPT !.reduces[k] = complete,
                                      !.reduceTimes = count]
             t == [s EXCEPT !.jobs[j] = new]
             u == [s EXCEPT !.jobs[j].reduces[k] = complete,
                            !.jobs[j].reduceTimes = count]
  <2>1. complete \in ReduceTask /\ TaskIsSound(complete)
    <3>1. r.id \in Nat /\ task \in ReduceTask
      BY <1>1 DEF AttemptIds
    <3> HIDE DEF task
    <3>2. complete \in ReduceTask
      BY <3>1 DEF ReduceTask, TaskStatus
    <3>3. complete.status = "Completed" /\ complete.attempts = task.attempts
      BY <3>1 DEF ReduceTask
    <3> QED BY <1>1, <3>2, <3>3 DEF TaskIsSound
  <2>2. count \in 0 .. 2
    BY <1>1 DEF CountCompletion
  <2>3. ProcessReduceResult(s, r) = AdvanceJob(u, j)
    BY <1>4 DEF ProcessReduceResult
  <2> HIDE DEF complete, count
  <2>4. u = t
    BY <1>1 DEF Sound, State, Job
  <2> HIDE DEF new, t, u
  <2>5. Touches(s, t, j)
    BY <1>1, <2>1, <2>2, ReduceTouches DEF new, t
  <2> QED BY <2>3, <2>4, <2>5, TouchesServes
<1> QED BY <1>2, <1>3, <1>4

LEMMA ProcessPromotionResultServes ==
  ASSUME NEW s, Sound(s), NEW r, r.job \in Jobs, r.task \in Partitions,
         s.jobs[r.job].status # "Queued"
  PROVE  LET t == ProcessPromotionResult(s, r) IN Idles(s, t) \/ Ends(s, t)
<1> DEFINE j == r.job
           k == r.task
           task == s.jobs[j].reduces[k]
           n == s.jobs[j].reduceTimes
           complete == [task EXCEPT !.temp = NoObject]
           new == [s.jobs[j] EXCEPT !.reduces[k] = complete, !.reduceTimes = n]
           t == [s EXCEPT !.jobs[j] = new]
           u == [s EXCEPT !.jobs[j].reduces[k].temp = NoObject]
<1>1. /\ task \in ReduceTask /\ TaskIsSound(task) /\ n \in 0 .. 2
      /\ s.jobs[j] \in Job
  BY TasksOf DEF Sound, State
<1>2. complete \in ReduceTask /\ TaskIsSound(complete)
  BY <1>1 DEF ReduceTask, TaskIsSound, NoObject
<1>3. ProcessPromotionResult(s, r) = IF r.outcome = "FAILED" THEN s
                                                           ELSE AdvanceJob(u, j)
  BY DEF ProcessPromotionResult
<1>4. u = t
  <2>1. new = [s.jobs[j] EXCEPT !.reduces[k].temp = NoObject]
    BY <1>1 DEF Job
  <2> QED BY <2>1
<1> HIDE DEF complete, new, t, u
<1>5. Touches(s, t, j)
  BY <1>1, <1>2, ReduceTouches DEF new, t
<1> QED BY <1>3, <1>4, <1>5, TouchesServes, IdlesReflexive

LEMMA ProcessResultServes ==
  ASSUME NEW s, Sound(s), NEW w \in Workers, NEW r, NamesTask(r),
         r.id \in AttemptIds, s.jobs[r.job].status # "Queued"
  PROVE  LET t == ProcessResult(s, w, r) IN Idles(s, t) \/ Ends(s, t)
<1>1. CASE s.jobs[r.job].status \in {"Absent", "Aborted", "Completed"}
  BY <1>1, IdlesReflexive DEF ProcessResult
<1>2. CASE s.jobs[r.job].status \notin {"Absent", "Aborted", "Completed"}
  <2>1. CASE r.phase = "map"
    BY <1>2, <2>1, ProcessMapResultServes DEF ProcessResult, NamesTask
  <2>2. CASE r.phase = "reduce"
    BY <1>2, <2>2, ProcessReduceResultServes DEF ProcessResult, NamesTask
  <2>3. CASE r.phase = "promotion"
    BY <1>2, <2>3, ProcessPromotionResultServes DEF ProcessResult, NamesTask
  <2> QED BY <2>1, <2>2, <2>3 DEF NamesTask
<1> QED BY <1>1, <1>2

LEMMA ResetWorkerTasksServes ==
  ASSUME NEW s, Sound(s), NEW w \in Workers, NEW ref,
         ref = None \/ (NamesTask(ref) /\ s.jobs[ref.job].status # "Queued")
  PROVE  Idles(s, ResetWorkerTasks(s, w, ref))
<1> DEFINE j == ref.job
           k == ref.task
           before == s.jobs[j].status
           t == ResetWorkerTasks(s, w, ref)
<1>1. ref # None => j \in Jobs
  BY DEF NamesTask
<1>2. CASE ref # None /\ before \notin {"Absent", "Aborted", "Completed"}
            /\ ref.phase = "map"
  <2> DEFINE task == s.jobs[j].maps[k]
             n == s.jobs[j].mapTimes
             released == ReleaseTask(task, w)
             new == [s.jobs[j] EXCEPT !.maps[k] = released, !.mapTimes = n]
  <2>1. /\ k \in MapTasks /\ task \in MapTask /\ TaskIsSound(task)
        /\ n \in 0 .. 2 /\ s.jobs[j] \in Job
    BY <1>1, <1>2, TasksOf DEF Sound, State, NamesTask
  <2>2. released \in MapTask /\ TaskIsSound(released)
    BY <2>1, DropAttemptsSound DEF ReleaseTask
  <2>3. t = [s EXCEPT !.jobs[j].maps[k] = released]
    BY <1>2 DEF ResetWorkerTasks
  <2> HIDE DEF t, released, task
  <2>4. new = [s.jobs[j] EXCEPT !.maps[k] = released]
    BY <2>1 DEF Job
  <2>5. t = [s EXCEPT !.jobs[j] = new]
    BY <2>3, <2>4
  <2> HIDE DEF new
  <2>6. Touches(s, [s EXCEPT !.jobs[j] = new], j)
    BY <1>1, <1>2, <2>1, <2>2, MapTouches DEF new
  <2> QED BY <1>1, <1>2, <2>5, <2>6, TouchesServes DEF t
<1>3. CASE ref # None /\ before \notin {"Absent", "Aborted", "Completed"}
            /\ ref.phase = "reduce"
  <2> DEFINE task == s.jobs[j].reduces[k]
             n == s.jobs[j].reduceTimes
             released == ReleaseTask(task, w)
             new == [s.jobs[j] EXCEPT !.reduces[k] = released, !.reduceTimes = n]
  <2>1. /\ k \in Partitions /\ task \in ReduceTask /\ TaskIsSound(task)
        /\ n \in 0 .. 2 /\ s.jobs[j] \in Job
    BY <1>1, <1>3, TasksOf DEF Sound, State, NamesTask
  <2>2. released \in ReduceTask /\ TaskIsSound(released)
    BY <2>1, DropAttemptsSound DEF ReleaseTask
  <2>3. t = [s EXCEPT !.jobs[j].reduces[k] = released]
    BY <1>3 DEF ResetWorkerTasks
  <2> HIDE DEF t, released, task
  <2>4. new = [s.jobs[j] EXCEPT !.reduces[k] = released]
    BY <2>1 DEF Job
  <2>5. t = [s EXCEPT !.jobs[j] = new]
    BY <2>3, <2>4
  <2> HIDE DEF new
  <2>6. Touches(s, [s EXCEPT !.jobs[j] = new], j)
    BY <1>1, <1>3, <2>1, <2>2, ReduceTouches DEF new
  <2> QED BY <1>1, <1>3, <2>5, <2>6, TouchesServes DEF t
<1>4. CASE t = s
  BY <1>4, IdlesReflexive
<1> QED BY <1>2, <1>3, <1>4 DEF ResetWorkerTasks, NamesTask

-----------------------------------------------------------------------------
(* Heartbeats and evictions                                                *)

\* What a step of the scheduler can be to a client.  A heartbeat can report the
\* end of a job and start the next one.
ToClients(s, t) == \/ Idles(s, t) \/ Ends(s, t) \/ Starts(s, t)
                \/ \E u \in State : Ends(s, u) /\ Starts(u, t)

\* No worker can say anything about a job that has not been started.
Started ==
  {j \in Jobs : jobs[j].status \notin {"Absent", "Queued"}} \ pending

ServiceInv ==
  /\ crashes + exits = 0
  /\ NotBegun(Current)
  /\ \A i \in issued : i.job \in Started
  /\ \A w \in Workers : currentTask[w] # None => currentTask[w].job \in Started

LEMMA HeardServes ==
  ASSUME IInv, NotBegun(Current), NEW w \in Workers, NEW idle \in BOOLEAN,
         NEW slow, NEW result,
         \/ result = None
         \/ /\ NamesTask(result) /\ result.id \in AttemptIds
            /\ result.job \in Started
  PROVE  LET h == Heard(w, idle, result, slow) IN
         /\ ToClients(Current, h.s) /\ LeavesQueued(Current, h.s)
         /\ \A i \in h.given :
              h.s.jobs[i.job].status \in {"Mapping", "Reducing", "Completed"}
<1> DEFINE u == IF result = None THEN Current
                ELSE ProcessResult(Current, w, result)
           a == AssignTask(u, w, slow)
<1>1. Heard(w, idle, result, slow) = IF idle THEN a ELSE Nothing(u)
  BY DEF Heard
<1>2. Sound(u) /\ (Idles(Current, u) \/ Ends(Current, u))
  <2>1. Sound(Current)
    BY DEF IInv
  <2>2. CASE result = None
    BY <2>1, <2>2, IdlesReflexive
  <2>3. CASE result # None
    <3>1. /\ NamesTask(result) /\ result.id \in AttemptIds
          /\ Current.jobs[result.job].status # "Queued"
      BY <2>3 DEF Started, Current
    <3> QED BY <2>1, <2>3, <3>1, ProcessResultSound, ProcessResultServes
  <2> QED BY <2>2, <2>3
<1> HIDE DEF u
<1>3. LeavesQueued(Current, u) /\ NotBegun(u)
  BY <1>2 DEF Idles, Ends, LeavesQueued, NotBegun
<1>4. /\ Idles(u, a.s) \/ Ends(u, a.s) \/ Starts(u, a.s)
      /\ \A i \in a.given :
           a.s.jobs[i.job].status \in {"Mapping", "Reducing", "Completed"}
  BY <1>2, <1>3, AssignTaskServes
<1> HIDE DEF a
<1>5. LeavesQueued(Current, a.s)
  BY <1>3, <1>4 DEF Idles, Ends, Starts, LeavesQueued
<1>6. ToClients(Current, a.s)
  <2>1. CASE Idles(Current, u)
    <3>1. CASE Idles(u, a.s)
      BY <2>1, <3>1, IdlesTransitive DEF ToClients
    <3>2. CASE Ends(u, a.s)
      BY <2>1, <3>2, EndsAfterIdles DEF ToClients
    <3>3. CASE Starts(u, a.s)
      BY <2>1, <3>3, StartsAfterIdles DEF ToClients
    <3> QED BY <1>4, <3>1, <3>2, <3>3
  <2>2. CASE Ends(Current, u)
    <3>1. CASE Idles(u, a.s)
      BY <2>2, <3>1, IdlesAfterEnds DEF ToClients
    <3>2. ~Ends(u, a.s)
      BY <2>2 DEF Ends
    <3>3. CASE Starts(u, a.s)
      BY <1>2, <2>2, <3>3 DEF ToClients, Sound
    <3> QED BY <1>4, <3>1, <3>2, <3>3
  <2> QED BY <1>2, <2>1, <2>2
<1> QED BY <1>1, <1>2, <1>3, <1>4, <1>5, <1>6 DEF Nothing, ToClients

\* What has been started has been started, after a step that starts more.
LEMMA StartedStays ==
  ASSUME IInv, ServiceInv, UNCHANGED <<pending, crashes, exits>>,
         NEW t \in State, Evolves(Current, t), Become(t),
         LeavesQueued(Current, t)
  PROVE  /\ Started \subseteq Started'
         /\ NotBegun(Current)'
         /\ (crashes + exits = 0)'
<1>1. \A j \in Jobs : jobs'[j].status \in {"Absent", "Queued"} =>
                      jobs[j].status \in {"Absent", "Queued"}
  BY DEF Evolves, LeavesQueued, Become, Current
<1>2. Started \subseteq Started'
  <2>1. ASSUME NEW j \in Started PROVE j \in Started'
    <3>1. /\ j \in Jobs /\ j \notin pending
          /\ jobs[j].status \notin {"Absent", "Queued"}
      BY DEF Started
    <3>2. pending' = pending
      OBVIOUS
    <3>3. jobs'[j].status \notin {"Absent", "Queued"}
      BY <1>1, <3>1
    <3> QED BY <3>1, <3>2, <3>3 DEF Started
  <2> QED BY <2>1
<1>3. NotBegun(t) /\ Current' = t
  BY CurrentLemma DEF ServiceInv, NotBegun, LeavesQueued
<1> QED BY <1>2, <1>3 DEF ServiceInv

\* A step of the scheduler, as a client sees it.
ServesStep == /\ \E t : Sound(t) /\ ToClients(Current, t) /\ Become(t)
              /\ UNCHANGED submitVars

LEMMA ExchangeServes ==
  ASSUME IInv, ServiceInv, NEW w \in Workers, NEW idle \in BOOLEAN, NEW slow,
         NEW i, i = None \/ i \in issued,
         NEW report, NEW result,
         \/ report = {} /\ result = None
         \/ \E k \in issued, o \in Outcomes :
              report = {<<k, o>>} /\ result = Result(k, o),
         Exchange(w, idle, i, report, result, slow)
  PROVE  ServesStep /\ ServiceInv'
<1> DEFINE h == Heard(w, idle, result, slow)
           ref == IF i = None THEN None ELSE Ref(i)
<1>1. /\ issued \subseteq Issues
      /\ currentTask \in [Workers -> TaskRefs \cup {None}]
      /\ \A k \in issued : k.job \in Jobs /\ k.job \in Started
  BY DEF IInv, TypeOK, MasterTypeOK, ControlTypeOK, ServiceInv, Issues
<1>2. \/ result = None
      \/ NamesTask(result) /\ result.id \in AttemptIds /\ result.job \in Started
  <2>1. ASSUME NEW k \in issued, NEW o, result = Result(k, o)
        PROVE  /\ NamesTask(result) /\ result.id \in AttemptIds
               /\ result.job \in Started
    <3>1. k \in Issues
      BY <1>1
    <3>2. NamesTask(Result(k, o)) /\ Result(k, o).id \in AttemptIds
      BY <3>1, IssuesLemma, Zenon
    <3>3. Result(k, o).job = k.job
      BY DEF Result
    <3> QED BY <1>1, <2>1, <3>2, <3>3, Zenon
  <2> QED BY <2>1
<1>3. /\ Sound(h.s) /\ Evolves(Current, h.s)
      /\ \A a \in h.given : NamesTask(a) /\ a.id \in AttemptIds
  BY <1>2, HeardLemma
<1>4. /\ ToClients(Current, h.s) /\ LeavesQueued(Current, h.s)
      /\ \A a \in h.given :
           h.s.jobs[a.job].status \in {"Mapping", "Reducing", "Completed"}
  BY <1>2, HeardServes DEF ServiceInv
<1> HIDE DEF h
<1>5. /\ Become(h.s)
      /\ currentTask' = [currentTask EXCEPT ![w] = ref]
      /\ UNCHANGED <<pending, refused, submitted, crashes, exits>>
      /\ issued' = issued \cup {Issue(a, w) : a \in h.given}
  BY DEF h, Exchange, Heartbeat, submitVars, bounds
<1>6. ServesStep
  BY <1>3, <1>4, <1>5 DEF ServesStep, submitVars
<1>7. /\ Started \subseteq Started'
      /\ NotBegun(Current)' /\ (crashes + exits = 0)'
  BY <1>3, <1>4, <1>5, StartedStays DEF Sound
<1>8. IInv'
  BY ExchangeSound
<1>9. ASSUME NEW a \in h.given PROVE a.job \in Started'
  <2>1. a.job \in Jobs
    BY <1>3 DEF NamesTask
  <2>2. jobs'[a.job].status \in {"Mapping", "Reducing", "Completed"}
    BY <1>4, <1>5 DEF Become
  <2>3. a.job \notin pending'
    BY <1>8, <2>2 DEF IInv, SubmissionsAreSound, NotStarted
  <2> QED BY <2>1, <2>2, <2>3 DEF Started
<1>10. ASSUME NEW k \in issued' PROVE k.job \in Started'
  <2>1. CASE k \in issued
    BY <1>1, <1>7, <2>1
  <2>2. CASE k \notin issued
    <3>1. PICK a \in h.given : k = Issue(a, w)
      BY <1>5, <2>2
    <3>2. k.job = a.job
      BY <3>1 DEF Issue
    <3> QED BY <1>9, <3>2
  <2> QED BY <2>1, <2>2
<1>11. ASSUME NEW v \in Workers, currentTask'[v] # None
       PROVE  currentTask'[v].job \in Started'
  <2>1. CASE v = w
    <3>1. currentTask'[v] = ref
      BY <1>1, <1>5, <2>1
    <3>2. i \in issued /\ currentTask'[v].job = i.job
      BY <1>11, <3>1 DEF Ref
    <3> QED BY <1>1, <1>7, <3>2
  <2>2. CASE v # w
    <3>1. currentTask'[v] = currentTask[v]
      BY <1>1, <1>5, <2>2
    <3>2. currentTask[v].job \in Started /\ currentTask[v].job \in Jobs
      BY <1>1, <1>11, <3>1 DEF ServiceInv, TaskRefs
    <3> QED BY <1>7, <3>1, <3>2
  <2> QED BY <2>1, <2>2
<1> QED BY <1>6, <1>7, <1>10, <1>11 DEF ServiceInv

LEMMA HeartbeatServes ==
  ASSUME IInv, ServiceInv, NEW w \in Workers, OpenHeartbeat(w)
  PROVE  ServesStep /\ ServiceInv'
<1>1. PICK idle \in BOOLEAN, i \in issued \cup {None}, slow \in SlowChoices :
        \/ Exchange(w, idle, i, {}, None, slow)
        \/ \E k \in issued, o \in Outcomes :
             Exchange(w, idle, i, {<<k, o>>}, Result(k, o), slow)
  BY DEF OpenHeartbeat, Given
<1>2. CASE Exchange(w, idle, i, {}, None, slow)
  BY <1>2, ExchangeServes
<1>3. ASSUME NEW k \in issued, NEW o \in Outcomes,
             Exchange(w, idle, i, {<<k, o>>}, Result(k, o), slow)
      PROVE  ServesStep /\ ServiceInv'
  BY <1>3, ExchangeServes
<1> QED BY <1>1, <1>2, <1>3

LEMMA ExpireServes ==
  ASSUME IInv, ServiceInv, NEW w \in Workers, Expire(w)
  PROVE  ServesStep /\ ServiceInv'
<1> DEFINE ref == currentTask[w]
           t == ResetWorkerTasks(Current, w, ref)
<1>1. /\ Become(t)
      /\ currentTask' = [currentTask EXCEPT ![w] = None]
      /\ UNCHANGED <<submitVars, pending, crashes, exits, issued>>
  BY DEF Expire, Evict, submitVars, netVars
<1>2. /\ currentTask \in [Workers -> TaskRefs \cup {None}]
      /\ \A i \in issued : i.job \in Jobs
  BY DEF IInv, TypeOK, MasterTypeOK, ControlTypeOK, Issues
<1>3. ref = None \/ (NamesTask(ref) /\ Current.jobs[ref.job].status # "Queued")
  BY <1>2 DEF ServiceInv, Started, Current, TaskRefs, NamesTask
<1>4. Sound(t) /\ Evolves(Current, t) /\ Idles(Current, t)
  BY <1>3, ResetWorkerTasksSound, ResetWorkerTasksServes DEF IInv
<1> HIDE DEF t
<1>5. ServesStep
  BY <1>1, <1>4 DEF ServesStep, ToClients
<1>6. /\ Started \subseteq Started'
      /\ NotBegun(Current)' /\ (crashes + exits = 0)'
  BY <1>1, <1>4, StartedStays DEF Sound, Idles
<1>7. ASSUME NEW v \in Workers, currentTask'[v] # None
      PROVE  currentTask'[v].job \in Started'
  <2>1. currentTask'[v] = currentTask[v] /\ currentTask[v].job \in Jobs
    BY <1>1, <1>2, <1>7 DEF TaskRefs
  <2> QED BY <1>6, <1>7, <2>1 DEF ServiceInv
<1> QED BY <1>1, <1>2, <1>5, <1>6, <1>7 DEF ServiceInv

-----------------------------------------------------------------------------
(* The steps of the job service                                            *)

LEMMA SeenFacts ==
  ASSUME NEW j, NEW st \in JobStatus, NEW P, NEW S
  PROVE  LET seen == Seen(j, st, P, S) IN
         /\ st = "Absent" => seen = IF j \in S THEN "refused" ELSE "unknown"
         /\ st = "Queued" => seen = IF j \in P THEN "unknown" ELSE "waiting"
         /\ Kind(st) = "Running" => seen = "running"
         /\ st = "Completed" => seen = "done"
         /\ st = "Aborted" => seen = "cancelled"
<1>1. CASE st = "Absent"
  BY <1>1 DEF Seen, Kind
<1>2. CASE st = "Queued"
  BY <1>2 DEF Seen, Kind
<1>3. CASE st = "Mapping"
  BY <1>3 DEF Seen, Kind
<1>4. CASE st = "Reducing"
  BY <1>4 DEF Seen, Kind
<1>5. CASE st = "Completed"
  BY <1>5 DEF Seen, Kind
<1>6. CASE st = "Aborted"
  BY <1>6 DEF Seen, Kind
<1> QED BY <1>1, <1>2, <1>3, <1>4, <1>5, <1>6 DEF JobStatus

LEMMA SameKindSameSeen ==
  ASSUME NEW st \in JobStatus, NEW new \in JobStatus, Kind(new) = Kind(st),
         NEW j, NEW P, NEW S
  PROVE  Seen(j, new, P, S) = Seen(j, st, P, S)
BY SeenFacts DEF JobStatus, Kind

LEMMA SameSeen ==
  ASSUME NEW st \in JobStatus, NEW j, NEW P, NEW S, NEW Q, NEW R,
         j \in Q <=> j \in P, j \in R <=> j \in S
  PROVE  Seen(j, st, Q, R) = Seen(j, st, P, S)
BY DEF Seen

LEMMA WaitingIsWaits ==
  ASSUME IInv, QueuedWait, ServiceInv
  PROVE  Service!Waiting = Waits(Current)
<1>1. /\ jobs \in [Jobs -> Job] /\ Members(queue) \subseteq Jobs
      /\ \A j \in Jobs : jobs[j].status \in JobStatus
  BY Facts DEF Job, Members
<1>2. \A j \in Jobs : jobs[j].status = "Queued" =>
        (j \in Members(queue) <=> j \notin pending)
  BY DEF QueuedWait, QueuedIsWaiting, ServiceInv, IInv, SubmissionsAreSound
<1>3. \A j \in Jobs : ServiceStatus(j) = "waiting" <=>
        jobs[j].status = "Queued" /\ j \notin pending
  <2> SUFFICES ASSUME NEW j \in Jobs
               PROVE  Seen(j, jobs[j].status, pending, submitted)
                        = "waiting" <=>
                      jobs[j].status = "Queued" /\ j \notin pending
    BY DEF ServiceStatus
  <2> DEFINE st == jobs[j].status
  <2>1. st \in JobStatus
    BY <1>1
  <2> HIDE DEF st
  <2>2. Seen(j, st, pending, submitted) = "waiting" <=>
          st = "Queued" /\ j \notin pending
    BY <2>1, SeenFacts DEF JobStatus, Kind
  <2> QED BY <2>2 DEF st
<1> QED BY <1>1, <1>2, <1>3 DEF Service!Waiting, Waits, Current

\* What a client sees before and after a step of the scheduler.
View(s) == [j \in Jobs |-> Seen(j, s.jobs[j].status, pending, submitted)]

LEMMA Views ==
  ASSUME NEW t \in State, Become(t), UNCHANGED submitVars
  PROVE  /\ [j \in Jobs |-> ServiceStatus(j)] = View(Current)
         /\ [j \in Jobs |-> ServiceStatus(j)]' = View(t)
         /\ QueueOrder(queue, jobs) = Order(Current)
         /\ QueueOrder(queue, jobs)' = Order(t)
         /\ active = Current.active /\ active' = t.active
<1>1. /\ jobs' = t.jobs /\ queue' = t.queue /\ active' = t.active
      /\ pending' = pending /\ submitted' = submitted
  BY DEF Become, submitVars
<1>2. [j \in Jobs |-> ServiceStatus(j)] = View(Current)
  BY DEF View, ServiceStatus, Current
<1>3. [j \in Jobs |-> ServiceStatus(j)]' = View(t)
  BY <1>1 DEF View, ServiceStatus
<1>4. QueueOrder(queue, jobs) = Order(Current)
  BY DEF Order, Current
<1>5. QueueOrder(queue, jobs)' = Order(t)
  BY <1>1 DEF Order, QueueOrder
<1> QED BY <1>1, <1>2, <1>3, <1>4, <1>5 DEF Current

LEMMA IdlesView ==
  ASSUME NEW s \in State, NEW t \in State, Idles(s, t)
  PROVE  View(t) = View(s)
<1>1. ASSUME NEW j \in Jobs
      PROVE  Seen(j, t.jobs[j].status, pending, submitted) =
             Seen(j, s.jobs[j].status, pending, submitted)
  <2> DEFINE a == s.jobs[j].status
             b == t.jobs[j].status
  <2>1. a \in JobStatus /\ b \in JobStatus /\ Kind(b) = Kind(a)
    BY DEF State, Job, Idles
  <2> HIDE DEF a, b
  <2>2. Seen(j, b, pending, submitted) = Seen(j, a, pending, submitted)
    BY <2>1, SameKindSameSeen
  <2> QED BY <2>2 DEF a, b
<1> QED BY <1>1 DEF View

LEMMA EndsView ==
  ASSUME NEW s \in State, NEW t \in State, s.active \in Jobs,
         \A j \in Jobs : Kind(t.jobs[j].status) =
           IF j = s.active THEN "Completed" ELSE Kind(s.jobs[j].status)
  PROVE  View(t) = [View(s) EXCEPT ![s.active] = "done"]
<1>1. ASSUME NEW j \in Jobs
      PROVE  Seen(j, t.jobs[j].status, pending, submitted) =
             IF j = s.active THEN "done"
             ELSE Seen(j, s.jobs[j].status, pending, submitted)
  <2> DEFINE a == s.jobs[j].status
             b == t.jobs[j].status
  <2>1. /\ a \in JobStatus /\ b \in JobStatus
        /\ Kind(b) = IF j = s.active THEN "Completed" ELSE Kind(a)
    BY DEF State, Job
  <2> HIDE DEF a, b
  <2>2. CASE j = s.active
    <3>1. b = "Completed"
      BY <2>1, <2>2 DEF Kind, JobStatus
    <3>2. Seen(j, b, pending, submitted) = "done"
      BY <2>1, <3>1, SeenFacts
    <3> QED BY <2>2, <3>2 DEF b
  <2>3. CASE j # s.active
    <3>1. Seen(j, b, pending, submitted) = Seen(j, a, pending, submitted)
      BY <2>1, <2>3, SameKindSameSeen
    <3> QED BY <2>3, <3>1 DEF a, b
  <2> QED BY <2>2, <2>3
<1> QED BY <1>1 DEF View

LEMMA StartsView ==
  ASSUME NEW s \in State, NEW t \in State, t.active \in Jobs,
         \A j \in Jobs : Kind(t.jobs[j].status) =
           IF j = t.active THEN "Running" ELSE Kind(s.jobs[j].status)
  PROVE  View(t) = [View(s) EXCEPT ![t.active] = "running"]
<1>1. ASSUME NEW j \in Jobs
      PROVE  Seen(j, t.jobs[j].status, pending, submitted) =
             IF j = t.active THEN "running"
             ELSE Seen(j, s.jobs[j].status, pending, submitted)
  <2> DEFINE a == s.jobs[j].status
             b == t.jobs[j].status
  <2>1. /\ a \in JobStatus /\ b \in JobStatus
        /\ Kind(b) = IF j = t.active THEN "Running" ELSE Kind(a)
    BY DEF State, Job
  <2> HIDE DEF a, b
  <2>2. CASE j = t.active
    <3>1. Seen(j, b, pending, submitted) = "running"
      BY <2>1, <2>2, SeenFacts
    <3> QED BY <2>2, <3>1 DEF b
  <2>3. CASE j # t.active
    <3>1. Seen(j, b, pending, submitted) = Seen(j, a, pending, submitted)
      BY <2>1, <2>3, SameKindSameSeen
    <3> QED BY <2>3, <3>1 DEF a, b
  <2> QED BY <2>2, <2>3
<1> QED BY <1>1 DEF View

LEMMA ServesStepServes ==
  ASSUME IInv, QueuedWait, ServiceInv, ServesStep
  PROVE  [Service!Next]_(Service!vars)
<1> DEFINE s == Current
<1>1. PICK t : Sound(t) /\ ToClients(s, t) /\ Become(t)
  BY DEF ServesStep
<1>2. s \in State /\ t \in State
  BY <1>1 DEF IInv, Sound
<1>3. /\ [j \in Jobs |-> ServiceStatus(j)] = View(s)
      /\ [j \in Jobs |-> ServiceStatus(j)]' = View(t)
      /\ QueueOrder(queue, jobs) = Order(s)
      /\ QueueOrder(queue, jobs)' = Order(t)
      /\ active = s.active /\ active' = t.active
  BY <1>1, <1>2, Views DEF ServesStep
<1>4. Service!Waiting = Waits(s)
  BY WaitingIsWaits
<1>5. \A j : Service!Without(j) = OrderWithout(s, j)
  BY <1>3 DEF Service!Without, OrderWithout
<1>6. Waits(s) \subseteq Jobs
  BY <1>2 DEF Waits, Members, State
<1>7. s.active # None => s.active \in Jobs
  BY <1>2 DEF State
<1> HIDE DEF s
<1>8. CASE Idles(s, t)
  <2>1. View(t) = View(s) /\ Order(t) = Order(s) /\ t.active = s.active
    BY <1>2, <1>8, IdlesView DEF Idles
  <2> QED BY <1>3, <2>1 DEF Service!vars
<1>9. CASE Ends(s, t)
  <2>1. View(t) = [View(s) EXCEPT ![s.active] = "done"]
    BY <1>2, <1>7, <1>9, EndsView DEF Ends
  <2>2. s.active # None /\ t.active = None /\ Order(t) = Order(s)
    BY <1>9 DEF Ends
  <2>3. Service!Finish
    BY <1>3, <2>1, <2>2 DEF Service!Finish
  <2> QED BY <2>3 DEF Service!Next
<1>10. CASE Starts(s, t)
  <2>1. View(t) = [View(s) EXCEPT ![t.active] = "running"]
    BY <1>2, <1>6, <1>10, StartsView DEF Starts
  <2>2. /\ s.active = None /\ t.active \in Waits(s)
        /\ \A k \in Waits(s) \ {t.active} : <<t.active, k>> \in Order(s)
        /\ Order(t) = OrderWithout(s, t.active)
    BY <1>10 DEF Starts
  <2>3. Service!Start
    BY <1>3, <1>4, <1>5, <2>1, <2>2 DEF Service!Start, Service!Begin
  <2> QED BY <2>3 DEF Service!Next
<1>11. CASE \E u \in State : Ends(s, u) /\ Starts(u, t)
  <2>1. PICK u \in State : Ends(s, u) /\ Starts(u, t)
    BY <1>11
  <2>2. /\ s.active # None
        /\ Waits(u) = Waits(s) /\ Order(u) = Order(s)
        /\ t.active \in Waits(s)
        /\ \A k \in Waits(s) \ {t.active} : <<t.active, k>> \in Order(s)
        /\ Order(t) = OrderWithout(s, t.active)
    BY <2>1 DEF Ends, Starts, OrderWithout
  <2>3. View(u) = [View(s) EXCEPT ![s.active] = "done"]
    BY <1>2, <1>7, <2>1, EndsView DEF Ends
  <2>4. View(t) = [View(u) EXCEPT ![t.active] = "running"]
    BY <1>2, <1>6, <2>1, <2>2, StartsView DEF Starts
  <2>5. Service!Finish
    BY <1>3, <1>4, <1>5, <2>2, <2>3, <2>4 DEF Service!Finish, Service!Begin
  <2> QED BY <2>5 DEF Service!Next
<1> QED BY <1>1, <1>8, <1>9, <1>10, <1>11 DEF ToClients

-----------------------------------------------------------------------------
(* Clients                                                                 *)

\* A step that changes what is known of job j, at most.
LEMMA OneSeen ==
  ASSUME IInv, NEW j \in Jobs, jobs' \in [Jobs -> Job],
         \A k \in Jobs \ {j} : jobs'[k] = jobs[k],
         pending' \cup {j} = pending \cup {j},
         submitted' \cup {j} = submitted \cup {j}
  PROVE  [k \in Jobs |-> ServiceStatus(k)]' =
           [[k \in Jobs |-> ServiceStatus(k)] EXCEPT
              ![j] = Seen(j, jobs'[j].status, pending', submitted')]
<1>1. ASSUME NEW k \in Jobs, k # j
      PROVE  ServiceStatus(k)' = ServiceStatus(k)
  <2> DEFINE st == jobs[k].status
  <2>1. st \in JobStatus /\ jobs'[k].status = st
    BY <1>1, Facts DEF Job
  <2> HIDE DEF st
  <2>2. k \in pending' <=> k \in pending
    BY <1>1
  <2>3. k \in submitted' <=> k \in submitted
    BY <1>1
  <2>4. Seen(k, st, pending', submitted') = Seen(k, st, pending, submitted)
    BY <2>1, <2>2, <2>3, SameSeen
  <2> QED BY <2>1, <2>4 DEF ServiceStatus, st
<1>2. ServiceStatus(j)' = Seen(j, jobs'[j].status, pending', submitted')
  BY DEF ServiceStatus
<1>3. [k \in Jobs |-> ServiceStatus(k)]' = [k \in Jobs |-> ServiceStatus(k)']
  OBVIOUS
<1> QED BY <1>1, <1>2, <1>3

LEMMA SameQueueOrder ==
  ASSUME NEW q, NEW js, NEW new,
         \A k \in Members(q) : new[k].status = "Queued" <=>
                               js[k].status = "Queued"
  PROVE  QueueOrder(q, new) = QueueOrder(q, js)
BY DEF QueueOrder, Members

\* What is appended to the queue comes last.
LEMMA AppendOrder ==
  ASSUME NEW q \in Seq(Jobs), NEW j \in Jobs, j \notin Members(q), NEW js
  PROVE  QueueOrder(Append(q, j), js) =
           IF js[j].status = "Queued"
             THEN QueueOrder(q, js) \cup
                    ({k \in Members(q) : js[k].status = "Queued"} \X {j})
             ELSE QueueOrder(q, js)
<1> DEFINE r == Append(q, j)
           last == {k \in Members(q) : js[k].status = "Queued"} \X {j}
<1>1. /\ Len(q) \in Nat /\ Len(r) = Len(q) + 1
      /\ \A i \in 1 .. Len(q) : r[i] = q[i] /\ q[i] \in Jobs
      /\ r[Len(q) + 1] = j
  OBVIOUS
<1> HIDE DEF r
<1>2. ASSUME NEW a \in Jobs, NEW b \in Jobs, <<a, b>> \in QueueOrder(r, js)
      PROVE  /\ js[a].status = "Queued" /\ js[b].status = "Queued"
             /\ <<a, b>> \in QueueOrder(q, js) \/ (a \in Members(q) /\ b = j)
  <2>1. /\ js[a].status = "Queued" /\ js[b].status = "Queued"
        /\ \E i, k \in 1 .. Len(r) : i < k /\ r[i] = a /\ r[k] = b
    BY <1>2 DEF QueueOrder
  <2>2. PICK i \in 1 .. Len(r), k \in 1 .. Len(r) :
          i < k /\ r[i] = a /\ r[k] = b
    BY <2>1
  <2>3. i \in 1 .. Len(q) /\ q[i] = a
    BY <1>1, <2>2
  <2>4. CASE k \in 1 .. Len(q)
    <3>1. q[k] = b
      BY <1>1, <2>2, <2>4
    <3> QED BY <2>1, <2>2, <2>3, <2>4, <3>1 DEF QueueOrder
  <2>5. CASE k = Len(q) + 1
    BY <1>1, <2>1, <2>2, <2>3, <2>5 DEF Members
  <2> QED BY <1>1, <2>2, <2>4, <2>5
<1>3. ASSUME NEW a \in Jobs, NEW b \in Jobs, <<a, b>> \in QueueOrder(q, js)
      PROVE  <<a, b>> \in QueueOrder(r, js)
  <2>1. PICK i \in 1 .. Len(q), k \in 1 .. Len(q) :
          i < k /\ q[i] = a /\ q[k] = b
    BY <1>3 DEF QueueOrder
  <2>2. i \in 1 .. Len(r) /\ k \in 1 .. Len(r) /\ r[i] = a /\ r[k] = b
    BY <1>1, <2>1
  <2> QED BY <1>3, <2>1, <2>2 DEF QueueOrder
<1>4. ASSUME NEW a \in Members(q), js[a].status = "Queued",
             js[j].status = "Queued"
      PROVE  <<a, j>> \in QueueOrder(r, js)
  <2>1. PICK i \in 1 .. Len(q) : q[i] = a
    BY <1>4 DEF Members
  <2>2. /\ i \in 1 .. Len(r) /\ Len(q) + 1 \in 1 .. Len(r)
        /\ i < Len(q) + 1 /\ r[i] = a /\ r[Len(q) + 1] = j /\ a \in Jobs
    BY <1>1, <2>1
  <2> QED BY <1>4, <2>2 DEF QueueOrder
<1>5. /\ QueueOrder(r, js) \subseteq Jobs \X Jobs
      /\ QueueOrder(q, js) \subseteq Jobs \X Jobs
  BY DEF QueueOrder
<1>6. Members(q) \subseteq Jobs
  BY <1>1 DEF Members
<1>7. CASE js[j].status = "Queued"
  <2>1. QueueOrder(r, js) \subseteq QueueOrder(q, js) \cup last
    BY <1>2, <1>5
  <2>2. QueueOrder(q, js) \subseteq QueueOrder(r, js)
    BY <1>3, <1>5
  <2>3. last \subseteq QueueOrder(r, js)
    BY <1>4, <1>7
  <2> QED BY <1>7, <2>1, <2>2, <2>3 DEF r
<1>8. CASE js[j].status # "Queued"
  <2>1. QueueOrder(r, js) \subseteq QueueOrder(q, js)
    BY <1>2, <1>5, <1>8
  <2>2. QueueOrder(q, js) \subseteq QueueOrder(r, js)
    BY <1>3, <1>5
  <2> QED BY <1>8, <2>1, <2>2 DEF r
<1> QED BY <1>7, <1>8

LEMMA ServiceInvStays ==
  ASSUME ServiceInv, UNCHANGED <<issued, crashes, exits>>,
         \A w \in Workers : currentTask'[w] \in {currentTask[w], None},
         Started \subseteq Started', NotBegun(Current)'
  PROVE  ServiceInv'
BY DEF ServiceInv

ServiceStep == [Service!Next]_(Service!vars) /\ ServiceInv'

LEMMA SubmitRegisterServes ==
  ASSUME IInv, ServiceInv, NEW j \in Jobs, SubmitRegister(j),
         UNCHANGED <<netVars, bounds>>
  PROVE  ServiceStep
<1>1. /\ j \notin submitted /\ jobs' = [jobs EXCEPT ![j] = NewJob]
      /\ submitted' = submitted \cup {j} /\ pending' = pending \cup {j}
      /\ UNCHANGED <<active, queue, currentTask, issued, crashes, exits>>
  BY DEF SubmitRegister, workerVars, netVars, bounds
<1>2. /\ jobs \in [Jobs -> Job] /\ jobs' \in [Jobs -> Job]
      /\ jobs[j].status = "Absent" /\ jobs'[j] = NewJob
      /\ \A k \in Jobs \ {j} : jobs'[k] = jobs[k]
      /\ j \notin Members(queue)
  BY <1>1, Facts, NewJobLemma DEF IInv, SubmissionsAreSound, Known
<1>3. [k \in Jobs |-> ServiceStatus(k)]' = [k \in Jobs |-> ServiceStatus(k)]
  <2>1. Seen(j, jobs'[j].status, pending', submitted') = "unknown"
    BY <1>1, <1>2, NewJobLemma DEF Seen
  <2>2. ServiceStatus(j) = "unknown"
    BY <1>1, <1>2 DEF Seen, ServiceStatus
  <2>3. [k \in Jobs |-> ServiceStatus(k)]' =
          [[k \in Jobs |-> ServiceStatus(k)] EXCEPT ![j] = "unknown"]
    BY <1>1, <1>2, <2>1, OneSeen
  <2> QED BY <2>2, <2>3
<1>4. QueueOrder(queue, jobs)' = QueueOrder(queue, jobs)
  <2>1. \A k \in Members(queue) : jobs'[k] = jobs[k]
    BY <1>2, Facts DEF Members
  <2>2. QueueOrder(queue, jobs') = QueueOrder(queue, jobs)
    BY <2>1, SameQueueOrder
  <2> QED BY <1>1, <2>2 DEF QueueOrder
<1>5. UNCHANGED Service!vars
  BY <1>1, <1>3, <1>4 DEF Service!vars
<1>6. Started \subseteq Started'
  <2> SUFFICES ASSUME NEW k \in Started PROVE k \in Started'
    OBVIOUS
  <2>1. /\ k \in Jobs /\ k \notin pending
        /\ jobs[k].status \notin {"Absent", "Queued"}
    BY DEF Started
  <2>2. k # j
    BY <1>2, <2>1
  <2> QED BY <1>1, <1>2, <2>1, <2>2 DEF Started
<1>7. NotBegun(Current)'
  <2>1. \A m \in MapTasks : NewJob.maps[m].status = "Idle"
    BY DEF NewJob
  <2>2. ASSUME NEW k \in Jobs, jobs'[k].status = "Queued", NEW m \in MapTasks
        PROVE  jobs'[k].maps[m].status = "Idle"
    BY <1>2, <2>1, <2>2 DEF ServiceInv, NotBegun, Current
  <2> QED BY <2>2 DEF NotBegun, Current
<1>8. ServiceInv'
  BY <1>1, <1>6, <1>7, ServiceInvStays
<1> QED BY <1>5, <1>8 DEF ServiceStep

LEMMA SubmitEnqueueServes ==
  ASSUME IInv, QueuedWait, ServiceInv, NEW j \in Jobs, SubmitEnqueue(j),
         UNCHANGED <<netVars, bounds>>
  PROVE  ServiceStep
<1>1. /\ j \in pending /\ submitted' = submitted /\ jobs' = jobs
      /\ IF Len(queue) < QueueCap
           THEN queue' = Append(queue, j) /\ pending' = pending \ {j}
           ELSE UNCHANGED <<queue, pending>>
      /\ UNCHANGED <<active, currentTask, issued, crashes, exits>>
  BY DEF SubmitEnqueue, workerVars, netVars, bounds
<1>2. /\ jobs \in [Jobs -> Job] /\ queue \in Seq(Jobs)
      /\ NotStarted(jobs[j]) /\ j \in submitted
      /\ j \notin Members(queue) /\ Members(queue) \subseteq Jobs
  BY <1>1, Facts DEF IInv, SubmissionsAreSound, Members
<1>3. [k \in Jobs |-> ServiceStatus(k)]' =
        [[k \in Jobs |-> ServiceStatus(k)] EXCEPT
           ![j] = Seen(j, jobs'[j].status, pending', submitted')]
  <2>1. /\ pending' \cup {j} = pending \cup {j}
        /\ submitted' \cup {j} = submitted \cup {j}
    BY <1>1
  <2> QED BY <1>1, <1>2, <2>1, OneSeen
<1>4. \/ jobs[j].status = "Absent" /\ ServiceStatus(j) = "refused"
      \/ jobs[j].status = "Queued" /\ ServiceStatus(j) = "unknown"
      \/ jobs[j].status = "Aborted" /\ ServiceStatus(j) = "cancelled"
  BY <1>1, <1>2 DEF NotStarted, ServiceStatus, Seen
<1>5. [Service!Next]_(Service!vars)
  <2>1. CASE Len(queue) < QueueCap
    <3>1. queue' = Append(queue, j) /\ pending' = pending \ {j}
      BY <1>1, <2>1
    <3>2. CASE jobs[j].status = "Queued"
      <4>1. Seen(j, jobs'[j].status, pending', submitted') = "waiting"
        BY <1>1, <3>1, <3>2 DEF Seen
      <4>2. Service!Waiting = {k \in Members(queue) : jobs[k].status = "Queued"}
        BY WaitingIsWaits DEF Waits, Current
      <4>3. QueueOrder(queue, jobs)' =
              QueueOrder(queue, jobs) \cup (Service!Waiting \X {j})
        <5>1. QueueOrder(Append(queue, j), jobs) =
                QueueOrder(queue, jobs) \cup (Service!Waiting \X {j})
          BY <1>2, <3>2, <4>2, AppendOrder
        <5> QED BY <1>1, <3>1, <5>1 DEF QueueOrder
      <4>4. ServiceStatus(j) = "unknown"
        BY <1>4, <3>2
      <4>5. Service!Accept(j)
        BY <1>1, <1>3, <4>1, <4>3, <4>4 DEF Service!Accept
      <4> QED BY <4>5 DEF Service!Next
    <3>3. CASE jobs[j].status # "Queued"
      <4>1. Seen(j, jobs'[j].status, pending', submitted') = ServiceStatus(j)
        BY <1>1, <1>4, <3>1, <3>3 DEF Seen, ServiceStatus
      <4>2. QueueOrder(queue, jobs)' = QueueOrder(queue, jobs)
        <5>1. QueueOrder(Append(queue, j), jobs) = QueueOrder(queue, jobs)
          BY <1>2, <3>3, AppendOrder
        <5> QED BY <1>1, <3>1, <5>1 DEF QueueOrder
      <4>3. UNCHANGED Service!vars
        BY <1>1, <1>3, <4>1, <4>2 DEF Service!vars
      <4> QED BY <4>3
    <3> QED BY <3>2, <3>3
  <2>2. CASE ~(Len(queue) < QueueCap)
    <3>1. UNCHANGED <<queue, pending>>
      BY <1>1, <2>2
    <3>2. Seen(j, jobs'[j].status, pending', submitted') = ServiceStatus(j)
      BY <1>1, <3>1 DEF ServiceStatus
    <3>3. QueueOrder(queue, jobs)' = QueueOrder(queue, jobs)
      BY <1>1, <3>1 DEF QueueOrder
    <3>4. UNCHANGED Service!vars
      BY <1>1, <1>3, <3>2, <3>3 DEF Service!vars
    <3> QED BY <3>4
  <2> QED BY <2>1, <2>2
<1>6. Started \subseteq Started' /\ NotBegun(Current)'
  BY <1>1 DEF Started, ServiceInv, NotBegun, Current
<1>7. ServiceInv'
  BY <1>1, <1>6, ServiceInvStays
<1> QED BY <1>5, <1>7 DEF ServiceStep

\* The job was refused, or is now.
LEMMA SubmitRejectServes ==
  ASSUME IInv, QueuedWait, ServiceInv, NEW j \in Jobs, SubmitReject(j),
         UNCHANGED <<netVars, bounds>>
  PROVE  ServiceStep
<1>1. /\ j \in pending /\ pending' = pending \ {j} /\ submitted' = submitted
      /\ jobs' = [jobs EXCEPT ![j] = NoJob]
      /\ UNCHANGED <<queue, active, currentTask, issued, crashes, exits>>
  BY DEF SubmitReject, workerVars, netVars, bounds, IInv, TypeOK, MasterTypeOK
<1>2. /\ jobs \in [Jobs -> Job]
      /\ NotStarted(jobs[j]) /\ j \in submitted
      /\ j \notin Members(queue) /\ Members(queue) \subseteq Jobs
  BY <1>1, Facts DEF IInv, SubmissionsAreSound, Members
<1>3. /\ jobs' \in [Jobs -> Job]
      /\ \A k \in Jobs \ {j} : jobs'[k] = jobs[k]
      /\ jobs'[j].status = "Absent"
  BY <1>1, <1>2, NewJobLemma
<1>4. [k \in Jobs |-> ServiceStatus(k)]' =
        [[k \in Jobs |-> ServiceStatus(k)] EXCEPT ![j] = "refused"]
  <2>1. /\ pending' \cup {j} = pending \cup {j}
        /\ submitted' \cup {j} = submitted \cup {j}
    BY <1>1
  <2>2. Seen(j, jobs'[j].status, pending', submitted') = "refused"
    BY <1>1, <1>2, <1>3 DEF Seen
  <2> QED BY <1>3, <2>1, <2>2, OneSeen
<1>5. ServiceStatus(j) \in {"refused", "unknown", "cancelled"}
  BY <1>1, <1>2 DEF NotStarted, ServiceStatus, Seen
<1>6. QueueOrder(queue, jobs)' = QueueOrder(queue, jobs)
  <2>1. \A k \in Members(queue) : jobs'[k] = jobs[k]
    BY <1>2, <1>3
  <2>2. QueueOrder(queue, jobs') = QueueOrder(queue, jobs)
    BY <2>1, SameQueueOrder
  <2> QED BY <1>1, <2>2 DEF QueueOrder
<1>7. [Service!Next]_(Service!vars)
  <2>1. CASE ServiceStatus(j) = "refused"
    <3>1. UNCHANGED Service!vars
      BY <1>1, <1>4, <1>6, <2>1 DEF Service!vars
    <3> QED BY <3>1
  <2>2. CASE ServiceStatus(j) \in {"unknown", "cancelled"}
    <3>1. Service!Refuse(j)
      BY <1>1, <1>4, <1>6, <2>2 DEF Service!Refuse
    <3> QED BY <3>1 DEF Service!Next
  <2> QED BY <1>5, <2>1, <2>2
<1>8. Started \subseteq Started'
  <2> SUFFICES ASSUME NEW k \in Started PROVE k \in Started'
    OBVIOUS
  <2>1. /\ k \in Jobs /\ k \notin pending
        /\ jobs[k].status \notin {"Absent", "Queued"}
    BY DEF Started
  <2>2. k # j /\ k \notin pending'
    BY <1>1, <2>1
  <2> QED BY <1>3, <2>1, <2>2 DEF Started
<1>9. NotBegun(Current)'
  <2>1. ASSUME NEW k \in Jobs, jobs'[k].status = "Queued", NEW m \in MapTasks
        PROVE  jobs'[k].maps[m].status = "Idle"
    <3>1. jobs'[k] = jobs[k]
      BY <1>1, <1>3, <2>1
    <3> QED BY <2>1, <3>1 DEF ServiceInv, NotBegun, Current
  <2> QED BY <2>1 DEF NotBegun, Current
<1>10. ServiceInv'
  BY <1>1, <1>8, <1>9, ServiceInvStays
<1> QED BY <1>7, <1>10 DEF ServiceStep

LEMMA DeleteServes ==
  ASSUME IInv, QueuedWait, ServiceInv, NEW j \in Jobs, Delete(j),
         UNCHANGED <<netVars, bounds>>
  PROVE  ServiceStep
<1>1. /\ jobs[j].status \notin {"Absent", "Completed", "Aborted"}
      /\ jobs' = [jobs EXCEPT ![j].status = "Aborted"]
      /\ active' = IF active = j THEN None ELSE active
      /\ UNCHANGED <<queue, pending, submitted, currentTask, issued, crashes,
                     exits>>
  BY DEF Delete, workerVars, submitVars, netVars, bounds
<1>2. jobs \in [Jobs -> Job] /\ Members(queue) \subseteq Jobs
      /\ jobs[j].status \in {"Queued", "Mapping", "Reducing"}
  BY <1>1, Facts DEF Job, JobStatus, Members
<1>3. /\ jobs'[j].status = "Aborted"
      /\ \A k \in Jobs \ {j} : jobs'[k] = jobs[k]
      /\ jobs' \in [Jobs -> Job]
  BY <1>1, <1>2 DEF Job, JobStatus
<1>4. [k \in Jobs |-> ServiceStatus(k)]' =
        [[k \in Jobs |-> ServiceStatus(k)] EXCEPT ![j] = "cancelled"]
  <2>1. Seen(j, jobs'[j].status, pending', submitted') = "cancelled"
    BY <1>3 DEF Seen
  <2> QED BY <1>1, <1>3, <2>1, OneSeen
<1>5. ServiceStatus(j) \in {"unknown", "waiting", "running"}
  BY <1>2 DEF ServiceStatus, Seen
<1>6. QueueOrder(queue, jobs)' = Service!Without(j)
  <2>1. \A a, b \in Jobs : <<a, b>> \in QueueOrder(queue, jobs') <=>
          <<a, b>> \in QueueOrder(queue, jobs) /\ a # j /\ b # j
    BY <1>3 DEF QueueOrder
  <2>2. /\ QueueOrder(queue, jobs') \subseteq Jobs \X Jobs
        /\ QueueOrder(queue, jobs) \subseteq Jobs \X Jobs
    BY DEF QueueOrder
  <2>3. QueueOrder(queue, jobs') = Service!Without(j)
    BY <2>1, <2>2 DEF Service!Without
  <2> QED BY <1>1, <2>3 DEF QueueOrder
<1>7. Service!Cancel(j)
  BY <1>1, <1>4, <1>5, <1>6 DEF Service!Cancel
<1>8. Started \subseteq Started'
  <2> SUFFICES ASSUME NEW k \in Started PROVE k \in Started'
    OBVIOUS
  <2>1. /\ k \in Jobs /\ k \notin pending
        /\ jobs[k].status \notin {"Absent", "Queued"}
    BY DEF Started
  <2>2. jobs'[k].status \notin {"Absent", "Queued"}
    BY <1>3, <2>1
  <2> QED BY <1>1, <2>1, <2>2 DEF Started
<1>9. NotBegun(Current)'
  <2>1. ASSUME NEW k \in Jobs, jobs'[k].status = "Queued", NEW m \in MapTasks
        PROVE  jobs'[k].maps[m].status = "Idle"
    <3>1. jobs'[k] = jobs[k]
      BY <1>3, <2>1
    <3> QED BY <2>1, <3>1 DEF ServiceInv, NotBegun, Current
  <2> QED BY <2>1 DEF NotBegun, Current
<1>10. ServiceInv'
  BY <1>1, <1>8, <1>9, ServiceInvStays
<1> QED BY <1>7, <1>10 DEF ServiceStep, Service!Next

-----------------------------------------------------------------------------
(* All steps                                                               *)

\* A step that leaves jobs and queue alone.
LEMMA QuietServes ==
  ASSUME ServiceInv, UNCHANGED <<schedVars, submitVars, issued, crashes, exits>>,
         \A w \in Workers : currentTask'[w] \in {currentTask[w], None}
  PROVE  ServiceStep
<1>1. UNCHANGED <<jobs, queue, active, nextAttempt, pending, submitted>>
  BY DEF schedVars, submitVars
<1>2. [k \in Jobs |-> ServiceStatus(k)]' = [k \in Jobs |-> ServiceStatus(k)]
  BY <1>1 DEF ServiceStatus
<1>3. QueueOrder(queue, jobs)' = QueueOrder(queue, jobs)
  BY <1>1 DEF QueueOrder
<1>4. UNCHANGED Service!vars
  BY <1>1, <1>2, <1>3 DEF Service!vars
<1>5. Started \subseteq Started'
  BY <1>1 DEF Started
<1>6. Current' = Current
  BY <1>1 DEF Current
<1>7. NotBegun(Current)'
  BY <1>6 DEF ServiceInv
<1>8. ServiceInv'
  BY <1>5, <1>7, ServiceInvStays
<1> QED BY <1>4, <1>8 DEF ServiceStep

LEMMA StorageServes ==
  ASSUME QueuedWait, ServiceInv, Storage
  PROVE  ServiceStep
<1>1. UNCHANGED <<submitVars, currentTask, issued, crashes, exits>>
  BY DEF Storage, WriteCheckpoint, LoadCheckpoint, FinalSnapshot, workerVars,
     netVars, bounds
<1>2. UNCHANGED schedVars
  <2>1. CASE WriteCheckpoint \/ FinalSnapshot
    BY <2>1 DEF WriteCheckpoint, FinalSnapshot
  <2>2. CASE LoadCheckpoint
    <3>1. checkpoint = {}
      BY <2>2 DEF QueuedWait, FirstLoad, ServiceInv, LoadCheckpoint
    <3> QED BY <2>2, <3>1 DEF LoadCheckpoint
  <2> QED BY <2>1, <2>2 DEF Storage
<1> QED BY <1>1, <1>2, QuietServes

LEMMA OtherServes ==
  ASSUME IInv, ServiceInv,
         \/ TakeSnapshot \/ BadLoad \/ Interrupt \/ UNCHANGED vars
         \/ \E w \in Workers : Register(w)
  PROVE  ServiceStep
<1>1. UNCHANGED <<schedVars, submitVars, issued, crashes, exits>>
  BY DEF TakeSnapshot, Snapshot, BadLoad, LoadFails, Interrupt, Signal,
     Register, RegisterWorker, vars, masterVars, netVars, bounds
<1>2. \A w \in Workers : currentTask'[w] \in {currentTask[w], None}
  <2>1. CASE \E w \in Workers : Register(w)
    <3>1. currentTask \in [Workers -> TaskRefs \cup {None}]
      BY DEF IInv, TypeOK, MasterTypeOK
    <3>2. PICK w \in Workers : currentTask' = [currentTask EXCEPT ![w] = None]
      BY <2>1 DEF Register, RegisterWorker
    <3> QED BY <3>1, <3>2
  <2>2. CASE TakeSnapshot \/ BadLoad \/ Interrupt \/ UNCHANGED vars
    <3>1. UNCHANGED currentTask
      BY <2>2 DEF TakeSnapshot, Snapshot, BadLoad, LoadFails, Interrupt, Signal,
         vars, masterVars, workerVars
    <3> QED BY <3>1
  <2> QED BY <2>1, <2>2
<1> QED BY <1>1, <1>2, QuietServes

LEMMA NextServes ==
  ASSUME MaxRestarts = 0, IInv, QueuedWait, ServiceInv, [OpenNext]_vars
  PROVE  ServiceStep
<1>1. CASE \E w \in Workers : OpenHeartbeat(w) \/ Expire(w)
  <2>1. ServesStep /\ ServiceInv'
    BY <1>1, HeartbeatServes, ExpireServes
  <2> QED BY <2>1, ServesStepServes DEF ServiceStep
<1>2. CASE Client
  <2>1. PICK j \in Jobs : \/ SubmitRegister(j) \/ SubmitEnqueue(j)
                         \/ SubmitReject(j) \/ Delete(j)
    BY <1>2 DEF Client
  <2>2. UNCHANGED <<netVars, bounds>>
    BY <1>2 DEF Client
  <2> QED BY <2>1, <2>2, SubmitRegisterServes, SubmitEnqueueServes,
             SubmitRejectServes, DeleteServes
<1>3. CASE Storage
  BY <1>3, StorageServes
<1>4. ~Restart
  BY Facts DEF Restart, ServiceInv
<1> QED BY <1>1, <1>2, <1>3, <1>4, OtherServes DEF OpenNext

LEMMA InitServes == Init => Service!Init /\ QueuedWait /\ ServiceInv
<1> SUFFICES ASSUME Init PROVE Service!Init /\ QueuedWait /\ ServiceInv
  OBVIOUS
<1>1. /\ jobs = [j \in Jobs |-> NoJob] /\ queue = <<>> /\ active = None
      /\ pending = {} /\ submitted = {} /\ checkpoint = {} /\ issued = {}
      /\ currentTask = [w \in Workers |-> None] /\ crashes = 0 /\ exits = 0
  BY DEF Init, MasterInit, Fresh
<1>2. \A j \in Jobs : jobs[j].status = "Absent"
  BY <1>1, NewJobLemma
<1>3. \A j \in Jobs : ServiceStatus(j) = "unknown"
  BY <1>1, <1>2 DEF ServiceStatus, Seen
<1>4. QueueOrder(queue, jobs) = {}
  BY <1>1 DEF QueueOrder
<1>5. Service!Init
  BY <1>1, <1>3, <1>4 DEF Service!Init
<1>6. QueuedWait
  BY <1>1, <1>2 DEF QueuedWait, QueuedIsWaiting, FirstLoad
<1>7. ServiceInv
  BY <1>1, <1>2 DEF ServiceInv, NotBegun, Current
<1> QED BY <1>5, <1>6, <1>7

LEMMA OpenServes ==
  ASSUME MaxRestarts = 0
  PROVE  OpenSpec => []ServiceInv /\ ImplementsService
<1>1. Init => Service!Init /\ QueuedWait /\ ServiceInv
  BY InitServes
<1>2. IInv /\ QueuedWait /\ ServiceInv /\ [OpenNext]_vars => ServiceInv'
  BY NextServes DEF ServiceStep
<1>3. IInv /\ QueuedWait /\ ServiceInv /\ [OpenNext]_vars
        => [Service!Next]_(Service!vars)
  BY NextServes DEF ServiceStep
<1> QED
  BY <1>1, <1>2, <1>3, WaitingStep, OpenInvariant, PTL
     DEF OpenSpec, ImplementsService, Service!Spec

\* The control plane implements the job service: clients see jobs that start in
\* the order of their acceptance, one at a time and never twice, and that never
\* come back when they are done, cancelled or refused (scheduler.go:488-512,
\* handlers.go:114-123, handlers.go:205-218), whatever workers report, repeat or
\* withhold.  This is about one run of the master: MaxRestarts is 0.
THEOREM ServiceIsImplemented ==
  ASSUME MaxRestarts = 0
  PROVE  Spec => ImplementsService
BY OpenServes, SpecIsOpen, PTL

=============================================================================
