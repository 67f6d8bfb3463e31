------------------------------ MODULE Cluster -------------------------------
(***************************************************************************)
(* The master of Control with the workers of Worker: every heartbeat that  *)
(* the master hears is one that a worker has sent.  issued and results     *)
(* only record what has happened: no worker reads them.                    *)
(***************************************************************************)
EXTENDS Control, Worker

CONSTANTS
  PromptStart,       \* goroutines set the worker BUSY before its next heartbeat
  MaxGiveUps,        \* bound on heartbeats that get no reply in time
  MaxWorkerCrashes,  \* bound on workers that crash
  MaxCancels         \* bound on jobs that are cancelled

ASSUME PromptStartAssumption == PromptStart \in BOOLEAN
ASSUME MishapsAssumption == /\ MaxGiveUps \in Nat /\ MaxFailures \in Nat
                            /\ MaxAttempts \in Nat /\ MaxEvictions \in Nat
ASSUME WorkersAssumption == IsFiniteSet(Workers)

VARIABLES
  cleaning,          \* cancelled jobs whose output is still to be deleted
  giveUps, failures  \* counters for the bounds

mishaps == <<giveUps, failures>>
clusterVars == <<vars, processVars, cleaning, mishaps>>

ClusterTypeOK == /\ TypeOK
                 /\ WorkerTypeOK
                 /\ \A x \in stray : /\ x.worker \in Workers
                                     /\ x.request \in Requests
                 /\ cleaning \subseteq Jobs
                 /\ giveUps \in 0 .. MaxGiveUps
                 /\ failures \in 0 .. MaxFailures

ClusterInit == /\ Init
               /\ WorkerInit
               /\ cleaning = {}
               /\ giveUps = 0
               /\ failures = 0

-----------------------------------------------------------------------------
(* Messages                                                                *)

\* The master hears request q of w, and what it then replies.
ResultIn(q) ==
  IF q.result = None THEN None ELSE Result(q.result[1], q.result[2])

Hear(w, q, slow) ==
  Exchange(w, q.idle, q.task, IF q.result = None THEN {} ELSE {q.result},
           ResultIn(q), slow)

TaskIn(q) == IF q.task = None THEN None ELSE Ref(q.task)
Reply(w, q, slow) ==
  [kind |-> "reply", result |-> q.result,
   given |-> Heard(w, q.idle, ResultIn(q), slow).given,
   abort |-> ReplyAborts(TaskIn(q)),
   urls |-> ReplyURLs(TaskIn(q)), allMaps |-> ReplyAllMaps(TaskIn(q))]

\* No result, no attempt and no output object is the absence of one.
ASSUME NothingAssumption ==
  /\ None \notin Issues \X Outcomes
  /\ None \notin [job : Jobs, phase : {"map", "reduce", "promotion"},
                  task : MapTasks \cup Partitions, id : AttemptIds,
                  outcome : Outcomes]
  /\ \A urls \in SUBSET URLs : urls # None

SlowFor(q) == IF q.idle THEN SlowChoices ELSE {{}}

Answer(w) ==
  /\ rpc[w].kind = "request"
  /\ IF w \in registered
       THEN \E slow \in SlowFor(rpc[w]) :
              /\ Hear(w, rpc[w], slow)
              /\ rpc' = [rpc EXCEPT ![w] = Reply(w, @, slow)]
       ELSE /\ rpc' = [rpc EXCEPT ![w] = Unregistered]
            /\ UNCHANGED vars
  /\ UNCHANGED <<alive, busy, current, lastResult, runs, updates, outputs,
                 stray, objectVars, cleaning, mishaps>>

\* A heartbeat arrives that its sender has given up: nobody reads the reply.
HearStray(x) ==
  /\ x.worker \in registered
  /\ \E slow \in SlowFor(x.request) : Hear(x.worker, x.request, slow)
  /\ stray' = stray \ {x}
  /\ UNCHANGED <<localVars, objectVars, cleaning, mishaps>>

Join(w) ==
  /\ w \in alive
  /\ rpc[w] \in {Starting, Unregistered}
  /\ Register(w)
  /\ rpc' = [rpc EXCEPT ![w] = Waiting]
  /\ UNCHANGED <<alive, busy, current, lastResult, runs, updates, outputs,
                 stray, objectVars, cleaning, mishaps>>

-----------------------------------------------------------------------------
(* The worker on its own                                                   *)

Silent == UNCHANGED <<vars, cleaning>>

TaskFails(w) == /\ failures < MaxFailures
                /\ \E i \in DOMAIN runs[w] : Fail(w, i)
                /\ failures' = failures + 1
                /\ Silent /\ UNCHANGED giveUps

LosePatience(w) == /\ giveUps < MaxGiveUps
                   /\ GiveUp(w) \/ RegistrationFails(w)
                   /\ giveUps' = giveUps + 1
                   /\ Silent /\ UNCHANGED failures

\* Not of the code: with PromptStart the goroutine of a reply runs before the
\* next tick, as it nearly always will.
Begun(w) == \A i \in 1 .. Len(runs[w]) : runs[w][i].stage # "launched"
InTime(w) == Tick(w) /\ (PromptStart => Begun(w))

Loop(w) == /\ InTime(w) \/ Receive(w)
           /\ Silent /\ UNCHANGED mishaps

Step(w, i) == RunStep(w, i) /\ Silent /\ UNCHANGED mishaps

Die(w) == /\ Cardinality(Workers \ alive) < MaxWorkerCrashes
          /\ WorkerCrashes(w)
          /\ Silent /\ UNCHANGED mishaps

-----------------------------------------------------------------------------
(* The master on its own                                                   *)

\* A live worker can be slower than the timeout; a dead one is noticed.
EvictSlow(w) == /\ w \in alive
                /\ Timeout(w)
                /\ UNCHANGED <<processVars, cleaning, mishaps>>
EvictDead(w) == /\ w \notin alive
                /\ Expire(w)
                /\ UNCHANGED <<processVars, cleaning, mishaps>>

Submit == /\ \E j \in Jobs : SubmitRegister(j)
          /\ UNCHANGED <<netVars, bounds, processVars, cleaning, mishaps>>
Enqueue == /\ \E j \in Jobs : SubmitEnqueue(j) \/ SubmitReject(j)
           /\ UNCHANGED <<netVars, bounds, processVars, cleaning, mishaps>>

\* handleDelete, with the goroutine it leaves behind: everything below the
\* output prefix of the job goes.
Cancel == /\ Cardinality({j \in Jobs : jobs[j].status = "Aborted"}) < MaxCancels
          /\ \E j \in Jobs : Delete(j) /\ cleaning' = cleaning \cup {j}
          /\ UNCHANGED <<netVars, bounds, processVars, mishaps>>
DeleteOutput ==
  /\ \E j \in cleaning :
       LET prefix == OutputPrefix[j] IN
       /\ cleaning' = cleaning \ {j}
       /\ temps' = {t \in temps : OutputPrefix[t.job] # prefix}
       /\ final' = [o \in DOMAIN final |->
                      IF o[1] = prefix THEN None ELSE final[o]]
  /\ UNCHANGED <<vars, localVars, stray, mishaps>>

Housekeeping == /\ TakeSnapshot \/ Storage \/ BadLoad \/ Interrupt
                /\ UNCHANGED <<processVars, cleaning, mishaps>>
MasterEnds == /\ Restart
              /\ cleaning' = {}
              /\ UNCHANGED <<processVars, mishaps>>

ClusterNext ==
  \/ \E w \in Workers :
       \/ Answer(w) \/ Join(w)
       \/ Loop(w) \/ LosePatience(w)
       \/ \E i \in DOMAIN runs[w] : Step(w, i)
       \/ TaskFails(w)
       \/ Die(w)
       \/ EvictSlow(w) \/ EvictDead(w)
  \/ \E x \in stray : HearStray(x)
  \/ Submit \/ Enqueue \/ Cancel \/ DeleteOutput
  \/ Housekeeping \/ MasterEnds

ClusterSpec == ClusterInit /\ [][ClusterNext]_clusterVars

-----------------------------------------------------------------------------
(* Properties                                                              *)

\* A job that is reported as Completed has left an object for each partition,
\* which a reduce has made from the output of every map task of this job for
\* this partition, each taken once, and from nothing else.
Exact(content, j, p) ==
  /\ \A m \in MapTasks : \E u \in content : u.task = m
  /\ \A u, v \in content : u.task = v.task => u = v
  /\ \A u \in content : u.job = j /\ u.partition = p
OutputIsComplete ==
  \A j \in Jobs : jobs[j].status = "Completed" =>
    \A p \in Partitions : LET content == final[<<OutputPrefix[j], p>>] IN
                          content # None /\ Exact(content, j, p)

\* "Promotion can be retried -- the temp object is still in S3"
\* (scheduler.go:452): a promotion that is due has its object, unless some
\* worker is about to report that it is done.
Promoting(j, p) ==
  \E w \in alive :
    \/ \E i \in DOMAIN runs[w] : LET k == runs[w][i].work IN
         k.phase = "promotion" /\ k.job = j /\ k.task = p
    \/ /\ lastResult[w] # None
       /\ LET k == lastResult[w][1] IN
          k.phase = "promotion" /\ k.job = j /\ k.task = p
PromotionCanBeRetried ==
  \A j \in Jobs : jobs[j].status = "Reducing" =>
    \A p \in PromotableTasks(jobs[j]) :
      \/ Promoting(j, p)
      \/ \E t \in temps : /\ t.job = j /\ t.task = p
                          /\ t.id = jobs[j].reduces[p].temp

\* "Handle new assignment (only if we're idle)" (worker.go:272).
OneTaskAtATime == \A w \in Workers : Len(runs[w]) <= 1

\* What the workers report is what Control expects of workers it does not trust.
\* More attempts cannot fail than can be told apart: a promotion is known by its
\* object, and every worker may try it.  A dead worker is evicted once.
Nameable == (Jobs \X {"map", "reduce", "promotion"})
              \X (((MapTasks \cup Partitions) \X (1 .. MaxAttempts)) \X Workers)
ControlPlane == INSTANCE Control WITH
  MaxFailures <- Cardinality(Nameable),
  MaxEvictions <- MaxEvictions + Cardinality(Workers)
ImplementsControl == ControlPlane!Spec

-----------------------------------------------------------------------------
(* Liveness                                                                *)

\* Tickers fire, replies are read, goroutines are scheduled, child processes
\* end, the monitor notices dead workers, and no request is on its way for ever.
\* (The last is the weak fairness of Answer, which is enabled as long as the
\* request is there.  TLC would take very long over the ENABLED in it.)
Fairness ==
  /\ \A w \in Workers : /\ WF_clusterVars(Join(w) \/ Loop(w))
                        /\ WF_clusterVars(\E i \in DOMAIN runs[w] : Step(w, i))
                        /\ WF_clusterVars(EvictDead(w))
                        /\ []<>(rpc[w].kind # "request")
  /\ WF_clusterVars(Enqueue)

FairSpec == ClusterSpec /\ Fairness

\* A job that was accepted ends.
JobsEnd == \A j \in Jobs :
  jobs[j].status \in {"Queued", "Mapping", "Reducing"}
    ~> jobs[j].status \notin {"Queued", "Mapping", "Reducing"}

\* "Any in-progress tasks are reset to idle and reassigned" (design.md:106).
MapsAreReassigned == \A j \in Jobs : \A m \in MapTasks :
  jobs[j].status = "Mapping" /\ jobs[j].maps[m].status = "Idle"
    ~> jobs[j].status # "Mapping" \/ jobs[j].maps[m].status # "Idle"

=============================================================================
